----------------------------- MODULE MosaicTiles -----------------------------
(***************************************************************************)
(* The two routines that take a raw mosaic tile by tile: AMaZE             *)
(* (amaze_demosaic_RT.cc) and the correction of chromatic aberrations      *)
(* (cacorrect.c).  Tiles overlap; each stage works on the rows that are at *)
(* least `margin' away from the edge of the tile and reads its neighbours  *)
(* up to `reach' away; what is at the edge of the image is mirrored.       *)
(* Columns are treated as rows are, so one dimension is modelled.  A value *)
(* is told apart by the tile that wrote it: the buffers are not cleared    *)
(* between tiles.                                                          *)
(***************************************************************************)
EXTENDS Integers, Sequences, FiniteSets

CONSTANTS
  Heights,   \* of the image
  TileSize   \* routine -> TS

\* Images are higher than a margin, and tiles than three, so that only the
\* first tile begins above the image (512, 64 and 256 in the code).
ASSUME GeometryAssumption ==
  /\ Heights \subseteq {h \in Nat : h > 16} /\ TileSize \in [{"amaze", "cacorrect"} -> Nat]
  /\ TileSize["amaze"] >= 48 /\ TileSize["cacorrect"] >= 24

VARIABLES
  method,   \* "amaze" or "cacorrect"
  height,
  pass,     \* cacorrect measures first, then corrects
  top,      \* of the tile, as a row of the image
  stage,    \* the stage
  tile,     \* buffer -> rows that hold a value of this tile
  out,      \* row of the image -> how often it was written
  green,    \* rows of the image whose green is interpolated (Gtmp)
  mixed,    \* the tile was loaded from rows that had been corrected already
  stale,    \* the stages, with their pass, that read what this tile did not write
  outside,  \* rows beyond the tile or the image were touched
  ended     \* "no", "kept" or "corrected"

mosaicVars == <<method, height, pass, top, stage, tile, out, green, mixed, stale, outside, ended>>

Margin(j) == IF j = "amaze" THEN 16 ELSE 8
TS == TileSize[method]
Least(a, b) == IF a < b THEN a ELSE b
Stage(margin, reads, writes) == [margin |-> margin, reads |-> reads, writes |-> writes]

(* The stages of AMaZE.  "cd" are vcd and hcd with their alternatives,     *)
(* "del" the gradients, "Dsq" the diagonal ones, "curv" Dgrbh2 and Dgrbv2. *)
AmazeGradients ==
  <<Stage(1, {<<"cfa", 1>>}, {"del"}), Stage(2, {<<"del", 1>>, <<"cfa", 1>>}, {"dirwts", "Dsq"}),
    Stage(4, {<<"cfa", 2>>, <<"dirwts", 2>>}, {"cd", "dgint", "nyquist", "rbint"})>>
AmazeVariance ==
  <<Stage(4, {<<"cd", 2>>, <<"cfa", 1>>}, {"cd", "cdsq"}),
    Stage(6, {<<"cdsq", 3>>, <<"cd", 3>>, <<"dirwts", 1>>, <<"dgint", 2>>}, {"hvwt"})>>
AmazeNyquist ==
  <<Stage(6, {<<"cdsq", 2>>, <<"del", 2>>}, {"nyquist"}), Stage(8, {<<"nyquist", 2>>}, {"nyquist"}),
    Stage(8, {<<"nyquist", 6>>, <<"cfa", 7>>}, {"hvwt"})>>
AmazeGreen ==
  <<Stage(8, {<<"hvwt", 1>>, <<"cd", 0>>, <<"cfa", 1>>}, {"hvwt", "Dgrb", "G", "curv"}),
    Stage(8, {<<"curv", 2>>, <<"cd", 0>>, <<"cfa", 0>>}, {"Dgrb", "G"})>>
AmazeDiagonal ==
  <<Stage(8, {<<"Dsq", 2>>, <<"cfa", 2>>, <<"del", 2>>}, {"pm"}), Stage(10, {<<"pm", 1>>, <<"cfa", 0>>}, {"pm", "rbint"}),
    Stage(12, {<<"rbint", 2>>, <<"pm", 0>>, <<"hvwt", 0>>, <<"dirwts", 1>>, <<"cfa", 1>>}, {"G", "Dgrb"})>>
AmazeChroma ==
  <<Stage(12, {<<"Dgrb", 3>>}, {"Dgrb"}), Stage(12, {<<"hvwt", 1>>, <<"Dgrb", 1>>}, {"Dgrb"}),
    Stage(12, {<<"G", 0>>, <<"Dgrb", 0>>}, {"done"})>>
AmazeStages == AmazeGradients \o AmazeVariance \o AmazeNyquist \o AmazeGreen \o AmazeDiagonal \o AmazeChroma

(* The stages of the correction: pass 1 interpolates green and measures,   *)
(* pass 2 moves red and blue by less than 4 (bslim) pixels.                *)
CaGreen == <<Stage(3, {<<"cfa", 3>>}, {"G"})>>
CaHighPass == <<Stage(4, {<<"cfa", 4>>, <<"G", 4>>}, {"hp"})>>
CaMeasureStages == <<Stage(8, {<<"cfa", 4>>, <<"G", 4>>, <<"hp", 2>>}, {"done"})>>
\* bug: shifts of up to 5 pixels
CaInterpolateFar == <<Stage(4, {<<"G", 5>>, <<"cfa", 0>>}, {"diff"})>>
CaInterpolate == <<Stage(4, {<<"G", 4>>, <<"cfa", 0>>}, {"diff"})>>
CaCorrect == <<Stage(8, {<<"diff", 2>>, <<"G", 0>>, <<"cfa", 0>>}, {"done"})>>

Stages == CASE method = "amaze" -> AmazeStages
            [] method = "cacorrect" /\ pass = 1 -> CaGreen \o CaHighPass \o CaMeasureStages
            [] OTHER -> CaInterpolate \o CaCorrect

TileBuffers == {"cfa", "G", "done", "del", "dirwts", "Dsq", "cd", "cdsq", "dgint", "nyquist", "rbint", "hvwt", "Dgrb", "curv", "pm",
            "hp", "diff"}
Empty == [b \in TileBuffers |-> {}]

(* A tile: bottom, rr1, rrmin and rrmax.                                   *)
rr1 == Least(top + TS, height + Margin(method)) - top
rrmin == IF top < 0 THEN Margin(method) ELSE 0
rrmax == IF top + rr1 > height THEN height - top ELSE rr1

Loaded == rrmin..(rrmax - 1)
MirroredAbove == IF rrmin > 0 THEN 0..(Margin(method) - 1) ELSE {}
MirroredBelow == IF rrmax < rr1 THEN rrmax..(rrmax + Margin(method) - 1) ELSE {}
\* where the mirrored rows come from: the tile, or at its corners the image
Above == {2 * Margin(method) - r : r \in MirroredAbove}
Below == {height - (r - rrmax) - 2 : r \in MirroredBelow}

\* and the rows of the image it reads
Source == {top + r : r \in Loaded} \cup Below
\* The second pass of the correction takes green from Gtmp.
GreenToo == pass = 2 /\ method = "cacorrect"

\* The rows of the image, then the borders.  In the correction `in' is
\* another name of `out'.
Load ==
  /\ ended = "no" /\ stage = 0 /\ stage' = 1
  /\ LET rows == Loaded \cup MirroredAbove \cup MirroredBelow
         complete == Above \subseteq Loaded /\ (GreenToo => Source \subseteq green)
     IN  /\ tile' = [tile EXCEPT !["cfa"] = rows, !["G"] = IF GreenToo THEN rows ELSE {}]
         /\ mixed' = (mixed \/ (method = "cacorrect" /\ \E r \in Source : out[r] > 0))
         /\ stale' = stale \cup (IF complete THEN {} ELSE {<<pass, 0>>})
         /\ outside' = (outside \/ ~(rows \subseteq 0..(TS - 1)) \/ ~(Above \cup Below \subseteq 0..(height - 1)))
  /\ UNCHANGED <<method, height, pass, top, out, green, ended>>

Inside(margin) == margin..(rr1 - margin - 1)

Work ==
  /\ ended = "no" /\ stage \in DOMAIN Stages /\ stage' = stage + 1
  /\ LET s == Stages[stage]
         rows == Inside(s.margin)
         Around(k) == {r + d : r \in rows, d \in (-k)..k}
     IN  /\ tile' = [b \in TileBuffers |-> IF b \in s.writes THEN tile[b] \cup rows ELSE tile[b]]
         /\ stale' = stale \cup (IF \A p \in s.reads : Around(p[2]) \subseteq tile[p[1]] THEN {} ELSE {<<pass, stage>>})
         /\ outside' = (outside \/ \E p \in s.reads : ~(Around(p[2]) \subseteq 0..(rr1 - 1)))
         /\ green' = (IF method = "cacorrect" /\ pass = 1 /\ "G" \in s.writes
                      THEN green \cup ({top + r : r \in rows} \cap 0..(height - 1)) ELSE green)
  /\ UNCHANGED <<method, height, pass, top, out, mixed, ended>>

\* bug: the borders are taken off twice on one side
NextTopBack == top + TS - 2 * Margin(method) - 2
NextTop == top + TS - 2 * Margin(method)

\* The interior of the tile goes back to the image, and the next tile begins.
CopyBack ==
  /\ ended = "no" /\ stage = Len(Stages) + 1 /\ stage' = 0 /\ tile' = Empty
  /\ LET rows == IF pass = 2 THEN Inside(Margin(method)) ELSE {}
     IN  /\ out' = [r \in DOMAIN out |-> IF r - top \in rows THEN out[r] + 1 ELSE out[r]]
         /\ stale' = stale \cup (IF rows \subseteq tile["done"] THEN {} ELSE {<<pass, stage>>})
  /\ CASE NextTop < height -> top' = NextTop /\ UNCHANGED <<pass, ended>>
       [] NextTop >= height /\ pass = 2 -> ended' = "corrected" /\ UNCHANGED <<pass, top>>
       [] OTHER -> \* too few blocks, or no solution
            \/ ended' = "kept" /\ UNCHANGED <<pass, top>>
            \/ pass' = 2 /\ top' = -Margin(method) /\ UNCHANGED ended
  /\ UNCHANGED <<method, height, green, mixed, outside>>

MosaicInit ==
  /\ method \in DOMAIN TileSize /\ height \in Heights
  /\ pass = (IF method = "amaze" THEN 2 ELSE 1) /\ top = -Margin(method) /\ stage = 0
  /\ tile = Empty /\ out = [r \in 0..(height - 1) |-> 0] /\ green = {}
  /\ mixed = FALSE /\ stale = {} /\ outside = FALSE /\ ended = "no"

MosaicEnd == ended # "no" /\ UNCHANGED mosaicVars

MosaicNext == Load \/ Work \/ CopyBack \/ MosaicEnd

MosaicSpec == MosaicInit /\ [][MosaicNext]_mosaicVars

----------------------------------------------------------------------------
(* The tiles partition the image: at the end each row has been written     *)
(* exactly once, or none if the correction gave up.                        *)
EachRowOnce ==
  /\ \A r \in DOMAIN out : out[r] <= (IF ended = "kept" THEN 0 ELSE 1)
  /\ ended = "corrected" => \A r \in DOMAIN out : out[r] = 1

(* The overlap is wide enough: while it corrects, a stage reads only what  *)
(* this tile has loaded or computed, nothing an earlier tile left in the   *)
(* buffers, and what is copied back was computed.  Four stages of AMaZE do *)
(* read such rows, but only to weigh one direction against another, and    *)
(* the pass that measures aberrations does at the edge of its tiles.       *)
HaloEnough == stale \subseteq ({1} \X {2}) \cup (IF method = "amaze" THEN {2} \X {4, 5, 8, 10} ELSE {})

(* Every tile is made "from input CFA data", not from rows that have been  *)
(* corrected.                                                              *)
TileFromInput == ~mixed

(* The mirrored border stays in the tile: `rgb' has TS rows.               *)
InsideTile == ~outside
=============================================================================
