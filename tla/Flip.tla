-------------------------------- MODULE Flip --------------------------------
(***************************************************************************)
(* The orientation of the image (src/iop/flip.c): three bits, the buttons  *)
(* and presets that combine them, and the region of the input that the     *)
(* operation asks for when a region of its output is wanted.  The copying  *)
(* itself, dt_imageio_flip_buffers, is not in the repository; `picture',   *)
(* a ghost, is what the user has asked for, turn by turn.                  *)
(***************************************************************************)
EXTENDS Integers, Sequences, TLC

CONSTANT Sizes   \* of images, <<width, height>>

ASSUME FlipSizes == Sizes \subseteq (Nat \ {0}) \X (Nat \ {0})

VARIABLES size, orientation, picture
flipVars == <<size, orientation, picture>>

Pixels(w, h) == (0..(w - 1)) \X (0..(h - 1))

----------------------------------------------------------------------------
(* Bits: 4 the axes are exchanged, 2 y is mirrored, 1 x is.                *)
Has(o, bit) == (o \div bit) % 2 = 1
Xor(o, bit) == IF Has(o, bit) THEN o - bit ELSE o + bit

\* modify_roi_out: the width and height of the output.
OutSize(o, s) == IF Has(o, 4) THEN <<s[2], s[1]>> ELSE s

\* The pixel of the input that is at x in an output of iw times ih.
Backtransform(x, o, iw, ih) ==
  LET s == OutSize(o, <<iw, ih>>)
      t == IF Has(o, 4) THEN <<x[2], x[1]>> ELSE x
  IN  <<IF Has(o, 1) THEN s[1] - t[1] - 1 ELSE t[1], IF Has(o, 2) THEN s[2] - t[2] - 1 ELSE t[2]>>

\* modify_roi_in at scale 1: the corners <<left, top, right, bottom>> of a
\* region are transformed, and the region asked for is the box around them.
RoiIn(aabb, o, out) ==
  LET c == {Backtransform(<<x, y>>, o, out[1], out[2]) : x \in {aabb[1], aabb[3]}, y \in {aabb[2], aabb[4]}}
      least(S) == CHOOSE i \in S : \A j \in S : i <= j
      most(S) == CHOOSE i \in S : \A j \in S : i >= j
  IN  <<least({p[1] : p \in c}), least({p[2] : p \in c}), most({p[1] : p \in c}), most({p[2] : p \in c})>>

----------------------------------------------------------------------------
(* What a turn does to a picture, whatever the bits.                       *)
Width(p) == 1 + (CHOOSE x \in {i[1] : i \in DOMAIN p} : \A i \in DOMAIN p : i[1] <= x)
Height(p) == 1 + (CHOOSE y \in {i[2] : i \in DOMAIN p} : \A i \in DOMAIN p : i[2] <= y)
Clockwise(p) == [x \in Pixels(Height(p), Width(p)) |-> p[<<x[2], Height(p) - 1 - x[1]>>]]
Counterclockwise(p) == [x \in Pixels(Height(p), Width(p)) |-> p[<<Width(p) - 1 - x[2], x[1]>>]]
Mirrored(p) == [x \in DOMAIN p |-> p[<<Width(p) - 1 - x[1], x[2]>>]]
Original(s) == [x \in Pixels(s[1], s[2]) |-> x]

\* bug: the axes are exchanged before the direction is chosen.
RotatedLate(o, cw) == LET t == Xor(o, 4) IN IF cw = Has(t, 4) THEN Xor(t, 1) ELSE Xor(t, 2)

\* do_rotate
Rotated(o, cw) == Xor(IF cw = Has(o, 4) THEN Xor(o, 1) ELSE Xor(o, 2), 4)

Rotate(cw) ==
  /\ orientation' = Rotated(orientation, cw)
  /\ picture' = IF cw THEN Clockwise(picture) ELSE Counterclockwise(picture)
  /\ UNCHANGED size

\* init_presets: each names an orientation of the original image.
Preset ==
  /\ \/ orientation' = 1 /\ picture' = Mirrored(Original(size))
     \/ orientation' = 2 /\ picture' = Clockwise(Clockwise(Mirrored(Original(size))))
     \/ orientation' = 6 /\ picture' = Clockwise(Original(size))
     \/ orientation' = 5 /\ picture' = Counterclockwise(Original(size))
     \/ orientation' = 3 /\ picture' = Clockwise(Clockwise(Original(size)))
  /\ UNCHANGED size

\* reload_defaults: the three bits of an older database, if the image has no
\* history of its own.
Opened(s, userFlip) ==
  [x \in Pixels(OutSize(userFlip, s)[1], OutSize(userFlip, s)[2]) |->
     Backtransform(x, userFlip, OutSize(userFlip, s)[1], OutSize(userFlip, s)[2])]
Open ==
  /\ size' \in Sizes /\ orientation' \in 0..7
  /\ picture' = Opened(size', orientation')

FlipInit == /\ size \in Sizes /\ orientation \in 0..7 /\ picture = Opened(size, orientation)
FlipNext == (\E cw \in BOOLEAN : Rotate(cw)) \/ Preset \/ Open
FlipSpec == FlipInit /\ [][FlipNext]_flipVars

----------------------------------------------------------------------------
(* For every region of the output the operation asks for exactly the       *)
(* pixels that the user has turned into it: rotations compose, presets do  *)
(* what they are called, and the box of the corners is neither too small   *)
(* nor too large (flip.c: backtransform, modify_roi_in, do_rotate).        *)
RegionAsTurned ==
  \A a, b \in DOMAIN picture : a[1] <= b[1] /\ a[2] <= b[2] =>
    LET r == RoiIn(<<a[1], a[2], b[1], b[2]>>, orientation, OutSize(orientation, size))
    IN  (r[1]..r[3]) \X (r[2]..r[4]) = {picture[x] : x \in (a[1]..b[1]) \X (a[2]..b[2])}
=============================================================================
