----------------------------- MODULE MCEditors -----------------------------
(***************************************************************************)
(* The panels of src/iop: those that follow the common pattern, and the    *)
(* editors of the orientation, the exposure and the crop; each run of the  *)
(* model is one of one of them.                                            *)
(***************************************************************************)
EXTENDS IopPanelRows, Flip, ExposureEditor, CropBox

\* The routines of the same files, and those of the formats, are sound.
Pixel == INSTANCE PixelRoutines
Format == INSTANCE FormatRoutines
ASSUME RowsSound ==
  \A rows \in {Pixel!Files, Format!Formats} : \A f \in DOMAIN rows : \A c \in DOMAIN rows[f] : Pixel!Sound(rows[f][c])


VARIABLE which

MCSizes == {<<1, 1>>, <<3, 2>>, <<2, 4>>, <<3, 3>>}
MCAreas == {<<0, 0>>, <<500, 500>>, <<2, 500>>, <<0, 1>>, <<40, 1000>>, <<-20, 0>>}
MCBlacks == {-100, 0, 50, 100}

PanelAtRest ==
  /\ iop = (CHOOSE f \in DOMAIN Rows : TRUE) /\ kind = "raw" /\ page = Row.first
  /\ params = Defaults(Row, kind) /\ shown = ShownFor(Row, params, page)
  /\ history = <<params>> /\ cursor = 1 /\ pending = TRUE /\ piece = [pipe \in Pipes |-> Off]
  /\ pick = FALSE /\ dragging = FALSE /\ edits = 0
FlipAtRest == size = <<1, 1>> /\ orientation = 0 /\ picture = Original(size)
CropAtRest ==
  /\ crop = Uncropped /\ enabled = FALSE /\ crops = << >> /\ box = BoxOf(crop) /\ focus = FALSE
  /\ edited = FALSE /\ cropping = {} /\ lock = FALSE /\ handle = 0 /\ down = << >> /\ events = 0

MCInit ==
  /\ which \in {"panel", "flip", "exposure", "crop"}
  /\ IF which = "panel" THEN PanelInit ELSE PanelAtRest
  /\ IF which = "flip" THEN FlipInit ELSE FlipAtRest
  /\ IF which = "crop" THEN CropInit ELSE CropAtRest
  /\ ExposureInit

MCNext ==
  \/ which = "panel" /\ PanelNext /\ UNCHANGED <<which, flipVars, exposureVars, cropVars>>
  \/ which = "flip" /\ FlipNext /\ UNCHANGED <<which, panelVars, exposureVars, cropVars>>
  \/ which = "exposure" /\ ExposureNext /\ UNCHANGED <<which, panelVars, flipVars, cropVars>>
  \/ which = "crop" /\ CropNext /\ UNCHANGED <<which, panelVars, flipVars, exposureVars>>

MCVars == <<which, panelVars, flipVars, exposureVars, cropVars>>
\* The panel of the exposure is drawn again as long as "auto" is on.
MCSpec == MCInit /\ [][MCNext]_MCVars /\ WF_MCVars(which = "exposure" /\ ExposeAuto /\ UNCHANGED <<which, panelVars, flipVars, cropVars>>)
=============================================================================
