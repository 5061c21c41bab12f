------------------------------ MODULE CropBox ------------------------------
(***************************************************************************)
(* The editor of the crop (src/iop/clipping.c): the box drawn over the     *)
(* image, the mouse that drags its borders, and the parameters that it is  *)
(* committed to.  One dimension, from left to right; positions are         *)
(* integers from 0 to Full.  The mouse drags with a free aspect; to choose *)
(* another reshapes the box by itself.  `box' is clip_x and clip_w of the  *)
(* gui data; the parameter cw, the right end of the box, carries the       *)
(* horizontal flip in its sign, `flipped' here.  g->applied is written but *)
(* never read: `edited' says what it does not.                             *)
(***************************************************************************)
EXTENDS Integers, Sequences

CONSTANTS
  Pointers,  \* where the mouse may be, beside the image too
  Full,      \* the width of the image
  Narrowest, \* the smallest width that a border can be dragged to
  Grip,      \* how far from a border it is still taken hold of
  MaxEvents  \* bound: what the user does

ASSUME CropConstants ==
  /\ Pointers \subseteq Int /\ {Full, Narrowest, Grip} \subseteq Nat \ {0} /\ Narrowest < Full /\ MaxEvents \in Nat

VARIABLES
  crop,     \* [cx, cw, flipped] of self->params
  enabled,  \* self->enabled
  focus,    \* the panel has the focus, and gets the mouse
  box,      \* [x, w]
  edited,   \* the box was changed since it was stored, or taken from the crop
  cropping, \* the borders that are dragged, "whole" for the box, {} for none
  lock,     \* center_lock
  handle,   \* from the pointer to what is dragged
  down,     \* where the button was pressed, and the box then; << >> if it is up
  crops,    \* the history: [crop, enabled]
  events

cropVars == <<crop, enabled, focus, box, edited, cropping, lock, handle, down, crops, events>>

Greater(a, b) == IF a > b THEN a ELSE b
Lesser(a, b) == IF a < b THEN a ELSE b
Uncropped == [cx |-> 0, cw |-> Full, flipped |-> FALSE]
Signed(c) == IF c.flipped THEN -c.cw ELSE c.cw

\* gui_update and gui_focus: the box from the parameters.
BoxOf(c) == [x |-> c.cx, w |-> Signed(c) - c.cx]

----------------------------------------------------------------------------
Happens == events < MaxEvents /\ events' = events + 1

\* commit_box, for the parameters c: what a disabled module has in them is
\* obsolete, its flip too.
BoxStored(c, on) ==
  LET right == box.x + box.w
  IN  /\ crop' = [cx |-> box.x, cw |-> IF right < 0 THEN -right ELSE right, flipped |-> on /\ c.flipped]
      /\ cropping' = {} /\ edited' = FALSE /\ enabled' = TRUE
      /\ crops' = Append(crops, [crop |-> crop', enabled |-> TRUE])

\* The keys and the sliders for angle and keystone.
CommitBox ==
  /\ Happens /\ focus /\ BoxStored(crop, enabled)
  /\ UNCHANGED <<focus, box, lock, handle, down>>

\* toggled_callback
ToggleFlip ==
  /\ Happens /\ BoxStored([crop EXCEPT !.flipped = ~@], TRUE)
  /\ UNCHANGED <<focus, box, lock, handle, down>>

\* gui_focus; the item makes the pipe run again, uncropped, for which the
\* code also turns over the lowest bit of cy.
BoxShown ==
  box' = BoxOf(crop) /\ edited' = FALSE /\ crops' = Append(crops, [crop |-> crop, enabled |-> TRUE])
FocusIn ==
  /\ Happens /\ ~focus /\ focus' = TRUE
  /\ IF enabled THEN BoxShown ELSE UNCHANGED <<box, edited, crops>>
  /\ UNCHANGED <<crop, enabled, cropping, lock, handle, down>>

\* A button that is down is let go elsewhere, and button_released not called.
FocusOut ==
  /\ Happens /\ focus /\ focus' = FALSE /\ down' = << >>
  /\ IF enabled THEN BoxStored(crop, TRUE) ELSE UNCHANGED <<crop, enabled, edited, cropping, crops>>
  /\ UNCHANGED <<box, lock, handle>>

\* The switch of the panel, and an item that is chosen in the history.
SwitchOff ==
  /\ Happens /\ enabled /\ enabled' = FALSE /\ crops' = Append(crops, [crop |-> crop, enabled |-> FALSE])
  /\ UNCHANGED <<crop, focus, box, edited, cropping, lock, handle, down>>

\* bug: the box stays when other parameters come.
BoxKept(c) == edited' = FALSE /\ UNCHANGED box

\* gui_update
BoxReset(c) == edited' = FALSE /\ box' = BoxOf(c)

ChooseItem(i) ==
  /\ Happens /\ crop' = crops[i].crop /\ enabled' = crops[i].enabled /\ BoxReset(crop')
  /\ UNCHANGED <<focus, cropping, lock, handle, down, crops>>

----------------------------------------------------------------------------
\* apply_box_aspect(self, 5) makes the box higher or lower, and whatever
\* then lies outside the image is cut off, in proportion; a box of negative
\* width comes out anyhow.
Reshaped ==
  {[x |-> Greater(0, box.x), w |-> n] : n \in IF box.w > 0 THEN 1..box.w ELSE (-Full)..Full}
Reshape == box' \in Reshaped /\ edited' = TRUE

\* key_swap_callback and the button beside the presets.
SwapAspect ==
  /\ Happens /\ Reshape
  /\ UNCHANGED <<crop, enabled, focus, cropping, lock, handle, down, crops>>

\* aspect_presets_changed and aspect_free_activated ask for the focus after
\* that: a panel that did not have it takes the box from the crop again.
ChooseAspect ==
  /\ Happens /\ focus' = TRUE
  /\ IF ~focus /\ enabled THEN BoxShown ELSE Reshape /\ UNCHANGED crops
  /\ UNCHANGED <<crop, enabled, cropping, lock, handle, down>>

----------------------------------------------------------------------------
\* button_pressed
Press(p, shift) ==
  /\ Happens /\ focus /\ down = << >> /\ down' = <<p, box>> /\ lock' = (lock \/ shift)
  /\ enabled' = TRUE
  /\ crops' = IF enabled THEN crops ELSE Append(crops, [crop |-> crop, enabled |-> TRUE])
  /\ UNCHANGED <<crop, focus, box, edited, cropping, handle>>

\* get_grab
Grabbed(p) ==
  {s \in {"left", "right"} : IF s = "left" THEN p >= box.x /\ p < box.x + Grip
                             ELSE p <= box.x + box.w /\ p > box.x + box.w - Grip}

Dragged(p) == IF cropping # {} THEN cropping ELSE IF Grabbed(p) = {} THEN {"left", "right", "whole"} ELSE Grabbed(p)
HandleAt(p) == IF cropping # {} THEN handle
               ELSE IF "right" \in Grabbed(p) THEN down[1] - (box.w + box.x)
               ELSE IF "left" \in Grabbed(p) THEN down[1] - box.x
               ELSE box.x

Within(b) == [b EXCEPT !.w = IF b.x + b.w > Full THEN Full - b.x ELSE b.w]

\* With shift the centre stays.
Scaled(p, g) ==
  LET d == p - down[1]
      len == IF "left" \in g THEN d ELSE -d
      small == down[2].w - 2 * len < Narrowest
  IN  [x |-> IF small THEN box.x ELSE down[2].x + len, w |-> Greater(Narrowest, down[2].w - 2 * len)]

LeftMoved(b, p, h) == LET x == Greater(0, p - h) IN [x |-> x, w |-> Greater(Narrowest, b.x + b.w - x)]
RightMoved(b, p, h) == [b EXCEPT !.w = Greater(Narrowest, Lesser(Full, p - b.x - h))]

\* mouse_moved with the first button down.
Move(p) ==
  LET g == Dragged(p)
      h == HandleAt(p)
      left == IF "left" \in g THEN LeftMoved(box, p, h) ELSE box
  IN  /\ Happens /\ focus /\ down # << >>
      /\ edited' = TRUE /\ cropping' = g /\ handle' = h
      /\ box' = IF "whole" \in g
                THEN [box EXCEPT !.x = Lesser(Full - box.w, Greater(0, h + p - down[1]))]
                ELSE Within(IF lock THEN Scaled(p, g)
                            ELSE IF "right" \in g THEN RightMoved(left, p, h) ELSE left)
      /\ UNCHANGED <<crop, enabled, focus, lock, down, crops>>

\* mouse_moved without a button, off the borders.
Hover(p) ==
  /\ Happens /\ focus /\ down = << >> /\ cropping # {} /\ Grabbed(p) = {} /\ cropping' = {}
  /\ UNCHANGED <<crop, enabled, focus, box, edited, lock, handle, down, crops>>

\* button_released
LetGo ==
  /\ Happens /\ focus /\ down # << >> /\ down' = << >> /\ lock' = FALSE /\ cropping' = {}
  /\ UNCHANGED <<crop, enabled, focus, box, edited, handle, crops>>

CropInit ==
  /\ \E c \in {Uncropped, [cx |-> 2, cw |-> Full - 2, flipped |-> FALSE]}, on \in BOOLEAN :
       /\ crop = c /\ enabled = on /\ crops = <<[crop |-> c, enabled |-> on]>> /\ box = BoxOf(c)
  /\ focus = FALSE /\ edited = FALSE /\ cropping = {} /\ lock = FALSE /\ handle = 0 /\ down = << >> /\ events = 0

CropRest == events = MaxEvents /\ UNCHANGED cropVars

CropNext ==
  \/ CommitBox \/ ToggleFlip \/ FocusIn \/ FocusOut \/ SwitchOff \/ SwapAspect \/ ChooseAspect
  \/ \E i \in DOMAIN crops : ChooseItem(i)
  \/ \E p \in Pointers : (\E shift \in BOOLEAN : Press(p, shift)) \/ Move(p) \/ Hover(p)
  \/ LetGo \/ CropRest

CropSpec == CropInit /\ [][CropNext]_cropVars

----------------------------------------------------------------------------
(* Only what the user did to the box, with the mouse or by the aspect, can *)
(* make the crop that is stored differ from the frame that is drawn; from  *)
(* a commit, a look at another item of the history or the focus on, until  *)
(* the next such act, they are the same up to the sign (clipping.c:        *)
(* commit_box, gui_update, gui_focus and button_pressed each set only some *)
(* of box, parameters and enabled).                                        *)
StoredAsDrawn ==
  ~edited => crop.cx = box.x /\ crop.cw \in {box.x + box.w, -(box.x + box.w)}

(* The frame that gui_update or gui_focus takes from the parameters is the *)
(* part of the image that is kept.                                         *)
DrawnAsKept == ~edited => box.x = crop.cx /\ box.x + box.w = crop.cw
=============================================================================
