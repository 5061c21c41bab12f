--------------------------- MODULE ExposureEditor ---------------------------
(***************************************************************************)
(* The panel of the exposure (src/iop/exposure.c): the black and the white *)
(* level push each other so that black stays below white, and "auto" lets  *)
(* every expose event of the panel set both from the area that the preview *)
(* pipe has measured.  Levels are thousandths; the exposure of the code is *)
(* the negative logarithm of white, and white is at least 1.  That it goes *)
(* through log2 and exp2, which may move it by a rounding, is left out.    *)
(***************************************************************************)
EXTENDS Integers, FiniteSets

CONSTANTS
  Whites, Blacks,  \* what the sliders and the histogram ask for
  Areas,           \* what may be measured: <<min, max>> of an area
  Clips,           \* the share of bright values that is clipped
  MaxActs          \* bound: what the user does

ASSUME ExposureConstants ==
  Whites \cup Blacks \subseteq Int /\ Areas \subseteq Int \X Int /\ Clips \subseteq 0..1000 /\ MaxActs \in Nat

VARIABLES
  levels,   \* [black, white], of self->params
  auto,     \* request_color_pick
  picked,   \* <<min, max>> of the measured area, Unmeasured before
  clip,     \* the slider beside auto
  items,    \* the history items that the last event has made
  acts

exposureVars == <<levels, auto, picked, clip, items, acts>>

\* Nothing was measured: the code knows it by the negative maximum.
Unmeasured == <<1000, -1000>>
Least1(w) == IF w < 1 THEN 1 ELSE w
Fresh == [black |-> 0, white |-> 1000]

----------------------------------------------------------------------------
(* Both setters take and return [l, made]: the levels and the items made.  *)
WithItem(l, made) == [l |-> l, made |-> made \cup {l}]

\* bug: the early return for an unchanged level is missing.
SetWhiteAgain(s, w) ==
  LET l == [black |-> s.l.black, white |-> Least1(w)]
  IN  IF l.black >= w THEN LET k == [l EXCEPT !.black = w - 10] IN WithItem(k, s.made \cup {k})
      ELSE WithItem(l, s.made)

\* bug: white is recorded before black is pushed below it.
SetWhiteFirst(s, w) ==
  LET l == [black |-> s.l.black, white |-> Least1(w)]
  IN  IF s.l.white = Least1(w) THEN s
      ELSE IF l.black >= w THEN WithItem([l EXCEPT !.black = w - 10], s.made \cup {l})
      ELSE WithItem(l, s.made)

\* exposure_set_white: the nested exposure_set_black makes an item of its
\* own, and does not push back, for black is below white then.
SetWhite(s, w) ==
  LET l == [black |-> s.l.black, white |-> Least1(w)]
      pushed == [black |-> w - 10, white |-> Least1(w)]
  IN  IF s.l.white = Least1(w) THEN s
      ELSE IF l.black >= w THEN WithItem(pushed, s.made \cup {pushed})
      ELSE WithItem(l, s.made)

\* exposure_set_black, and the nested exposure_set_white.
SetBlack(s, b) ==
  LET l == [black |-> b, white |-> s.l.white]
      pushed == [black |-> b, white |-> Least1(b + 10)]
  IN  IF s.l.black = b THEN s
      ELSE IF b >= l.white THEN WithItem(pushed, s.made \cup {pushed})
      ELSE WithItem(l, s.made)

Now == [l |-> levels, made |-> {}]
Take(s) == levels' = s.l /\ items' = s.made

AutoWhite == (picked[2] * (1000 - clip)) \div 1000

----------------------------------------------------------------------------
UserActs == acts < MaxActs /\ acts' = acts + 1

\* exposure_callback and the set_white of the histogram; both end "auto".
MoveWhite(w) == UserActs /\ Take(SetWhite(Now, w)) /\ auto' = FALSE /\ UNCHANGED <<picked, clip>>

MoveBlack(b) == UserActs /\ Take(SetBlack(Now, b)) /\ auto' = FALSE /\ UNCHANGED <<picked, clip>>

\* autoexp_callback
ToggleAuto == UserActs /\ auto' = ~auto /\ items' = {} /\ UNCHANGED <<levels, picked, clip>>

\* autoexpp_callback; the slider has no effect unless "auto" is on.  It does
\* not ask, as expose does, whether anything was measured.
MoveClip(c) ==
  /\ UserActs /\ c # clip /\ clip' = c
  /\ IF auto THEN Take(SetWhite(Now, (picked[2] * (1000 - c)) \div 1000))
     ELSE items' = {} /\ UNCHANGED levels
  /\ UNCHANGED <<auto, picked>>

\* The preview pipe has measured the area, for the request or for another.
Measure(a) == UserActs /\ picked' = a /\ items' = {} /\ UNCHANGED <<levels, auto, clip>>

\* An older item, or another image: the request and the measured area stay.
ReplaceParams(l) == UserActs /\ levels' = l /\ items' = {} /\ UNCHANGED <<auto, picked, clip>>

\* expose, whenever the panel is drawn.
ExposeAuto ==
  /\ auto /\ picked[2] >= 0
  /\ Take(SetBlack(SetWhite(Now, AutoWhite), picked[1]))
  /\ UNCHANGED <<auto, picked, clip, acts>>

ExposureInit ==
  /\ levels = Fresh /\ auto = FALSE /\ picked = Unmeasured /\ clip = 10 /\ items = {} /\ acts = 0

ExposureRest == acts = MaxActs /\ UNCHANGED exposureVars

ExposureNext ==
  \/ (\E w \in Whites : MoveWhite(w)) \/ (\E b \in Blacks : MoveBlack(b))
  \/ ToggleAuto \/ (\E c \in Clips : MoveClip(c)) \/ (\E a \in Areas : Measure(a))
  \/ ReplaceParams(Fresh) \/ ExposeAuto \/ ExposureRest

\* The panel is drawn again after every pipe, as long as "auto" is on.
ExposureSpec == ExposureInit /\ [][ExposureNext]_exposureVars /\ WF_exposureVars(ExposeAuto)

----------------------------------------------------------------------------
(* Every item of the history can be processed: process divides by the      *)
(* distance of white from black, which no order of the sliders, of the     *)
(* histogram and of "auto" may bring to zero (exposure.c: process,         *)
(* exposure_set_white, exposure_set_black, that call each other).          *)
EveryItemProcessable == \A l \in items \cup {levels} : l.black < l.white

(* When the user leaves the panel alone, "auto" finds the levels of the    *)
(* measured area and then makes no more items, unless the area is so flat  *)
(* that its darkest value is not below its clipped brightest: then the two *)
(* setters push each other at every expose event (exposure.c: expose).     *)
Wide == picked[2] >= 0 /\ picked[1] < AutoWhite
AutoRests ==
  <>[](auto /\ Wide => levels = [black |-> picked[1], white |-> Least1(AutoWhite)] /\ items = {})
=============================================================================
