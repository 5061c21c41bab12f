----------------------------- MODULE IopProofs -----------------------------
(***************************************************************************)
(* The operations of src/iop.  For every number of edits and every row of  *)
(* the table of the panels that fits its sliders: a panel shows what is    *)
(* processed, and a refresh writes nothing into the history.  For every    *)
(* size of an image and every sequence of turns: the region that is asked  *)
(* for holds the picture as it was turned.  For every range of the         *)
(* sliders, every measured area and every order of events: black stays     *)
(* below white in all that the panel of the exposure keeps and records.    *)
(* For every width of the image, every place of the mouse and every order  *)
(* of the events: a box that nobody has changed since is the crop that is  *)
(* stored.  For every height of the image and every size of the tiles:     *)
(* the tiles write each row once, and each reads what it has computed.     *)
(* For every table of routines whose rows keep the discipline of           *)
(* RoutineRows and every way their steps may fail: the output is complete  *)
(* or the failure reported, the input is kept and nothing leaks.  For      *)
(* every number of blocks and those that are kept of them: a cubic fit of  *)
(* shifts that are linear in either direction is exact.                    *)
(***************************************************************************)
EXTENDS IopPanel, Flip, ExposureEditor, CropBox, MosaicTiles, Routine, ShiftFit, WellFoundedInduction, TLAPS

----------------------------------------------------------------------------
(* The panels.                                                             *)
(* The inductive invariant: whatever can become the parameters again is in *)
(* range, the widgets show the parameters, these are the item in force     *)
(* unless a slider is dragged, and the pipes have that item unless it is   *)
(* still to be committed.                                                  *)
Items(r) == {p \in [DOMAIN r.raw -> Int] : InRange(r, p)}
Bound(r) == r.widgets \ Overrun(r)

Recording ==
  /\ iop \in DOMAIN Rows /\ kind \in Kinds /\ page \in Pages(Row)
  /\ params \in Items(Row) /\ history \in Seq(Items(Row)) /\ cursor \in DOMAIN history
  /\ dragging \/ params = history[cursor]
Showing == DOMAIN shown = Row.widgets /\ \A w \in Bound(Row) : shown[w] = params[Field(w, page)]
Processing == pending \/ piece = [pipe \in Pipes |-> Committed(Row, history[cursor], kind, pipe)]

PanelInv == Recording /\ Showing /\ Processing

(* An item after the one in force, which drops those that came later. *)
LEMMA RecordedAfter ==
  ASSUME NEW S, NEW h \in Seq(S), NEW k \in DOMAIN h, NEW q \in S
  PROVE  LET a == Append(SubSeq(h, 1, k), q)
         IN  a \in Seq(S) /\ k + 1 \in DOMAIN a /\ a[k + 1] = q
<1>1. k \in 1..Len(h) /\ Len(h) \in Nat
  OBVIOUS
<1>2. SubSeq(h, 1, k) \in Seq(S) /\ Len(SubSeq(h, 1, k)) = k
  BY <1>1
<1> QED BY <1>1, <1>2

(* Widgets that were refreshed and call back write what they show, which   *)
(* changes a field only where a picked colour is out of range.             *)
LEMMA EchoKeeps ==
  ASSUME NEW r, Fitting(r), NEW g \in Pages(r), NEW p \in Items(r), NEW E \in SUBSET r.widgets
  PROVE  LET q == Echoed(p, ShownFor(r, p, g), E, g)
         IN  /\ q \in Items(r)
             /\ \A w \in Bound(r), h \in Pages(r) : q[Field(w, h)] = p[Field(w, h)]
             /\ E \subseteq Bound(r) => q = p
<1> DEFINE new == ShownFor(r, p, g)
           q == Echoed(p, new, E, g)
<1>1. p \in [DOMAIN r.raw -> Int] /\ InRange(r, p)
  BY DEF Items
<1>2. \A w \in r.widgets, h \in Pages(r) : Field(w, h) \in DOMAIN r.raw
  BY DEF Fitting, ShownFields
<1>3. \A w, x \in r.widgets : \A h, i \in Pages(r) : Field(w, h) = Field(x, i) => w = x
  BY DEF Fitting
<1>4. \A w \in E : new[w] = Shows(w, p[Field(w, g)])
  BY DEF ShownFor
<1>5. ASSUME NEW f \in DOMAIN r.raw, NEW w \in E, Field(w, g) = f
      PROVE  q[f] = Shows(w, p[f])
  <2>1. (CHOOSE x \in E : Field(x, g) = f) = w
    BY <1>3, <1>5
  <2>2. q[f] = new[w]
    BY <1>1, <1>5, <2>1 DEF Echoed
  <2> QED BY <2>2, <1>4, <1>5
<1>6. ASSUME NEW f \in DOMAIN r.raw, ~ \E w \in E : Field(w, g) = f
      PROVE  q[f] = p[f]
  BY <1>1, <1>6 DEF Echoed
<1>7. ASSUME NEW w \in Bound(r), NEW h \in Pages(r)
      PROVE  q[Field(w, h)] = p[Field(w, h)]
  <2> DEFINE f == Field(w, h)
  <2>1. f \in DOMAIN r.raw /\ w \in r.widgets
    BY <1>2 DEF Bound
  <2>2. Shows(w, p[f]) = p[f]
    BY <1>1 DEF InRange, Bound
  <2>3. CASE \E x \in E : Field(x, g) = f
    <3>1. PICK x \in E : Field(x, g) = f
      BY <2>3
    <3>2. x = w
      BY <3>1, <2>1, <1>3
    <3> QED BY <1>5, <2>1, <2>2, <3>1, <3>2
  <2>4. CASE ~ \E x \in E : Field(x, g) = f
    BY <2>4, <1>6, <2>1
  <2> QED BY <2>3, <2>4
<1>8. \A w \in r.widgets, v \in Int : Shows(w, v) \in Int
  BY DEF Shows, Fitting
<1>9. q \in [DOMAIN r.raw -> Int]
  <2>1. \A f \in DOMAIN r.raw : q[f] \in Int
    <3> TAKE f \in DOMAIN r.raw
    <3>1. p[f] \in Int
      BY <1>1
    <3> QED BY <3>1, <1>5, <1>6, <1>8
  <2>2. q = [f \in DOMAIN r.raw |-> q[f]]
    BY <1>1 DEF Echoed
  <2> HIDE DEF q
  <2> QED BY <2>1, <2>2
<1>10. q \in Items(r)
  <2> HIDE DEF q
  <2>1. \A w \in r.widgets \ Overrun(r), h \in Pages(r) : Shows(w, q[Field(w, h)]) = q[Field(w, h)]
    BY <1>7, <1>1 DEF Bound, InRange
  <2> QED BY <2>1, <1>9 DEF Items, InRange
<1>11. ASSUME E \subseteq Bound(r)
       PROVE  q = p
  <2>1. \A f \in DOMAIN r.raw : q[f] = p[f]
    BY <1>6, <1>7, <1>11
  <2> HIDE DEF q
  <2> QED BY <2>1, <1>9, <1>1
<1> QED BY <1>7, <1>10, <1>11

(* What gui_update shows. *)
LEMMA RefreshShows ==
  ASSUME NEW r, Fitting(r), NEW g \in Pages(r), NEW p \in Items(r)
  PROVE  /\ DOMAIN ShownFor(r, p, g) = r.widgets
         /\ \A w \in Bound(r) : ShownFor(r, p, g)[w] = p[Field(w, g)]
BY DEF ShownFor, Items, InRange, Bound

(* gui_update with an item of the history: it stays in force, or, where a  *)
(* widget is not guarded, a copy of it is made.                            *)
LEMMA UpdateKeeps ==
  ASSUME PanelInv, Fitting(Row), iop' = iop, kind' \in Kinds, page' = page,
         NEW p, NEW h \in Seq(Items(Row)), NEW k \in DOMAIN h, p = h[k], GuiUpdate(p, h, k)
  PROVE  /\ PanelInv'
         /\ (\A w \in Row.widgets : w.manner # "loose") => history' = h /\ params' = p
<1> DEFINE new == ShownFor(Row, p, page)
           E == Echoing(new, shown, {"eager", "loose"})
           q == Echoed(p, new, E, page)
           again == Echoing(new, shown, {"loose"}) # {}
<1>1. page \in Pages(Row) /\ p \in Items(Row) /\ Row' = Row
  BY DEF PanelInv, Recording, Row
<1>2. DOMAIN new = Row.widgets /\ \A w \in Bound(Row) : new[w] = p[Field(w, page)]
  BY <1>1, RefreshShows
<1>3. E \in SUBSET Row.widgets
  BY <1>2 DEF Echoing
<1>4. /\ shown' = new /\ params' = q /\ pending'
      /\ history' = (IF again THEN Append(SubSeq(h, 1, k), q) ELSE h)
      /\ cursor' = (IF again THEN k + 1 ELSE k)
  BY DEF GuiUpdate
<1>5. /\ q \in Items(Row)
      /\ \A w \in Bound(Row), i \in Pages(Row) : q[Field(w, i)] = p[Field(w, i)]
      /\ E \subseteq Bound(Row) => q = p
  BY <1>1, <1>3, EchoKeeps
<1>6. \A w \in Overrun(Row) : w.manner = "loose"
  BY DEF Fitting
<1>7. ~again => q = p
  <2>1. ~again => E \subseteq Bound(Row)
    BY <1>3, <1>6 DEF Echoing, Bound
  <2> QED BY <2>1, <1>5
<1> HIDE DEF q, new, E
<1>8. /\ history' \in Seq(Items(Row)) /\ cursor' \in DOMAIN history' /\ params' = history'[cursor']
  <2>1. CASE again
    BY <2>1, <1>4, <1>5, RecordedAfter
  <2>2. CASE ~again
    BY <2>2, <1>4, <1>7
  <2> QED BY <2>1, <2>2
<1>9. PanelInv'
  <2>1. Recording'
    BY <1>1, <1>4, <1>5, <1>8 DEF PanelInv, Recording, Row
  <2>2. Showing'
    BY <1>1, <1>2, <1>4, <1>5 DEF Showing
  <2> QED BY <2>1, <2>2, <1>4 DEF PanelInv, Processing
<1>10. ASSUME \A w \in Row.widgets : w.manner # "loose"
       PROVE  history' = h /\ params' = p
  <2>1. ~again
    BY <1>2, <1>10 DEF Echoing
  <2> QED BY <2>1, <1>4, <1>7
<1> QED BY <1>9, <1>10

(* An item is made of parameters that the widgets show. *)
LEMMA RecordKeeps ==
  ASSUME PanelInv, iop' = iop, kind' = kind, page' \in Pages(Row), NEW p \in Items(Row), Recorded(p),
         DOMAIN shown' = Row.widgets, \A w \in Bound(Row) : shown'[w] = p[Field(w, page')]
  PROVE  PanelInv'
<1>1. Row' = Row
  BY DEF Row
<1>2. /\ params' = p /\ pending'
      /\ history' \in Seq(Items(Row)) /\ cursor' \in DOMAIN history' /\ history'[cursor'] = p
  BY RecordedAfter DEF Recorded, PanelInv, Recording
<1>3. Recording'
  BY <1>1, <1>2 DEF PanelInv, Recording
<1>4. Showing'
  BY <1>1, <1>2 DEF Showing
<1> QED BY <1>2, <1>3, <1>4 DEF PanelInv, Processing

(* What a callback writes is in range, and the other widgets still show    *)
(* what is there.                                                          *)
LEMMA WrittenShown ==
  ASSUME PanelInv, Fitting(Row), NEW w \in Row.widgets, NEW v \in {w.lo, w.hi}
  PROVE  /\ Written(params, w, v) \in Items(Row)
         /\ DOMAIN [shown EXCEPT ![w] = v] = Row.widgets
         /\ \A x \in Bound(Row) : [shown EXCEPT ![w] = v][x] = Written(params, w, v)[Field(x, page)]
<1> DEFINE q == Written(params, w, v)
<1>1. params \in [DOMAIN Row.raw -> Int] /\ InRange(Row, params) /\ page \in Pages(Row)
  BY DEF PanelInv, Recording, Items
<1>2. \A x \in Row.widgets, g \in Pages(Row) :
        Field(x, g) \in DOMAIN Row.raw /\ Field(x, g) \notin w.also \cup DOMAIN w.sets
  BY DEF Fitting, ShownFields
<1>3. w.lo \in Int /\ w.hi \in Int /\ w.lo <= w.hi /\ \A f \in DOMAIN w.sets : w.sets[f] \in Int
  BY DEF Fitting
<1>4. v \in Int /\ Shows(w, v) = v
  BY <1>3 DEF Shows
<1>5. q \in [DOMAIN Row.raw -> Int]
  BY <1>1, <1>3, <1>4 DEF Written
<1>6. \A x \in Row.widgets, g \in Pages(Row) :
        q[Field(x, g)] = (IF Field(x, g) = Field(w, page) THEN v ELSE params[Field(x, g)])
  BY <1>1, <1>2 DEF Written
<1>7. \A x \in Row.widgets : \A g, h \in Pages(Row) : Field(x, g) = Field(w, h) => x = w
  BY DEF Fitting
<1> HIDE DEF q
<1>8. InRange(Row, q)
  BY <1>1, <1>4, <1>5, <1>6, <1>7 DEF InRange
<1>9. DOMAIN shown = Row.widgets /\ \A x \in Bound(Row) : shown[x] = params[Field(x, page)]
  BY DEF PanelInv, Showing
<1>10. \A x \in Bound(Row) : [shown EXCEPT ![w] = v][x] = q[Field(x, page)]
  BY <1>1, <1>6, <1>7, <1>9 DEF Bound
<1> QED BY <1>5, <1>8, <1>9, <1>10 DEF q, Items

(* One step per action. *)
LEMMA PanelBegins == PanelInit => PanelInv
<1> SUFFICES ASSUME PanelInit PROVE PanelInv
  OBVIOUS
<1>1. iop \in DOMAIN Rows /\ Fitting(Row)
  BY PanelConstants DEF PanelInit, Row
<1>2. params \in Items(Row) /\ page \in Pages(Row) /\ kind \in Kinds
  BY <1>1 DEF PanelInit, Fitting, InRange, Items
<1>3. history \in Seq(Items(Row)) /\ cursor \in DOMAIN history /\ params = history[cursor]
  BY <1>2 DEF PanelInit
<1>4. Showing
  BY <1>1, <1>2, RefreshShows DEF PanelInit, Showing
<1> QED BY <1>1, <1>2, <1>3, <1>4 DEF PanelInit, PanelInv, Recording, Processing

LEMMA PanelStep == PanelInv /\ [PanelNext]_panelVars => PanelInv'
<1> SUFFICES ASSUME PanelInv, [PanelNext]_panelVars PROVE PanelInv'
  OBVIOUS
<1>1. Fitting(Row) /\ iop \in DOMAIN Rows /\ page \in Pages(Row) /\ kind \in Kinds
  BY PanelConstants DEF PanelInv, Recording, Row
<1>2. /\ params \in Items(Row) /\ history \in Seq(Items(Row)) /\ cursor \in DOMAIN history
      /\ DOMAIN shown = Row.widgets /\ \A w \in Bound(Row) : shown[w] = params[Field(w, page)]
  BY DEF PanelInv, Recording, Showing
<1>3. ASSUME NEW w \in Row.widgets, NEW v \in {w.lo, w.hi}, Edit(w, v)
      PROVE  PanelInv'
  <2>1. /\ shown' = [shown EXCEPT ![w] = v] /\ Recorded(Written(params, w, v))
        /\ iop' = iop /\ kind' = kind /\ page' = page
    BY <1>3 DEF Edit
  <2> QED BY <2>1, <1>1, <1>3, WrittenShown, RecordKeeps
<1>4. ASSUME NEW w \in Row.widgets, NEW v \in {w.lo, w.hi}, Drag(w, v)
      PROVE  PanelInv'
  <2>1. /\ shown' = [shown EXCEPT ![w] = v] /\ params' = Written(params, w, v) /\ dragging'
        /\ UNCHANGED <<iop, kind, page, history, cursor, piece, pending>> /\ Row' = Row
    BY <1>4 DEF Drag, Row
  <2>2. Recording'
    BY <2>1, <1>1, <1>2, <1>4, WrittenShown DEF Recording
  <2>3. Showing'
    BY <2>1, <1>1, <1>4, WrittenShown DEF Showing
  <2>4. Processing'
    BY <2>1 DEF PanelInv, Processing
  <2> QED BY <2>2, <2>3, <2>4 DEF PanelInv
<1>5. ASSUME NEW g \in 1..NumPages(Row), SelectPage(g)
      PROVE  PanelInv'
  <2> DEFINE new == ShownFor(Row, params, g)
             E == Echoing(new, shown, {"guarded"})
  <2>1. g \in Pages(Row) /\ Row' = Row
    BY <1>5 DEF Pages, SelectPage, Row
  <2>2. DOMAIN new = Row.widgets /\ \A w \in Bound(Row) : new[w] = params[Field(w, g)]
    BY <1>1, <1>2, <2>1, RefreshShows
  <2>3. /\ page' = g /\ shown' = new /\ UNCHANGED <<iop, kind, piece>>
        /\ \/ UNCHANGED <<params, history, cursor, pending, dragging>>
           \/ Recorded(Echoed(params, new, E, g))
    BY <1>5 DEF SelectPage
  <2>4. E \subseteq Bound(Row)
    BY <1>1, <2>2 DEF Echoing, Bound, Fitting
  <2>5. Echoed(params, new, E, g) = params
    <3>1. E \in SUBSET Row.widgets
      BY <2>4 DEF Bound
    <3> QED BY <3>1, <1>1, <1>2, <2>1, <2>4, EchoKeeps
  <2>6. CASE UNCHANGED <<params, history, cursor, pending, dragging>>
    <3>1. Recording'
      BY <2>1, <2>3, <2>6 DEF PanelInv, Recording
    <3>2. Showing'
      BY <2>1, <2>2, <2>3, <2>6 DEF Showing
    <3>3. Processing'
      BY <2>1, <2>3, <2>6 DEF PanelInv, Processing
    <3> QED BY <3>1, <3>2, <3>3 DEF PanelInv
  <2>7. CASE Recorded(Echoed(params, new, E, g))
    <3> HIDE DEF new, E
    <3> QED BY <2>1, <2>2, <2>3, <2>5, <2>7, <1>2, RecordKeeps
  <2> QED BY <2>3, <2>6, <2>7
<1>6. ASSUME NEW k \in DOMAIN history, Jump(k)
      PROVE  PanelInv'
  BY <1>1, <1>2, <1>6, UpdateKeeps DEF Jump
<1>7. ASSUME NEW k \in Kinds, NewImage(k)
      PROVE  PanelInv'
  <2>1. Defaults(Row, k) \in Items(Row)
    BY <1>1 DEF Fitting, InRange, Items
  <2>2. /\ <<Defaults(Row, k)>> \in Seq(Items(Row)) /\ 1 \in DOMAIN <<Defaults(Row, k)>>
        /\ Defaults(Row, k) = <<Defaults(Row, k)>>[1]
    BY <2>1
  <2>3. /\ iop' = iop /\ kind' \in Kinds /\ page' = page
        /\ GuiUpdate(Defaults(Row, k), <<Defaults(Row, k)>>, 1)
    BY <1>7 DEF NewImage
  <2> QED BY <2>2, <2>3, <1>1, UpdateKeeps
<1>8. ASSUME NEW p \in Row.presets, Apply(p)
      PROVE  PanelInv'
  <2> DEFINE q == p @@ Defaults(Row, kind)
  <2>1. q \in Items(Row)
    BY <1>1 DEF Fitting, InRange, Items
  <2>2. /\ iop' = iop /\ kind' = kind /\ page' = page
        /\ GuiUpdate(q, Append(SubSeq(history, 1, cursor), q), cursor + 1)
    BY <1>8 DEF Apply
  <2> HIDE DEF q
  <2> DEFINE a == Append(SubSeq(history, 1, cursor), q)
  <2>3. a \in Seq(Items(Row)) /\ cursor + 1 \in DOMAIN a /\ q = a[cursor + 1]
    BY <2>1, <1>2, RecordedAfter
  <2> HIDE DEF a
  <2>4. GuiUpdate(q, a, cursor + 1)
    BY <2>2 DEF a
  <2> QED BY <2>2, <2>3, <2>4, <1>1, UpdateKeeps
<1>9. ASSUME NEW c \in Row.pick.colours, Expose(c)
      PROVE  PanelInv'
  <2> DEFINE q == [f \in DOMAIN params |-> IF f \in Row.pick.fields THEN c ELSE params[f]]
  <2>1. params \in [DOMAIN Row.raw -> Int] /\ InRange(Row, params) /\ c \in Int
    BY <1>1, <1>2 DEF Items, Fitting
  <2>2. q \in [DOMAIN Row.raw -> Int]
    BY <2>1
  <2>3. \A w \in Row.widgets \ Overrun(Row), g \in Pages(Row) : Shows(w, q[Field(w, g)]) = q[Field(w, g)]
    <3> TAKE w \in Row.widgets \ Overrun(Row), g \in Pages(Row)
    <3>1. Field(w, g) \in DOMAIN params
      BY <1>1, <2>1 DEF Fitting, ShownFields
    <3>2. CASE Field(w, g) \in Row.pick.fields
      BY <3>1, <3>2 DEF Overrun
    <3>3. CASE Field(w, g) \notin Row.pick.fields
      BY <3>1, <3>3, <2>1 DEF InRange
    <3> QED BY <3>2, <3>3
  <2>4. q \in Items(Row)
    BY <2>2, <2>3 DEF Items, InRange
  <2>5. /\ iop' = iop /\ kind' = kind /\ page' = page
        /\ GuiUpdate(q, Append(SubSeq(history, 1, cursor), q), cursor + 1)
    BY <1>9 DEF Expose
  <2> HIDE DEF q
  <2> DEFINE a == Append(SubSeq(history, 1, cursor), q)
  <2>6. a \in Seq(Items(Row)) /\ cursor + 1 \in DOMAIN a /\ q = a[cursor + 1]
    BY <2>4, <1>2, RecordedAfter
  <2> HIDE DEF a
  <2>7. GuiUpdate(q, a, cursor + 1)
    BY <2>5 DEF a
  <2> QED BY <2>5, <2>6, <2>7, <1>1, UpdateKeeps
<1>10. CASE Request
  BY <1>10 DEF Request, PanelInv, Recording, Showing, Processing, Row
<1>11. CASE Commit
  <2>1. /\ piece' = [pipe \in Pipes |-> Committed(Row, history[cursor], kind, pipe)] /\ Row' = Row
        /\ UNCHANGED <<iop, kind, params, shown, page, history, cursor, dragging>>
    BY <1>11 DEF Commit, Row
  <2> QED BY <2>1 DEF PanelInv, Recording, Showing, Processing
<1>12. CASE Rest \/ UNCHANGED panelVars
  BY <1>12 DEF Rest, panelVars, PanelInv, Recording, Showing, Processing, Row
<1>13. \A w \in Row.widgets, v \in {"lo", "hi"} : w[v] \in {w.lo, w.hi}
  OBVIOUS
<1> QED
  BY <1>3, <1>4, <1>5, <1>6, <1>7, <1>8, <1>9, <1>10, <1>11, <1>12, <1>13 DEF PanelNext

(***************************************************************************)
(* However long a panel is used, and for every table whose rows are as the *)
(* files of src/iop are: what the widgets show is what the full pipe has.  *)
(***************************************************************************)
THEOREM PanelShowsProcessed == PanelSpec => []ShownIsProcessed
<1>1. PanelInv => ShownIsProcessed
  <2> SUFFICES ASSUME PanelInv, ~pending, ~dragging, piece["full"] # Off, NEW w \in Row.widgets \ Overrun(Row)
               PROVE  shown[w] = piece["full"][Field(w, page)]
    BY DEF ShownIsProcessed
  <2>1. Fitting(Row) /\ page \in Pages(Row) /\ shown[w] = params[Field(w, page)] /\ params = history[cursor]
    BY PanelConstants DEF PanelInv, Recording, Showing, Row, Bound
  <2>2. piece["full"] = [f \in Row.commit |-> params[f]]
    BY <2>1 DEF PanelInv, Processing, Committed, Pipes
  <2>3. Field(w, page) \in Row.commit
    BY <2>1 DEF Fitting, ShownFields
  <2> QED BY <2>1, <2>2, <2>3
<1> QED BY <1>1, PanelBegins, PanelStep, PTL DEF PanelSpec

(***************************************************************************)
(* Where every callback is guarded, older items and other images are       *)
(* looked at without a new item, and are shown as they are.                *)
(***************************************************************************)
THEOREM PanelRefreshWritesNothing == PanelSpec => RefreshWritesNothing
<1> DEFINE Kept == (\A w \in Row.widgets : w.manner # "loose") =>
                     /\ \A k \in DOMAIN history : Jump(k) => history' = history /\ params' = history[k]
                     /\ \A k \in Kinds : NewImage(k) => history' = <<params'>> /\ params' = Defaults(Row, k)
<1>1. ASSUME PanelInv, [PanelNext]_panelVars
      PROVE  [Kept]_panelVars
  <2> SUFFICES ASSUME \A w \in Row.widgets : w.manner # "loose"
               PROVE  /\ \A k \in DOMAIN history : Jump(k) => history' = history /\ params' = history[k]
                      /\ \A k \in Kinds : NewImage(k) => history' = <<params'>> /\ params' = Defaults(Row, k)
    OBVIOUS
  <2>1. Fitting(Row) /\ kind \in Kinds /\ history \in Seq(Items(Row))
    BY <1>1, PanelConstants DEF PanelInv, Recording, Row
  <2>2. ASSUME NEW k \in DOMAIN history, Jump(k)
        PROVE  history' = history /\ params' = history[k]
    BY <1>1, <2>1, <2>2, UpdateKeeps DEF Jump
  <2>3. ASSUME NEW k \in Kinds, NewImage(k)
        PROVE  history' = <<params'>> /\ params' = Defaults(Row, k)
    <3>1. Defaults(Row, k) \in Items(Row)
      BY <2>1 DEF Fitting, InRange, Items
    <3>2. /\ <<Defaults(Row, k)>> \in Seq(Items(Row)) /\ 1 \in DOMAIN <<Defaults(Row, k)>>
          /\ Defaults(Row, k) = <<Defaults(Row, k)>>[1]
      BY <3>1
    <3>3. /\ iop' = iop /\ kind' \in Kinds /\ page' = page
          /\ GuiUpdate(Defaults(Row, k), <<Defaults(Row, k)>>, 1)
      BY <2>3 DEF NewImage
    <3> QED BY <3>2, <3>3, <1>1, <2>1, UpdateKeeps
  <2> QED BY <2>2, <2>3
<1> QED BY <1>1, PanelBegins, PanelStep, PTL DEF PanelSpec, RefreshWritesNothing

----------------------------------------------------------------------------
(* The orientation.                                                        *)
(* A picture of n pixels along an axis that may be mirrored, and the       *)
(* pictures there are: with the axes exchanged or not, and either mirrored *)
(* or not.                                                                 *)
Turn(m, n, t) == IF m THEN n - t - 1 ELSE t
View(w, h, axes, my, mx) ==
  [x \in Pixels(IF axes THEN h ELSE w, IF axes THEN w ELSE h) |->
     <<Turn(mx, w, IF axes THEN x[2] ELSE x[1]), Turn(my, h, IF axes THEN x[1] ELSE x[2])>>]

Orientations == 0..7
TurnedInv ==
  /\ size \in Sizes /\ orientation \in Orientations
  /\ picture = View(size[1], size[2], Has(orientation, 4), Has(orientation, 2), Has(orientation, 1))

LEMMA BitsOf ==
  ASSUME NEW o \in Orientations
  PROVE  /\ Has(o, 4) <=> o \in {4, 5, 6, 7}
         /\ Has(o, 2) <=> o \in {2, 3, 6, 7}
         /\ Has(o, 1) <=> o \in {1, 3, 5, 7}
<1>1. o \in {0, 1, 2, 3, 4, 5, 6, 7}
  BY DEF Orientations
<1>2. CASE o = 0  BY <1>2 DEF Has
<1>3. CASE o = 1  BY <1>3 DEF Has
<1>4. CASE o = 2  BY <1>4 DEF Has
<1>5. CASE o = 3  BY <1>5 DEF Has
<1>6. CASE o = 4  BY <1>6 DEF Has
<1>7. CASE o = 5  BY <1>7 DEF Has
<1>8. CASE o = 6  BY <1>8 DEF Has
<1>9. CASE o = 7  BY <1>9 DEF Has
<1> QED BY <1>1, <1>2, <1>3, <1>4, <1>5, <1>6, <1>7, <1>8, <1>9

LEMMA XorFlips ==
  ASSUME NEW o \in Orientations
  PROVE  /\ Xor(o, 4) \in Orientations /\ Xor(o, 2) \in Orientations /\ Xor(o, 1) \in Orientations
         /\ Has(Xor(o, 4), 4) <=> ~Has(o, 4)
         /\ Has(Xor(o, 4), 2) <=> Has(o, 2)
         /\ Has(Xor(o, 4), 1) <=> Has(o, 1)
         /\ Has(Xor(o, 2), 4) <=> Has(o, 4)
         /\ Has(Xor(o, 2), 2) <=> ~Has(o, 2)
         /\ Has(Xor(o, 2), 1) <=> Has(o, 1)
         /\ Has(Xor(o, 1), 4) <=> Has(o, 4)
         /\ Has(Xor(o, 1), 2) <=> Has(o, 2)
         /\ Has(Xor(o, 1), 1) <=> ~Has(o, 1)
<1>1. o \in {0, 1, 2, 3, 4, 5, 6, 7}
  BY DEF Orientations
<1>2. /\ Xor(o, 4) = IF o \in {4, 5, 6, 7} THEN o - 4 ELSE o + 4
      /\ Xor(o, 2) = IF o \in {2, 3, 6, 7} THEN o - 2 ELSE o + 2
      /\ Xor(o, 1) = IF o \in {1, 3, 5, 7} THEN o - 1 ELSE o + 1
  BY BitsOf DEF Xor
<1>3. Xor(o, 4) \in Orientations /\ Xor(o, 2) \in Orientations /\ Xor(o, 1) \in Orientations
  BY <1>1, <1>2 DEF Orientations
<1>4. /\ Has(Xor(o, 4), 4) <=> Xor(o, 4) \in {4, 5, 6, 7}
      /\ Has(Xor(o, 4), 2) <=> Xor(o, 4) \in {2, 3, 6, 7}
      /\ Has(Xor(o, 4), 1) <=> Xor(o, 4) \in {1, 3, 5, 7}
  BY <1>3, BitsOf
<1>5. /\ Has(Xor(o, 2), 4) <=> Xor(o, 2) \in {4, 5, 6, 7}
      /\ Has(Xor(o, 2), 2) <=> Xor(o, 2) \in {2, 3, 6, 7}
      /\ Has(Xor(o, 2), 1) <=> Xor(o, 2) \in {1, 3, 5, 7}
  BY <1>3, BitsOf
<1>6. /\ Has(Xor(o, 1), 4) <=> Xor(o, 1) \in {4, 5, 6, 7}
      /\ Has(Xor(o, 1), 2) <=> Xor(o, 1) \in {2, 3, 6, 7}
      /\ Has(Xor(o, 1), 1) <=> Xor(o, 1) \in {1, 3, 5, 7}
  BY <1>3, BitsOf
<1>7. Xor(o, 4) \in {4, 5, 6, 7} <=> o \notin {4, 5, 6, 7}
  BY <1>1, <1>2
<1>8. (Xor(o, 4) \in {2, 3, 6, 7} <=> o \in {2, 3, 6, 7}) /\ (Xor(o, 4) \in {1, 3, 5, 7} <=> o \in {1, 3, 5, 7})
  BY <1>1, <1>2
<1>9. (Xor(o, 2) \in {4, 5, 6, 7} <=> o \in {4, 5, 6, 7}) /\ (Xor(o, 2) \in {1, 3, 5, 7} <=> o \in {1, 3, 5, 7})
  BY <1>1, <1>2
<1>10. (Xor(o, 2) \in {2, 3, 6, 7} <=> o \notin {2, 3, 6, 7}) /\ (Xor(o, 1) \in {1, 3, 5, 7} <=> o \notin {1, 3, 5, 7})
  BY <1>1, <1>2
<1>11. (Xor(o, 1) \in {4, 5, 6, 7} <=> o \in {4, 5, 6, 7}) /\ (Xor(o, 1) \in {2, 3, 6, 7} <=> o \in {2, 3, 6, 7})
  BY <1>1, <1>2
<1>12. /\ Has(o, 4) <=> o \in {4, 5, 6, 7}
       /\ Has(o, 2) <=> o \in {2, 3, 6, 7}
       /\ Has(o, 1) <=> o \in {1, 3, 5, 7}
  BY BitsOf
<1> QED BY <1>3, <1>4, <1>5, <1>6, <1>7, <1>8, <1>9, <1>10, <1>11, <1>12, Zenon

(* The size of a picture, which CHOOSE finds in its corners. *)
LEMMA ViewSize ==
  ASSUME NEW w \in Nat \ {0}, NEW h \in Nat \ {0}, NEW axes \in BOOLEAN, NEW my \in BOOLEAN, NEW mx \in BOOLEAN
  PROVE  /\ Width(View(w, h, axes, my, mx)) = IF axes THEN h ELSE w
         /\ Height(View(w, h, axes, my, mx)) = IF axes THEN w ELSE h
<1> DEFINE W == IF axes THEN h ELSE w
           H == IF axes THEN w ELSE h
           D == (0..(W - 1)) \X (0..(H - 1))
<1>1. DOMAIN View(w, h, axes, my, mx) = D
  BY DEF View, Pixels
<1>2. W \in Nat \ {0} /\ H \in Nat \ {0}
  OBVIOUS
<1> HIDE DEF W, H
<1>3. <<W - 1, H - 1>> \in D
  BY <1>2
<1>4. \A i \in D : i[1] \in 0..(W - 1) /\ i[2] \in 0..(H - 1)
  OBVIOUS
<1>5. W - 1 \in {i[1] : i \in D} /\ H - 1 \in {i[2] : i \in D}
  <2>1. <<W - 1, H - 1>>[1] = W - 1 /\ <<W - 1, H - 1>>[2] = H - 1
    OBVIOUS
  <2> QED BY <1>3, <2>1
<1>6. (CHOOSE x \in {i[1] : i \in D} : \A i \in D : i[1] <= x) = W - 1
  <2> HIDE DEF D
  <2>1. \A i \in D : i[1] <= W - 1
    BY <1>4, <1>2 DEF D
  <2>2. ASSUME NEW x \in {i[1] : i \in D}, \A i \in D : i[1] <= x
        PROVE  x = W - 1
    <3>1. x \in 0..(W - 1)
      BY <1>4
    <3>2. W - 1 <= x
      BY <1>3, <2>2
    <3> QED BY <3>1, <3>2, <1>2
  <2> QED BY <1>5, <2>1, <2>2
<1>7. (CHOOSE y \in {i[2] : i \in D} : \A i \in D : i[2] <= y) = H - 1
  <2> HIDE DEF D
  <2>1. \A i \in D : i[2] <= H - 1
    BY <1>4, <1>2 DEF D
  <2>2. ASSUME NEW y \in {i[2] : i \in D}, \A i \in D : i[2] <= y
        PROVE  y = H - 1
    <3>1. y \in 0..(H - 1)
      BY <1>4
    <3>2. H - 1 <= y
      BY <1>3, <2>2
    <3> QED BY <3>1, <3>2, <1>2
  <2> QED BY <1>5, <2>1, <2>2
<1>8. Width(View(w, h, axes, my, mx)) = W /\ Height(View(w, h, axes, my, mx)) = H
  <2> DEFINE v == View(w, h, axes, my, mx)
  <2>1. /\ Width(v) = 1 + (CHOOSE x \in {i[1] : i \in D} : \A i \in D : i[1] <= x)
        /\ Height(v) = 1 + (CHOOSE y \in {i[2] : i \in D} : \A i \in D : i[2] <= y)
    <3> HIDE DEF D, v
    <3> QED BY <1>1, Zenon DEF Width, Height, v
  <2> HIDE DEF D, v
  <2>2. Width(v) = 1 + (W - 1) /\ Height(v) = 1 + (H - 1)
    BY <2>1, <1>6, <1>7, Zenon
  <2>3. Width(v) = W /\ Height(v) = H
    BY <2>2, <1>2
  <2> QED BY <2>3 DEF v
<1> QED BY <1>8 DEF W, H

(* What a turn does to a picture. *)
LEMMA TurnTwice ==
  ASSUME NEW n \in Nat \ {0}, NEW t \in 0..(n - 1), NEW m \in BOOLEAN
  PROVE  /\ n - 1 - t \in 0..(n - 1)
         /\ Turn(m, n, n - 1 - t) = Turn(~m, n, t)
BY DEF Turn

LEMMA ViewClockwise ==
  ASSUME NEW w \in Nat \ {0}, NEW h \in Nat \ {0}, NEW axes \in BOOLEAN, NEW my \in BOOLEAN, NEW mx \in BOOLEAN
  PROVE  Clockwise(View(w, h, axes, my, mx)) =
           IF axes THEN View(w, h, FALSE, my, ~mx) ELSE View(w, h, TRUE, ~my, mx)
<1> DEFINE v == View(w, h, axes, my, mx)
<1>1. CASE axes
  <2>1. Width(v) = h /\ Height(v) = w
    <3>1. Width(v) = (IF axes THEN h ELSE w) /\ Height(v) = (IF axes THEN w ELSE h)
      BY ViewSize
    <3> HIDE DEF v
    <3> QED BY <1>1, <3>1
  <2>2. Clockwise(v) = [x \in Pixels(w, h) |-> v[<<x[2], w - 1 - x[1]>>]]
    <3> HIDE DEF v
    <3> QED BY <2>1 DEF Clockwise
  <2>3. ASSUME NEW x \in Pixels(w, h)
        PROVE  v[<<x[2], w - 1 - x[1]>>] = View(w, h, FALSE, my, ~mx)[x]
    <3>1. x[1] \in 0..(w - 1) /\ x[2] \in 0..(h - 1)
      BY DEF Pixels
    <3>2. w - 1 - x[1] \in 0..(w - 1) /\ Turn(mx, w, w - 1 - x[1]) = Turn(~mx, w, x[1])
      BY <3>1, TurnTwice
    <3>3. <<x[2], w - 1 - x[1]>> \in Pixels(h, w)
      BY <3>1, <3>2 DEF Pixels
    <3>4. v[<<x[2], w - 1 - x[1]>>] = <<Turn(mx, w, w - 1 - x[1]), Turn(my, h, x[2])>>
      BY <3>3, <1>1 DEF View
    <3>5. View(w, h, FALSE, my, ~mx)[x] = <<Turn(~mx, w, x[1]), Turn(my, h, x[2])>>
      BY DEF View
    <3> QED BY <3>2, <3>4, <3>5
  <2>4. View(w, h, FALSE, my, ~mx) = [x \in Pixels(w, h) |-> View(w, h, FALSE, my, ~mx)[x]]
    BY DEF View
  <2> HIDE DEF v
  <2>5. Clockwise(v) = View(w, h, FALSE, my, ~mx)
    BY <2>2, <2>3, <2>4
  <2> QED BY <2>5, <1>1 DEF v
<1>2. CASE ~axes
  <2>1. Width(v) = w /\ Height(v) = h
    BY <1>2, ViewSize
  <2>2. Clockwise(v) = [x \in Pixels(h, w) |-> v[<<x[2], h - 1 - x[1]>>]]
    <3> HIDE DEF v
    <3> QED BY <2>1 DEF Clockwise
  <2>3. ASSUME NEW x \in Pixels(h, w)
        PROVE  v[<<x[2], h - 1 - x[1]>>] = View(w, h, TRUE, ~my, mx)[x]
    <3>1. x[1] \in 0..(h - 1) /\ x[2] \in 0..(w - 1)
      BY DEF Pixels
    <3>2. h - 1 - x[1] \in 0..(h - 1) /\ Turn(my, h, h - 1 - x[1]) = Turn(~my, h, x[1])
      BY <3>1, TurnTwice
    <3>3. <<x[2], h - 1 - x[1]>> \in Pixels(w, h)
      BY <3>1, <3>2 DEF Pixels
    <3>4. v[<<x[2], h - 1 - x[1]>>] = <<Turn(mx, w, x[2]), Turn(my, h, h - 1 - x[1])>>
      BY <3>3, <1>2 DEF View
    <3>5. View(w, h, TRUE, ~my, mx)[x] = <<Turn(mx, w, x[2]), Turn(~my, h, x[1])>>
      BY DEF View
    <3> QED BY <3>2, <3>4, <3>5
  <2>4. View(w, h, TRUE, ~my, mx) = [x \in Pixels(h, w) |-> View(w, h, TRUE, ~my, mx)[x]]
    BY DEF View
  <2> HIDE DEF v
  <2>5. Clockwise(v) = View(w, h, TRUE, ~my, mx)
    BY <2>2, <2>3, <2>4
  <2> QED BY <2>5, <1>2 DEF v
<1> QED BY <1>1, <1>2

LEMMA ViewCounterclockwise ==
  ASSUME NEW w \in Nat \ {0}, NEW h \in Nat \ {0}, NEW axes \in BOOLEAN, NEW my \in BOOLEAN, NEW mx \in BOOLEAN
  PROVE  Counterclockwise(View(w, h, axes, my, mx)) =
           IF axes THEN View(w, h, FALSE, ~my, mx) ELSE View(w, h, TRUE, my, ~mx)
<1> DEFINE v == View(w, h, axes, my, mx)
<1>1. CASE axes
  <2>1. Width(v) = h /\ Height(v) = w
    <3>1. Width(v) = (IF axes THEN h ELSE w) /\ Height(v) = (IF axes THEN w ELSE h)
      BY ViewSize
    <3> HIDE DEF v
    <3> QED BY <1>1, <3>1
  <2>2. Counterclockwise(v) = [x \in Pixels(w, h) |-> v[<<h - 1 - x[2], x[1]>>]]
    <3> HIDE DEF v
    <3> QED BY <2>1 DEF Counterclockwise
  <2>3. ASSUME NEW x \in Pixels(w, h)
        PROVE  v[<<h - 1 - x[2], x[1]>>] = View(w, h, FALSE, ~my, mx)[x]
    <3>1. x[1] \in 0..(w - 1) /\ x[2] \in 0..(h - 1)
      BY DEF Pixels
    <3>2. h - 1 - x[2] \in 0..(h - 1) /\ Turn(my, h, h - 1 - x[2]) = Turn(~my, h, x[2])
      BY <3>1, TurnTwice
    <3>3. <<h - 1 - x[2], x[1]>> \in Pixels(h, w)
      BY <3>1, <3>2 DEF Pixels
    <3>4. v[<<h - 1 - x[2], x[1]>>] = <<Turn(mx, w, x[1]), Turn(my, h, h - 1 - x[2])>>
      BY <3>3, <1>1 DEF View
    <3>5. View(w, h, FALSE, ~my, mx)[x] = <<Turn(mx, w, x[1]), Turn(~my, h, x[2])>>
      BY DEF View
    <3> QED BY <3>2, <3>4, <3>5
  <2>4. View(w, h, FALSE, ~my, mx) = [x \in Pixels(w, h) |-> View(w, h, FALSE, ~my, mx)[x]]
    BY DEF View
  <2> HIDE DEF v
  <2>5. Counterclockwise(v) = View(w, h, FALSE, ~my, mx)
    BY <2>2, <2>3, <2>4
  <2> QED BY <2>5, <1>1 DEF v
<1>2. CASE ~axes
  <2>1. Width(v) = w /\ Height(v) = h
    BY <1>2, ViewSize
  <2>2. Counterclockwise(v) = [x \in Pixels(h, w) |-> v[<<w - 1 - x[2], x[1]>>]]
    <3> HIDE DEF v
    <3> QED BY <2>1 DEF Counterclockwise
  <2>3. ASSUME NEW x \in Pixels(h, w)
        PROVE  v[<<w - 1 - x[2], x[1]>>] = View(w, h, TRUE, my, ~mx)[x]
    <3>1. x[1] \in 0..(h - 1) /\ x[2] \in 0..(w - 1)
      BY DEF Pixels
    <3>2. w - 1 - x[2] \in 0..(w - 1) /\ Turn(mx, w, w - 1 - x[2]) = Turn(~mx, w, x[2])
      BY <3>1, TurnTwice
    <3>3. <<w - 1 - x[2], x[1]>> \in Pixels(w, h)
      BY <3>1, <3>2 DEF Pixels
    <3>4. v[<<w - 1 - x[2], x[1]>>] = <<Turn(mx, w, w - 1 - x[2]), Turn(my, h, x[1])>>
      BY <3>3, <1>2 DEF View
    <3>5. View(w, h, TRUE, my, ~mx)[x] = <<Turn(~mx, w, x[2]), Turn(my, h, x[1])>>
      BY DEF View
    <3> QED BY <3>2, <3>4, <3>5
  <2>4. View(w, h, TRUE, my, ~mx) = [x \in Pixels(h, w) |-> View(w, h, TRUE, my, ~mx)[x]]
    BY DEF View
  <2> HIDE DEF v
  <2>5. Counterclockwise(v) = View(w, h, TRUE, my, ~mx)
    BY <2>2, <2>3, <2>4
  <2> QED BY <2>5, <1>2 DEF v
<1> QED BY <1>1, <1>2

LEMMA ViewMirrored ==
  ASSUME NEW w \in Nat \ {0}, NEW h \in Nat \ {0}
  PROVE  Mirrored(View(w, h, FALSE, FALSE, FALSE)) = View(w, h, FALSE, FALSE, TRUE)
<1> DEFINE v == View(w, h, FALSE, FALSE, FALSE)
<1>1. Width(v) = w
  BY ViewSize
<1>2. DOMAIN v = Pixels(w, h)
  BY DEF View
<1>3. Mirrored(v) = [x \in Pixels(w, h) |-> v[<<w - 1 - x[1], x[2]>>]]
  <2> HIDE DEF v
  <2> QED BY <1>1, <1>2 DEF Mirrored
<1>4. ASSUME NEW x \in Pixels(w, h)
      PROVE  v[<<w - 1 - x[1], x[2]>>] = View(w, h, FALSE, FALSE, TRUE)[x]
  <2>1. x[1] \in 0..(w - 1) /\ x[2] \in 0..(h - 1)
    BY DEF Pixels
  <2>2. w - 1 - x[1] \in 0..(w - 1)
    BY <2>1
  <2>3. <<w - 1 - x[1], x[2]>> \in Pixels(w, h)
    BY <2>1, <2>2 DEF Pixels
  <2>4. v[<<w - 1 - x[1], x[2]>>] = <<w - 1 - x[1], x[2]>>
    BY <2>3 DEF View, Turn
  <2>5. View(w, h, FALSE, FALSE, TRUE)[x] = <<w - x[1] - 1, x[2]>>
    BY DEF View, Turn
  <2>6. w - 1 - x[1] = w - x[1] - 1
    BY <2>1
  <2> QED BY <2>4, <2>5, <2>6
<1>5. View(w, h, FALSE, FALSE, TRUE) = [x \in Pixels(w, h) |-> View(w, h, FALSE, FALSE, TRUE)[x]]
  BY DEF View
<1> HIDE DEF v
<1>6. Mirrored(v) = View(w, h, FALSE, FALSE, TRUE)
  BY <1>3, <1>4, <1>5
<1> QED BY <1>6 DEF v

(* An image as it is opened is such a picture, and what the buttons and    *)
(* the presets do to the bits they do to the picture.                      *)
LEMMA OpenedIsView ==
  ASSUME NEW s \in Sizes, NEW o \in Orientations
  PROVE  Opened(s, o) = View(s[1], s[2], Has(o, 4), Has(o, 2), Has(o, 1))
<1>1. s[1] \in Nat \ {0} /\ s[2] \in Nat \ {0} /\ s = <<s[1], s[2]>>
  BY FlipSizes
<1> DEFINE w == s[1]  h == s[2]
<1>2. CASE Has(o, 4)
  <2>1. OutSize(o, s) = <<h, w>>
    BY <1>2 DEF OutSize
  <2>2. OutSize(o, <<h, w>>) = <<w, h>>
    BY <1>2 DEF OutSize
  <2>3. Opened(s, o) = [x \in Pixels(h, w) |-> Backtransform(x, o, h, w)]
    BY <2>1 DEF Opened
  <2>4. \A x : Backtransform(x, o, h, w) = <<Turn(Has(o, 1), w, x[2]), Turn(Has(o, 2), h, x[1])>>
    BY <2>2, <1>2 DEF Backtransform, Turn
  <2>5. View(w, h, Has(o, 4), Has(o, 2), Has(o, 1))
          = [x \in Pixels(h, w) |-> <<Turn(Has(o, 1), w, x[2]), Turn(Has(o, 2), h, x[1])>>]
    BY <1>2 DEF View
  <2> QED BY <2>3, <2>4, <2>5
<1>3. CASE ~Has(o, 4)
  <2>1. OutSize(o, s) = <<w, h>>
    BY <1>1, <1>3 DEF OutSize
  <2>2. OutSize(o, <<w, h>>) = <<w, h>>
    BY <1>3 DEF OutSize
  <2>3. Opened(s, o) = [x \in Pixels(w, h) |-> Backtransform(x, o, w, h)]
    BY <2>1 DEF Opened
  <2>4. \A x : Backtransform(x, o, w, h) = <<Turn(Has(o, 1), w, x[1]), Turn(Has(o, 2), h, x[2])>>
    BY <2>2, <1>3 DEF Backtransform, Turn
  <2>5. View(w, h, Has(o, 4), Has(o, 2), Has(o, 1))
          = [x \in Pixels(w, h) |-> <<Turn(Has(o, 1), w, x[1]), Turn(Has(o, 2), h, x[2])>>]
    BY <1>3 DEF View
  <2> QED BY <2>3, <2>4, <2>5
<1> QED BY <1>2, <1>3

LEMMA RotatedBits ==
  ASSUME NEW o \in Orientations, NEW cw \in BOOLEAN
  PROVE  /\ Rotated(o, cw) \in Orientations
         /\ Has(Rotated(o, cw), 4) <=> ~Has(o, 4)
         /\ Has(Rotated(o, cw), 2) <=> IF cw = Has(o, 4) THEN Has(o, 2) ELSE ~Has(o, 2)
         /\ Has(Rotated(o, cw), 1) <=> IF cw = Has(o, 4) THEN ~Has(o, 1) ELSE Has(o, 1)
<1>1. CASE cw = Has(o, 4)
  <2>1. Rotated(o, cw) = Xor(Xor(o, 1), 4)
    BY <1>1 DEF Rotated
  <2>2. Xor(o, 1) \in Orientations
    BY XorFlips
  <2> DEFINE y == Xor(o, 1)
  <2>3. (Has(y, 4) <=> Has(o, 4)) /\ (Has(y, 2) <=> Has(o, 2)) /\ (Has(y, 1) <=> ~Has(o, 1))
    BY XorFlips
  <2> HIDE DEF y
  <2>4. /\ Xor(y, 4) \in Orientations
        /\ (Has(Xor(y, 4), 4) <=> ~Has(y, 4)) /\ (Has(Xor(y, 4), 2) <=> Has(y, 2)) /\ (Has(Xor(y, 4), 1) <=> Has(y, 1))
    BY <2>2, XorFlips DEF y
  <2>5. Rotated(o, cw) = Xor(y, 4)
    BY <2>1 DEF y
  <2> QED BY <1>1, <2>3, <2>4, <2>5, Zenon
<1>2. CASE cw # Has(o, 4)
  <2>1. Rotated(o, cw) = Xor(Xor(o, 2), 4)
    BY <1>2 DEF Rotated
  <2>2. Xor(o, 2) \in Orientations
    BY XorFlips
  <2> DEFINE y == Xor(o, 2)
  <2>3. (Has(y, 4) <=> Has(o, 4)) /\ (Has(y, 2) <=> ~Has(o, 2)) /\ (Has(y, 1) <=> Has(o, 1))
    BY XorFlips
  <2> HIDE DEF y
  <2>4. /\ Xor(y, 4) \in Orientations
        /\ (Has(Xor(y, 4), 4) <=> ~Has(y, 4)) /\ (Has(Xor(y, 4), 2) <=> Has(y, 2)) /\ (Has(Xor(y, 4), 1) <=> Has(y, 1))
    BY <2>2, XorFlips DEF y
  <2>5. Rotated(o, cw) = Xor(y, 4)
    BY <2>1 DEF y
  <2> QED BY <1>2, <2>3, <2>4, <2>5, Zenon
<1> QED BY <1>1, <1>2

LEMMA TurnedBegins == FlipInit => TurnedInv
BY OpenedIsView DEF FlipInit, TurnedInv, Orientations

LEMMA TurnedStep == TurnedInv /\ [FlipNext]_flipVars => TurnedInv'
<1> SUFFICES ASSUME TurnedInv, [FlipNext]_flipVars PROVE TurnedInv'
  OBVIOUS
<1> DEFINE o == orientation
           w == size[1]
           h == size[2]
<1>1. size \in Sizes /\ o \in Orientations /\ picture = View(w, h, Has(o, 4), Has(o, 2), Has(o, 1))
  BY DEF TurnedInv
<1>2. w \in Nat \ {0} /\ h \in Nat \ {0} /\ size = <<w, h>>
  BY <1>1, FlipSizes
<1>3. Has(o, 4) \in BOOLEAN /\ Has(o, 2) \in BOOLEAN /\ Has(o, 1) \in BOOLEAN
  BY DEF Has
<1>4. ASSUME NEW cw \in BOOLEAN, Rotate(cw)
      PROVE  TurnedInv'
  <2> DEFINE n == Rotated(o, cw)
  <2>1. n \in Orientations
    BY <1>1, RotatedBits
  <2>2. /\ orientation' = n /\ size' = size
        /\ picture' = IF cw THEN Clockwise(picture) ELSE Counterclockwise(picture)
    BY <1>4 DEF Rotate
  <2>3. Has(n, 4) \in BOOLEAN /\ Has(n, 2) \in BOOLEAN /\ Has(n, 1) \in BOOLEAN
    BY DEF Has
  <2>4. Has(n, 4) = ~Has(o, 4)
    BY <1>1, <1>3, <2>3, RotatedBits
  <2>5. /\ cw = Has(o, 4) => Has(n, 2) = Has(o, 2) /\ Has(n, 1) = ~Has(o, 1)
        /\ cw # Has(o, 4) => Has(n, 2) = ~Has(o, 2) /\ Has(n, 1) = Has(o, 1)
    BY <1>1, <1>3, <2>3, RotatedBits
  <2>6. Clockwise(picture) =
          IF Has(o, 4) THEN View(w, h, FALSE, Has(o, 2), ~Has(o, 1)) ELSE View(w, h, TRUE, ~Has(o, 2), Has(o, 1))
    <3>1. \A a, b, c \in BOOLEAN : Clockwise(View(w, h, a, b, c)) = IF a THEN View(w, h, FALSE, b, ~c) ELSE View(w, h, TRUE, ~b, c)
      BY <1>2, ViewClockwise
    <3>2. Clockwise(View(w, h, Has(o, 4), Has(o, 2), Has(o, 1))) =
          IF Has(o, 4) THEN View(w, h, FALSE, Has(o, 2), ~Has(o, 1)) ELSE View(w, h, TRUE, ~Has(o, 2), Has(o, 1))
      BY <1>3, <3>1, Zenon
    <3> QED BY <1>1, <3>2
  <2>7. Counterclockwise(picture) =
          IF Has(o, 4) THEN View(w, h, FALSE, ~Has(o, 2), Has(o, 1)) ELSE View(w, h, TRUE, Has(o, 2), ~Has(o, 1))
    <3>1. \A a, b, c \in BOOLEAN : Counterclockwise(View(w, h, a, b, c)) = IF a THEN View(w, h, FALSE, ~b, c) ELSE View(w, h, TRUE, b, ~c)
      BY <1>2, ViewCounterclockwise
    <3>2. Counterclockwise(View(w, h, Has(o, 4), Has(o, 2), Has(o, 1))) =
          IF Has(o, 4) THEN View(w, h, FALSE, ~Has(o, 2), Has(o, 1)) ELSE View(w, h, TRUE, Has(o, 2), ~Has(o, 1))
      BY <1>3, <3>1, Zenon
    <3> QED BY <1>1, <3>2
  <2> HIDE DEF n
  <2>8. picture' = View(w, h, Has(n, 4), Has(n, 2), Has(n, 1))
    <3>1. CASE cw /\ Has(o, 4)
      BY <3>1, <1>3, <2>2, <2>4, <2>5, <2>6
    <3>2. CASE cw /\ ~Has(o, 4)
      BY <3>2, <1>3, <2>2, <2>4, <2>5, <2>6
    <3>3. CASE ~cw /\ Has(o, 4)
      BY <3>3, <1>3, <2>2, <2>4, <2>5, <2>7
    <3>4. CASE ~cw /\ ~Has(o, 4)
      BY <3>4, <1>3, <2>2, <2>4, <2>5, <2>7
    <3> QED BY <3>1, <3>2, <3>3, <3>4
  <2> QED BY <2>1, <2>2, <2>8, <1>1 DEF TurnedInv
<1>5. Original(size) = View(w, h, FALSE, FALSE, FALSE)
  <2>1. \A x \in Pixels(w, h) : x = <<x[1], x[2]>>
    BY DEF Pixels
  <2>2. View(w, h, FALSE, FALSE, FALSE) = [x \in Pixels(w, h) |-> <<x[1], x[2]>>]
    BY DEF View, Turn
  <2>3. Original(size) = [x \in Pixels(w, h) |-> x]
    BY DEF Original
  <2> QED BY <2>1, <2>2, <2>3
<1>6. CASE Preset
  <2> DEFINE p == Original(size)
  <2>1. Mirrored(p) = View(w, h, FALSE, FALSE, TRUE)
    BY <1>2, <1>5, ViewMirrored
  <2>2. /\ Clockwise(p) = View(w, h, TRUE, TRUE, FALSE)
        /\ Counterclockwise(p) = View(w, h, TRUE, FALSE, TRUE)
    <3>1. /\ Clockwise(View(w, h, FALSE, FALSE, FALSE)) = View(w, h, TRUE, ~FALSE, FALSE)
          /\ Counterclockwise(View(w, h, FALSE, FALSE, FALSE)) = View(w, h, TRUE, FALSE, ~FALSE)
      BY <1>2, ViewClockwise, ViewCounterclockwise
    <3> QED BY <3>1, <1>5
  <2>3. Clockwise(Clockwise(p)) = View(w, h, FALSE, TRUE, TRUE)
    <3>1. Clockwise(View(w, h, TRUE, TRUE, FALSE)) = View(w, h, FALSE, TRUE, ~FALSE)
      BY <1>2, ViewClockwise
    <3> QED BY <3>1, <2>2
  <2>4. Clockwise(Clockwise(Mirrored(p))) = View(w, h, FALSE, TRUE, FALSE)
    <3>1. Clockwise(View(w, h, FALSE, FALSE, TRUE)) = View(w, h, TRUE, ~FALSE, TRUE)
      BY <1>2, ViewClockwise
    <3>2. Clockwise(View(w, h, TRUE, TRUE, TRUE)) = View(w, h, FALSE, TRUE, ~TRUE)
      BY <1>2, ViewClockwise
    <3> QED BY <3>1, <3>2, <2>1
  <2>5. /\ \/ orientation' = 1 /\ picture' = View(w, h, FALSE, FALSE, TRUE)
           \/ orientation' = 2 /\ picture' = View(w, h, FALSE, TRUE, FALSE)
           \/ orientation' = 6 /\ picture' = View(w, h, TRUE, TRUE, FALSE)
           \/ orientation' = 5 /\ picture' = View(w, h, TRUE, FALSE, TRUE)
           \/ orientation' = 3 /\ picture' = View(w, h, FALSE, TRUE, TRUE)
        /\ size' = size
    BY <1>6, <2>1, <2>2, <2>3, <2>4, Zenon DEF Preset
  <2>6. orientation' \in Orientations
    <3>1. orientation' \in {1, 2, 3, 5, 6}
      BY <2>5, Zenon
    <3> QED BY <3>1 DEF Orientations
  <2>7. /\ Has(orientation', 4) \in BOOLEAN /\ Has(orientation', 2) \in BOOLEAN
        /\ Has(orientation', 1) \in BOOLEAN
    BY DEF Has
  <2>8. picture' = View(w, h, Has(orientation', 4), Has(orientation', 2), Has(orientation', 1))
    <3>1. CASE orientation' = 1 /\ picture' = View(w, h, FALSE, FALSE, TRUE)
      <4>1. ~Has(orientation', 4) /\ ~Has(orientation', 2) /\ Has(orientation', 1)
        <5>1. orientation' = 1
          BY <3>1
        <5> QED BY <5>1, <2>6, BitsOf
      <4> QED BY <3>1, <4>1, <2>7, Zenon
    <3>2. CASE orientation' = 2 /\ picture' = View(w, h, FALSE, TRUE, FALSE)
      <4>1. ~Has(orientation', 4) /\ Has(orientation', 2) /\ ~Has(orientation', 1)
        <5>1. orientation' = 2
          BY <3>2
        <5> QED BY <5>1, <2>6, BitsOf
      <4> QED BY <3>2, <4>1, <2>7, Zenon
    <3>3. CASE orientation' = 6 /\ picture' = View(w, h, TRUE, TRUE, FALSE)
      <4>1. Has(orientation', 4) /\ Has(orientation', 2) /\ ~Has(orientation', 1)
        <5>1. orientation' = 6
          BY <3>3
        <5> QED BY <5>1, <2>6, BitsOf
      <4> QED BY <3>3, <4>1, <2>7, Zenon
    <3>4. CASE orientation' = 5 /\ picture' = View(w, h, TRUE, FALSE, TRUE)
      <4>1. Has(orientation', 4) /\ ~Has(orientation', 2) /\ Has(orientation', 1)
        <5>1. orientation' = 5
          BY <3>4
        <5> QED BY <5>1, <2>6, BitsOf
      <4> QED BY <3>4, <4>1, <2>7, Zenon
    <3>5. CASE orientation' = 3 /\ picture' = View(w, h, FALSE, TRUE, TRUE)
      <4>1. ~Has(orientation', 4) /\ Has(orientation', 2) /\ Has(orientation', 1)
        <5>1. orientation' = 3
          BY <3>5
        <5> QED BY <5>1, <2>6, BitsOf
      <4> QED BY <3>5, <4>1, <2>7, Zenon
    <3> QED BY <2>5, <3>1, <3>2, <3>3, <3>4, <3>5, Zenon
  <2> QED BY <1>1, <2>5, <2>6, <2>8 DEF TurnedInv
<1>7. CASE Open
  BY <1>7, OpenedIsView DEF Open, TurnedInv, Orientations
<1>8. CASE UNCHANGED flipVars
  BY <1>8 DEF flipVars, TurnedInv
<1> QED BY <1>4, <1>6, <1>7, <1>8 DEF FlipNext

----------------------------------------------------------------------------
(* A stretch of an axis stays one when it is mirrored, and the operation   *)
(* finds its ends.                                                         *)
Lowest(S) == CHOOSE i \in S : \A j \in S : i <= j
Highest(S) == CHOOSE i \in S : \A j \in S : i >= j

LEMMA TurnedStretch ==
  \A m \in BOOLEAN : \A n, lo, hi \in Int : lo <= hi =>
    Lowest({Turn(m, n, lo), Turn(m, n, hi)})..Highest({Turn(m, n, lo), Turn(m, n, hi)}) = {Turn(m, n, t) : t \in lo..hi}
<1> SUFFICES ASSUME NEW m \in BOOLEAN, NEW n \in Int, NEW lo \in Int, NEW hi \in Int, lo <= hi
             PROVE  Lowest({Turn(m, n, lo), Turn(m, n, hi)})..Highest({Turn(m, n, lo), Turn(m, n, hi)})
                      = {Turn(m, n, t) : t \in lo..hi}
  OBVIOUS
<1> DEFINE S == {Turn(m, n, lo), Turn(m, n, hi)}
           l == IF m THEN n - hi - 1 ELSE lo
           u == IF m THEN n - lo - 1 ELSE hi
<1>1. S = {l, u} /\ l \in Int /\ u \in Int /\ l <= u
  BY DEF Turn
<1>2. Lowest(S) = l /\ Highest(S) = u
  <2> HIDE DEF S, l, u
  <2> QED BY <1>1 DEF Lowest, Highest
<1>3. l..u = {Turn(m, n, t) : t \in lo..hi}
  <2>1. CASE m
    <3>1. ASSUME NEW k \in l..u PROVE \E t \in lo..hi : k = n - t - 1
      <4>1. n - k - 1 \in lo..hi /\ k = n - (n - k - 1) - 1
        BY <2>1
      <4> QED BY <4>1
    <3>2. ASSUME NEW t \in lo..hi PROVE n - t - 1 \in l..u
      BY <2>1
    <3>3. {Turn(m, n, t) : t \in lo..hi} = {n - t - 1 : t \in lo..hi}
      BY <2>1 DEF Turn
    <3> HIDE DEF l, u
    <3> QED BY <3>1, <3>2, <3>3
  <2>2. CASE ~m
    BY <2>2 DEF Turn
  <2> QED BY <2>1, <2>2
<1> QED BY <1>2, <1>3, Zenon

LEMMA FourCorners ==
  ASSUME NEW t1, NEW t2, NEW u1, NEW u2, NEW c, c = {<<t1, u1>>, <<t1, u2>>, <<t2, u1>>, <<t2, u2>>}
  PROVE  {p[1] : p \in c} = {t1, t2} /\ {p[2] : p \in c} = {u1, u2}
<1>1. <<t1, u1>> \in c /\ <<t2, u2>> \in c
  OBVIOUS
<1>2. \A p \in c : p[1] \in {t1, t2} /\ p[2] \in {u1, u2}
  OBVIOUS
<1>3. <<t1, u1>>[1] = t1 /\ <<t2, u2>>[1] = t2 /\ <<t1, u1>>[2] = u1 /\ <<t2, u2>>[2] = u2
  OBVIOUS
<1> QED BY <1>1, <1>2, <1>3

(***************************************************************************)
(* For every size of the image and every sequence of turns, presets and    *)
(* images: the region of the input that the operation asks for is the one  *)
(* the user has turned into the region of the output.                      *)
(***************************************************************************)
THEOREM FlipRegionAsTurned == FlipSpec => []RegionAsTurned
<1>1. TurnedInv => RegionAsTurned
  <2> SUFFICES ASSUME TurnedInv, NEW a \in DOMAIN picture, NEW b \in DOMAIN picture, a[1] <= b[1], a[2] <= b[2]
               PROVE  LET r == RoiIn(<<a[1], a[2], b[1], b[2]>>, orientation, OutSize(orientation, size))
                      IN  (r[1]..r[3]) \X (r[2]..r[4]) = {picture[x] : x \in (a[1]..b[1]) \X (a[2]..b[2])}
    BY DEF RegionAsTurned
  <2> DEFINE o == orientation
             w == size[1]
             h == size[2]
             outer == OutSize(o, size)
             W == IF Has(o, 4) THEN h ELSE w
             H == IF Has(o, 4) THEN w ELSE h
             X(p) == Turn(Has(o, 1), w, IF Has(o, 4) THEN p[2] ELSE p[1])
             Y(p) == Turn(Has(o, 2), h, IF Has(o, 4) THEN p[1] ELSE p[2])
  <2>1. /\ w \in Nat \ {0} /\ h \in Nat \ {0} /\ size = <<w, h>>
        /\ picture = View(w, h, Has(o, 4), Has(o, 2), Has(o, 1))
    BY FlipSizes DEF TurnedInv
  <2>2. picture = [x \in Pixels(W, H) |-> <<X(x), Y(x)>>]
    BY <2>1 DEF View
  <2>3. a[1] \in 0..(W - 1) /\ a[2] \in 0..(H - 1) /\ b[1] \in 0..(W - 1) /\ b[2] \in 0..(H - 1)
    BY <2>2 DEF Pixels
  <2>4. W \in Nat \ {0} /\ H \in Nat \ {0}
    BY <2>1
  <2>5. \A p : Backtransform(p, o, outer[1], outer[2]) = <<X(p), Y(p)>>
    <3>1. CASE Has(o, 4)
      <4>1. outer[1] = h /\ outer[2] = w /\ OutSize(o, <<h, w>>) = <<w, h>>
        BY <3>1, <2>1 DEF OutSize
      <4> QED BY <3>1, <4>1 DEF Backtransform, Turn
    <3>2. CASE ~Has(o, 4)
      <4>1. outer[1] = w /\ outer[2] = h /\ OutSize(o, <<w, h>>) = <<w, h>>
        BY <3>2, <2>1 DEF OutSize
      <4> QED BY <3>2, <4>1 DEF Backtransform, Turn
    <3> QED BY <3>1, <3>2
  <2> DEFINE lx == IF Has(o, 4) THEN a[2] ELSE a[1]
             hx == IF Has(o, 4) THEN b[2] ELSE b[1]
             ly == IF Has(o, 4) THEN a[1] ELSE a[2]
             hy == IF Has(o, 4) THEN b[1] ELSE b[2]
             Tx(t) == Turn(Has(o, 1), w, t)
             Ty(t) == Turn(Has(o, 2), h, t)
             A == {Tx(t) : t \in lx..hx}
             B == {Ty(t) : t \in ly..hy}
             turned == (a[1]..b[1]) \X (a[2]..b[2])
  <2>6. lx \in Int /\ hx \in Int /\ ly \in Int /\ hy \in Int /\ lx <= hx /\ ly <= hy
    BY <2>3
  <2>7. \A x, y : Backtransform(<<x, y>>, o, outer[1], outer[2])
                   = <<Tx(IF Has(o, 4) THEN y ELSE x), Ty(IF Has(o, 4) THEN x ELSE y)>>
    BY <2>5
  <2>8. turned \subseteq Pixels(W, H)
    BY <2>3, <2>4 DEF Pixels
  <2>9. \A t, u : t \in lx..hx /\ u \in ly..hy <=> (IF Has(o, 4) THEN <<u, t>> ELSE <<t, u>>) \in turned
    OBVIOUS
  <2>10. \A t, u : t \in lx..hx /\ u \in ly..hy
                     => picture[IF Has(o, 4) THEN <<u, t>> ELSE <<t, u>>] = <<Tx(t), Ty(u)>>
    <3> TAKE t, u
    <3> HAVE t \in lx..hx /\ u \in ly..hy
    <3> DEFINE x == IF Has(o, 4) THEN <<u, t>> ELSE <<t, u>>
    <3>1. x \in Pixels(W, H)
      BY <2>8, <2>9
    <3>2. picture[x] = <<X(x), Y(x)>>
      BY <2>2, <3>1
    <3>3. X(x) = Tx(t) /\ Y(x) = Ty(u)
      OBVIOUS
    <3> QED BY <3>2, <3>3
  <2>11. {picture[x] : x \in turned} = A \X B
    <3>1. ASSUME NEW z \in A \X B PROVE z \in {picture[x] : x \in turned}
      <4>1. PICK t \in lx..hx, u \in ly..hy : z = <<Tx(t), Ty(u)>>
        OBVIOUS
      <4> QED BY <4>1, <2>9, <2>10
    <3>2. ASSUME NEW x \in turned PROVE picture[x] \in A \X B
      <4> DEFINE t == IF Has(o, 4) THEN x[2] ELSE x[1]
                 u == IF Has(o, 4) THEN x[1] ELSE x[2]
      <4>1. x = (IF Has(o, 4) THEN <<u, t>> ELSE <<t, u>>) /\ t \in lx..hx /\ u \in ly..hy
        OBVIOUS
      <4>2. picture[x] = <<Tx(t), Ty(u)>>
        BY <4>1, <2>10
      <4> QED BY <4>1, <4>2
    <3> QED BY <3>1, <3>2
  <2> DEFINE c == {Backtransform(<<x, y>>, o, outer[1], outer[2]) : x \in {a[1], b[1]}, y \in {a[2], b[2]}}
  <2>12. {p[1] : p \in c} = {Tx(lx), Tx(hx)} /\ {p[2] : p \in c} = {Ty(ly), Ty(hy)}
    <3>1. c = {<<Tx(lx), Ty(ly)>>, <<Tx(lx), Ty(hy)>>, <<Tx(hx), Ty(ly)>>, <<Tx(hx), Ty(hy)>>}
      <4>1. CASE Has(o, 4)
        <5>1. c = {<<Tx(y), Ty(x)>> : x \in {a[1], b[1]}, y \in {a[2], b[2]}}
          BY <4>1, <2>7
        <5>2. lx = a[2] /\ hx = b[2] /\ ly = a[1] /\ hy = b[1]
          BY <4>1
        <5> HIDE DEF c, Tx, Ty, lx, hx, ly, hy
        <5> QED BY <5>1, <5>2
      <4>2. CASE ~Has(o, 4)
        <5>1. c = {<<Tx(x), Ty(y)>> : x \in {a[1], b[1]}, y \in {a[2], b[2]}}
          BY <4>2, <2>7
        <5>2. lx = a[1] /\ hx = b[1] /\ ly = a[2] /\ hy = b[2]
          BY <4>2
        <5> HIDE DEF c, Tx, Ty, lx, hx, ly, hy
        <5> QED BY <5>1, <5>2
      <4> HIDE DEF c, Tx, Ty, lx, hx, ly, hy
      <4> QED BY <4>1, <4>2
    <3> HIDE DEF c, Tx, Ty, lx, hx, ly, hy
    <3> QED BY <3>1, FourCorners
  <2>13. Has(o, 1) \in BOOLEAN /\ Has(o, 2) \in BOOLEAN
    BY DEF Has
  <2>14. /\ Lowest({Tx(lx), Tx(hx)})..Highest({Tx(lx), Tx(hx)}) = A
         /\ Lowest({Ty(ly), Ty(hy)})..Highest({Ty(ly), Ty(hy)}) = B
    <3>1. w \in Int /\ h \in Int
      BY <2>1
    <3>2. \A m \in BOOLEAN : Lowest({Turn(m, w, lx), Turn(m, w, hx)})..Highest({Turn(m, w, lx), Turn(m, w, hx)})
                            = {Turn(m, w, t) : t \in lx..hx}
      <4> HIDE DEF lx, hx, ly, hy, w, h, Tx, Ty, A, B, c, turned, o, W, H, X, Y, outer
      <4>1. w \in Int /\ lx \in Int /\ hx \in Int /\ lx <= hx
        BY <3>1, <2>6
      <4> TAKE m \in BOOLEAN
      <4>2. \A lo, hi \in Int : lo <= hi => Lowest({Turn(m, w, lo), Turn(m, w, hi)})..Highest({Turn(m, w, lo), Turn(m, w, hi)})
                                               = {Turn(m, w, t) : t \in lo..hi}
        BY <4>1, TurnedStretch, Zenon
      <4> QED BY <4>1, <4>2, Zenon
    <3>3. \A m \in BOOLEAN : Lowest({Turn(m, h, ly), Turn(m, h, hy)})..Highest({Turn(m, h, ly), Turn(m, h, hy)})
                            = {Turn(m, h, t) : t \in ly..hy}
      <4> HIDE DEF lx, hx, ly, hy, w, h, Tx, Ty, A, B, c, turned, o, W, H, X, Y, outer
      <4>1. h \in Int /\ ly \in Int /\ hy \in Int /\ ly <= hy
        BY <3>1, <2>6
      <4> TAKE m \in BOOLEAN
      <4>2. \A lo, hi \in Int : lo <= hi => Lowest({Turn(m, h, lo), Turn(m, h, hi)})..Highest({Turn(m, h, lo), Turn(m, h, hi)})
                                               = {Turn(m, h, t) : t \in lo..hi}
        BY <4>1, TurnedStretch, Zenon
      <4> QED BY <4>1, <4>2, Zenon
    <3> HIDE DEF lx, hx, ly, hy, w, h
    <3> QED BY <3>2, <3>3, <2>13, Zenon
  <2> DEFINE r == RoiIn(<<a[1], a[2], b[1], b[2]>>, o, outer)
  <2>15. r = <<Lowest({p[1] : p \in c}), Lowest({p[2] : p \in c}), Highest({p[1] : p \in c}), Highest({p[2] : p \in c})>>
    <3> DEFINE q == <<a[1], a[2], b[1], b[2]>>
    <3>1. q[1] = a[1] /\ q[2] = a[2] /\ q[3] = b[1] /\ q[4] = b[2]
      OBVIOUS
    <3> DEFINE d(S, T) == {Backtransform(<<x, y>>, o, outer[1], outer[2]) : x \in S, y \in T}
    <3> HIDE DEF o, outer, q
    <3>2. RoiIn(q, o, outer)
            = <<Lowest({p[1] : p \in d({q[1], q[3]}, {q[2], q[4]})}), Lowest({p[2] : p \in d({q[1], q[3]}, {q[2], q[4]})}),
                Highest({p[1] : p \in d({q[1], q[3]}, {q[2], q[4]})}), Highest({p[2] : p \in d({q[1], q[3]}, {q[2], q[4]})})>>
      BY DEF RoiIn, Lowest, Highest
    <3>3. d({q[1], q[3]}, {q[2], q[4]}) = c
      <4>1. c = d({a[1], b[1]}, {a[2], b[2]})
        OBVIOUS
      <4> HIDE DEF c, d
      <4> QED BY <4>1, <3>1
    <3> HIDE DEF c, d
    <3> QED BY <3>2, <3>3 DEF q
  <2>16. r[1]..r[3] = A /\ r[2]..r[4] = B
    <3> HIDE DEF r, c, A, B, Tx, Ty, lx, hx, ly, hy
    <3> QED BY <2>12, <2>14, <2>15
  <2> HIDE DEF A, B, turned, r
  <2>17. (r[1]..r[3]) \X (r[2]..r[4]) = {picture[x] : x \in turned}
    BY <2>11, <2>16
  <2> QED BY <2>17 DEF turned, r
<1> QED BY <1>1, TurnedBegins, TurnedStep, PTL DEF FlipSpec

----------------------------------------------------------------------------
(* The exposure.                                                            *)
(* Levels that process can divide by. *)
Level == [black : Int, white : Int]
Processable == {l \in Level : l.black < l.white}

(* The inductive invariant: besides the levels and the items, what "auto"   *)
(* computes with must be numbers.                                           *)
ExposureInv ==
  /\ levels \in Processable /\ items \subseteq Processable
  /\ picked \in Int \X Int /\ clip \in Int

(* What the setters get and give back. *)
Settings == [l : Processable, made : SUBSET Processable]

(* The branches of the two setters keep black below white, the nested call  *)
(* included, and so does every item that is made on the way.                *)
LEMMA SetWhiteKeeps ==
  ASSUME NEW s \in Settings, NEW w \in Int
  PROVE  SetWhite(s, w) \in Settings
<1> DEFINE l == [black |-> s.l.black, white |-> Least1(w)]
           pushed == [black |-> w - 10, white |-> Least1(w)]
<1>1. /\ Least1(w) \in Int /\ w <= Least1(w)
      /\ s.l \in Level /\ s.made \subseteq Processable
  BY DEF Least1, Settings, Processable
<1>3. CASE s.l.white = Least1(w)
  BY <1>3 DEF SetWhite
<1>4. CASE s.l.white # Least1(w) /\ l.black >= w
  <2>1. pushed \in Processable
    BY <1>1 DEF Processable, Level
  <2>2. SetWhite(s, w) = [l |-> pushed, made |-> (s.made \cup {pushed}) \cup {pushed}]
    BY <1>4 DEF SetWhite, WithItem
  <2> QED BY <2>1, <2>2, <1>1 DEF Settings
<1>5. CASE s.l.white # Least1(w) /\ ~(l.black >= w)
  <2>1. l \in Processable
    BY <1>1, <1>5 DEF Processable, Level
  <2>2. SetWhite(s, w) = [l |-> l, made |-> s.made \cup {l}]
    BY <1>5 DEF SetWhite, WithItem
  <2> QED BY <2>1, <2>2, <1>1 DEF Settings
<1> QED BY <1>3, <1>4, <1>5

LEMMA SetBlackKeeps ==
  ASSUME NEW s \in Settings, NEW b \in Int
  PROVE  SetBlack(s, b) \in Settings
<1> DEFINE l == [black |-> b, white |-> s.l.white]
           pushed == [black |-> b, white |-> Least1(b + 10)]
<1>1. /\ Least1(b + 10) \in Int /\ b < Least1(b + 10)
      /\ s.l \in Level /\ s.made \subseteq Processable
  BY DEF Least1, Settings, Processable
<1>3. CASE s.l.black = b
  BY <1>3 DEF SetBlack
<1>4. CASE s.l.black # b /\ b >= l.white
  <2>1. pushed \in Processable
    BY <1>1 DEF Processable, Level
  <2>2. SetBlack(s, b) = [l |-> pushed, made |-> (s.made \cup {pushed}) \cup {pushed}]
    BY <1>4 DEF SetBlack, WithItem
  <2> QED BY <2>1, <2>2, <1>1 DEF Settings
<1>5. CASE s.l.black # b /\ ~(b >= l.white)
  <2>1. l \in Processable
    BY <1>1, <1>5 DEF Processable, Level
  <2>2. SetBlack(s, b) = [l |-> l, made |-> s.made \cup {l}]
    BY <1>5 DEF SetBlack, WithItem
  <2> QED BY <2>1, <2>2, <1>1 DEF Settings
<1> QED BY <1>3, <1>4, <1>5

(* The panel starts with the levels of a new image.                         *)
LEMMA ExposureStarts == ExposureInit => ExposureInv
  BY DEF ExposureInit, ExposureInv, Fresh, Unmeasured, Processable, Level

(* Every event keeps the invariant.                                         *)
LEMMA ExposureSteps == ExposureInv /\ [ExposureNext]_exposureVars => ExposureInv'
<1> SUFFICES ASSUME ExposureInv, [ExposureNext]_exposureVars PROVE ExposureInv'
  OBVIOUS
<1> USE ExposureConstants
<1>0. Now \in Settings /\ picked[1] \in Int /\ picked[2] \in Int /\ AutoWhite \in Int
  BY DEF ExposureInv, Now, Settings, AutoWhite
<1>t. ASSUME NEW s \in Settings, Take(s) PROVE levels' \in Processable /\ items' \subseteq Processable
  BY <1>t DEF Settings, Take
<1>1. ASSUME NEW w \in Whites, MoveWhite(w) PROVE ExposureInv'
  <2>1. SetWhite(Now, w) \in Settings
    BY <1>0, SetWhiteKeeps
  <2> QED BY <2>1, <1>1, <1>t DEF ExposureInv, MoveWhite
<1>2. ASSUME NEW b \in Blacks, MoveBlack(b) PROVE ExposureInv'
  <2>1. SetBlack(Now, b) \in Settings
    BY <1>0, SetBlackKeeps
  <2> QED BY <2>1, <1>2, <1>t DEF ExposureInv, MoveBlack
<1>3. CASE ToggleAuto
  BY <1>3 DEF ExposureInv, ToggleAuto
<1>4. ASSUME NEW c \in Clips, MoveClip(c) PROVE ExposureInv'
  <2>1. (picked[2] * (1000 - c)) \div 1000 \in Int /\ c \in Int
    BY <1>0
  <2>2. SetWhite(Now, (picked[2] * (1000 - c)) \div 1000) \in Settings
    BY <1>0, <2>1, SetWhiteKeeps
  <2>3. levels' \in Processable /\ items' \subseteq Processable
    BY <2>2, <1>4, <1>t DEF ExposureInv, MoveClip
  <2> QED BY <2>1, <2>3, <1>4 DEF ExposureInv, MoveClip
<1>5. ASSUME NEW a \in Areas, Measure(a) PROVE ExposureInv'
  BY <1>5 DEF ExposureInv, Measure
<1>6. CASE ReplaceParams(Fresh)
  BY <1>6 DEF ExposureInv, ReplaceParams, Fresh, Processable, Level
<1>7. CASE ExposeAuto
  <2>1. SetBlack(SetWhite(Now, AutoWhite), picked[1]) \in Settings
    BY <1>0, SetWhiteKeeps, SetBlackKeeps
  <2> QED BY <2>1, <1>7, <1>t DEF ExposureInv, ExposeAuto
<1>8. CASE ExposureRest \/ UNCHANGED exposureVars
  BY <1>8 DEF ExposureInv, ExposureRest, exposureVars
<1> QED BY <1>1, <1>2, <1>3, <1>4, <1>5, <1>6, <1>7, <1>8 DEF ExposureNext

(* Whatever the sliders, the histogram and "auto" ask for, and in whichever *)
(* order: the levels of the panel and every item of the history leave       *)
(* process a distance it can divide by.                                     *)
THEOREM ItemsProcessable == ExposureSpec => []EveryItemProcessable
<1>1. ExposureInv => EveryItemProcessable
  BY DEF ExposureInv, EveryItemProcessable, Processable
<1> QED BY <1>1, ExposureStarts, ExposureSteps, PTL DEF ExposureSpec
----------------------------------------------------------------------------
(* The crop.                                                                *)
Crop == [cx : Int, cw : Int, flipped : BOOLEAN]
Box == [x : Int, w : Int]
Item == [crop : Crop, enabled : BOOLEAN]

(* The inductive invariant.  The items of the history are crops, from which *)
(* any box can be made again; what a drag remembers are positions.          *)
CropInv ==
  /\ crop \in Crop /\ box \in Box /\ handle \in Int
  /\ crops \in Seq(Item)
  /\ enabled \in BOOLEAN
  /\ down = << >> \/ down \in Int \X Box
  /\ StoredAsDrawn

(* A box that is made from a crop is that crop.                             *)
LEMMA BoxIsCrop ==
  ASSUME NEW c \in Crop
  PROVE  /\ BoxOf(c) \in Box
         /\ c.cx = BoxOf(c).x
         /\ c.cw \in {BoxOf(c).x + BoxOf(c).w, -(BoxOf(c).x + BoxOf(c).w)}
  BY DEF BoxOf, Signed, Crop, Box

(* commit_box stores the box, whatever parameters it is given.              *)
LEMMA BoxIsStored ==
  ASSUME CropInv, NEW c \in Crop, NEW on \in BOOLEAN, BoxStored(c, on), UNCHANGED <<box, handle>>,
         down' = down \/ down' = << >>
  PROVE  CropInv'
<1>1. box.x \in Int /\ box.x + box.w \in Int
  BY DEF CropInv, Box
<1>2. /\ crop'.cx = box.x
      /\ crop'.cw \in {box.x + box.w, -(box.x + box.w)}
      /\ crop' \in Crop
  BY <1>1 DEF BoxStored, Crop
<1>3. enabled' \in BOOLEAN /\ crops' \in Seq(Item)
  <2>1. [crop |-> crop', enabled |-> TRUE] \in Item
    BY <1>2 DEF Item
  <2> QED BY <2>1 DEF BoxStored, CropInv
<1>4. StoredAsDrawn'
  BY <1>1, <1>2 DEF StoredAsDrawn
<1> QED BY <1>2, <1>3, <1>4 DEF CropInv

LEMMA CropStarts == CropInit => CropInv
<1> SUFFICES ASSUME CropInit PROVE CropInv
  OBVIOUS
<1> USE CropConstants
<1>1. PICK c \in {Uncropped, [cx |-> 2, cw |-> Full - 2, flipped |-> FALSE]}, on \in BOOLEAN :
        crop = c /\ enabled = on /\ crops = <<[crop |-> c, enabled |-> on]>> /\ box = BoxOf(c)
  BY DEF CropInit
<1>2. c \in Crop
  <2>1. Uncropped \in Crop /\ [cx |-> 2, cw |-> Full - 2, flipped |-> FALSE] \in Crop
    BY DEF Uncropped, Crop
  <2> QED BY <2>1
<1>3. [crop |-> c, enabled |-> on] \in Item
  BY <1>2 DEF Item
<1>4. box \in Box /\ StoredAsDrawn
  BY <1>1, <1>2, BoxIsCrop DEF StoredAsDrawn
<1>5. down = << >> /\ handle = 0
  BY DEF CropInit
<1> QED BY <1>1, <1>2, <1>3, <1>4, <1>5 DEF CropInv

(* A drag keeps the box one of positions, and edits it.                     *)
LEMMA MoveKeeps ==
  ASSUME CropInv, NEW p \in Pointers, Move(p)
  PROVE  CropInv'
<1> USE CropConstants
<1>1. /\ p \in Int /\ Full \in Int /\ Narrowest \in Int
      /\ box.x \in Int /\ box.w \in Int
      /\ down[1] \in Int /\ down[2].x \in Int /\ down[2].w \in Int
  BY DEF CropInv, Box, Move
<1>2. HandleAt(p) \in Int
  BY <1>1 DEF CropInv, HandleAt
<1>3. ASSUME NEW a \in Int, NEW b \in Int PROVE Greater(a, b) \in Int /\ Lesser(a, b) \in Int
  BY <1>3 DEF Greater, Lesser
<1>4. ASSUME NEW b \in Box PROVE Within(b) \in Box
  BY <1>1 DEF Within, Box
<1>5. ASSUME NEW g PROVE Scaled(p, g) \in Box
  <2>1. (IF "left" \in g THEN p - down[1] ELSE -(p - down[1])) \in Int
    BY <1>1
  <2> QED BY <2>1, <1>1 DEF Scaled, Box, Greater
<1>6. LeftMoved(box, p, HandleAt(p)) \in Box
  BY <1>1, <1>2 DEF LeftMoved, Box, Greater
<1>7. ASSUME NEW b \in Box PROVE RightMoved(b, p, HandleAt(p)) \in Box
  BY <1>1, <1>2 DEF RightMoved, Box, Greater, Lesser
<1>8. [box EXCEPT !.x = Lesser(Full - box.w, Greater(0, HandleAt(p) + p - down[1]))] \in Box
  <2> DEFINE y == Lesser(Full - box.w, Greater(0, HandleAt(p) + p - down[1]))
  <2>1. y \in Int
    BY <1>1, <1>2 DEF Greater, Lesser
  <2> HIDE DEF y
  <2>2. [box EXCEPT !.x = y] \in Box
    BY <2>1 DEF Box, CropInv
  <2> QED BY <2>2 DEF y
<1>9. box' \in Box
  <2>1. box \in Box
    BY DEF CropInv
  <2> QED BY <2>1, <1>4, <1>5, <1>6, <1>7, <1>8, Zenon DEF Move
<1>10. edited' /\ handle' \in Int /\ UNCHANGED <<crop, enabled, down, crops>>
  BY <1>2 DEF Move
<1> QED BY <1>9, <1>10 DEF CropInv, StoredAsDrawn

LEMMA CropSteps == CropInv /\ [CropNext]_cropVars => CropInv'
<1> SUFFICES ASSUME CropInv, [CropNext]_cropVars PROVE CropInv'
  OBVIOUS
<1> USE CropConstants
<1>0. [crop |-> crop, enabled |-> TRUE] \in Item /\ [crop |-> crop, enabled |-> FALSE] \in Item
  BY DEF CropInv, Item
<1>1. CASE CommitBox
  BY <1>1, BoxIsStored DEF CommitBox, CropInv
<1>2. CASE ToggleFlip
  <2>1. [crop EXCEPT !.flipped = ~@] \in Crop
    BY DEF CropInv, Crop
  <2> QED BY <1>2, <2>1, BoxIsStored DEF ToggleFlip
<1>3. CASE FocusIn
  <2>1. CASE enabled
    <3>1. box' \in Box /\ StoredAsDrawn'
      BY <1>3, <2>1, BoxIsCrop DEF FocusIn, BoxShown, CropInv, StoredAsDrawn
    <3>2. crops' \in Seq(Item)
      BY <1>0, <1>3, <2>1 DEF FocusIn, BoxShown, CropInv
    <3> QED BY <1>3, <3>1, <3>2 DEF FocusIn, CropInv
  <2>2. CASE ~enabled
    BY <1>3, <2>2 DEF FocusIn, CropInv, StoredAsDrawn
  <2> QED BY <2>1, <2>2
<1>4. CASE FocusOut
  <2>1. CASE enabled
    BY <1>4, <2>1, BoxIsStored DEF FocusOut, CropInv
  <2>2. CASE ~enabled
    BY <1>4, <2>2 DEF FocusOut, CropInv, StoredAsDrawn
  <2> QED BY <2>1, <2>2
<1>5. CASE SwitchOff
  <2>1. enabled' \in BOOLEAN
    BY <1>5 DEF SwitchOff
  <2>2. crops' \in Seq(Item)
    <3>1. crops \in Seq(Item) /\ crops' = Append(crops, [crop |-> crop, enabled |-> FALSE])
      BY <1>5 DEF SwitchOff, CropInv
    <3> QED BY <1>0, <3>1
  <2>3. StoredAsDrawn' /\ UNCHANGED <<crop, box, handle, down>>
    BY <1>5 DEF SwitchOff, CropInv, StoredAsDrawn
  <2> QED BY <2>1, <2>2, <2>3 DEF CropInv
<1>6. ASSUME NEW i \in DOMAIN crops, ChooseItem(i) PROVE CropInv'
  <2>1. crops[i] \in Item
    BY DEF CropInv
  <2>2. crop' \in Crop /\ enabled' \in BOOLEAN /\ box' = BoxOf(crop')
        /\ UNCHANGED <<handle, down, crops>>
    BY <2>1, <1>6 DEF ChooseItem, BoxReset, Item
  <2>3. box' \in Box /\ StoredAsDrawn'
    BY <2>2, BoxIsCrop DEF StoredAsDrawn
  <2> QED BY <2>2, <2>3 DEF CropInv
<1>7. ASSUME NEW p \in Pointers, NEW shift \in BOOLEAN, Press(p, shift) PROVE CropInv'
  <2>1. down' \in Int \X Box
    BY <1>7 DEF Press, CropInv
  <2>2. crops' \in Seq(Item)
    BY <1>0, <1>7 DEF Press, CropInv
  <2> QED BY <1>7, <2>1, <2>2 DEF Press, CropInv, StoredAsDrawn
<1>8. ASSUME NEW p \in Pointers, Move(p) PROVE CropInv'
  BY <1>8, MoveKeeps
<1>9. ASSUME NEW p \in Pointers, Hover(p) PROVE CropInv'
  BY <1>9 DEF Hover, CropInv, StoredAsDrawn
<1>10. CASE LetGo
  BY <1>10 DEF LetGo, CropInv, StoredAsDrawn
<1>11. CASE CropRest \/ UNCHANGED cropVars
  BY <1>11 DEF CropRest, cropVars, CropInv, StoredAsDrawn
<1>12. Reshape => box' \in Box /\ StoredAsDrawn'
  <2>1. \A b \in Reshaped : b \in Box
    BY DEF Reshaped, Box, CropInv, Greater
  <2> QED BY <2>1 DEF Reshape, StoredAsDrawn
<1>13. CASE SwapAspect
  BY <1>12, <1>13 DEF SwapAspect, CropInv
<1>14. CASE ChooseAspect
  <2>1. CASE ~focus /\ enabled
    <3>1. box' \in Box /\ StoredAsDrawn'
      BY <1>14, <2>1, BoxIsCrop DEF ChooseAspect, BoxShown, CropInv, StoredAsDrawn
    <3>2. crops' \in Seq(Item)
      BY <1>0, <1>14, <2>1 DEF ChooseAspect, BoxShown, CropInv
    <3> QED BY <1>14, <3>1, <3>2 DEF ChooseAspect, CropInv
  <2>2. CASE ~(~focus /\ enabled)
    BY <1>12, <1>14, <2>2 DEF ChooseAspect, CropInv
  <2> QED BY <2>1, <2>2
<1> QED BY <1>1, <1>2, <1>3, <1>4, <1>5, <1>6, <1>7, <1>8, <1>9, <1>10, <1>11, <1>13, <1>14 DEF CropNext

(* However the frame became what it is: committed on the way out or by a    *)
(* key, or taken from the parameters of another item, a box that the user   *)
(* has not changed since is stored, with the sign of the flip aside.        *)
THEOREM FrameIsStored == CropSpec => []StoredAsDrawn
<1>1. CropInv => StoredAsDrawn
  BY DEF CropInv
<1> QED BY <1>1, CropStarts, CropSteps, PTL DEF CropSpec

----------------------------------------------------------------------------
(* The tiles.                                                              *)
Tiling ==
  /\ method \in {"amaze", "cacorrect"} /\ height \in Heights /\ pass \in {1, 2}
  /\ method = "amaze" => pass = 2
  /\ top \in Int /\ (top = -Margin(method) \/ top >= 0) /\ stage \in Nat
  /\ DOMAIN tile = TileBuffers /\ DOMAIN out = 0..(height - 1)

(* Every row above the interior of the tile at hand has been written, and  *)
(* no row below.                                                           *)
Writing ==
  /\ \A r \in 0..(height - 1) :
       out[r] = IF ended = "corrected" \/ (ended = "no" /\ pass = 2 /\ r < top + Margin(method)) THEN 1 ELSE 0
  /\ ended \in {"no", "kept", "corrected"}

LEMMA Geometry ==
  /\ height \in Heights => height \in Nat /\ height > 16
  /\ method \in {"amaze", "cacorrect"} => /\ Margin(method) \in {8, 16} /\ TS \in Nat /\ TS >= 3 * Margin(method)
                                          /\ Margin(method) = IF method = "amaze" THEN 16 ELSE 8
<1>1. height \in Heights => height \in Nat /\ height > 16
  BY GeometryAssumption
<1>2. CASE method = "amaze"
  BY <1>1, <1>2, GeometryAssumption DEF Margin, TS
<1>3. CASE method = "cacorrect"
  BY <1>1, <1>3, GeometryAssumption DEF Margin, TS
<1> QED BY <1>1, <1>2, <1>3

LEMMA TileRows ==
  ASSUME Tiling
  PROVE  /\ rr1 \in Int /\ rr1 = Least(TS, height + Margin(method) - top)
         /\ NextTop \in Int /\ NextTop >= 0
<1>1. Margin(method) \in {8, 16} /\ TS \in Nat /\ TS >= 3 * Margin(method) /\ height \in Nat
  BY Geometry DEF Tiling
<1>2. top \in Int /\ top >= -Margin(method)
  BY <1>1 DEF Tiling
<1> QED BY <1>1, <1>2 DEF rr1, Least, NextTop

LEMMA WritingBegins == MosaicInit => Tiling /\ Writing
<1> SUFFICES ASSUME MosaicInit PROVE Tiling /\ Writing
  OBVIOUS
<1>1. method \in {"amaze", "cacorrect"} /\ height \in Heights
  BY GeometryAssumption DEF MosaicInit
<1>2. Tiling
  BY <1>1, Geometry DEF MosaicInit, Tiling, Empty
<1>3. Writing
  BY <1>1, Geometry DEF MosaicInit, Writing
<1> QED BY <1>2, <1>3

(* The interior of a tile begins where that of the tile above ended; the   *)
(* last one ends where the image does.                                     *)
LEMMA CopyWrites ==
  ASSUME Tiling, Writing, CopyBack
  PROVE  Tiling' /\ Writing'
<1> DEFINE M == Margin(method)
           rows == IF pass = 2 THEN Inside(M) ELSE {}
<1>1. /\ ended = "no" /\ stage' = 0 /\ tile' = Empty /\ UNCHANGED <<method, height>>
      /\ out' = [r \in DOMAIN out |-> IF r - top \in rows THEN out[r] + 1 ELSE out[r]]
  BY DEF CopyBack
<1>2. \/ NextTop < height /\ top' = NextTop /\ UNCHANGED <<pass, ended>>
      \/ NextTop >= height /\ pass = 2 /\ ended' = "corrected" /\ UNCHANGED <<pass, top>>
      \/ NextTop >= height /\ pass # 2 /\ ended' = "kept" /\ UNCHANGED <<pass, top>>
      \/ NextTop >= height /\ pass # 2 /\ pass' = 2 /\ top' = -M /\ UNCHANGED ended
  <2>1. NextTop \in Int /\ height \in Int
    BY TileRows, Geometry DEF Tiling
  <2> QED BY <2>1 DEF CopyBack
<1>3. /\ M \in {8, 16} /\ TS \in Nat /\ height \in Nat /\ top \in Int /\ rr1 \in Int
      /\ rr1 = Least(TS, height + M - top) /\ NextTop \in Int /\ NextTop >= 0 /\ NextTop = top + TS - 2 * M
  BY TileRows, Geometry DEF Tiling, NextTop
<1>4. Tiling'
  BY <1>1, <1>2, <1>3 DEF Tiling, Empty, Margin
<1>5. \A r \in 0..(height - 1) : out[r] = IF pass = 2 /\ r < top + M THEN 1 ELSE 0
  BY <1>1 DEF Writing
<1>6. \A r \in 0..(height - 1) : r - top \in rows <=> pass = 2 /\ r >= top + M /\ r < top + TS - M
  <2> HIDE DEF M
  <2>1. \A r \in 0..(height - 1) : r - top \in Inside(M) <=> r >= top + M /\ r < top + TS - M
    BY <1>3 DEF Inside, Least
  <2> QED BY <2>1
<1>7. \A r \in 0..(height - 1) : out'[r] = IF pass = 2 /\ r < top + TS - M THEN 1 ELSE 0
  <2> HIDE DEF rows
  <2> TAKE r \in 0..(height - 1)
  <2>1. r \in DOMAIN out
    BY DEF Tiling
  <2>2. out'[r] = IF r - top \in rows THEN out[r] + 1 ELSE out[r]
    BY <1>1, <2>1
  <2>3. (r - top \in rows <=> pass = 2 /\ r >= top + M /\ r < top + TS - M) /\ (r < top + M => r < top + TS - M)
    <3>1. TS >= 3 * M
      BY Geometry DEF Tiling
    <3> HIDE DEF M
    <3> QED BY <3>1, <1>3, <1>6
  <2> QED BY <2>2, <2>3, <1>5, <1>3
<1>8. Writing'
  <2>1. \A r \in 0..(height - 1) : r < top + TS - M <=> r < NextTop + M
    BY <1>3
  <2>2. NextTop >= height => \A r \in 0..(height - 1) : r < NextTop + M
    BY <1>3
  <2>3. Margin(method') = M /\ height' = height
    BY <1>1
  <2>4. CASE NextTop < height /\ top' = NextTop /\ UNCHANGED <<pass, ended>>
    BY <2>1, <2>3, <2>4, <1>1, <1>7 DEF Writing
  <2>5. CASE NextTop >= height /\ pass = 2 /\ ended' = "corrected" /\ UNCHANGED <<pass, top>>
    BY <2>1, <2>2, <2>3, <2>5, <1>1, <1>7 DEF Writing
  <2>6. CASE NextTop >= height /\ pass # 2 /\ ended' = "kept" /\ UNCHANGED <<pass, top>>
    BY <2>3, <2>6, <1>1, <1>7 DEF Writing
  <2>7. CASE NextTop >= height /\ pass # 2 /\ pass' = 2 /\ top' = -M /\ UNCHANGED ended
    BY <2>3, <2>7, <1>1, <1>3, <1>7 DEF Writing
  <2> QED BY <1>2, <2>4, <2>5, <2>6, <2>7
<1> QED BY <1>4, <1>8

LEMMA WritingStep == Tiling /\ Writing /\ [MosaicNext]_mosaicVars => Tiling' /\ Writing'
<1> SUFFICES ASSUME Tiling, Writing, [MosaicNext]_mosaicVars PROVE Tiling' /\ Writing'
  OBVIOUS
<1>1. CASE Load
  BY <1>1 DEF Load, Tiling, Writing
<1>2. CASE Work
  BY <1>2 DEF Work, Tiling, Writing
<1>3. CASE CopyBack
  BY <1>3, CopyWrites
<1>4. CASE MosaicEnd \/ UNCHANGED mosaicVars
  BY <1>4 DEF MosaicEnd, mosaicVars, Tiling, Writing
<1> QED BY <1>1, <1>2, <1>3, <1>4 DEF MosaicNext

(***************************************************************************)
(* For every height and every size of the tiles: at the end each row was   *)
(* written once, or none was if the correction gave up.                    *)
(***************************************************************************)
THEOREM TilesWriteOnce == MosaicSpec => []EachRowOnce
<1>1. Tiling /\ Writing => EachRowOnce
  BY DEF Tiling, Writing, EachRowOnce
<1> QED BY <1>1, WritingBegins, WritingStep, PTL DEF MosaicSpec

----------------------------------------------------------------------------
(* The overlap of the tiles.                                               *)

(* The sixteen stages of AMaZE, in their order.                            *)
Joins(x, y, s) ==
  /\ Len(s) = Len(x) + Len(y)
  /\ \A i \in 1..Len(x) : s[i] = x[i]
  /\ \A i \in 1..Len(y) : s[Len(x) + i] = y[i]

LEMMA Joined ==
  ASSUME NEW S, NEW x \in Seq(S), NEW y \in Seq(S)
  PROVE  x \o y \in Seq(S) /\ Joins(x, y, x \o y)
BY DEF Joins

LEMMA AmazeInOrder ==
  /\ Len(AmazeStages) = 16 /\ DOMAIN AmazeStages = 1..16
  /\ \A i \in 1..3 : AmazeStages[i] = AmazeGradients[i]
  /\ \A i \in 1..2 : AmazeStages[3 + i] = AmazeVariance[i]
  /\ \A i \in 1..3 : AmazeStages[5 + i] = AmazeNyquist[i]
  /\ \A i \in 1..2 : AmazeStages[8 + i] = AmazeGreen[i]
  /\ \A i \in 1..3 : AmazeStages[10 + i] = AmazeDiagonal[i]
  /\ \A i \in 1..3 : AmazeStages[13 + i] = AmazeChroma[i]
<1> DEFINE a == AmazeGradients
           b == AmazeVariance
           c == AmazeNyquist
           d == AmazeGreen
           e == AmazeDiagonal
           f == AmazeChroma
           S == {a[1], a[2], a[3], b[1], b[2], c[1], c[2], c[3], d[1], d[2], e[1], e[2], e[3], f[1], f[2], f[3]}
<1>1. /\ a \in Seq(S) /\ b \in Seq(S) /\ c \in Seq(S) /\ d \in Seq(S) /\ e \in Seq(S) /\ f \in Seq(S)
      /\ Len(a) = 3 /\ Len(b) = 2 /\ Len(c) = 3 /\ Len(d) = 2 /\ Len(e) = 3 /\ Len(f) = 3
  BY DEF AmazeGradients, AmazeVariance, AmazeNyquist, AmazeGreen, AmazeDiagonal, AmazeChroma
<1> DEFINE ab == a \o b
           abc == ab \o c
           abcd == abc \o d
           abcde == abcd \o e
<1>0. AmazeStages = abcde \o f
  BY DEF AmazeStages
<1> HIDE DEF a, b, c, d, e, f, S
<1>2. ab \in Seq(S) /\ Len(ab) = 5 /\ (\A i \in 1..3 : ab[i] = a[i]) /\ (\A i \in 1..2 : ab[3 + i] = b[i])
  <2>1. ab \in Seq(S) /\ Joins(a, b, ab)
    BY <1>1, Joined
  <2> HIDE DEF ab
  <2> QED BY <1>1, <2>1 DEF Joins
<1> HIDE DEF ab
<1>3. abc \in Seq(S) /\ Len(abc) = 8 /\ (\A i \in 1..5 : abc[i] = ab[i]) /\ (\A i \in 1..3 : abc[5 + i] = c[i])
  <2>1. abc \in Seq(S) /\ Joins(ab, c, abc)
    BY <1>1, <1>2, Joined
  <2> HIDE DEF abc
  <2> QED BY <1>1, <1>2, <2>1 DEF Joins
<1> HIDE DEF abc
<1>4. abcd \in Seq(S) /\ Len(abcd) = 10 /\ (\A i \in 1..8 : abcd[i] = abc[i]) /\ (\A i \in 1..2 : abcd[8 + i] = d[i])
  <2>1. abcd \in Seq(S) /\ Joins(abc, d, abcd)
    BY <1>1, <1>3, Joined
  <2> HIDE DEF abcd
  <2> QED BY <1>1, <1>3, <2>1 DEF Joins
<1> HIDE DEF abcd
<1>5. abcde \in Seq(S) /\ Len(abcde) = 13 /\ (\A i \in 1..10 : abcde[i] = abcd[i]) /\ (\A i \in 1..3 : abcde[10 + i] = e[i])
  <2>1. abcde \in Seq(S) /\ Joins(abcd, e, abcde)
    BY <1>1, <1>4, Joined
  <2> HIDE DEF abcde
  <2> QED BY <1>1, <1>4, <2>1 DEF Joins
<1> HIDE DEF abcde
<1>6. AmazeStages \in Seq(S) /\ Len(AmazeStages) = 16 /\ (\A i \in 1..13 : AmazeStages[i] = abcde[i]) /\ (\A i \in 1..3 : AmazeStages[13 + i] = f[i])
  <2>1. AmazeStages \in Seq(S) /\ Joins(abcde, f, AmazeStages)
    BY <1>1, <1>5, Joined, <1>0
  <2> HIDE DEF AmazeStages
  <2> QED BY <1>1, <1>5, <2>1 DEF Joins
<1> HIDE DEF AmazeStages
<1>7. \A i \in 1..10 : AmazeStages[i] = abcd[i]
  BY <1>5, <1>6
<1>8. \A i \in 1..8 : AmazeStages[i] = abc[i]
  BY <1>4, <1>7
<1>9. \A i \in 1..5 : AmazeStages[i] = ab[i]
  BY <1>3, <1>8
<1>10. \A i \in 1..3 : AmazeStages[i] = a[i]
  BY <1>2, <1>9
<1>11. \A i \in 1..2 : AmazeStages[3 + i] = b[i]
  <2>1. \A i \in 1..2 : 3 + i \in 1..5
    OBVIOUS
  <2> QED BY <2>1, <1>2, <1>9
<1>12. \A i \in 1..3 : AmazeStages[5 + i] = c[i]
  <2>1. \A i \in 1..3 : 5 + i \in 1..8
    OBVIOUS
  <2> QED BY <2>1, <1>3, <1>8
<1>13. \A i \in 1..2 : AmazeStages[8 + i] = d[i]
  <2>1. \A i \in 1..2 : 8 + i \in 1..10
    OBVIOUS
  <2> QED BY <2>1, <1>4, <1>7
<1>14. \A i \in 1..3 : AmazeStages[10 + i] = e[i]
  <2>1. \A i \in 1..3 : 10 + i \in 1..13
    OBVIOUS
  <2> QED BY <2>1, <1>5, <1>6
<1> QED BY <1>6, <1>10, <1>11, <1>12, <1>13, <1>14 DEF a, b, c, d, e, f

(* A stage of S finds what it reads as p: the mosaic is loaded to the edge *)
(* of the tile, green too where it comes from Gtmp, and an earlier stage   *)
(* left the rest, as far from the edge as it works itself.                 *)
Supported(S, gtmp, i, p) ==
  \/ (p[1] = "cfa" \/ (gtmp /\ p[1] = "G")) /\ p[2] <= S[i].margin
  \/ \E t \in DOMAIN S : t < i /\ p[1] \in S[t].writes /\ S[t].margin + p[2] <= S[i].margin

(* The stages of S that find all that they read, except those of X.        *)
Overlapping(S, gtmp, X) ==
  /\ \A i \in DOMAIN S : /\ S[i].margin \in Nat /\ S[i].writes \subseteq TileBuffers
                         /\ \A p \in S[i].reads : p[1] \in TileBuffers /\ p[2] \in Nat
  /\ \A i \in DOMAIN S \ X : \A p \in S[i].reads : Supported(S, gtmp, i, p)

LEMMA AmazeOverlaps ==
  /\ Overlapping(AmazeStages, FALSE, {4, 5, 8, 10})
  /\ Len(AmazeStages) = 16 /\ DOMAIN AmazeStages = 1..16
  /\ "done" \in AmazeStages[16].writes /\ AmazeStages[16].margin = 12
<1> DEFINE S == AmazeStages
<1>0. Len(S) = 16 /\ DOMAIN S = 1..16
  BY AmazeInOrder
<1>1. /\ S[1] = AmazeGradients[1] /\ S[2] = AmazeGradients[2] /\ S[3] = AmazeGradients[3]
  BY AmazeInOrder
<1>2. S[3 + 1] = AmazeVariance[1] /\ S[3 + 2] = AmazeVariance[2]
  BY AmazeInOrder
<1>3. S[5 + 1] = AmazeNyquist[1] /\ S[5 + 2] = AmazeNyquist[2] /\ S[5 + 3] = AmazeNyquist[3]
  BY AmazeInOrder
<1>4. S[8 + 1] = AmazeGreen[1] /\ S[8 + 2] = AmazeGreen[2]
  BY AmazeInOrder
<1>5. S[10 + 1] = AmazeDiagonal[1] /\ S[10 + 2] = AmazeDiagonal[2] /\ S[10 + 3] = AmazeDiagonal[3]
  BY AmazeInOrder
<1>6. S[13 + 1] = AmazeChroma[1] /\ S[13 + 2] = AmazeChroma[2] /\ S[13 + 3] = AmazeChroma[3]
  BY AmazeInOrder
<1> HIDE DEF S
<1>7. /\ S[1] = Stage(1, {<<"cfa", 1>>}, {"del"})
      /\ S[2] = Stage(2, {<<"del", 1>>, <<"cfa", 1>>}, {"dirwts", "Dsq"})
      /\ S[3] = Stage(4, {<<"cfa", 2>>, <<"dirwts", 2>>}, {"cd", "dgint", "nyquist", "rbint"})
  BY <1>1 DEF AmazeGradients
<1>8. /\ S[4] = Stage(4, {<<"cd", 2>>, <<"cfa", 1>>}, {"cd", "cdsq"})
      /\ S[5] = Stage(6, {<<"cdsq", 3>>, <<"cd", 3>>, <<"dirwts", 1>>, <<"dgint", 2>>}, {"hvwt"})
  BY <1>2 DEF AmazeVariance
<1>9. /\ S[6] = Stage(6, {<<"cdsq", 2>>, <<"del", 2>>}, {"nyquist"})
      /\ S[7] = Stage(8, {<<"nyquist", 2>>}, {"nyquist"})
      /\ S[8] = Stage(8, {<<"nyquist", 6>>, <<"cfa", 7>>}, {"hvwt"})
  BY <1>3 DEF AmazeNyquist
<1>10. /\ S[9] = Stage(8, {<<"hvwt", 1>>, <<"cd", 0>>, <<"cfa", 1>>}, {"hvwt", "Dgrb", "G", "curv"})
       /\ S[10] = Stage(8, {<<"curv", 2>>, <<"cd", 0>>, <<"cfa", 0>>}, {"Dgrb", "G"})
  BY <1>4 DEF AmazeGreen
<1>11. /\ S[11] = Stage(8, {<<"Dsq", 2>>, <<"cfa", 2>>, <<"del", 2>>}, {"pm"})
       /\ S[12] = Stage(10, {<<"pm", 1>>, <<"cfa", 0>>}, {"pm", "rbint"})
       /\ S[13] = Stage(12, {<<"rbint", 2>>, <<"pm", 0>>, <<"hvwt", 0>>, <<"dirwts", 1>>, <<"cfa", 1>>}, {"G", "Dgrb"})
  BY <1>5 DEF AmazeDiagonal
<1>12. /\ S[14] = Stage(12, {<<"Dgrb", 3>>}, {"Dgrb"})
       /\ S[15] = Stage(12, {<<"hvwt", 1>>, <<"Dgrb", 1>>}, {"Dgrb"})
       /\ S[16] = Stage(12, {<<"G", 0>>, <<"Dgrb", 0>>}, {"done"})
  BY <1>6 DEF AmazeChroma
<1>13. ASSUME NEW i \in 1..16
       PROVE  /\ S[i].margin \in Nat /\ S[i].writes \subseteq TileBuffers
              /\ \A p \in S[i].reads : p[1] \in TileBuffers /\ p[2] \in Nat
  <2>1. CASE i \in {1, 2, 3}
    BY <2>1, <1>7 DEF Stage, TileBuffers
  <2>2. CASE i \in {4, 5}
    BY <2>2, <1>8 DEF Stage, TileBuffers
  <2>3. CASE i \in {6, 7, 8}
    BY <2>3, <1>9 DEF Stage, TileBuffers
  <2>4. CASE i \in {9, 10}
    BY <2>4, <1>10 DEF Stage, TileBuffers
  <2>5. CASE i \in {11, 12, 13}
    BY <2>5, <1>11 DEF Stage, TileBuffers
  <2>6. CASE i \in {14, 15, 16}
    BY <2>6, <1>12 DEF Stage, TileBuffers
  <2> QED BY <2>1, <2>2, <2>3, <2>4, <2>5, <2>6
<1>14. ASSUME NEW i \in 1..16 \ {4, 5, 8, 10}, NEW p \in S[i].reads
       PROVE  Supported(S, FALSE, i, p)
  <2>1. CASE p[1] = "cfa"
    BY <2>1, <1>7, <1>8, <1>9, <1>10, <1>11, <1>12 DEF Stage, Supported
  <2>2. CASE i \in {2, 3, 6, 7}
    <3>1. CASE i = 2
      BY <3>1, <2>1, <1>0, <1>7 DEF Stage, Supported
    <3>2. CASE i = 3
      BY <3>2, <2>1, <1>0, <1>7 DEF Stage, Supported
    <3>3. CASE i = 6
      BY <3>3, <2>1, <1>0, <1>7, <1>8, <1>9 DEF Stage, Supported
    <3>4. CASE i = 7
      BY <3>4, <2>1, <1>0, <1>9 DEF Stage, Supported
    <3> QED BY <2>2, <3>1, <3>2, <3>3, <3>4
  <2>3. CASE i = 9
    BY <2>1, <2>3, <1>0, <1>7, <1>8, <1>10 DEF Stage, Supported
  <2>4. CASE i = 11
    BY <2>1, <2>4, <1>0, <1>7, <1>11 DEF Stage, Supported
  <2>5. CASE i = 12
    BY <2>1, <2>5, <1>0, <1>11 DEF Stage, Supported
  <2>6. CASE i = 13
    BY <2>1, <2>6, <1>0, <1>7, <1>8, <1>11 DEF Stage, Supported
  <2>7. CASE i = 14
    BY <2>7, <1>0, <1>10, <1>12 DEF Stage, Supported
  <2>8. CASE i = 15
    BY <2>8, <1>0, <1>10, <1>12 DEF Stage, Supported
  <2>9. CASE i = 16
    BY <2>9, <1>0, <1>10, <1>12 DEF Stage, Supported
  <2>10. i = 1 => p[1] = "cfa"
    BY <1>7 DEF Stage
  <2>11. i \in {1, 2, 3, 6, 7, 9, 11, 12, 13, 14, 15, 16}
    OBVIOUS
  <2> QED BY <2>1, <2>2, <2>3, <2>4, <2>5, <2>6, <2>7, <2>8, <2>9, <2>10, <2>11
<1>15. "done" \in S[16].writes /\ S[16].margin = 12
  BY <1>12 DEF Stage
<1> QED BY <1>0, <1>13, <1>14, <1>15 DEF Overlapping, S

LEMMA CaOverlaps ==
  /\ Overlapping(CaGreen \o CaHighPass \o CaMeasureStages, FALSE, {2})
  /\ Len(CaGreen \o CaHighPass \o CaMeasureStages) = 3 /\ DOMAIN (CaGreen \o CaHighPass \o CaMeasureStages) = 1..3
  /\ (CaGreen \o CaHighPass \o CaMeasureStages)[1] = CaGreen[1]
  /\ Overlapping(CaInterpolate \o CaCorrect, TRUE, {})
  /\ Len(CaInterpolate \o CaCorrect) = 2 /\ DOMAIN (CaInterpolate \o CaCorrect) = 1..2
  /\ (CaInterpolate \o CaCorrect)[2] = CaCorrect[1]
<1> DEFINE a == Stage(3, {<<"cfa", 3>>}, {"G"})
           b == Stage(4, {<<"cfa", 4>>, <<"G", 4>>}, {"hp"})
           c == Stage(8, {<<"cfa", 4>>, <<"G", 4>>, <<"hp", 2>>}, {"done"})
           d == Stage(4, {<<"G", 4>>, <<"cfa", 0>>}, {"diff"})
           e == Stage(8, {<<"diff", 2>>, <<"G", 0>>, <<"cfa", 0>>}, {"done"})
           S == CaGreen \o CaHighPass \o CaMeasureStages
           T == CaInterpolate \o CaCorrect
           ab == CaGreen \o CaHighPass
           X == {a, b, c, d, e}
<1>1. CaGreen = <<a>> /\ CaHighPass = <<b>> /\ CaMeasureStages = <<c>> /\ CaInterpolate = <<d>> /\ CaCorrect = <<e>>
  BY DEF CaGreen, CaHighPass, CaMeasureStages, CaInterpolate, CaCorrect, a, b, c, d, e
<1>2. /\ Len(S) = 3 /\ DOMAIN S = 1..3 /\ S[1] = a /\ S[2] = b /\ S[3] = c
      /\ Len(T) = 2 /\ DOMAIN T = 1..2 /\ T[1] = d /\ T[2] = e
  <2> HIDE DEF a, b, c, d, e
  <2>1. /\ CaGreen \in Seq(X) /\ CaHighPass \in Seq(X) /\ CaMeasureStages \in Seq(X)
        /\ CaInterpolate \in Seq(X) /\ CaCorrect \in Seq(X)
    BY <1>1
  <2> HIDE DEF X
  <2>2. ab \in Seq(X) /\ Joins(CaGreen, CaHighPass, ab)
    BY <2>1, Joined
  <2> HIDE DEF ab
  <2>3. S \in Seq(X) /\ Joins(ab, CaMeasureStages, S)
    BY <2>1, <2>2, Joined DEF ab
  <2>4. T \in Seq(X) /\ Joins(CaInterpolate, CaCorrect, T)
    BY <2>1, Joined
  <2> HIDE DEF S, T
  <2>0. /\ Len(CaGreen) = 1 /\ Len(CaHighPass) = 1 /\ CaGreen[1] = a /\ CaHighPass[1] = b
        /\ Len(CaInterpolate) = 1 /\ Len(CaCorrect) = 1 /\ CaInterpolate[1] = d /\ CaCorrect[1] = e
    BY <1>1
  <2>5. Len(ab) = 2 /\ ab[1] = a /\ ab[2] = b
    <3>1. Len(ab) = 1 + 1 /\ ab[1] = a /\ ab[1 + 1] = b
      BY <2>0, <2>2 DEF Joins
    <3> QED BY <3>1
  <2>6. Len(S) = 3 /\ S[1] = a /\ S[2] = b /\ S[3] = c
    BY <1>1, <2>3, <2>5 DEF Joins
  <2>7. Len(T) = 2 /\ T[1] = d /\ T[2] = e
    <3>1. Len(T) = 1 + 1 /\ T[1] = d /\ T[1 + 1] = e
      BY <2>0, <2>4 DEF Joins
    <3> QED BY <3>1
  <2> QED BY <2>3, <2>4, <2>6, <2>7
<1> HIDE DEF S, T
<1>3. Overlapping(S, FALSE, {2})
  BY <1>2 DEF Overlapping, Supported, Stage, TileBuffers
<1>4. Overlapping(T, TRUE, {})
  BY <1>2 DEF Overlapping, Supported, Stage, TileBuffers
<1> QED BY <1>1, <1>2, <1>3, <1>4 DEF S, T

(* The rows of the tile are loaded, and each stage so far has left what it *)
(* makes in all rows that it works on.                                     *)
Loading ==
  ended = "no" /\ stage >= 1 =>
    /\ 0..(rr1 - 1) \subseteq tile["cfa"]
    /\ GreenToo => 0..(rr1 - 1) \subseteq tile["G"]
    /\ \A t \in DOMAIN Stages : t < stage =>
         \A b \in Stages[t].writes : Inside(Stages[t].margin) \subseteq tile[b]

(* Gtmp holds the green of all rows before the second pass begins.         *)
Greened ==
  ended = "no" /\ method = "cacorrect" =>
    \A r \in 0..(height - 1) :
      pass = 2 \/ r < (IF stage < 2 THEN top + 3 ELSE top + rr1 - 3) => r \in green

Halo == Loading /\ Greened /\ HaloEnough

Exempt == IF method = "amaze" THEN {4, 5, 8, 10} ELSE IF pass = 1 THEN {2} ELSE {}

LEMMA StagesOverlap ==
  ASSUME Tiling
  PROVE  /\ Overlapping(Stages, GreenToo, Exempt)
         /\ Len(Stages) \in Nat /\ Len(Stages) >= 2 /\ DOMAIN Stages = 1..Len(Stages)
         /\ pass = 2 => "done" \in Stages[Len(Stages)].writes /\ Stages[Len(Stages)].margin <= Margin(method)
         /\ method = "cacorrect" /\ pass = 1 => Stages[1].margin = 3 /\ "G" \in Stages[1].writes
<1>1. CASE method = "amaze"
  <2>1. GreenToo = FALSE /\ Exempt = {4, 5, 8, 10} /\ Margin(method) = 16
    BY <1>1 DEF GreenToo, Exempt, Margin
  <2>2. Stages = AmazeStages
    BY <1>1 DEF Stages
  <2>3. Overlapping(Stages, GreenToo, Exempt)
    BY <2>1, <2>2, AmazeOverlaps, Zenon
  <2>4. Len(Stages) = 16 /\ DOMAIN Stages = 1..16 /\ "done" \in Stages[16].writes /\ Stages[16].margin = 12
    BY <2>2, AmazeOverlaps, Zenon
  <2> QED BY <2>1, <2>3, <2>4, <1>1
<1>2. CASE method = "cacorrect" /\ pass = 1
  <2>1. GreenToo = FALSE /\ Exempt = {2}
    BY <1>2 DEF GreenToo, Exempt
  <2>2. Stages = CaGreen \o CaHighPass \o CaMeasureStages
    BY <1>2 DEF Stages
  <2>3. CaGreen[1].margin = 3 /\ "G" \in CaGreen[1].writes
    BY DEF CaGreen, Stage
  <2>4. Overlapping(Stages, GreenToo, Exempt)
    BY <2>1, <2>2, CaOverlaps, Zenon
  <2>5. Len(Stages) = 3 /\ DOMAIN Stages = 1..3 /\ Stages[1] = CaGreen[1]
    BY <2>2, CaOverlaps, Zenon
  <2> QED BY <2>3, <2>4, <2>5, <1>2
<1>3. CASE method = "cacorrect" /\ pass = 2
  <2>1. GreenToo = TRUE /\ Exempt = {} /\ Margin(method) = 8
    BY <1>3 DEF GreenToo, Exempt, Margin
  <2>2. Stages = CaInterpolate \o CaCorrect
    BY <1>3 DEF Stages
  <2>3. "done" \in CaCorrect[1].writes /\ CaCorrect[1].margin = 8
    BY DEF CaCorrect, Stage
  <2>4. Overlapping(Stages, GreenToo, Exempt)
    BY <2>1, <2>2, CaOverlaps, Zenon
  <2>5. Len(Stages) = 2 /\ DOMAIN Stages = 1..2 /\ Stages[2] = CaCorrect[1]
    BY <2>2, CaOverlaps, Zenon
  <2>6. Len(Stages) = 2 /\ "done" \in Stages[2].writes /\ Stages[2].margin <= Margin(method)
    BY <2>1, <2>3, <2>5
  <2> QED BY <2>4, <2>5, <2>6, <1>3
<1> QED BY <1>1, <1>2, <1>3 DEF Tiling

(* A tile is loaded without a gap: its rows, mirrored above the image and  *)
(* below it.                                                               *)
LEMMA LoadedWhole ==
  ASSUME Tiling, stage = 0, ended = "no"
  PROVE  /\ 0..(rr1 - 1) \subseteq Loaded \cup MirroredAbove \cup MirroredBelow
         /\ Above \subseteq Loaded
         /\ Source \subseteq 0..(height - 1)
<1> DEFINE M == Margin(method)
<1>1. M \in {8, 16} /\ TS \in Nat /\ TS >= 3 * M /\ height \in Nat /\ height > 16 /\ top \in Int /\ (top = -M \/ top >= 0)
  BY Geometry DEF Tiling
<1>2. rr1 \in Int /\ rr1 = Least(TS, height + M - top)
  BY TileRows
<1> HIDE DEF M
<1>3. CASE top = -M
  <2>1. rrmin = M /\ rrmax \in Int /\ rrmax >= 2 * M + 1 /\ rrmax <= height + M /\ rrmax <= rr1 /\ rr1 <= rrmax + M
    BY <1>1, <1>2, <1>3 DEF rrmin, rrmax, Least, M
  <2> QED
    BY <2>1, <1>1, <1>2, <1>3 DEF Loaded, MirroredAbove, MirroredBelow, Above, Below, Source, M
<1>4. CASE top >= 0
  <2>1. rrmin = 0 /\ rrmax \in Int /\ rrmax + top <= height /\ rrmax <= rr1 /\ rr1 <= rrmax + M
    BY <1>1, <1>2, <1>4 DEF rrmin, rrmax, Least, M
  <2> QED
    BY <2>1, <1>1, <1>2, <1>4 DEF Loaded, MirroredAbove, MirroredBelow, Above, Below, Source, M
<1> QED BY <1>1, <1>3, <1>4

LEMMA LoadHolds ==
  ASSUME Tiling, Halo, Load
  PROVE  Halo'
<1> DEFINE rows == Loaded \cup MirroredAbove \cup MirroredBelow
<1>1. /\ ended = "no" /\ stage = 0 /\ stage' = 1 /\ UNCHANGED <<method, height, pass, top, green, ended>>
      /\ tile' = [tile EXCEPT !["cfa"] = rows, !["G"] = IF GreenToo THEN rows ELSE {}]
  BY DEF Load
<1>2. 0..(rr1 - 1) \subseteq rows /\ Above \subseteq Loaded /\ Source \subseteq 0..(height - 1)
  BY <1>1, LoadedWhole
<1>3. GreenToo => Source \subseteq green
  BY <1>1, <1>2 DEF GreenToo, Halo, Greened
<1>4. stale' = stale
  BY <1>2, <1>3 DEF Load
<1>5. rr1' = rr1 /\ GreenToo' = GreenToo /\ DOMAIN Stages' = DOMAIN Stages /\ Stages' = Stages
  BY <1>1 DEF rr1, GreenToo, Stages, Margin, TS
<1>6. Loading'
  <2>1. tile'["cfa"] = rows /\ (GreenToo => tile'["G"] = rows)
    BY <1>1 DEF Tiling, TileBuffers
  <2>2. \A t \in DOMAIN Stages' : ~(t < stage')
    BY <1>1, <1>5, StagesOverlap
  <2> QED BY <1>1, <1>2, <1>5, <2>1, <2>2 DEF Loading
<1>7. Greened'
  BY <1>1, <1>5 DEF Halo, Greened
<1>8. HaloEnough'
  BY <1>1, <1>4 DEF Halo, HaloEnough
<1> QED BY <1>6, <1>7, <1>8 DEF Halo

(* A stage that is not exempt reads what was loaded or left by an earlier  *)
(* one.                                                                    *)
LEMMA ReadsMade ==
  ASSUME Tiling, Loading, ended = "no", stage \in DOMAIN Stages \ Exempt, NEW p \in Stages[stage].reads
  PROVE  {r + d : r \in Inside(Stages[stage].margin), d \in (-p[2])..p[2]} \subseteq tile[p[1]]
<1> DEFINE S == Stages
           m == Stages[stage].margin
<1>1. /\ m \in Nat /\ p[2] \in Nat /\ Supported(S, GreenToo, stage, p) /\ stage \in Nat /\ stage >= 1
      /\ \A t \in DOMAIN S : S[t].margin \in Nat
  BY StagesOverlap DEF Overlapping, Tiling
<1>2. rr1 \in Int
  BY TileRows
<1>3. /\ 0..(rr1 - 1) \subseteq tile["cfa"] /\ (GreenToo => 0..(rr1 - 1) \subseteq tile["G"])
      /\ \A t \in DOMAIN S : t < stage => \A b \in S[t].writes : Inside(S[t].margin) \subseteq tile[b]
  BY <1>1 DEF Loading
<1> HIDE DEF S, m
<1>4. \A q \in Nat : q + p[2] <= m => {r + d : r \in Inside(m), d \in (-p[2])..p[2]} \subseteq Inside(q)
  BY <1>1, <1>2 DEF Inside
<1>5. Inside(0) = 0..(rr1 - 1)
  BY <1>2 DEF Inside
<1>6. CASE (p[1] = "cfa" \/ (GreenToo /\ p[1] = "G")) /\ p[2] <= m
  <2>1. {r + d : r \in Inside(m), d \in (-p[2])..p[2]} \subseteq Inside(0)
    BY <1>1, <1>4, <1>6
  <2>2. Inside(0) \subseteq tile[p[1]]
    BY <1>3, <1>5, <1>6
  <2> QED BY <2>1, <2>2 DEF m
<1>7. CASE \E t \in DOMAIN S : t < stage /\ p[1] \in S[t].writes /\ S[t].margin + p[2] <= m
  <2>1. PICK t \in DOMAIN S : t < stage /\ p[1] \in S[t].writes /\ S[t].margin + p[2] <= m
    BY <1>7
  <2>2. Inside(S[t].margin) \subseteq tile[p[1]]
    BY <1>3, <2>1
  <2>3. {r + d : r \in Inside(m), d \in (-p[2])..p[2]} \subseteq Inside(S[t].margin)
    BY <1>1, <1>4, <2>1
  <2> QED BY <2>2, <2>3 DEF m
<1> QED BY <1>1, <1>6, <1>7 DEF Supported, S, m

LEMMA WorkHolds ==
  ASSUME Tiling, Halo, Work
  PROVE  Halo'
<1> DEFINE s == Stages[stage]
           rows == Inside(s.margin)
           Around(k) == {r + d : r \in rows, d \in (-k)..k}
<1>1. /\ ended = "no" /\ stage \in DOMAIN Stages /\ stage' = stage + 1
      /\ UNCHANGED <<method, height, pass, top, ended>>
      /\ tile' = [b \in TileBuffers |-> IF b \in s.writes THEN tile[b] \cup rows ELSE tile[b]]
      /\ stale' = stale \cup (IF \A p \in s.reads : Around(p[2]) \subseteq tile[p[1]] THEN {} ELSE {<<pass, stage>>})
      /\ green' = (IF method = "cacorrect" /\ pass = 1 /\ "G" \in s.writes
                   THEN green \cup ({top + r : r \in rows} \cap 0..(height - 1)) ELSE green)
  BY DEF Work
<1>2. stage \in Nat /\ stage >= 1 /\ s.writes \subseteq TileBuffers
  BY <1>1, StagesOverlap DEF Overlapping
<1>3. rr1' = rr1 /\ GreenToo' = GreenToo /\ Stages' = Stages
  BY <1>1 DEF rr1, GreenToo, Stages, Margin, TS
<1>4. HaloEnough'
  <2>1. CASE stage \in Exempt
    <3>1. <<pass, stage>> \in ({1} \X {2}) \cup (IF method = "amaze" THEN {2} \X {4, 5, 8, 10} ELSE {})
      BY <2>1 DEF Exempt, Tiling
    <3> QED BY <1>1, <3>1 DEF Halo, HaloEnough
  <2>2. CASE stage \notin Exempt
    <3>1. \A p \in s.reads : Around(p[2]) \subseteq tile[p[1]]
      BY <1>1, <2>2, ReadsMade DEF Halo
    <3> QED BY <1>1, <3>1 DEF Halo, HaloEnough
  <2> QED BY <2>1, <2>2
<1>5. Loading'
  <2> SUFFICES /\ 0..(rr1 - 1) \subseteq tile'["cfa"]
               /\ GreenToo => 0..(rr1 - 1) \subseteq tile'["G"]
               /\ \A t \in DOMAIN Stages : t < stage + 1 =>
                    \A b \in Stages[t].writes : Inside(Stages[t].margin)' \subseteq tile'[b]
    BY <1>1, <1>3 DEF Loading
  <2>1. \A b \in TileBuffers : tile[b] \subseteq tile'[b] /\ (b \in s.writes => rows \subseteq tile'[b])
    BY <1>1
  <2>2. "cfa" \in TileBuffers /\ "G" \in TileBuffers
    BY DEF TileBuffers
  <2>3. /\ 0..(rr1 - 1) \subseteq tile["cfa"] /\ (GreenToo => 0..(rr1 - 1) \subseteq tile["G"])
        /\ \A t \in DOMAIN Stages : t < stage => \A b \in Stages[t].writes : Inside(Stages[t].margin) \subseteq tile[b]
    BY <1>1, <1>2 DEF Halo, Loading
  <2>4. ASSUME NEW t \in DOMAIN Stages, t < stage + 1, NEW b \in Stages[t].writes
        PROVE  Inside(Stages[t].margin)' \subseteq tile'[b]
    <3>1. b \in TileBuffers /\ t \in Nat
      BY StagesOverlap DEF Overlapping
    <3>2. Inside(Stages[t].margin)' = Inside(Stages[t].margin)
      BY <1>3 DEF Inside
    <3>3. CASE t < stage
      BY <3>1, <3>2, <3>3, <2>1, <2>3
    <3>4. CASE t = stage
      BY <3>1, <3>2, <3>4, <2>1
    <3> QED BY <3>1, <3>3, <3>4, <1>2, <2>4
  <2> QED BY <2>1, <2>2, <2>3, <2>4
<1>6. Greened'
  <2> SUFFICES ASSUME method = "cacorrect", NEW r \in 0..(height - 1),
                      pass = 2 \/ r < (IF stage + 1 < 2 THEN top + 3 ELSE top + rr1 - 3)
               PROVE  r \in green'
    BY <1>1, <1>3 DEF Greened
  <2>1. green \subseteq green'
    BY <1>1
  <2>2. pass = 2 \/ r < (IF stage < 2 THEN top + 3 ELSE top + rr1 - 3) => r \in green
    BY <1>1 DEF Halo, Greened
  <2>3. CASE pass = 2 \/ stage >= 2
    BY <2>1, <2>2, <2>3, <1>2
  <2>4. CASE pass = 1 /\ stage = 1
    <3>1. rr1 \in Int /\ top \in Int /\ height \in Int
      BY TileRows, Geometry DEF Tiling
    <3>2. s.margin = 3 /\ "G" \in s.writes
      BY <2>4, StagesOverlap
    <3>3. green' = green \cup ({top + k : k \in 3..(rr1 - 3 - 1)} \cap 0..(height - 1))
      BY <1>1, <2>4, <3>2 DEF Inside
    <3>4. r < top + rr1 - 3
      BY <1>2, <2>4
    <3>5. CASE r < top + 3
      BY <2>1, <2>2, <2>4, <3>5
    <3>6. CASE r >= top + 3
      <4>1. r - top \in 3..(rr1 - 3 - 1) /\ r = top + (r - top)
        BY <3>1, <3>4, <3>6
      <4> QED BY <3>3, <4>1
    <3> QED BY <3>1, <3>5, <3>6
  <2> QED BY <2>3, <2>4, <1>2 DEF Tiling
<1> QED BY <1>4, <1>5, <1>6 DEF Halo

LEMMA CopyHolds ==
  ASSUME Tiling, Halo, CopyBack
  PROVE  Halo'
<1> DEFINE M == Margin(method)
           rows == IF pass = 2 THEN Inside(M) ELSE {}
<1>1. /\ ended = "no" /\ stage = Len(Stages) + 1 /\ stage' = 0 /\ UNCHANGED <<method, height, green>>
      /\ stale' = stale \cup (IF rows \subseteq tile["done"] THEN {} ELSE {<<pass, stage>>})
  BY DEF CopyBack
<1>2. \/ NextTop < height /\ top' = NextTop /\ UNCHANGED <<pass, ended>>
      \/ NextTop >= height /\ ended' # "no"
      \/ NextTop >= height /\ pass # 2 /\ pass' = 2
  <2>1. NextTop \in Int /\ height \in Int
    BY TileRows, Geometry DEF Tiling
  <2> QED BY <2>1 DEF CopyBack
<1>3. rows \subseteq tile["done"]
  <2>1. CASE pass = 2
    <3> DEFINE l == Len(Stages)
               m == Stages[l].margin
    <3>1. l \in Nat /\ l >= 2 /\ l \in DOMAIN Stages /\ "done" \in Stages[l].writes /\ m <= M /\ m \in Nat
      BY <2>1, StagesOverlap DEF Overlapping
    <3>2. Inside(m) \subseteq tile["done"]
      BY <3>1, <1>1 DEF Halo, Loading
    <3>3. rr1 \in Int /\ M \in Nat
      BY TileRows, Geometry DEF Tiling
    <3> HIDE DEF M, m
    <3>4. Inside(M) \subseteq Inside(m)
      BY <3>1, <3>3 DEF Inside
    <3> QED BY <2>1, <3>2, <3>4
  <2> QED BY <2>1
<1>4. HaloEnough'
  BY <1>1, <1>3 DEF Halo, HaloEnough
<1>5. Loading'
  BY <1>1 DEF Loading
<1>6. Greened'
  <2> SUFFICES ASSUME ended' = "no", method = "cacorrect", NEW r \in 0..(height - 1), pass' = 2 \/ r < top' + 3
               PROVE  r \in green
    BY <1>1 DEF Greened
  <2>1. pass = 2 \/ r < top + rr1 - 3 => r \in green
    BY <1>1, StagesOverlap DEF Halo, Greened
  <2>2. /\ M = 8 /\ TS \in Nat /\ height \in Nat /\ top \in Int /\ rr1 = Least(TS, height + M - top)
        /\ NextTop = top + TS - 2 * M
    BY TileRows, Geometry DEF Tiling, NextTop
  <2> HIDE DEF M
  <2>3. r < NextTop + 3 => r < top + rr1 - 3
    BY <2>2 DEF Least
  <2>4. NextTop >= height => r < NextTop + 3
    BY <2>2
  <2> QED BY <1>2, <2>1, <2>3, <2>4
<1> QED BY <1>4, <1>5, <1>6 DEF Halo

LEMMA HaloStep == Tiling /\ Halo /\ [MosaicNext]_mosaicVars => Halo'
<1> SUFFICES ASSUME Tiling, Halo, [MosaicNext]_mosaicVars PROVE Halo'
  OBVIOUS
<1>1. CASE Load
  BY <1>1, LoadHolds
<1>2. CASE Work
  BY <1>2, WorkHolds
<1>3. CASE CopyBack
  BY <1>3, CopyHolds
<1>4. CASE MosaicEnd \/ UNCHANGED mosaicVars
  <2>1. UNCHANGED mosaicVars
    BY <1>4 DEF MosaicEnd
  <2> QED BY <2>1 DEF mosaicVars, Halo, Loading, Greened, HaloEnough, GreenToo, Stages, Inside, rr1, Margin, TS
<1> QED BY <1>1, <1>2, <1>3, <1>4 DEF MosaicNext

(***************************************************************************)
(* For every height and every size of the tiles: apart from the five       *)
(* exempt reads, a stage reads only rows that this tile has loaded or      *)
(* computed, and what is copied back was computed.                         *)
(***************************************************************************)
THEOREM TilesOverlapEnough == MosaicSpec => []HaloEnough
<1>1. MosaicInit => Halo
  <2> SUFFICES ASSUME MosaicInit PROVE Halo
    OBVIOUS
  <2>1. Tiling
    BY WritingBegins
  <2>2. Greened
    BY <2>1, Geometry DEF Tiling, MosaicInit, Greened, Margin
  <2>3. Loading /\ HaloEnough
    BY DEF MosaicInit, Loading, HaloEnough
  <2> QED BY <2>2, <2>3 DEF Halo
<1>2. Halo => HaloEnough
  BY DEF Halo
<1> QED BY <1>1, <1>2, WritingBegins, WritingStep, HaloStep, PTL DEF MosaicSpec

----------------------------------------------------------------------------
(* Recursive functions of natural numbers.  The induction theorems of the  *)
(* library take a predicate; that every set of natural numbers has a least *)
(* element does not need one.                                              *)
LEMMA LeastNatural ==
  ASSUME NEW S, S \subseteq Nat, S # {}
  PROVE  \E n \in S : \A m \in S : n <= m
<1>1. PICK n \in S : \A m \in S : <<m, n>> \notin OpToRel(<, Nat)
  BY NatLessThanWellFounded, WFMin, Zenon
<1>2. \A m \in S : ~(m < n)
  BY <1>1 DEF OpToRel
<1> QED BY <1>2

(* A function whose value at k is made of k and the value before. *)
Iterates(f, b, G, n) == f = [k \in 0..n |-> IF k = 0 THEN b ELSE G[<<k, f[k - 1]>>]]

LEMMA IterationExists ==
  ASSUME NEW b \in Int, NEW G \in [Nat \X Int -> Int]
  PROVE  \A n \in Nat : \E f \in [0..n -> Int] : Iterates(f, b, G, n)
<1> DEFINE Without == {n \in Nat : ~ \E f \in [0..n -> Int] : Iterates(f, b, G, n)}
<1>1. SUFFICES ASSUME Without # {} PROVE FALSE
  OBVIOUS
<1>2. PICK n \in Without : \A m \in Without : n <= m
  BY <1>1, LeastNatural
<1>3. CASE n = 0
  <2> DEFINE f == [k \in 0..0 |-> b]
  <2>1. f \in [0..0 -> Int] /\ Iterates(f, b, G, 0)
    BY DEF Iterates
  <2> QED BY <1>2, <1>3, <2>1
<1>4. CASE n # 0
  <2>1. n \in Nat /\ n - 1 \in Nat /\ n - 1 \notin Without
    BY <1>2, <1>4
  <2>2. PICK g \in [0..(n - 1) -> Int] : Iterates(g, b, G, n - 1)
    BY <2>1
  <2> DEFINE f == [k \in 0..n |-> IF k = n THEN G[<<n, g[n - 1]>>] ELSE g[k]]
  <2>3. \A k \in 0..(n - 1) : g[k] = IF k = 0 THEN b ELSE G[<<k, g[k - 1]>>]
    BY <2>2 DEF Iterates
  <2>4. ASSUME NEW k \in 0..n
        PROVE  f[k] = IF k = 0 THEN b ELSE G[<<k, f[k - 1]>>]
    <3>1. CASE k = n
      <4>1. f[n] = G[<<n, g[n - 1]>>]
        BY <2>1
      <4>2. n - 1 \in 0..n /\ n - 1 # n /\ f[n - 1] = g[n - 1]
        BY <1>4, <2>1
      <4> HIDE DEF f
      <4> QED BY <1>4, <3>1, <4>1, <4>2
    <3>2. CASE k # n
      <4>1. k \in 0..(n - 1) /\ f[k] = g[k]
        BY <2>1, <3>2
      <4>2. k # 0 => k - 1 \in 0..n /\ k - 1 # n /\ f[k - 1] = g[k - 1]
        BY <2>1, <4>1
      <4> QED BY <2>3, <4>1, <4>2
    <3> QED BY <3>1, <3>2
  <2>5. f \in [0..n -> Int]
    <3>1. G[<<n, g[n - 1]>>] \in Int
      BY <2>1, <2>2
    <3> QED BY <2>1, <2>2, <3>1
  <2>6. Iterates(f, b, G, n)
    <3> HIDE DEF f
    <3>1. f = [k \in 0..n |-> f[k]]
      BY <2>5
    <3> QED BY <2>4, <3>1 DEF Iterates
  <2> QED BY <1>2, <2>5, <2>6
<1> QED BY <1>3, <1>4

(* It does not depend on how far it goes. *)
LEMMA IterationsAgree ==
  ASSUME NEW b, NEW G, NEW n \in Nat, NEW m \in Nat, n <= m, NEW f, NEW g, Iterates(f, b, G, n), Iterates(g, b, G, m)
  PROVE  \A k \in 0..n : f[k] = g[k]
<1> DEFINE Apart == {k \in 0..n : f[k] # g[k]}
<1>1. SUFFICES ASSUME Apart # {} PROVE FALSE
  OBVIOUS
<1> Apart \subseteq Nat
  OBVIOUS
<1>2. PICK k \in Apart : \A j \in Apart : k <= j
  BY <1>1, LeastNatural, Zenon
<1>3. /\ f[k] = IF k = 0 THEN b ELSE G[<<k, f[k - 1]>>]
      /\ g[k] = IF k = 0 THEN b ELSE G[<<k, g[k - 1]>>]
  BY <1>2 DEF Iterates
<1>4. k # 0 /\ k - 1 \in 0..n /\ k - 1 \notin Apart
  BY <1>2, <1>3
<1> QED BY <1>2, <1>3, <1>4

----------------------------------------------------------------------------
(* The routines.                                                           *)
(* The inductive invariant: as long as a routine runs, what the outline of *)
(* its program says of the place where it is holds; what the card has left *)
(* behind is in `keeps'.  Each property alone is lost by the next step: a  *)
(* routine that may leak nothing now can be in the middle of a program     *)
(* that never gives back what it holds.  What must be there may be a NULL  *)
(* that nobody looked at, until the host uses it.                          *)
Here == Outline(routine, Prog, path)[at]

Placed ==
  /\ job \in DOMAIN Table /\ routine = Table[job]
  /\ path \in {"gpu", "cpu"} /\ (path = "gpu" => routine.gpu # NoProgram)
  /\ at \in 1..(Len(Prog.steps) + 1) /\ "in" \in DOMAIN made
HeldAsOutlined ==
  /\ \A b \in Here.sure : <<path, b>> \in held \/ b \in nulls
  /\ nulls # {} => path = "cpu" /\ missed
  /\ \A h \in held : \/ \E b \in Here.may : h = <<path, b>>
                     \/ path = "cpu" /\ \E b \in routine.keeps : h = <<"gpu", b>>
MadeAsOutlined == scaled = Here.scaled /\ (~missed => made = Here.made)
MissedAsOutlined == routine.tells /\ missed => \E b \in Here.lacking : <<path, b>> \notin held

RoutineInv ==
  /\ Placed /\ InputKept
  /\ Running => HeldAsOutlined /\ MadeAsOutlined /\ MissedAsOutlined
  /\ ~Running => ResultComplete /\ NothingLeaks /\ FailureReported

(* The outline of a program is what its recursive definition says. *)
Outlined(row, prog, on, o, n) ==
  o = [i \in 1..(n + 1) |-> IF i = 1 THEN Start(row) ELSE After(prog.steps[i - 1], o[i - 1], on)]

LEMMA OutlineExists ==
  ASSUME NEW row, NEW prog, NEW on
  PROVE  \A n \in Nat : \E o : Outlined(row, prog, on, o, n)
<1> DEFINE Without == {n \in Nat : ~ \E o : Outlined(row, prog, on, o, n)}
<1>1. SUFFICES ASSUME Without # {} PROVE FALSE
  OBVIOUS
<1> Without \subseteq Nat
  OBVIOUS
<1>2. PICK n \in Without : \A m \in Without : n <= m
  BY <1>1, LeastNatural, Zenon
<1>3. CASE n = 0
  <2> DEFINE o == [i \in 1..(0 + 1) |-> Start(row)]
  <2>1. Outlined(row, prog, on, o, 0)
    BY DEF Outlined
  <2> QED BY <1>2, <1>3, <2>1
<1>4. CASE n # 0
  <2>1. n \in Nat /\ n - 1 \in Nat /\ n - 1 \notin Without
    BY <1>2, <1>4
  <2>2. PICK p : Outlined(row, prog, on, p, n - 1)
    BY <2>1
  <2> DEFINE o == [i \in 1..(n + 1) |-> IF i = n + 1 THEN After(prog.steps[n], p[n], on) ELSE p[i]]
  <2>3. \A i \in 1..n : p[i] = IF i = 1 THEN Start(row) ELSE After(prog.steps[i - 1], p[i - 1], on)
    BY <2>1, <2>2 DEF Outlined
  <2>4. ASSUME NEW i \in 1..(n + 1)
        PROVE  o[i] = IF i = 1 THEN Start(row) ELSE After(prog.steps[i - 1], o[i - 1], on)
    <3>1. CASE i = n + 1
      <4>1. o[i] = After(prog.steps[n], p[n], on) /\ i - 1 = n /\ i # 1
        BY <1>4, <2>1, <3>1
      <4>2. n \in 1..(n + 1) /\ n # n + 1 /\ o[n] = p[n]
        BY <1>4, <2>1
      <4> HIDE DEF o
      <4> QED BY <4>1, <4>2
    <3>2. CASE i # n + 1
      <4>1. i \in 1..n /\ o[i] = p[i]
        BY <2>1, <3>2
      <4>2. i # 1 => i - 1 \in 1..(n + 1) /\ i - 1 # n + 1 /\ o[i - 1] = p[i - 1]
        BY <2>1, <4>1
      <4> HIDE DEF o
      <4> QED BY <2>3, <4>1, <4>2
    <3> QED BY <3>1, <3>2
  <2>5. Outlined(row, prog, on, o, n)
    <3>1. o = [i \in 1..(n + 1) |-> o[i]]
      OBVIOUS
    <3> HIDE DEF o
    <3> QED BY <2>4, <3>1 DEF Outlined
  <2> QED BY <1>2, <2>5
<1> QED BY <1>3, <1>4

LEMMA OutlineUnfolds ==
  ASSUME NEW row, NEW prog, NEW on, Len(prog.steps) \in Nat
  PROVE  LET o == Outline(row, prog, on)
         IN  o[1] = Start(row) /\ \A i \in 1..Len(prog.steps) : o[i + 1] = After(prog.steps[i], o[i], on)
<1> DEFINE o == Outline(row, prog, on)
           n == Len(prog.steps)
           C == CHOOSE q : Outlined(row, prog, on, q, n)
<1>1. Outlined(row, prog, on, C, n)
  BY OutlineExists, Zenon
<1>2. o = C
  BY DEF Outline, Outlined
<1>3. Outlined(row, prog, on, o, n)
  BY <1>1, <1>2
<1> HIDE DEF o, C
<1>4. \A i \in 1..(n + 1) : o[i] = IF i = 1 THEN Start(row) ELSE After(prog.steps[i - 1], o[i - 1], on)
  BY <1>3 DEF Outlined
<1>5. o[1] = Start(row)
  BY <1>4
<1>6. ASSUME NEW i \in 1..n
      PROVE  o[i + 1] = After(prog.steps[i], o[i], on)
  <2>1. i + 1 \in 1..(n + 1) /\ i + 1 # 1 /\ (i + 1) - 1 = i
    OBVIOUS
  <2> QED BY <1>4, <2>1
<1> QED BY <1>5, <1>6 DEF o

(* The discipline of the program that is running. *)
LEMMA ProgramSound ==
  ASSUME TableSound, Placed
  PROVE  SoundProgram(routine, Prog, path, Outline(routine, Prog, path))
<1>1. Sound(routine)
  BY DEF TableSound, Placed
<1>2. CASE path = "gpu"
  <2>1. Prog = routine.gpu /\ routine.gpu # NoProgram
    BY <1>2 DEF Prog, Placed
  <2> QED BY <1>1, <1>2, <2>1, Zenon DEF Sound
<1>3. CASE path = "cpu"
  <2>1. Prog = routine.cpu
    BY <1>3 DEF Prog
  <2> QED BY <1>1, <1>3, <2>1, Zenon DEF Sound
<1> QED BY <1>2, <1>3 DEF Placed

(* The discipline of the step that comes next. *)
LEMMA StepSound ==
  ASSUME TableSound, Placed, at <= Len(Prog.steps)
  PROVE  /\ Len(Prog.steps) \in Nat /\ at \in 1..Len(Prog.steps) /\ Todo \in Steps
         /\ Outline(routine, Prog, path)[at + 1] = After(Todo, Here, path)
         /\ Allowed(Todo, Here, path) /\ Leaving(Todo, Here, routine, Prog, path)
         /\ routine.tells => TellsExit(Todo, Here, routine, Prog, path)
<1> DEFINE o == Outline(routine, Prog, path)
<1>1. SoundProgram(routine, Prog, path, o)
  BY ProgramSound
<1>2. Prog.steps \in Seq(Steps) /\ Len(Prog.steps) \in Nat
  BY <1>1 DEF SoundProgram
<1>3. at \in 1..Len(Prog.steps)
  BY <1>2 DEF Placed
<1>4. Todo \in Steps
  BY <1>2, <1>3 DEF Todo
<1>5. o[at + 1] = After(Todo, Here, path)
  BY <1>2, <1>3, OutlineUnfolds DEF Todo, Here
<1>6. Allowed(Todo, Here, path) /\ Leaving(Todo, Here, routine, Prog, path) /\ (routine.tells => TellsExit(Todo, Here, routine, Prog, path))
  BY <1>1, <1>3 DEF SoundProgram, Todo, Here
<1> QED BY <1>2, <1>3, <1>4, <1>5, <1>6

(* The place after a step that succeeds. *)
LEMMA Advanced ==
  ASSUME TableSound, Placed, at <= Len(Prog.steps), Advance, made' = made \/ "in" \in DOMAIN made'
  PROVE  Placed' /\ Prog' = Prog /\ Here' = After(Todo, Here, path) /\ routine' = routine /\ path' = path
<1>1. routine' = routine /\ path' = path /\ at' = at + 1 /\ job' = job
  BY DEF Advance
<1>2. Prog' = Prog
  BY <1>1 DEF Prog
<1>3. /\ Len(Prog.steps) \in Nat /\ at \in 1..Len(Prog.steps)
      /\ Outline(routine, Prog, path)[at + 1] = After(Todo, Here, path)
  BY StepSound
<1>4. Here' = After(Todo, Here, path)
  BY <1>1, <1>2, <1>3 DEF Here
<1>5. at' \in 1..(Len(Prog'.steps) + 1)
  BY <1>1, <1>2, <1>3
<1>6. Placed'
  BY <1>1, <1>2, <1>5 DEF Placed
<1> QED BY <1>1, <1>2, <1>4, <1>6

(* A step that does not write the input leaves it. *)
LEMMA InputApart ==
  ASSUME NEW s, NEW parts, "in" \in DOMAIN parts, s.buf # "in"
  PROVE  /\ "in" \in DOMAIN AllocatedBy(s, parts) /\ AllocatedBy(s, parts)["in"] = parts["in"]
         /\ "in" \in DOMAIN WrittenBy(s, parts) /\ WrittenBy(s, parts)["in"] = parts["in"]
  BY DEF AllocatedBy, WrittenBy

(* What is there for sure is usable, or a NULL.                            *)
LEMMA SureUsable ==
  ASSUME HeldAsOutlined
  PROVE  \A b \in Lent \cup Here.sure : Usable(b) \/ b \in nulls
  BY DEF HeldAsOutlined, Usable

(* An action that goes one step further keeps the invariant if what is     *)
(* held, made, scaled and missed follows the outline.                      *)
LEMMA Follows ==
  ASSUME RoutineInv, Running, Advance, Placed', InputKept', HeldAsOutlined', MadeAsOutlined', MissedAsOutlined'
  PROVE  RoutineInv'
<1>1. Running'
  BY DEF Advance, Running
<1> QED BY <1>1 DEF RoutineInv

LEMMA ObtainKeeps == ASSUME TableSound, RoutineInv, Obtain PROVE RoutineInv'
<1> DEFINE s == Todo
           n == Here
<1>1. Placed /\ InputKept /\ HeldAsOutlined /\ MadeAsOutlined /\ MissedAsOutlined /\ Running
  BY DEF RoutineInv, Obtain
<1>2. /\ at <= Len(Prog.steps) /\ s.op = "get" /\ held' = held \cup {<<path, s.buf>>} /\ nulls' = nulls \ {s.buf}
      /\ made' = AllocatedBy(s, made)
      /\ Advance /\ scaled' = scaled /\ missed' = missed /\ misused' = misused
  BY DEF Obtain
<1>3. Allowed(s, n, path) /\ (routine.tells => TellsExit(s, n, routine, Prog, path))
  BY <1>1, <1>2, StepSound
<1>4. s.buf # "in"
  BY <1>2, <1>3 DEF Allowed
<1>5. "in" \in DOMAIN made' /\ made'["in"] = made["in"]
  BY <1>1, <1>2, <1>4, InputApart DEF Placed
<1>6. Placed' /\ Prog' = Prog /\ Here' = After(s, n, path) /\ routine' = routine /\ path' = path
  BY <1>1, <1>2, <1>5, Advanced
<1>7. InputKept'
  BY <1>1, <1>2, <1>5 DEF InputKept
<1>8. HeldAsOutlined'
  <2>1. Here'.sure \subseteq n.sure \cup {s.buf} /\ Here'.may = n.may \cup {s.buf}
    BY <1>2, <1>6 DEF After, Proven
  <2>2. \A b \in Here'.sure : <<path, b>> \in held' \/ b \in nulls'
    BY <1>1, <1>2, <2>1 DEF HeldAsOutlined
  <2> QED BY <1>1, <1>2, <1>6, <2>1, <2>2 DEF HeldAsOutlined
<1>9. MadeAsOutlined'
  BY <1>1, <1>2, <1>6 DEF MadeAsOutlined, After
<1>10. MissedAsOutlined'
  <2>1. ASSUME routine.tells, missed
        PROVE  \E b \in Here'.lacking : <<path, b>> \notin held'
    <3>1. PICK b \in n.lacking : <<path, b>> \notin held
      BY <1>1, <2>1 DEF MissedAsOutlined
    <3>2. b # s.buf
      BY <1>2, <1>3, <2>1, <3>1 DEF TellsExit
    <3>3. b \in Here'.lacking
      BY <1>2, <1>6, <3>1, <3>2 DEF After, Proven, Found
    <3> QED BY <1>2, <3>1, <3>2, <3>3
  <2> QED BY <1>2, <1>6, <2>1 DEF MissedAsOutlined
<1> QED BY <1>1, <1>2, <1>6, <1>7, <1>8, <1>9, <1>10, Follows

LEMMA VerifyKeeps == ASSUME TableSound, RoutineInv, Verify PROVE RoutineInv'
<1> DEFINE s == Todo
           n == Here
<1>1. Placed /\ InputKept /\ HeldAsOutlined /\ MadeAsOutlined /\ MissedAsOutlined /\ Running
  BY DEF RoutineInv, Verify
<1>2. /\ at <= Len(Prog.steps) /\ s.op = "need" /\ \A b \in s.from : Usable(b)
      /\ Advance /\ held' = held /\ nulls' = nulls /\ made' = made /\ scaled' = scaled /\ missed' = missed /\ misused' = misused
  BY DEF Verify
<1>3. Placed' /\ Prog' = Prog /\ Here' = After(s, n, path) /\ routine' = routine /\ path' = path
  BY <1>1, <1>2, Advanced
<1>4. \A b \in Proven(s, path) : <<path, b>> \in held
  BY <1>2 DEF Proven, Usable
<1>5. InputKept'
  BY <1>1, <1>2 DEF InputKept
<1>6. HeldAsOutlined'
  <2>1. Here'.sure = n.sure \cup Proven(s, path) /\ Here'.may = n.may
    BY <1>2, <1>3 DEF After
  <2> QED BY <1>1, <1>2, <1>3, <1>4, <2>1 DEF HeldAsOutlined
<1>7. MadeAsOutlined'
  BY <1>1, <1>2, <1>3 DEF MadeAsOutlined, After
<1>8. MissedAsOutlined'
  <2>1. n.lacking \ Proven(s, path) \subseteq Here'.lacking
    BY <1>2, <1>3 DEF After, Found
  <2> QED BY <1>1, <1>2, <1>3, <1>4, <2>1 DEF MissedAsOutlined
<1> QED BY <1>1, <1>2, <1>3, <1>5, <1>6, <1>7, <1>8, Follows

LEMMA ComputeKeeps == ASSUME TableSound, RoutineInv, Compute PROVE RoutineInv'
<1> DEFINE s == Todo
           n == Here
<1>1. Placed /\ InputKept /\ HeldAsOutlined /\ MadeAsOutlined /\ MissedAsOutlined /\ Running
  BY DEF RoutineInv, Compute
<1>2. /\ at <= Len(Prog.steps) /\ s.op = "do" /\ (path = "gpu" => \A b \in s.from : Usable(b))
      /\ nulls \cap (s.from \cup {s.buf}) = {}
      /\ made' = WrittenBy(s, made) /\ (misused' <=> misused \/ \E b \in s.from \cup {s.buf} : ~Usable(b))
      /\ Advance /\ held' = held /\ nulls' = nulls /\ scaled' = scaled /\ missed' = missed
  BY DEF Compute, Used
<1>3. Allowed(s, n, path)
  BY <1>1, <1>2, StepSound
<1>4. s.buf # "in"
  BY <1>2, <1>3 DEF Allowed
<1>5. "in" \in DOMAIN made' /\ made'["in"] = made["in"]
  BY <1>1, <1>2, <1>4, InputApart DEF Placed
<1>6. Placed' /\ Prog' = Prog /\ Here' = After(s, n, path) /\ routine' = routine /\ path' = path
  BY <1>1, <1>2, <1>5, Advanced
<1>7. \A b \in Proven(s, path) : <<path, b>> \in held
  BY <1>2 DEF Proven, Usable
<1>8. \A b \in s.from \cup {s.buf} : Usable(b)
  <2>1. \A b \in Lent \cup n.sure : Usable(b) \/ b \in nulls
    BY <1>1, SureUsable
  <2>2. s.buf \in Lent \cup n.sure /\ (path = "gpu" \/ s.from \subseteq Lent \cup n.sure)
    BY <1>2, <1>3 DEF Allowed
  <2> QED BY <1>2, <2>1, <2>2
<1>9. InputKept'
  BY <1>1, <1>2, <1>5, <1>8 DEF InputKept
<1>10. HeldAsOutlined'
  <2>1. Here'.sure = n.sure \cup Proven(s, path) /\ Here'.may = n.may
    BY <1>2, <1>6 DEF After
  <2> QED BY <1>1, <1>2, <1>6, <1>7, <2>1 DEF HeldAsOutlined
<1>11. MadeAsOutlined'
  BY <1>1, <1>2, <1>6 DEF MadeAsOutlined, After
<1>12. MissedAsOutlined'
  <2>1. n.lacking \ Found(s, path) \subseteq Here'.lacking
    BY <1>6 DEF After
  <2>2. \A b \in Found(s, path) : <<path, b>> \in held
    BY <1>2, <1>7, <1>8 DEF Found, Usable
  <2> QED BY <1>1, <1>2, <1>6, <2>1, <2>2 DEF MissedAsOutlined
<1> QED BY <1>1, <1>2, <1>6, <1>9, <1>10, <1>11, <1>12, Follows

(* The program is gone before the routine returns. *)
LEMMA CrashKeeps == ASSUME RoutineInv, Crash PROVE RoutineInv'
<1>1. Placed /\ InputKept /\ HeldAsOutlined /\ MissedAsOutlined /\ MadeAsOutlined
  BY DEF RoutineInv, Crash
<1>2. /\ UNCHANGED <<job, routine, path, at, held, nulls, made, scaled, missed, misused>>
      /\ outcome' = "killed" /\ missed
  BY <1>1 DEF Crash, HeldAsOutlined
<1>3. Placed' /\ InputKept'
  BY <1>1, <1>2 DEF Placed, Prog, InputKept
<1>4. ~Running' /\ ResultComplete' /\ NothingLeaks' /\ FailureReported'
  BY <1>2 DEF Running, ResultComplete, NothingLeaks, FailureReported
<1> QED BY <1>3, <1>4 DEF RoutineInv

LEMMA ReleaseKeeps == ASSUME TableSound, RoutineInv, Release PROVE RoutineInv'
<1> DEFINE s == Todo
           n == Here
<1>1. Placed /\ InputKept /\ HeldAsOutlined /\ MadeAsOutlined /\ MissedAsOutlined /\ Running
  BY DEF RoutineInv, Release
<1>2. /\ at <= Len(Prog.steps) /\ s.op = "put" /\ held' = held \ {<<path, s.buf>>}
      /\ (misused' <=> misused \/ (~Usable(s.buf) /\ s.buf \notin nulls))
      /\ Advance /\ nulls' = nulls /\ made' = made /\ scaled' = scaled /\ missed' = missed
  BY DEF Release
<1>3. Placed' /\ Prog' = Prog /\ Here' = After(s, n, path) /\ routine' = routine /\ path' = path
  BY <1>1, <1>2, Advanced
<1>4. Allowed(s, n, path)
  BY <1>1, <1>2, StepSound
<1>5. s.buf \in n.sure /\ s.exit # "lost" /\ s.exit # "null"
  BY <1>2, <1>4 DEF Allowed
<1>6. InputKept'
  BY <1>1, <1>2, <1>5, SureUsable DEF InputKept
<1>7. HeldAsOutlined'
  <2>1. Here'.sure = n.sure \ {s.buf} /\ Here'.may = n.may \ {s.buf}
    BY <1>2, <1>3 DEF After
  <2> QED BY <1>1, <1>2, <1>3, <2>1 DEF HeldAsOutlined
<1>8. MadeAsOutlined'
  BY <1>1, <1>2, <1>3 DEF MadeAsOutlined, After
<1>9. MissedAsOutlined'
  <2>1. Here'.lacking = n.lacking
    BY <1>2, <1>3, <1>5 DEF After, Proven, Found
  <2> QED BY <1>1, <1>2, <1>3, <2>1 DEF MissedAsOutlined
<1> QED BY <1>1, <1>2, <1>3, <1>6, <1>7, <1>8, <1>9, Follows

LEMMA ScaleKeeps == ASSUME TableSound, RoutineInv, ScaleMaximum PROVE RoutineInv'
<1> DEFINE s == Todo
           n == Here
<1>1. Placed /\ InputKept /\ HeldAsOutlined /\ MadeAsOutlined /\ MissedAsOutlined /\ Running
  BY DEF RoutineInv, ScaleMaximum
<1>2. /\ at <= Len(Prog.steps) /\ s.op = "scale" /\ scaled' = scaled + 1
      /\ Advance /\ held' = held /\ nulls' = nulls /\ made' = made /\ missed' = missed /\ misused' = misused
  BY DEF ScaleMaximum
<1>3. Placed' /\ Prog' = Prog /\ Here' = After(s, n, path) /\ routine' = routine /\ path' = path
  BY <1>1, <1>2, Advanced
<1>4. Allowed(s, n, path)
  BY <1>1, <1>2, StepSound
<1>5. Here'.sure = n.sure /\ Here'.may = n.may /\ Here'.lacking = n.lacking /\ Here'.made = n.made /\ Here'.scaled = n.scaled + 1
  BY <1>2, <1>3, <1>4 DEF After, Proven, Found, Allowed
<1>6. InputKept'
  BY <1>1, <1>2 DEF InputKept
<1>7. HeldAsOutlined'
  BY <1>1, <1>2, <1>3, <1>5 DEF HeldAsOutlined
<1>8. MadeAsOutlined'
  BY <1>1, <1>2, <1>3, <1>5 DEF MadeAsOutlined
<1>9. MissedAsOutlined'
  BY <1>1, <1>2, <1>3, <1>5 DEF MissedAsOutlined
<1> QED BY <1>1, <1>2, <1>3, <1>6, <1>7, <1>8, <1>9, Follows

(* Where nobody notices a failure the outline promises nothing of the step,*)
(* or that it left a NULL; a program that tells has been at an allocation, *)
(* which is now lacking.                                                   *)
LEMMA MissKeeps == ASSUME TableSound, RoutineInv, Miss PROVE RoutineInv'
<1> DEFINE s == Todo
           n == Here
<1>1. Placed /\ InputKept /\ HeldAsOutlined /\ MadeAsOutlined /\ MissedAsOutlined /\ Running
  BY DEF RoutineInv, Miss
<1>2. /\ at <= Len(Prog.steps) /\ s.exit \in {"lost", "null"} /\ missed'
      /\ nulls' = (IF s.exit = "null" THEN nulls \cup {s.buf} ELSE nulls)
      /\ Advance /\ held' = held /\ made' = made /\ scaled' = scaled /\ misused' = misused
  BY DEF Miss
<1>3. Placed' /\ Prog' = Prog /\ Here' = After(s, n, path) /\ routine' = routine /\ path' = path
  BY <1>1, <1>2, Advanced
<1>4. Allowed(s, n, path) /\ (routine.tells => TellsExit(s, n, routine, Prog, path))
  BY <1>1, <1>2, StepSound
<1>5. /\ Here'.sure = n.sure \cup (IF s.exit = "null" THEN {s.buf} ELSE {})
      /\ n.may \subseteq Here'.may /\ Here'.lacking = n.lacking \cup {s.buf}
      /\ Here'.scaled = n.scaled /\ (s.exit = "null" => path # "gpu")
  <2>1. CASE s.exit = "lost"
    BY <1>2, <1>3, <1>4, <2>1 DEF After, Proven, Found, Allowed
  <2>2. CASE s.exit = "null"
    <3>1. s.op = "get" /\ path = "cpu"
      BY <1>4, <2>2 DEF Allowed
    <3>2. Proven(s, path) = {s.buf} /\ Found(s, path) = {}
      BY <2>2, <3>1 DEF Proven, Found
    <3> QED BY <1>3, <2>2, <3>1, <3>2 DEF After
  <2> QED BY <1>2, <2>1, <2>2
<1>6. InputKept'
  BY <1>1, <1>2 DEF InputKept
<1>7. HeldAsOutlined'
  <2>1. \A b \in Here'.sure : <<path, b>> \in held' \/ b \in nulls'
    BY <1>1, <1>2, <1>5 DEF HeldAsOutlined
  <2>2. nulls' # {} => path' = "cpu" /\ missed'
    BY <1>1, <1>2, <1>3, <1>5 DEF HeldAsOutlined, Placed
  <2>3. \A h \in held' : \/ \E b \in Here'.may : h = <<path, b>>
                         \/ path = "cpu" /\ \E b \in routine.keeps : h = <<"gpu", b>>
    BY <1>1, <1>2, <1>5 DEF HeldAsOutlined
  <2> QED BY <1>3, <2>1, <2>2, <2>3 DEF HeldAsOutlined
<1>8. MadeAsOutlined'
  BY <1>1, <1>2, <1>3, <1>5 DEF MadeAsOutlined
<1>9. MissedAsOutlined'
  <2>1. ASSUME routine.tells
        PROVE  <<path, s.buf>> \notin held
    <3>1. s.buf \notin n.may
      BY <1>2, <1>4, <2>1 DEF TellsExit
    <3> QED BY <1>1, <3>1 DEF HeldAsOutlined
  <2> QED BY <1>2, <1>3, <1>5, <2>1 DEF MissedAsOutlined
<1> QED BY <1>1, <1>2, <1>3, <1>6, <1>7, <1>8, <1>9, Follows

(* What is allocated when a failure is noticed and its exit has released   *)
(* what it releases stays allocated by intent.                             *)
LEMMA FailLeaves ==
  ASSUME TableSound, RoutineInv, Fail
  PROVE  \A h \in held' : \E b \in routine.keeps : h = <<path, b>> \/ (path = "cpu" /\ h = <<"gpu", b>>)
<1>1. Placed /\ HeldAsOutlined /\ at <= Len(Prog.steps) /\ Todo.exit \in DOMAIN Prog.exits
  BY DEF RoutineInv, Fail
<1>2. held' = held \ {<<path, b>> : b \in Prog.exits[Todo.exit].frees}
  BY DEF Fail
<1>3. Here.may \ Prog.exits[Todo.exit].frees \subseteq routine.keeps
  BY <1>1, StepSound DEF Leaving
<1> QED BY <1>1, <1>2, <1>3 DEF HeldAsOutlined

(* On the card the other path begins at its first step, with the input as  *)
(* it was and nothing scaled; on the host the routine ends.                *)
LEMMA FailKeeps == ASSUME TableSound, RoutineInv, Fail PROVE RoutineInv'
<1>1. Placed /\ InputKept /\ HeldAsOutlined /\ MadeAsOutlined /\ MissedAsOutlined /\ Running
  BY DEF RoutineInv, Fail
<1>2. /\ at <= Len(Prog.steps) /\ Todo.exit \in DOMAIN Prog.exits
      /\ job' = job /\ routine' = routine /\ nulls' = nulls /\ scaled' = scaled /\ misused' = misused
  BY DEF Fail
<1>3. Leaving(Todo, Here, routine, Prog, path) /\ (routine.tells => TellsExit(Todo, Here, routine, Prog, path))
  BY <1>1, <1>2, StepSound
<1>4. \A h \in held' : \E b \in routine.keeps : h = <<path, b>> \/ (path = "cpu" /\ h = <<"gpu", b>>)
  BY FailLeaves
<1>5. CASE path = "gpu"
  <2>1. /\ path' = "cpu" /\ at' = 1 /\ made' = [FreshBuffers(routine) EXCEPT !["in"] = made["in"]]
        /\ ~missed' /\ outcome' = outcome
    BY <1>5 DEF Fail
  <2>2. Prog' = routine.cpu
    BY <1>2, <2>1 DEF Prog
  <2>3. SoundProgram(routine, routine.cpu, "cpu", Outline(routine, routine.cpu, "cpu"))
    BY <1>1, Zenon DEF TableSound, Placed, Sound
  <2>4. Here' = Start(routine)
    <3>1. Len(routine.cpu.steps) \in Nat
      BY <2>3 DEF SoundProgram
    <3> QED BY <1>2, <2>1, <2>2, <3>1, OutlineUnfolds DEF Here
  <2>5. "in" \in DOMAIN FreshBuffers(routine) /\ FreshBuffers(routine)["in"] = made["in"]
    BY <1>1 DEF FreshBuffers, Buffers, Lent, InputKept
  <2>6. made' = FreshBuffers(routine)
    BY <2>1, <2>5 DEF FreshBuffers
  <2>7. Len(routine.cpu.steps) \in Nat
    BY <2>3 DEF SoundProgram
  <2>8. Placed'
    BY <1>1, <1>2, <2>1, <2>2, <2>5, <2>6, <2>7 DEF Placed
  <2>9. InputKept'
    BY <1>1, <1>2, <2>5, <2>6 DEF InputKept
  <2>10. HeldAsOutlined'
    <3>1. nulls' = {}
      BY <1>1, <1>2, <1>5 DEF HeldAsOutlined
    <3>2. \A h \in held' : path' = "cpu" /\ \E b \in routine'.keeps : h = <<"gpu", b>>
      BY <1>2, <1>4, <1>5, <2>1
    <3> QED BY <2>4, <3>1, <3>2 DEF HeldAsOutlined, Start
  <2>11. MadeAsOutlined'
    <3>1. scaled = 0
      BY <1>1, <1>2, <1>3, <1>5 DEF MadeAsOutlined, Leaving
    <3> QED BY <1>2, <2>1, <2>4, <2>6, <3>1 DEF MadeAsOutlined, Start
  <2>12. MissedAsOutlined'
    BY <2>1 DEF MissedAsOutlined
  <2>13. Running'
    BY <1>1, <2>1 DEF Running
  <2> QED BY <2>8, <2>9, <2>10, <2>11, <2>12, <2>13 DEF RoutineInv
<1>6. CASE path = "cpu"
  <2>1. /\ outcome' = (IF Prog.exits[Todo.exit].status = 0 THEN "done" ELSE "failed")
        /\ missed' /\ path' = path /\ at' = at /\ made' = made
    BY <1>6 DEF Fail
  <2>2. ~Running'
    BY <2>1 DEF Running
  <2>3. Prog' = Prog
    BY <1>2, <2>1 DEF Prog
  <2>4. Placed'
    BY <1>1, <1>2, <2>1, <2>3 DEF Placed
  <2>5. InputKept'
    BY <1>1, <1>2, <2>1 DEF InputKept
  <2>6. ResultComplete'
    BY <2>1 DEF ResultComplete
  <2>7. NothingLeaks'
    BY <1>2, <1>4 DEF NothingLeaks
  <2>8. FailureReported'
    <3>1. ASSUME routine.tells, outcome' = "done"
          PROVE  LastUnwritten'
      <4>1. Todo.exit \in routine.late /\ LastOf(Todo, Here, routine, path)
        BY <1>2, <1>3, <1>6, <2>1, <3>1 DEF TellsExit
      <4>2. ~missed
        BY <1>1, <3>1, <4>1 DEF MissedAsOutlined, LastOf
      <4>3. Contents("out") \cup {Todo.name} = Promised(routine, path)
        BY <1>1, <4>1, <4>2 DEF MadeAsOutlined, LastOf, Contents
      <4>4. Todo' = Todo /\ at' <= Len(Prog'.steps)
        BY <1>2, <2>1, <2>3 DEF Todo
      <4> QED BY <1>2, <2>1, <4>1, <4>3, <4>4 DEF LastUnwritten, Contents
    <3> QED BY <1>2, <2>1, <3>1 DEF FailureReported
  <2> QED BY <2>2, <2>4, <2>5, <2>6, <2>7, <2>8 DEF RoutineInv
<1> QED BY <1>1, <1>5, <1>6 DEF Placed

LEMMA ReturnKeeps == ASSUME TableSound, RoutineInv, Return PROVE RoutineInv'
<1> DEFINE end == Len(Prog.steps) + 1
<1>1. Placed /\ InputKept /\ HeldAsOutlined /\ MadeAsOutlined /\ MissedAsOutlined /\ Running
  BY DEF RoutineInv, Return
<1>2. /\ at = end /\ outcome' = (IF Prog.status = 0 THEN "done" ELSE "failed")
      /\ UNCHANGED <<job, routine, path, at, held, nulls, made, scaled, missed, misused>>
  BY DEF Return
<1>3. Ending(Here, routine, path) /\ (routine.tells => TellsEnd(Here, Prog))
  BY <1>1, <1>2, ProgramSound DEF SoundProgram, Here
<1>4. ~Running' /\ Prog' = Prog
  BY <1>2 DEF Running, Prog
<1>5. Placed'
  BY <1>1, <1>2, <1>4 DEF Placed
<1>6. InputKept'
  BY <1>1, <1>2 DEF InputKept
<1>7. ~missed => Contents("out") = Promised(routine, path) /\ scaled = routine.scales
  BY <1>1, <1>3 DEF MadeAsOutlined, Ending, Contents
<1>8. ResultComplete'
  BY <1>2, <1>7 DEF ResultComplete, Contents
<1>9. NothingLeaks'
  <2>1. \A h \in held : h[2] \in routine.keeps
    BY <1>1, <1>3 DEF HeldAsOutlined, Ending
  <2> QED BY <1>2, <2>1 DEF NothingLeaks
<1>10. FailureReported'
  <2>1. routine.tells => ~missed /\ outcome' = "done"
    BY <1>1, <1>2, <1>3 DEF MissedAsOutlined, TellsEnd
  <2> QED BY <1>2, <1>7, <2>1 DEF FailureReported, Contents
<1> QED BY <1>4, <1>5, <1>6, <1>8, <1>9, <1>10 DEF RoutineInv

LEMMA StillKeeps == ASSUME RoutineInv, UNCHANGED routineVars PROVE RoutineInv'
<1>1. UNCHANGED <<job, routine, path, at, held, nulls, made, scaled, missed, misused, outcome>>
  BY DEF routineVars
<1>2. Prog' = Prog /\ (Running' <=> Running)
  BY <1>1 DEF Prog, Running
<1>3. Here' = Here
  BY <1>1, <1>2 DEF Here
<1>4. Placed' /\ InputKept'
  BY <1>1, <1>2 DEF RoutineInv, Placed, InputKept
<1>5. Running => HeldAsOutlined' /\ MadeAsOutlined' /\ MissedAsOutlined'
  BY <1>1, <1>3 DEF RoutineInv, HeldAsOutlined, MadeAsOutlined, MissedAsOutlined
<1>6. ~Running => ResultComplete' /\ NothingLeaks' /\ FailureReported'
  BY <1>1, <1>2 DEF RoutineInv, ResultComplete, NothingLeaks, FailureReported, LastUnwritten, Todo, Contents
<1> QED BY <1>2, <1>4, <1>5, <1>6 DEF RoutineInv

LEMMA RoutineBegins == TableSound /\ RoutineInit => RoutineInv
<1> SUFFICES ASSUME TableSound, RoutineInit PROVE RoutineInv
  OBVIOUS
<1>1. /\ job \in DOMAIN Table /\ routine = Table[job] /\ at = 1 /\ held = {} /\ nulls = {} /\ made = FreshBuffers(routine) /\ scaled = 0
      /\ missed = FALSE /\ misused = FALSE /\ outcome = "running"
  BY DEF RoutineInit
<1>2. path \in {"gpu", "cpu"} /\ (path = "gpu" => routine.gpu # NoProgram)
  BY DEF RoutineInit
<1>3. Sound(routine)
  BY <1>1 DEF TableSound
<1>4. SoundProgram(routine, Prog, path, Outline(routine, Prog, path))
  <2>1. CASE path = "gpu"
    <3>1. Prog = routine.gpu /\ routine.gpu # NoProgram
      BY <1>2, <2>1 DEF Prog
    <3> QED BY <1>3, <2>1, <3>1, Zenon DEF Sound
  <2>2. CASE path = "cpu"
    <3>1. Prog = routine.cpu
      BY <2>2 DEF Prog
    <3> QED BY <1>3, <2>2, <3>1, Zenon DEF Sound
  <2> QED BY <1>2, <2>1, <2>2
<1>5. Len(Prog.steps) \in Nat /\ Here = Start(routine)
  <2>1. Len(Prog.steps) \in Nat
    BY <1>4 DEF SoundProgram
  <2> QED BY <1>1, <2>1, OutlineUnfolds DEF Here
<1>6. made["in"] = [p \in {"inner", "border"} |-> {"in"}] /\ "in" \in DOMAIN made
  BY <1>1 DEF FreshBuffers, Buffers, Lent
<1>7. Placed /\ InputKept
  BY <1>1, <1>2, <1>5, <1>6 DEF Placed, InputKept
<1>8. HeldAsOutlined /\ MadeAsOutlined /\ MissedAsOutlined
  BY <1>1, <1>5 DEF HeldAsOutlined, MadeAsOutlined, MissedAsOutlined, Start
<1> QED BY <1>1, <1>7, <1>8 DEF RoutineInv, Running

LEMMA RoutineStep == TableSound /\ RoutineInv /\ [RoutineNext]_routineVars => RoutineInv'
<1> SUFFICES ASSUME TableSound, RoutineInv, [RoutineNext]_routineVars PROVE RoutineInv'
  OBVIOUS
<1>1. CASE RoutineNext
  BY <1>1, ObtainKeeps, VerifyKeeps, ComputeKeeps, CrashKeeps, ReleaseKeeps, ScaleKeeps, MissKeeps, FailKeeps, ReturnKeeps, StillKeeps DEF RoutineNext, Returned
<1>2. CASE UNCHANGED routineVars
  BY <1>2, StillKeeps
<1> QED BY <1>1, <1>2

(* Whatever fails, the output of a routine that missed nothing is made of  *)
(* the steps its row promises of the path that did the work, and scaled as *)
(* often, for every table of sound rows.                                   *)
THEOREM RoutinesComplete == ASSUME TableSound PROVE RoutineSpec => []ResultComplete
<1>1. RoutineInit => RoutineInv
  BY RoutineBegins
<1>2. RoutineInv /\ [RoutineNext]_routineVars => RoutineInv'
  BY RoutineStep
<1>3. RoutineInv => ResultComplete
  BY DEF RoutineInv, ResultComplete
<1> QED BY <1>1, <1>2, <1>3, PTL DEF RoutineSpec

(* However a routine returns, it has given back what it obtained on either *)
(* path, but for what its row says it keeps.                               *)
THEOREM RoutinesGiveBack == ASSUME TableSound PROVE RoutineSpec => []NothingLeaks
<1>1. RoutineInit => RoutineInv
  BY RoutineBegins
<1>2. RoutineInv /\ [RoutineNext]_routineVars => RoutineInv'
  BY RoutineStep
<1>3. RoutineInv => NothingLeaks
  BY DEF RoutineInv, NothingLeaks, Running
<1> QED BY <1>1, <1>2, <1>3, PTL DEF RoutineSpec

(* The input is what it was at every moment, also when the card gave up    *)
(* half-way, and nothing is used that was not asked for or is released.    *)
THEOREM RoutinesKeepInput == ASSUME TableSound PROVE RoutineSpec => []InputKept
<1>1. RoutineInit => RoutineInv
  BY RoutineBegins
<1>2. RoutineInv /\ [RoutineNext]_routineVars => RoutineInv'
  BY RoutineStep
<1>3. RoutineInv => InputKept
  BY DEF RoutineInv
<1> QED BY <1>1, <1>2, <1>3, PTL DEF RoutineSpec

(* A routine that returns a status returns an error only if something      *)
(* failed, and 0 only if all of the output is there, or all but the last   *)
(* buffer where the row says so.                                           *)
THEOREM RoutinesTell == ASSUME TableSound PROVE RoutineSpec => []FailureReported
<1>1. RoutineInit => RoutineInv
  BY RoutineBegins
<1>2. RoutineInv /\ [RoutineNext]_routineVars => RoutineInv'
  BY RoutineStep
<1>3. RoutineInv => FailureReported
  BY DEF RoutineInv, FailureReported, Running
<1> QED BY <1>1, <1>2, <1>3, PTL DEF RoutineSpec

----------------------------------------------------------------------------
(* The fit of the shifts.                                                  *)
Times(x) == [p \in Nat \X Int |-> p[2] * x]

LEMMA PowerIterates ==
  ASSUME NEW x \in Int, NEW n \in Nat
  PROVE  \E f \in [0..n -> Int] : Iterates(f, 1, Times(x), n) /\ pow(x, n) = f[n]
<1> DEFINE IsPower(f) == f = [k \in 0..n |-> IF k = 0 THEN 1 ELSE f[k - 1] * x]
           f == CHOOSE f : IsPower(f)
<1>1. ASSUME NEW g \in [0..n -> Int]
      PROVE  IsPower(g) <=> Iterates(g, 1, Times(x), n)
  <2>1. \A k \in 0..n : k # 0 => Times(x)[<<k, g[k - 1]>>] = g[k - 1] * x
    BY DEF Times
  <2> QED BY <2>1 DEF Iterates
<1>2. PICK g \in [0..n -> Int] : Iterates(g, 1, Times(x), n)
  <2>1. Times(x) \in [Nat \X Int -> Int]
    BY DEF Times
  <2> QED BY <2>1, IterationExists
<1>3. IsPower(f)
  BY <1>1, <1>2, Zenon
<1>4. pow(x, n) = f[n]
  BY DEF pow
<1>5. f \in [0..n -> Int]
  <2> DEFINE Odd == {k \in 0..n : f[k] \notin Int}
  <2> HIDE DEF f
  <2>1. ASSUME Odd # {} PROVE FALSE
    <3> Odd \subseteq Nat
      OBVIOUS
    <3>1. PICK k \in Odd : \A j \in Odd : k <= j
      BY <2>1, LeastNatural, Zenon
    <3>2. f[k] = IF k = 0 THEN 1 ELSE f[k - 1] * x
      BY <1>3, <3>1
    <3>3. k # 0 /\ k - 1 \in 0..n /\ k - 1 \notin Odd
      BY <3>1, <3>2
    <3> QED BY <3>1, <3>2, <3>3
  <2>2. DOMAIN f = 0..n /\ f = [k \in DOMAIN f |-> f[k]]
    BY <1>3
  <2> QED BY <2>1, <2>2
<1> QED BY <1>1, <1>3, <1>4, <1>5

(* pow(x, n) is x^n. *)
LEMMA Powers ==
  ASSUME NEW x \in Int, NEW n \in Nat
  PROVE  pow(x, n) \in Int /\ pow(x, 0) = 1 /\ pow(x, n + 1) = pow(x, n) * x
<1> n + 1 \in Nat /\ 0 \in Nat
  OBVIOUS
<1>1. PICK f \in [0..n -> Int] : Iterates(f, 1, Times(x), n) /\ pow(x, n) = f[n]
  BY PowerIterates
<1>2. PICK g \in [0..(n + 1) -> Int] : Iterates(g, 1, Times(x), n + 1) /\ pow(x, n + 1) = g[n + 1]
  BY PowerIterates, Zenon
<1>3. PICK z \in [0..0 -> Int] : Iterates(z, 1, Times(x), 0) /\ pow(x, 0) = z[0]
  BY PowerIterates, Zenon
<1>4. f[n] = g[n]
  BY <1>1, <1>2, IterationsAgree
<1>5. g[n + 1] = g[n] * x
  <2>1. \A k \in 0..(n + 1) : g[k] = IF k = 0 THEN 1 ELSE Times(x)[<<k, g[k - 1]>>]
    BY <1>2 DEF Iterates
  <2>2. g[n + 1] = Times(x)[<<n + 1, g[n]>>]
    BY <2>1
  <2> QED BY <1>2, <2>2 DEF Times
<1>6. z[0] = 1
  BY <1>3 DEF Iterates
<1> QED BY <1>1, <1>2, <1>3, <1>4, <1>5, <1>6

(* A row of the system of order 4 times a vector. *)
Adds(x, m, r) == [p \in Nat \X Int |-> p[2] + (IF p[1] \in 1..16 THEN m[r * 16 + (p[1] - 1)] * x[p[1] - 1] ELSE 0)]

LEMMA RowIterates ==
  ASSUME NEW m \in [0..255 -> Int], NEW x \in [0..15 -> Int], NEW r \in 0..15
  PROVE  \E f \in [0..16 -> Int] : /\ f[0] = 0 /\ RowSum(x, 16, m, r) = f[16]
                                   /\ \A k \in 1..16 : f[k] = f[k - 1] + m[r * 16 + (k - 1)] * x[k - 1]
<1> DEFINE IsSum(f) == f = [k \in 0..16 |-> IF k = 0 THEN 0 ELSE f[k - 1] + m[r * 16 + (k - 1)] * x[k - 1]]
           f == CHOOSE f : IsSum(f)
<1>1. \A k \in 1..16 : m[r * 16 + (k - 1)] \in Int /\ x[k - 1] \in Int /\ m[r * 16 + (k - 1)] * x[k - 1] \in Int
  <2>1. \A a, b \in Int : a * b \in Int
    OBVIOUS
  <2> SUFFICES ASSUME NEW k \in 1..16
               PROVE  m[r * 16 + (k - 1)] \in Int /\ x[k - 1] \in Int
    BY <2>1
  <2>2. r * 16 + (k - 1) \in 0..255 /\ k - 1 \in 0..15
    OBVIOUS
  <2> QED BY <2>2
<1>2. Adds(x, m, r) \in [Nat \X Int -> Int]
  <2> DEFINE e(p) == p[2] + (IF p[1] \in 1..16 THEN m[r * 16 + (p[1] - 1)] * x[p[1] - 1] ELSE 0)
  <2>1. ASSUME NEW p \in Nat \X Int PROVE e(p) \in Int
    <3>1. CASE p[1] \in 1..16
      BY <1>1, <3>1
    <3>2. CASE p[1] \notin 1..16
      BY <3>2
    <3> QED BY <3>1, <3>2
  <2> HIDE DEF e
  <2>2. [p \in Nat \X Int |-> e(p)] \in [Nat \X Int -> Int]
    BY <2>1
  <2> QED BY <2>2 DEF Adds, e
<1>3. ASSUME NEW g \in [0..16 -> Int], Iterates(g, 0, Adds(x, m, r), 16)
      PROVE  IsSum(g)
  <2>1. \A k \in 0..16 : k # 0 => Adds(x, m, r)[<<k, g[k - 1]>>] = g[k - 1] + m[r * 16 + (k - 1)] * x[k - 1]
    BY DEF Adds
  <2> QED BY <1>3, <2>1 DEF Iterates
<1>4. IsSum(f)
  <2>1. 0 \in Int /\ 16 \in Nat
    OBVIOUS
  <2>2. \E g \in [0..16 -> Int] : Iterates(g, 0, Adds(x, m, r), 16)
    BY <1>2, <2>1, IterationExists, Zenon
  <2> QED BY <1>3, <2>2, Zenon
<1>5. RowSum(x, 16, m, r) = f[16]
  BY DEF RowSum
<1>6. \A k \in 0..16 : f[k] = IF k = 0 THEN 0 ELSE f[k - 1] + m[r * 16 + (k - 1)] * x[k - 1]
  <2> HIDE DEF f
  <2> QED BY <1>4
<1>7. f[0] = 0 /\ \A k \in 1..16 : f[k] = f[k - 1] + m[r * 16 + (k - 1)] * x[k - 1]
  <2> HIDE DEF f
  <2>1. 0 \in 0..16 /\ \A k \in 1..16 : k \in 0..16 /\ k # 0
    OBVIOUS
  <2> QED BY <1>6, <2>1, Zenon
<1>8. f \in [0..16 -> Int]
  <2> DEFINE Odd == {k \in 0..16 : f[k] \notin Int}
  <2> HIDE DEF f
  <2>1. ASSUME Odd # {} PROVE FALSE
    <3> Odd \subseteq Nat
      OBVIOUS
    <3>1. PICK k \in Odd : \A j \in Odd : k <= j
      BY <2>1, LeastNatural, Zenon
    <3>2. k \in 1..16 /\ k - 1 \in 0..16 /\ k - 1 \notin Odd
      BY <1>7, <3>1
    <3>3. f[k] = f[k - 1] + m[r * 16 + (k - 1)] * x[k - 1]
      BY <1>7, <3>2
    <3> QED BY <1>1, <3>1, <3>2, <3>3
  <2>2. f = [k \in 0..16 |-> f[k]]
    BY <1>4
  <2> QED BY <2>1, <2>2
<1> HIDE DEF f
<1> QED BY <1>5, <1>7, <1>8

(* Only four of the coefficients of a law are not 0. *)
LEMMA RowSumFour ==
  ASSUME NEW m \in [0..255 -> Int], NEW x \in [0..15 -> Int], NEW r \in 0..15, \A k \in (0..15) \ {0, 1, 4, 5} : x[k] = 0
  PROVE  RowSum(x, 16, m, r) = m[16 * r] * x[0] + m[16 * r + 1] * x[1] + m[16 * r + 4] * x[4] + m[16 * r + 5] * x[5]
<1>1. PICK f \in [0..16 -> Int] : /\ f[0] = 0 /\ RowSum(x, 16, m, r) = f[16]
                                  /\ \A k \in 1..16 : f[k] = f[k - 1] + m[r * 16 + (k - 1)] * x[k - 1]
  BY RowIterates
<1>2. \A k \in 0..15 : m[r * 16 + k] \in Int /\ x[k] \in Int
  <2> TAKE k \in 0..15
  <2>1. r * 16 + k \in 0..255
    OBVIOUS
  <2> QED BY <2>1
<1>3. \A k \in 0..15 : f[k + 1] = f[k] + m[r * 16 + k] * x[k]
  <2> TAKE k \in 0..15
  <2>1. k + 1 \in 1..16 /\ (k + 1) - 1 = k
    OBVIOUS
  <2> QED BY <1>1, <2>1
<1>4. \A k \in (0..15) \ {0, 1, 4, 5} : f[k + 1] = f[k]
  <2> TAKE k \in (0..15) \ {0, 1, 4, 5}
  <2>1. f[k] \in Int /\ x[k] = 0 /\ m[r * 16 + k] \in Int
    BY <1>2
  <2>2. m[r * 16 + k] * x[k] = 0
    BY <2>1
  <2> QED BY <1>3, <2>1, <2>2
<1>5. /\ f[1] = f[0] + m[r * 16 + 0] * x[0] /\ f[2] = f[1] + m[r * 16 + 1] * x[1]
      /\ f[5] = f[4] + m[r * 16 + 4] * x[4] /\ f[6] = f[5] + m[r * 16 + 5] * x[5]
  <2>1. f[0 + 1] = f[0] + m[r * 16 + 0] * x[0] /\ f[1 + 1] = f[1] + m[r * 16 + 1] * x[1]
    BY <1>3
  <2>2. f[4 + 1] = f[4] + m[r * 16 + 4] * x[4] /\ f[5 + 1] = f[5] + m[r * 16 + 5] * x[5]
    BY <1>3
  <2> QED BY <2>1, <2>2
<1>6. f[4] = f[2]
  <2>1. f[2 + 1] = f[2] /\ f[3 + 1] = f[3]
    BY <1>4
  <2> QED BY <2>1
<1>7. f[16] = f[6]
  <2>1. f[6 + 1] = f[6] /\ f[7 + 1] = f[7] /\ f[8 + 1] = f[8] /\ f[9 + 1] = f[9] /\ f[10 + 1] = f[10]
    BY <1>4
  <2>2. f[11 + 1] = f[11] /\ f[12 + 1] = f[12] /\ f[13 + 1] = f[13] /\ f[14 + 1] = f[14] /\ f[15 + 1] = f[15]
    BY <1>4
  <2> QED BY <2>1, <2>2
<1>8. /\ r * 16 + 0 = 16 * r /\ r * 16 + 1 = 16 * r + 1 /\ r * 16 + 4 = 16 * r + 4 /\ r * 16 + 5 = 16 * r + 5
  OBVIOUS
<1>9. /\ m[16 * r] * x[0] \in Int /\ m[16 * r + 1] * x[1] \in Int /\ m[16 * r + 4] * x[4] \in Int /\ m[16 * r + 5] * x[5] \in Int
  <2>1. \A a, b \in Int : a * b \in Int
    OBVIOUS
  <2>2. /\ 16 * r \in 0..255 /\ 16 * r + 1 \in 0..255 /\ 16 * r + 4 \in 0..255 /\ 16 * r + 5 \in 0..255
    OBVIOUS
  <2>3. /\ m[16 * r] \in Int /\ m[16 * r + 1] \in Int /\ m[16 * r + 4] \in Int /\ m[16 * r + 5] \in Int
        /\ x[0] \in Int /\ x[1] \in Int /\ x[4] \in Int /\ x[5] \in Int
    BY <2>2
  <2> QED BY <2>1, <2>3
<1> DEFINE a == m[16 * r] * x[0]
           b == m[16 * r + 1] * x[1]
           c == m[16 * r + 4] * x[4]
           d == m[16 * r + 5] * x[5]
<1>10. f[1] = f[0] + a /\ f[2] = f[1] + b /\ f[5] = f[4] + c /\ f[6] = f[5] + d
  BY <1>5, <1>8
<1>11. a \in Int /\ b \in Int /\ c \in Int /\ d \in Int
  BY <1>9
<1> HIDE DEF a, b, c, d
<1>12. f[16] = a + b + c + d
  BY <1>1, <1>6, <1>7, <1>10, <1>11
<1> QED BY <1>1, <1>12 DEF a, b, c, d

LEMMA LawCoefficients ==
  ASSUME \A i \in 1..4 : law[i] \in Int
  PROVE  /\ Coefficients(4) \in [0..15 -> Int]
         /\ Coefficients(4)[0] = law[1] /\ Coefficients(4)[1] = law[2]
         /\ Coefficients(4)[4] = law[3] /\ Coefficients(4)[5] = law[4]
         /\ \A k \in (0..15) \ {0, 1, 4, 5} : Coefficients(4)[k] = 0
<1> DEFINE c(k) == IF k \div 4 < 2 /\ k % 4 < 2 THEN law[2 * (k \div 4) + (k % 4) + 1] ELSE 0
<1>1. Coefficients(4) = [k \in 0..15 |-> c(k)]
  <2>1. 4 * 4 - 1 = 15
    OBVIOUS
  <2> QED BY <2>1 DEF Coefficients
<1>2. ASSUME NEW k \in 0..15
      PROVE  c(k) \in Int
  <2>1. k \div 4 \in 0..3 /\ k % 4 \in 0..3
    OBVIOUS
  <2>2. CASE k \div 4 < 2 /\ k % 4 < 2
    <3>1. 2 * (k \div 4) + (k % 4) + 1 \in 1..4
      BY <2>1, <2>2
    <3> QED BY <2>2, <3>1
  <2>3. CASE ~(k \div 4 < 2 /\ k % 4 < 2)
    BY <2>3
  <2> QED BY <2>2, <2>3
<1>3. c(0) = law[1] /\ c(1) = law[2] /\ c(4) = law[3] /\ c(5) = law[4]
  <2>1. 0 \div 4 = 0 /\ 0 % 4 = 0 /\ 1 \div 4 = 0 /\ 1 % 4 = 1 /\ 4 \div 4 = 1 /\ 4 % 4 = 0 /\ 5 \div 4 = 1 /\ 5 % 4 = 1
    OBVIOUS
  <2> QED BY <2>1
<1>4. ASSUME NEW k \in (0..15) \ {0, 1, 4, 5}
      PROVE  c(k) = 0
  <2>1. ~(k \div 4 < 2 /\ k % 4 < 2)
    OBVIOUS
  <2> QED BY <2>1
<1> HIDE DEF c
<1> QED BY <1>1, <1>2, <1>3, <1>4

(* The inductive invariant: the matrix and the vector hold what the blocks *)
(* have added, and the law solves each row of what has been added so far.  *)
(* That it does at the end says nothing of the next block on the way.      *)
Solved(r) ==
  polymat[16 * r] * law[1] + polymat[16 * r + 1] * law[2] + polymat[16 * r + 4] * law[3] + polymat[16 * r + 5] * law[4]
    = shiftmat[r]
FitInv ==
  /\ \A i \in 1..4 : law[i] \in Int
  /\ rest \in Seq(Blocks) /\ polymat \in [0..255 -> Int] /\ shiftmat \in [0..15 -> Int]
  /\ \A r \in 0..15 : Solved(r)

LEMMA FitBegins == FitInit => FitInv
<1> SUFFICES ASSUME FitInit PROVE FitInv
  OBVIOUS
<1>1. \A i \in 1..4 : law[i] \in Int
  BY LawsAssumption DEF FitInit
<1>2. rest \in Seq(Blocks)
  <2> DEFINE e(i) == <<((i - 1) \div Side) + 1, ((i - 1) % Side) + 1>>
             n == Side * Side
  <2>1. Side * Side \in Nat
    BY SideAssumption
  <2>2. ASSUME NEW i \in 1..(Side * Side)
        PROVE  <<((i - 1) \div Side) + 1, ((i - 1) % Side) + 1>> \in Blocks
    <3>1. Side # 0
      BY <2>2, SideAssumption
    <3>2. i - 1 \in Nat /\ i - 1 < Side * Side
      BY <2>1, <2>2
    <3>3. (i - 1) \div Side \in Nat /\ (i - 1) % Side \in 0..(Side - 1)
      BY <3>1, <3>2, SideAssumption
    <3>4. (i - 1) \div Side < Side
      BY <3>1, <3>2, SideAssumption
    <3> QED BY <3>3, <3>4, SideAssumption DEF Blocks
  <2>3. rest = [i \in 1..n |-> e(i)]
    BY DEF FitInit, RowMajor
  <2>4. n \in Nat /\ \A i \in 1..n : e(i) \in Blocks
    BY <2>1, <2>2
  <2> HIDE DEF e, n
  <2> QED BY <2>3, <2>4
<1>3. polymat = [k \in 0..255 |-> 0] /\ shiftmat = [k \in 0..15 |-> 0]
  BY DEF FitInit
<1>4. ASSUME NEW r \in 0..15
      PROVE  Solved(r)
  <2>1. /\ 16 * r \in 0..255 /\ 16 * r + 1 \in 0..255 /\ 16 * r + 4 \in 0..255 /\ 16 * r + 5 \in 0..255
    OBVIOUS
  <2> QED BY <1>1, <1>3, <2>1 DEF Solved
<1> QED BY <1>1, <1>2, <1>3, <1>4 DEF FitInv

(* The four monomials of a row that meet a coefficient. *)
LEMMA MonomialsOf ==
  ASSUME NEW r \in 0..15, NEW v \in Int, NEW h \in Int
  PROVE  LET a == pow(v, r \div 4)
             b == pow(h, r % 4)
         IN  /\ a \in Int /\ b \in Int
             /\ Monomial(16 * r, v, h) = a * b /\ Monomial(16 * r + 1, v, h) = a * (b * h)
             /\ Monomial(16 * r + 4, v, h) = (a * v) * b /\ Monomial(16 * r + 5, v, h) = (a * v) * (b * h)
<1> DEFINE i == r \div 4
           j == r % 4
<1>1. i \in Nat /\ j \in Nat
  OBVIOUS
<1>2. /\ pow(v, i) \in Int /\ pow(v, i + 1) = pow(v, i) * v
      /\ pow(h, j) \in Int /\ pow(h, j + 1) = pow(h, j) * h
  BY <1>1, Powers
<1>3. /\ (16 * r) \div 64 = i /\ ((16 * r) \div 16) % 4 = j /\ ((16 * r) \div 4) % 4 = 0 /\ (16 * r) % 4 = 0
  OBVIOUS
<1>4. /\ (16 * r + 1) \div 64 = i /\ ((16 * r + 1) \div 16) % 4 = j /\ ((16 * r + 1) \div 4) % 4 = 0 /\ (16 * r + 1) % 4 = 1
  OBVIOUS
<1>5. /\ (16 * r + 4) \div 64 = i /\ ((16 * r + 4) \div 16) % 4 = j /\ ((16 * r + 4) \div 4) % 4 = 1 /\ (16 * r + 4) % 4 = 0
  OBVIOUS
<1>6. /\ (16 * r + 5) \div 64 = i /\ ((16 * r + 5) \div 16) % 4 = j /\ ((16 * r + 5) \div 4) % 4 = 1 /\ (16 * r + 5) % 4 = 1
  OBVIOUS
<1>7. i + 0 = i /\ j + 0 = j
  BY <1>1
<1>8. Monomial(16 * r, v, h) = pow(v, i) * pow(h, j)
  <2>1. Monomial(16 * r, v, h) = pow(v, i + 0) * pow(h, j + 0)
    BY <1>3, Zenon DEF Monomial
  <2> QED BY <1>7, <2>1
<1>9. Monomial(16 * r + 1, v, h) = pow(v, i) * pow(h, j + 1)
  <2>1. Monomial(16 * r + 1, v, h) = pow(v, i + 0) * pow(h, j + 1)
    BY <1>4, Zenon DEF Monomial
  <2> QED BY <1>7, <2>1
<1>10. Monomial(16 * r + 4, v, h) = pow(v, i + 1) * pow(h, j)
  <2>1. Monomial(16 * r + 4, v, h) = pow(v, i + 1) * pow(h, j + 0)
    BY <1>5, Zenon DEF Monomial
  <2> QED BY <1>7, <2>1
<1>11. Monomial(16 * r + 5, v, h) = pow(v, i + 1) * pow(h, j + 1)
  BY <1>6, Zenon DEF Monomial
<1> HIDE DEF i, j
<1>12. /\ pow(v, i) \in Int /\ pow(h, j) \in Int
       /\ Monomial(16 * r, v, h) = pow(v, i) * pow(h, j) /\ Monomial(16 * r + 1, v, h) = pow(v, i) * (pow(h, j) * h)
       /\ Monomial(16 * r + 4, v, h) = (pow(v, i) * v) * pow(h, j)
       /\ Monomial(16 * r + 5, v, h) = (pow(v, i) * v) * (pow(h, j) * h)
  BY <1>2, <1>8, <1>9, <1>10, <1>11
<1> QED BY <1>12 DEF i, j

LEMMA MonomialsInt ==
  ASSUME NEW k \in 0..255, NEW v \in Int, NEW h \in Int
  PROVE  Monomial(k, v, h) \in Int
<1> DEFINE i == (k \div 64) + ((k \div 4) % 4)
           j == ((k \div 16) % 4) + (k % 4)
<1>1. i \in Nat /\ j \in Nat
  OBVIOUS
<1>2. pow(v, i) \in Int /\ pow(h, j) \in Int
  BY <1>1, Powers
<1>3. Monomial(k, v, h) = pow(v, i) * pow(h, j)
  BY DEF Monomial
<1> HIDE DEF i, j
<1> QED BY <1>2, <1>3

(* What a block adds to a row is solved by the law. *)
LEMMA BlockSolved ==
  ASSUME NEW a \in Int, NEW b \in Int, NEW v \in Int, NEW h \in Int,
         NEW l1 \in Int, NEW l2 \in Int, NEW l3 \in Int, NEW l4 \in Int
  PROVE  (a * b) * l1 + (a * (b * h)) * l2 + ((a * v) * b) * l3 + ((a * v) * (b * h)) * l4
           = a * b * (l1 + l2 * h + l3 * v + l4 * v * h)
  OBVIOUS

LEMMA Distributes ==
  ASSUME NEW p \in Int, NEW q \in Int, NEW s \in Int, NEW t \in Int,
         NEW p1 \in Int, NEW q1 \in Int, NEW s1 \in Int, NEW t1 \in Int,
         NEW l1 \in Int, NEW l2 \in Int, NEW l3 \in Int, NEW l4 \in Int
  PROVE  (p + p1) * l1 + (q + q1) * l2 + (s + s1) * l3 + (t + t1) * l4
           = (p * l1 + q * l2 + s * l3 + t * l4) + (p1 * l1 + q1 * l2 + s1 * l3 + t1 * l4)
  OBVIOUS

LEMMA FitStep == FitInv /\ [FitNext]_fitVars => FitInv'
<1> SUFFICES ASSUME FitInv, [FitNext]_fitVars PROVE FitInv'
  OBVIOUS
<1>1. CASE AddBlock
  <2> DEFINE v == Head(rest)[1]
             h == Head(rest)[2]
  <2>1. /\ \A i \in 1..4 : law[i] \in Int
        /\ rest \in Seq(Blocks) /\ polymat \in [0..255 -> Int] /\ shiftmat \in [0..15 -> Int]
        /\ \A r \in 0..15 : Solved(r)
    BY DEF FitInv
  <2>2. rest # << >> /\ rest' = Tail(rest) /\ law' = law
    BY <1>1 DEF AddBlock
  <2>3. rest' \in Seq(Blocks) /\ Head(rest) \in Blocks
    <3> HIDE DEF v, h
    <3>1. \A q \in Seq(Blocks) : q # << >> => Tail(q) \in Seq(Blocks) /\ Head(q) \in Blocks
      OBVIOUS
    <3> QED BY <2>1, <2>2, <3>1
  <2>4. v \in Int /\ h \in Int
    BY <2>3 DEF Blocks
  <2>5. \A i \in 1..4 : law'[i] \in Int
    BY <2>1, <2>2
  <2>6. CASE <<v, h>> \in kept
    <3>1. polymat' = [k \in DOMAIN polymat |-> polymat[k] + Monomial(k, v, h)]
      BY <1>1, <2>6 DEF AddBlock
    <3>2. shiftmat' = [k \in DOMAIN shiftmat |-> shiftmat[k] + pow(v, k \div 4) * pow(h, k % 4) * Shift(law, v, h)]
      BY <1>1, <2>6 DEF AddBlock
    <3> HIDE DEF v, h
    <3>3. \A k \in 0..255 : Monomial(k, v, h) \in Int
      BY <2>4, MonomialsInt
    <3>4. polymat' \in [0..255 -> Int] /\ \A k \in 0..255 : polymat'[k] = polymat[k] + Monomial(k, v, h)
      <4> DEFINE e(k) == polymat[k] + Monomial(k, v, h)
      <4>1. \A k \in 0..255 : e(k) \in Int
        <5>1. \A x, y \in Int : x + y \in Int
          OBVIOUS
        <5>2. \A k \in 0..255 : polymat[k] \in Int
          BY <2>1
        <5> QED BY <3>3, <5>1, <5>2, Zenon
      <4>2. polymat' = [k \in 0..255 |-> e(k)]
        BY <2>1, <3>1
      <4> HIDE DEF e
      <4>3. polymat' \in [0..255 -> Int] /\ \A k \in 0..255 : polymat'[k] = e(k)
        BY <4>1, <4>2
      <4> QED BY <4>3 DEF e
    <3> DEFINE l1 == law[1]
               l2 == law[2]
               l3 == law[3]
               l4 == law[4]
               shift == l1 + l2 * h + l3 * v + l4 * v * h
    <3>5. l1 \in Int /\ l2 \in Int /\ l3 \in Int /\ l4 \in Int
      BY <2>1
    <3>6. Shift(law, v, h) = shift
      BY DEF Shift
    <3> HIDE DEF l1, l2, l3, l4
    <3>7. shift \in Int
      <4>1. \A x, y \in Int : x * y \in Int /\ x + y \in Int
        OBVIOUS
      <4> QED BY <2>4, <3>5, <4>1
    <3> HIDE DEF shift
    <3>8. ASSUME NEW r \in 0..15
          PROVE  pow(v, r \div 4) * pow(h, r % 4) * Shift(law, v, h) \in Int
      <4>1. r \div 4 \in Nat /\ r % 4 \in Nat
        OBVIOUS
      <4>2. pow(v, r \div 4) \in Int /\ pow(h, r % 4) \in Int
        BY <2>4, <4>1, Powers
      <4>3. \A x, y \in Int : x * y \in Int
        OBVIOUS
      <4> QED BY <3>6, <3>7, <4>2, <4>3
    <3>9. shiftmat' \in [0..15 -> Int]
      <4> DEFINE e(k) == shiftmat[k] + pow(v, k \div 4) * pow(h, k % 4) * Shift(law, v, h)
      <4>1. \A k \in 0..15 : e(k) \in Int
        <5>1. \A x, y \in Int : x + y \in Int
          OBVIOUS
        <5>2. \A k \in 0..15 : shiftmat[k] \in Int
          BY <2>1
        <5> QED BY <3>8, <5>1, <5>2, Zenon
      <4>2. shiftmat' = [k \in 0..15 |-> e(k)]
        BY <2>1, <3>2
      <4> HIDE DEF e
      <4> QED BY <4>1, <4>2
    <3>10. ASSUME NEW r \in 0..15
           PROVE  Solved(r)'
      <4> DEFINE a == pow(v, r \div 4)
                 b == pow(h, r % 4)
                 p == polymat[16 * r]
                 q == polymat[16 * r + 1]
                 s == polymat[16 * r + 4]
                 t == polymat[16 * r + 5]
      <4>1. /\ 16 * r \in 0..255 /\ 16 * r + 1 \in 0..255 /\ 16 * r + 4 \in 0..255 /\ 16 * r + 5 \in 0..255
        OBVIOUS
      <4>2. /\ a \in Int /\ b \in Int
            /\ Monomial(16 * r, v, h) = a * b /\ Monomial(16 * r + 1, v, h) = a * (b * h)
            /\ Monomial(16 * r + 4, v, h) = (a * v) * b /\ Monomial(16 * r + 5, v, h) = (a * v) * (b * h)
        BY <2>4, MonomialsOf
      <4>3. p \in Int /\ q \in Int /\ s \in Int /\ t \in Int
        BY <2>1, <4>1
      <4>4. /\ polymat'[16 * r] = p + a * b /\ polymat'[16 * r + 1] = q + a * (b * h)
            /\ polymat'[16 * r + 4] = s + (a * v) * b /\ polymat'[16 * r + 5] = t + (a * v) * (b * h)
        BY <3>4, <4>1, <4>2
      <4>5. p * l1 + q * l2 + s * l3 + t * l4 = shiftmat[r]
        BY <2>1 DEF Solved, l1, l2, l3, l4
      <4>6. shiftmat'[r] = shiftmat[r] + a * b * shift
        BY <2>1, <3>2, <3>6
      <4>7. Solved(r)' <=> polymat'[16 * r] * l1 + polymat'[16 * r + 1] * l2 + polymat'[16 * r + 4] * l3
                             + polymat'[16 * r + 5] * l4 = shiftmat'[r]
        BY <2>2 DEF Solved, l1, l2, l3, l4
      <4> HIDE DEF a, b, p, q, s, t
      <4>8. a * b \in Int /\ a * (b * h) \in Int /\ (a * v) * b \in Int /\ (a * v) * (b * h) \in Int
        <5>1. \A x, y \in Int : x * y \in Int
          OBVIOUS
        <5> QED BY <2>4, <4>2, <5>1
      <4>9. (p + a * b) * l1 + (q + a * (b * h)) * l2 + (s + (a * v) * b) * l3 + (t + (a * v) * (b * h)) * l4
              = (p * l1 + q * l2 + s * l3 + t * l4)
                + ((a * b) * l1 + (a * (b * h)) * l2 + ((a * v) * b) * l3 + ((a * v) * (b * h)) * l4)
        BY <3>5, <4>3, <4>8, Distributes
      <4>10. (a * b) * l1 + (a * (b * h)) * l2 + ((a * v) * b) * l3 + ((a * v) * (b * h)) * l4 = a * b * shift
        BY <2>4, <3>5, <4>2, BlockSolved DEF shift
      <4> QED BY <4>4, <4>5, <4>6, <4>7, <4>9, <4>10, Zenon
    <3> QED BY <2>3, <2>5, <3>4, <3>9, <3>10 DEF FitInv
  <2>7. CASE <<v, h>> \notin kept
    <3>1. polymat' = polymat /\ shiftmat' = shiftmat
      BY <1>1, <2>7 DEF AddBlock
    <3>2. \A r \in 0..15 : Solved(r)'
      BY <2>1, <2>2, <3>1 DEF Solved
    <3> QED BY <2>1, <2>3, <2>5, <3>1, <3>2 DEF FitInv
  <2> QED BY <2>6, <2>7
<1>2. CASE Solve
  <2>1. law' = law /\ rest' = rest /\ polymat' = polymat /\ shiftmat' = shiftmat
    BY <1>2 DEF Solve
  <2> QED BY <2>1 DEF FitInv, Solved
<1>3. CASE FitEnd \/ UNCHANGED fitVars
  <2>1. law' = law /\ rest' = rest /\ polymat' = polymat /\ shiftmat' = shiftmat
    BY <1>3 DEF FitEnd, fitVars
  <2> QED BY <2>1 DEF FitInv, Solved
<1> QED BY <1>1, <1>2, <1>3 DEF FitNext

(* Shifts that are linear in either direction solve the system of order 4, *)
(* whatever blocks are kept: the correction is exact, for every size of    *)
(* the image and every such law.                                           *)
THEOREM CubicFitIsExact == FitSpec => []CubicFitExact
<1>1. FitInit => FitInv
  BY FitBegins
<1>2. FitInv /\ [FitNext]_fitVars => FitInv'
  BY FitStep
<1>3. FitInv => CubicFitExact
  <2> SUFFICES ASSUME FitInv, polyord = 4
               PROVE  Solves(Coefficients(4), 16, polymat, shiftmat)
    <3>1. 4 * 4 = 16
      OBVIOUS
    <3> QED BY <3>1 DEF CubicFitExact, FitExact
  <2> DEFINE x == Coefficients(4)
  <2>1. /\ x \in [0..15 -> Int] /\ x[0] = law[1] /\ x[1] = law[2] /\ x[4] = law[3] /\ x[5] = law[4]
        /\ \A k \in (0..15) \ {0, 1, 4, 5} : x[k] = 0
    BY LawCoefficients DEF FitInv
  <2> HIDE DEF x
  <2>2. polymat \in [0..255 -> Int]
    BY DEF FitInv
  <2>3. ASSUME NEW r \in 0..15
        PROVE  RowSum(x, 16, polymat, r) = shiftmat[r]
    <3>1. RowSum(x, 16, polymat, r)
            = polymat[16 * r] * x[0] + polymat[16 * r + 1] * x[1] + polymat[16 * r + 4] * x[4] + polymat[16 * r + 5] * x[5]
      BY <2>1, <2>2, RowSumFour
    <3>2. Solved(r)
      BY DEF FitInv
    <3> QED BY <2>1, <3>1, <3>2 DEF Solved
  <2>4. 16 - 1 = 15
    OBVIOUS
  <2> QED BY <2>3, <2>4 DEF Solves, x
<1> QED BY <1>1, <1>2, <1>3, PTL DEF FitSpec
=============================================================================
