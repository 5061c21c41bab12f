------------------------------ MODULE IopPanel ------------------------------
(***************************************************************************)
(* The panel of one image operation (src/iop): its parameters, the widgets *)
(* that show and write them, the history of the edited image and the data  *)
(* that commit_params hands to the pixel pipes.  The files of src/iop are  *)
(* all built alike; what differs is a row of a table (IopPanelRows): which *)
(* widget writes which field, in which range, with or without the guard on *)
(* gui->reset, what reload_defaults and the presets put there, and what is *)
(* committed to which pipe.  The core that calls them (history, signals of *)
(* the widgets, pipes) is not in the repository and external here.         *)
(* Values are integers in the unit of the widget.                          *)
(***************************************************************************)
EXTENDS Integers, Sequences, FiniteSets, TLC

CONSTANTS
  Rows,     \* the table: a row for every panel
  MaxEdits  \* bound: what is done to one panel

Pipes == {"full", "preview", "export"}
Off == << >>                \* a piece that is disabled
Kinds == {"raw", "ldr"}     \* raw files, and images with three channels

----------------------------------------------------------------------------
(* Widgets.  `at' are the fields that a widget shows, one for each page of *)
(* the panel or one for all of them.  A callback returns at once under     *)
(* gui->reset ("guarded"), only after it has written the field ("eager",   *)
(* with a history item when the slider is let go), or writes both at any   *)
(* time ("loose").  A "dialog" records even when it is cancelled.  `also'  *)
(* are the further fields that get the same value, `sets' those that get   *)
(* one of their own.                                                       *)
Widget(fields, lo, hi, manner) ==
  [at |-> fields, lo |-> lo, hi |-> hi, manner |-> manner, kinds |-> Kinds, also |-> {}, sets |-> << >>]
Slider(f, lo, hi) == Widget(<<f>>, lo, hi, "guarded")
Eager(f, lo, hi) == Widget(<<f>>, lo, hi, "eager")
Loose(f, lo, hi) == Widget(<<f>>, lo, hi, "loose")
Paged(fields, lo, hi) == Widget(fields, lo, hi, "guarded")
Dialog(f, lo, hi) == Widget(<<f>>, lo, hi, "dialog")
Toggle(f) == Slider(f, 0, 1)

(* A row.  `raw' and `ldr' are the defaults for the two kinds of images,   *)
(* `kinds' and `pipes' are those for which the piece stays enabled, `idle' *)
(* the values that disable it, `screen' the fields an export ignores.      *)
(* pick: the fields that a picked colour goes to and the colours, whether  *)
(* the one already stored is skipped, whether gui_update ends the request, *)
(* and the kinds of images that can be picked from.                        *)
NoPick == [fields |-> {}, colours |-> {}, skips |-> FALSE, ends |-> FALSE, kinds |-> Kinds]
Panel(defaults, widgets) ==
  [raw |-> defaults, ldr |-> defaults, widgets |-> widgets, presets |-> {},
   commit |-> DOMAIN defaults, kinds |-> Kinds, pipes |-> Pipes, idle |-> {},
   screen |-> {}, pick |-> NoPick, first |-> 1]

VARIABLES
  iop,      \* the row
  kind,     \* of the image that is edited
  params,   \* self->params
  shown,    \* what the widgets show
  page,     \* the page that is selected
  history,  \* the items of the module, oldest first
  cursor,   \* the item that is in force
  piece,    \* what the pipes have, Off where the piece is disabled
  pending,  \* an item was made or chosen that was not committed yet
  pick,     \* request_color_pick
  dragging, \* a slider is dragged: its field is written and not recorded
  edits

panelVars == <<iop, kind, params, shown, page, history, cursor, piece, pending, pick, dragging, edits>>

Row == Rows[iop]
Defaults(r, k) == IF k = "raw" THEN r.raw ELSE r.ldr
NumPages(r) == IF \E w \in r.widgets : Len(w.at) > 1
               THEN Len((CHOOSE w \in r.widgets : Len(w.at) > 1).at) ELSE 1
Field(w, g) == IF Len(w.at) = 1 THEN w.at[1] ELSE w.at[g]

Shows(w, v) == IF v < w.lo THEN w.lo ELSE IF v > w.hi THEN w.hi ELSE v

(* What the files of src/iop have in common: each field is shown by one    *)
(* widget at most, and handed to the pipes; defaults and presets are in    *)
(* the ranges of the sliders.  A picked colour need not be, in relight.c:  *)
(* `Overrun' are the widgets that it can leave behind.                     *)
Pages(r) == 1..NumPages(r)
ShownFields(r) == {Field(w, g) : w \in r.widgets, g \in Pages(r)}
Overrun(r) ==
  {w \in r.widgets : \E g \in Pages(r), c \in r.pick.colours : Field(w, g) \in r.pick.fields /\ Shows(w, c) # c}

InRange(r, p) ==
  /\ p \in [DOMAIN r.raw -> Int]
  /\ \A w \in r.widgets \ Overrun(r), g \in Pages(r) : Shows(w, p[Field(w, g)]) = p[Field(w, g)]

Fitting(r) ==
  /\ r.first \in Pages(r) /\ r.pick.colours \subseteq Int
  /\ ShownFields(r) \subseteq r.commit /\ r.commit \subseteq DOMAIN r.raw
  /\ \A w, x \in r.widgets : \A g, h \in Pages(r) : Field(w, g) = Field(x, h) => w = x
  /\ \A w \in r.widgets :
       /\ w.lo \in Int /\ w.hi \in Int /\ w.lo <= w.hi
       /\ (w.also \cup DOMAIN w.sets) \cap ShownFields(r) = {} /\ \A f \in DOMAIN w.sets : w.sets[f] \in Int
  /\ \A w \in Overrun(r) : w.manner = "loose"
  /\ \A k \in Kinds : InRange(r, Defaults(r, k)) /\ \A p \in r.presets : InRange(r, p @@ Defaults(r, k))

ASSUME PanelConstants == MaxEdits \in Nat /\ \A i \in DOMAIN Rows : Fitting(Rows[i])

----------------------------------------------------------------------------
(* gui_update, under gui->reset: the widgets show the parameters as far as *)
(* their ranges go.  A widget whose value changes by that runs its         *)
(* callback, which matters where the callback is not guarded.              *)
ShownFor(r, p, g) == [w \in r.widgets |-> Shows(w, p[Field(w, g)])]

Echoing(new, old, manners) == {w \in DOMAIN new : w.manner \in manners /\ new[w] # old[w]}

Echoed(p, new, echoing, g) ==
  [f \in DOMAIN p |-> IF \E w \in echoing : Field(w, g) = f
                      THEN new[CHOOSE w \in echoing : Field(w, g) = f] ELSE p[f]]

\* What the callback of w writes for the value v.
Written(p, w, v) ==
  [f \in DOMAIN p |-> IF f \in DOMAIN w.sets THEN w.sets[f]
                      ELSE IF f = Field(w, page) \/ f \in w.also THEN v ELSE p[f]]

\* bug: the widgets are not refreshed.
GuiUpdateBlind(p, h, k) ==
  /\ params' = p /\ history' = h /\ cursor' = k /\ pending' = TRUE /\ dragging' = FALSE
  /\ pick' = (pick /\ ~Row.pick.ends) /\ UNCHANGED shown

\* bug: gui->reset is not set while the widgets are refreshed.
GuiUpdateUnguarded(p, h, k) ==
  LET new == ShownFor(Row, p, page)
      q == Echoed(p, new, Echoing(new, shown, {"guarded", "eager", "loose"}), page)
      loose == Echoing(new, shown, {"guarded", "loose"}) # {}
  IN  /\ shown' = new /\ params' = q
      /\ history' = IF loose THEN Append(SubSeq(h, 1, k), q) ELSE h
      /\ cursor' = IF loose THEN k + 1 ELSE k
      /\ pending' = TRUE /\ dragging' = FALSE
      /\ pick' = (pick /\ ~Row.pick.ends)

\* Parameters p come from elsewhere, with item k of h in force.
GuiUpdate(p, h, k) ==
  LET new == ShownFor(Row, p, page)
      q == Echoed(p, new, Echoing(new, shown, {"eager", "loose"}), page)
      loose == Echoing(new, shown, {"loose"}) # {}
  IN  /\ shown' = new /\ params' = q
      /\ history' = IF loose THEN Append(SubSeq(h, 1, k), q) ELSE h
      /\ cursor' = IF loose THEN k + 1 ELSE k
      /\ pending' = TRUE /\ dragging' = FALSE
      /\ pick' = (pick /\ ~Row.pick.ends)

----------------------------------------------------------------------------
Act == edits < MaxEdits /\ edits' = edits + 1

\* dt_dev_add_history_item: what came after the item in force is dropped.
Recorded(p) ==
  /\ params' = p /\ history' = Append(SubSeq(history, 1, cursor), p) /\ cursor' = cursor + 1
  /\ pending' = TRUE /\ dragging' = FALSE

\* The callback of a widget that the user has moved.
Edit(w, v) ==
  /\ Act /\ kind \in w.kinds
  /\ v # shown[w] \/ dragging \/ w.manner = "dialog"
  /\ shown' = [shown EXCEPT ![w] = v]
  /\ Recorded(Written(params, w, v))
  /\ UNCHANGED <<iop, kind, page, piece, pick>>

\* A gradient slider that is dragged: the field follows, the history waits.
Drag(w, v) ==
  /\ Act /\ w.manner = "eager" /\ ~dragging /\ v # shown[w]
  /\ shown' = [shown EXCEPT ![w] = v] /\ params' = Written(params, w, v)
  /\ dragging' = TRUE
  /\ UNCHANGED <<iop, kind, page, history, cursor, piece, pending, pick>>

\* The selector of the page sets the sliders without gui->reset: those that
\* change write what they show into the fields of the new page.
SelectPage(g) ==
  /\ Act /\ g # page /\ page' = g
  /\ LET new == ShownFor(Row, params, g)
         echoing == Echoing(new, shown, {"guarded"})
     IN  /\ shown' = new
         /\ IF echoing = {} THEN UNCHANGED <<params, history, cursor, pending, dragging>>
            ELSE Recorded(Echoed(params, new, echoing, g))
  /\ UNCHANGED <<iop, kind, piece, pick>>

\* An older or newer item is chosen.
Jump(k) ==
  /\ Act /\ k # cursor /\ GuiUpdate(history[k], history, k)
  /\ UNCHANGED <<iop, kind, page, piece>>

\* reload_defaults for another image, whose history begins with them.
NewImage(k) ==
  /\ Act /\ kind' = k /\ GuiUpdate(Defaults(Row, k), <<Defaults(Row, k)>>, 1)
  /\ UNCHANGED <<iop, page, piece>>

\* A preset of init_presets; what it does not name is as in the defaults.
Apply(preset) ==
  /\ Act
  /\ LET p == preset @@ Defaults(Row, kind)
     IN  GuiUpdate(p, Append(SubSeq(history, 1, cursor), p), cursor + 1)
  /\ UNCHANGED <<iop, kind, page, piece>>

\* commit_params for every pipe.
Committed(r, p, k, pipe) ==
  IF pipe \notin r.pipes \/ k \notin r.kinds \/ (\E i \in r.idle : p[i[1]] = i[2])
  THEN Off ELSE [f \in (IF pipe = "export" THEN r.commit \ r.screen ELSE r.commit) |-> p[f]]

Commit ==
  /\ pending /\ pending' = FALSE
  /\ piece' = [pipe \in Pipes |-> Committed(Row, history[cursor], kind, pipe)]
  /\ UNCHANGED <<iop, kind, params, shown, page, history, cursor, pick, dragging, edits>>

\* The picker: the button, and the expose callback that stores a colour that
\* the preview pipe has found.
Request ==
  /\ Act /\ kind \in Row.pick.kinds /\ Row.pick.fields # {} /\ pick' = ~pick
  /\ UNCHANGED <<iop, kind, params, shown, page, history, cursor, piece, pending, dragging>>

Expose(colour) ==
  /\ Act /\ pick
  /\ LET p == [f \in DOMAIN params |-> IF f \in Row.pick.fields THEN colour ELSE params[f]]
     IN  /\ Row.pick.skips => p # params
         /\ GuiUpdate(p, Append(SubSeq(history, 1, cursor), p), cursor + 1)
  /\ UNCHANGED <<iop, kind, page, piece>>

PanelInit ==
  /\ iop \in DOMAIN Rows /\ kind \in Kinds /\ page = Row.first
  /\ params = Defaults(Row, kind) /\ shown = ShownFor(Row, params, page)
  /\ history = <<params>> /\ cursor = 1 /\ pending = TRUE
  /\ piece = [pipe \in Pipes |-> Off]
  /\ pick = FALSE /\ dragging = FALSE /\ edits = 0

Rest == edits = MaxEdits /\ ~pending /\ UNCHANGED panelVars

PanelNext ==
  \/ \E w \in Row.widgets, v \in {"lo", "hi"} : Edit(w, w[v]) \/ Drag(w, w[v])
  \/ \E g \in 1..NumPages(Row) : SelectPage(g)
  \/ \E k \in DOMAIN history : Jump(k)
  \/ (\E k \in Kinds : NewImage(k)) \/ (\E p \in Row.presets : Apply(p))
  \/ (\E c \in Row.pick.colours : Expose(c)) \/ Request \/ Commit \/ Rest

PanelSpec == PanelInit /\ [][PanelNext]_panelVars

----------------------------------------------------------------------------
(* What the widgets show is what the full pipe works with, once it has     *)
(* taken over what was done: no field is out of a slider's range, left out *)
(* of commit_params, or changed without an item of the history; only a     *)
(* picked colour may be more than its slider can show.                     *)
ShownIsProcessed ==
  ~pending /\ ~dragging /\ piece["full"] # Off
    => \A w \in Row.widgets \ Overrun(Row) : shown[w] = piece["full"][Field(w, page)]

(* Looking at an older item, or at another image, writes nothing into the  *)
(* history, although every widget that changes runs its callback; those of *)
(* the loose widgets are not guarded.                                      *)
RefreshWritesNothing ==
  [][(\A w \in Row.widgets : w.manner # "loose") =>
       /\ \A k \in DOMAIN history : Jump(k) => history' = history /\ params' = history[k]
       /\ \A k \in Kinds : NewImage(k) => history' = <<params'>> /\ params' = Defaults(Row, k)]_panelVars
=============================================================================
