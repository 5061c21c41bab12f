------------------------------ MODULE MCPixels ------------------------------
(***************************************************************************)
(* What is done to pixels: the routines and file formats, the tiles of a   *)
(* mosaic, and the fit of the shifts of its colours; each run of the model *)
(* is one of one of them.                                                  *)
(***************************************************************************)
EXTENDS PixelRoutines, FormatRoutines, Routine, MosaicTiles, ShiftFit

VARIABLE which

Together == Files @@ Formats
Routines == [k \in UNION {{<<f, c>> : c \in DOMAIN Together[f]} : f \in DOMAIN Together} |-> Together[k[1]][k[2]]]

\* Where the card makes something else than the host.
ASSUME PathsAlike ==
  {j \in DOMAIN Routines : Routines[j].onCard # Routines[j].promise} =
  {<<"demosaic", c>> : c \in {"amaze", "equalisedAmaze", "scaledAmaze", "smooth"}}

MCHeights == 34..130
MCTileSize == [amaze |-> 96, cacorrect |-> 64]
MCLaws == {<<1, 0, 0, 0>>, <<-2, 1, 3, 0>>, <<0, 2, -1, 1>>}

RoutineAtRest ==
  /\ job = (CHOOSE j \in DOMAIN Table : TRUE) /\ routine = Table[job] /\ path = "cpu" /\ at = 1 /\ held = {} /\ nulls = {}
  /\ made = FreshBuffers(routine) /\ scaled = 0 /\ missed = FALSE /\ misused = FALSE /\ outcome = "running"
TilesAtRest ==
  /\ method = "amaze" /\ height = 34 /\ pass = 2 /\ top = -16 /\ stage = 0 /\ tile = Empty /\ out = << >>
  /\ green = {} /\ mixed = FALSE /\ stale = {} /\ outside = FALSE /\ ended = "kept"
FitAtRest ==
  /\ law = << >> /\ kept = {} /\ rest = << >> /\ numblox = 0 /\ polymat = << >> /\ shiftmat = << >>
  /\ polyord = 4 /\ fitted = "none"

MCInit ==
  /\ which \in {"routine", "tiles", "fit"}
  /\ IF which = "routine" THEN RoutineInit ELSE RoutineAtRest
  /\ IF which = "tiles" THEN MosaicInit ELSE TilesAtRest
  /\ IF which = "fit" THEN FitInit ELSE FitAtRest

MCNext ==
  \/ which = "routine" /\ RoutineNext /\ UNCHANGED <<which, mosaicVars, fitVars>>
  \/ which = "tiles" /\ MosaicNext /\ UNCHANGED <<which, routineVars, fitVars>>
  \/ which = "fit" /\ FitNext /\ UNCHANGED <<which, routineVars, mosaicVars>>

MCSpec == MCInit /\ [][MCNext]_<<which, routineVars, mosaicVars, fitVars>>
=============================================================================
