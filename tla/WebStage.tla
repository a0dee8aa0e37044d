------------------------------ MODULE WebStage ------------------------------
(***************************************************************************)
(* The stage of the browser demo (web/app.mjs): the sample transfer that   *)
(* runs behind the prose, the observer that runs and pauses it as the page *)
(* is scrolled, and the beam of WebSender.tla, which pauses it too.        *)
(*                                                                         *)
(* A step is one callback of the browser.  What paint() shows, and when    *)
(* the 220 ms since the last frame are over, is left out: a paint that     *)
(* finds the stage running goes on as long as its handles are live.  A     *)
(* beam may start and stop at any time.                                    *)
(***************************************************************************)
EXTENDS Integers

CONSTANTS
  Beats,         (* the sections of the page that are watched              *)
  LossBeat,      (* the one that shows the counters of the stage           *)
  MaxCallbacks,  (* bound: paint() callbacks pending                       *)
  NoBeat         (* null                                                   *)

ASSUME StageAssumption ==
  /\ LossBeat \in Beats
  /\ NoBeat \notin Beats
  /\ MaxCallbacks \in Nat \ {0}

VARIABLES
  running,       (* the flag that paint() looks at                         *)
  callbacks,     (* paint() callbacks requested and not yet run            *)
  current,       (* the beat applied last                                  *)
  beaming,       (* beamStop # null                                        *)
  usable         (* the stage's encoder and decoder are not freed          *)

stageVars == <<running, callbacks, current, beaming, usable>>

StageInit ==
  /\ running = TRUE
  /\ callbacks = 1
  /\ current = NoBeat
  /\ beaming = FALSE
  /\ usable = TRUE

----------------------------------------------------------------------------
pause ==
  /\ running' = FALSE
  /\ UNCHANGED callbacks

(* Mutant: the callback that saw the pause is taken to be still pending.   *)
Bug_resume ==
  /\ running' = TRUE
  /\ UNCHANGED callbacks

resume ==
  IF running THEN UNCHANGED <<running, callbacks>>
  ELSE /\ callbacks < MaxCallbacks
       /\ running' = TRUE
       /\ callbacks' = callbacks + 1

(* paint(): it asks to be called again, unless the stage is paused, or     *)
(* frameRGBA() throws on a freed encoder.                                  *)
PaintAgain ==
  /\ callbacks > 0
  /\ running
  /\ UNCHANGED stageVars

PaintEnds ==
  /\ callbacks > 0
  /\ ~running \/ ~usable
  /\ callbacks' = callbacks - 1
  /\ UNCHANGED <<running, current, beaming, usable>>

(* The observer finds another beat the most visible one.                   *)
Scroll(best) ==
  /\ best # current
  /\ current' = best
  /\ IF best = LossBeat THEN resume ELSE pause
  /\ UNCHANGED <<beaming, usable>>

(* startBeam(), which may come again while a beam is on.                   *)
BeamStarts ==
  /\ pause
  /\ beaming' = TRUE
  /\ UNCHANGED <<current, usable>>

(* beamStop().                                                             *)
BeamStops ==
  /\ beaming
  /\ beaming' = FALSE
  /\ resume
  /\ UNCHANGED <<current, usable>>

(* pagehide: beamStop?.(), then the handles are freed.                     *)
StageHides ==
  /\ beaming' = FALSE
  /\ IF beaming THEN resume ELSE UNCHANGED <<running, callbacks>>
  /\ usable' = FALSE
  /\ UNCHANGED current

StageNext ==
  \/ PaintAgain
  \/ PaintEnds
  \/ \E best \in Beats : Scroll(best)
  \/ BeamStarts
  \/ BeamStops
  \/ StageHides

StageSpec == StageInit /\ [][StageNext]_stageVars

----------------------------------------------------------------------------
StageTypeOK ==
  /\ {running, beaming, usable} \subseteq BOOLEAN
  /\ callbacks \in 0 .. MaxCallbacks
  /\ current \in Beats \cup {NoBeat}

(* With the counters on screen and no beam over them the sample transfer   *)
(* goes on: however scrolls, beams and animation frames interleaved, the   *)
(* stage is running and a callback is pending that will paint.             *)
LossBeatIsAlive ==
  usable /\ current = LossBeat /\ ~beaming => running /\ callbacks > 0

(* What makes LossBeatIsAlive inductive.                                   *)
StageInv ==
  /\ StageTypeOK
  /\ usable /\ running => callbacks > 0
  /\ current = LossBeat /\ ~beaming => running
=============================================================================
