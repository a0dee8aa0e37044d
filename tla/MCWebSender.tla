---------------------------- MODULE MCWebSender ----------------------------
(* One file that encodes and one that does not; three of the page's beats.  *)
EXTENDS WebSender, WebStage

CONSTANTS fa, bad, hero, loss, try

(* WebStage has the beams that matter to it: a behaviour is about one of    *)
(* the two.                                                                 *)
VARIABLE about

PageInit == Init /\ StageInit /\ about \in {"sender", "stage"}

PageNext ==
  \/ about = "sender" /\ Next /\ UNCHANGED <<stageVars, about>>
  \/ about = "stage" /\ StageNext /\ UNCHANGED <<vars, about>>

PageSpec == PageInit /\ [][PageNext]_<<vars, stageVars, about>>
============================================================================
