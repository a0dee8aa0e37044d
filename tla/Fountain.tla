------------------------------ MODULE Fountain ------------------------------
(***************************************************************************)
(* What a fountain decoder promises its caller, without saying how: it is  *)
(* handed frames in any order, any number of times, and after each call it *)
(* knows exactly the blocks that peeling can derive from the set of frames *)
(* it was handed.                                                          *)
(***************************************************************************)
EXTENDS Closure

VARIABLES
  received,   \* frames handed to the decoder so far
  known       \* source blocks the decoder has recovered

Init ==
  /\ received = {}
  /\ known = {}

Absorb(f) ==
  /\ received' = received \cup {f}
  /\ known' = Peeled(received')

Next == \E f \in Frames : Absorb(f)

Spec == Init /\ [][Next]_<<received, known>>
============================================================================
