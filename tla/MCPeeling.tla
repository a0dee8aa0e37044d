----------------------------- MODULE MCPeeling -----------------------------
(* Every possible plan is a frame: a frame is the set of blocks it mixes.   *)
EXTENDS Peeling

MCFrames == SUBSET Blocks \ {{}}
MCPlan == [f \in MCFrames |-> f]
============================================================================
