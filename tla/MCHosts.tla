------------------------------ MODULE MCHosts ------------------------------
(* One camera sees two displays with one session id, one of them with a     *)
(* message too large for the decoder, and a third of its own id.  In memory *)
(* there are two JavaScript objects, of either kind, and the two blocks     *)
(* that a call can have beside them.                                        *)
EXTENDS Hosts, Memory, TLC

CONSTANTS ta, tb, tc, hello, other, third

MCPlan(id, k, i) == IF i < k THEN {i} ELSE 0 .. k - 1

MCMessage == ta :> hello @@ tb :> other @@ tc :> third
MCMessageLen == ta :> 4 @@ tb :> 4 @@ tc :> 8
MCDropletSize == ta :> 4 @@ tb :> 4 @@ tc :> 4
MCSessionId == ta :> 1 @@ tb :> 1 @@ tc :> 2

(* No id, one that needs more than 16 bits, and each reason to refuse.      *)
MCRequests ==
  {[payload |-> "bytes", profile |-> "balanced", session |-> s] :
     s \in {-1, 65536 + 7}}
  \cup {[payload |-> "empty", profile |-> "mono", session |-> 5],
        [payload |-> "bytes", profile |-> "mono", session |-> 5],
        [payload |-> "null", profile |-> "unknown", session |-> 5]}

(* The hosts look at outcomes and the memory at calls: a behaviour is about *)
(* one of the two.                                                          *)
VARIABLE about

BindingsInit == HInit /\ MInit /\ about \in {"hosts", "memory"}

BindingsNext ==
  \/ about = "hosts" /\ HNext /\ UNCHANGED <<mvars, about>>
  \/ about = "memory" /\ MNext /\ UNCHANGED <<hvars, about>>

BindingsSpec == BindingsInit /\ [][BindingsNext]_<<hvars, mvars, about>>
============================================================================
