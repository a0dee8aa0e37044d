----------------------------- MODULE MCSession -----------------------------
(* Small cases: four-byte messages in eight-byte containers, which make two *)
(* blocks of four bytes or three blocks of three.                           *)
EXTENDS Session, TLC

CONSTANTS ta, tb, tc, td, hello, other, third

(* The systematic prefix, then sums of neighbouring blocks, then the sum of *)
(* all of them.                                                             *)
MCPlan(id, k, i) ==
  IF i < k THEN {i}
  ELSE IF i < 2 * k - 1 THEN {i - k, i - k + 1}
  ELSE 0 .. k - 1

Of(f) == [t \in Transmitters |-> f[t]]

MCMessage == Of(ta :> hello @@ tb :> other @@ tc :> hello @@ td :> third)
MCMessageLen == Of(ta :> 4 @@ tb :> 4 @@ tc :> 4 @@ td :> 5)

(* tc repeats the message of ta under another profile.                      *)
MCDropletSize == Of(ta :> 4 @@ tb :> 4 @@ tc :> 3 @@ td :> 4)

(* All ids equal; all ids different.                                        *)
MCSameId == [t \in Transmitters |-> 1]
MCOwnId == Of(ta :> 1 @@ tb :> 2 @@ tc :> 3 @@ td :> 4)

(* tb has a message of exactly the largest size the encoder takes.          *)
MCLargeLen == Of(ta :> 4 @@ tb :> 8 @@ tc :> 4 @@ td :> 9)
============================================================================
