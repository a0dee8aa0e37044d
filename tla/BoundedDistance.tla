-------------------------- MODULE BoundedDistance --------------------------
(***************************************************************************)
(* What ReedSolomon::decode (crates/pz-fec/src/rs.rs) promises its caller, *)
(* without saying how.                                                     *)
(***************************************************************************)
EXTENDS Integers

(* Mutant: a full parity budget of erasures is refused.                    *)
Bug_Corrected(p, f, e) ==
  IF f >= p THEN {"error"}
  ELSE IF 2 * e + f <= p THEN {"right"}
  ELSE {"error"} \cup (IF 2 * e > p - f + 1 THEN {"wrong"} ELSE {})

(* ReedSolomon::decode with f erasures and e damaged symbols besides:      *)
(* exact within 2e + f <= p; outside it an error, or a wrong codeword when *)
(* one is near enough.  With f = p nothing is left to notice an error      *)
(* with: every word is completed to some codeword.                         *)
Corrected(p, f, e) ==
  IF f > p THEN {"error"}
  ELSE IF 2 * e + f <= p THEN {"right"}
  ELSE IF f = p THEN {"wrong"}
  ELSE {"error"} \cup (IF 2 * e > p - f + 1 THEN {"wrong"} ELSE {})
============================================================================
