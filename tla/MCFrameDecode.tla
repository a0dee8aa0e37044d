--------------------------- MODULE MCFrameDecode ---------------------------
(* Two blocks of five symbols, four of them parity, behind the real header   *)
(* code; damage and doubt each fall on a run of consecutive symbols.         *)
EXTENDS FrameDecode

Runs == {first .. last : first, last \in Symbols}
MCFaults == [damaged : Runs, weak : Runs]
============================================================================
