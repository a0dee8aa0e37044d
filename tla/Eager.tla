------------------------------- MODULE Eager -------------------------------
(* What the algorithm modules share.                                        *)
(*                                                                          *)
(* TLC evaluates the body of [i \in S |-> e] wherever an element is read;   *)
(* a tuple holds its elements.                                              *)
EXTENDS Sequences

CONSTANT None      (* Rust's None, Err where no more is told apart, and the  *)
                   (* state of an algorithm that was not called              *)

(* The sequence s, evaluated once.                                          *)
Tuple(s) == s \o <<>>
============================================================================
