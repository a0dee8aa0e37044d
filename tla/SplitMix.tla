------------------------------ MODULE SplitMix ------------------------------
(***************************************************************************)
(* The SplitMix64 generator of crates/pz-fountain/src/prng.rs, with words  *)
(* of WordBits instead of 64 bits.                                         *)
(***************************************************************************)
EXTENDS Integers, Bitwise, Eager

CONSTANTS
  WordBits, FrameBits,    (* 64, 32: a word, the frame index in it         *)
  Gamma, Mix1, Mix2,      (* GOLDEN_GAMMA and the two multipliers          *)
  Shifts,                 (* 30, 27, 31                                    *)
  UniformBits             (* 53: bits of a uniform draw                    *)

Word == 2 ^ WordBits

ASSUME MixAssumption ==
  /\ Gamma % 2 = 1 /\ Mix1 % 2 = 1 /\ Mix2 % 2 = 1
  /\ UniformBits <= WordBits

for_frame(session_id, frame_index) ==
  session_id * 2 ^ FrameBits + frame_index

XorShift(z, n) == z ^^ (z \div 2 ^ n)

(* Mutant: an even multiplier, which loses the top bit.                    *)
Bug_output(state) ==
  LET z1 == (XorShift(state, Shifts[1]) * (Mix1 - 1)) % Word
      z2 == (XorShift(z1, Shifts[2]) * (Mix2 - 1)) % Word
  IN XorShift(z2, Shifts[3])

(* What next_u64() makes of the state it has advanced to.                  *)
output(state) ==
  LET z1 == (XorShift(state, Shifts[1]) * Mix1) % Word
      z2 == (XorShift(z1, Shifts[2]) * Mix2) % Word
  IN XorShift(z2, Shifts[3])

advance(state) == (state + Gamma) % Word

Outputs == Tuple([s \in 1 .. Word |-> output(s - 1)])

next_u64(state) == Outputs[state + 1]

(* next_f64(): the top bits, as a fraction of one.                         *)
next_f64(out, one) ==
  (out \div 2 ^ (WordBits - UniformBits)) * (one \div 2 ^ UniformBits)
============================================================================
