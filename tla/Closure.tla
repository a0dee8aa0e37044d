------------------------------ MODULE Closure ------------------------------
(***************************************************************************)
(* What a set of droplets determines under peeling.                        *)
(*                                                                         *)
(* A frame names the source blocks that are mixed into its droplet         *)
(* (DegreeTable::plan).  Peeling uses one inference only: a droplet with   *)
(* exactly one block missing yields that block.  Peeled(F) is the least    *)
(* set of blocks that inference reaches from the frames F; it is defined   *)
(* as an intersection, without an order of steps, so that a decoder which  *)
(* computes it is independent of order and of repetition by construction   *)
(* of the definition.                                                      *)
(***************************************************************************)
EXTENDS FiniteSets, Integers

CONSTANTS
  Blocks,   (* source blocks of the message, 0 .. block_count-1            *)
  Frames,   (* frame indices a receiver can be shown                       *)
  Plan      (* Plan[f]: the blocks mixed into the droplet of frame f       *)

ASSUME BlocksAssumption == Blocks # {} /\ IsFiniteSet(Blocks)
ASSUME PlanAssumption == Plan \in [Frames -> SUBSET Blocks]

(* block_count: Encoder::new and Decoder::new refuse zero.                 *)
K == Cardinality(Blocks)

(* The formal sum over GF(2): a block of data is the set of source blocks  *)
(* whose XOR it is, and XOR is symmetric difference (xor_into).            *)
Xor(a, b) == (a \ b) \cup (b \ a)

(* What the sender puts on the screen for frame f (Encoder::droplet).      *)
Droplet(f) == Plan[f]

(* No frame of F has exactly one block outside S.                          *)
Closed(S, F) == \A f \in F : \A b \in Blocks : Plan[f] \ S # {b}

(* The least closed set of blocks.                                         *)
Peeled(F) == {b \in Blocks : \A S \in SUBSET Blocks : Closed(S, F) => b \in S}
============================================================================
