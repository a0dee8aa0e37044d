----------------------------- MODULE DegreePlan -----------------------------
(***************************************************************************)
(* How the fountain encoder of crates/pz-fountain chooses the blocks of a  *)
(* frame: the robust soliton table and the drawing of a plan (soliton.rs), *)
(* and the blocks themselves (Encoder and assemble() in lib.rs).           *)
(*                                                                         *)
(* The generator is a parameter (SplitMix.tla has the one of the code).    *)
(* The table is in parts of 1 / Unit instead of floating point, with the   *)
(* values of its two logarithms given by constants.                        *)
(***************************************************************************)
EXTENDS Integers, FiniteSets, Eager

CONSTANTS
  States,                 (* states of the generator                       *)
  Seed(_, _),             (* its state for a session id and a frame index  *)
  Advance(_),             (* the state after a state                       *)
  Output(_),              (* what it returns in that state                 *)
  Uniform(_, _),          (* that output as a fraction of Unit             *)
  Unit,                   (* a probability of 1                            *)
  Ripple, Spike,          (* Ripple[k], Spike[k]: R and R ln(R / delta) in *)
                          (* parts of Unit, for each k                     *)
  Streams                 (* [payload_len, block_size, session_id, frame_index] *)

Stream == [payload_len : Nat \ {0}, block_size : Nat \ {0},
           session_id : Nat, frame_index : Nat]

ASSUME StreamAssumption == \A s \in Streams : s \in Stream

ASSUME GeneratorAssumption ==
  /\ \A s \in Streams : Seed(s.session_id, s.frame_index) \in States
  /\ \A x \in States : Advance(x) \in States /\ Output(x) \in Nat

----------------------------------------------------------------------------
(* Encoder::new and assemble(): the payload is padded to whole blocks and  *)
(* cut to its length again.  Bytes are their positions, 0 is padding.      *)
div_ceil(a, b) == (a + b - 1) \div b

Split(len, size) ==
  Tuple([b \in 1 .. div_ceil(len, size) |->
           Tuple([i \in 1 .. size |->
                    LET at == (b - 1) * size + i
                    IN IF at <= len THEN at ELSE 0])])

(* The blocks one after the other, each of them size bytes long.           *)
assemble(solved, size, len) ==
  LET out == [i \in 1 .. Len(solved) * size |->
                solved[((i - 1) \div size) + 1][((i - 1) % size) + 1]]
  IN IF len <= Len(solved) * size THEN SubSeq(out, 1, len) ELSE out

----------------------------------------------------------------------------
(* DegreeTable::new: the ideal soliton, plus R / (i k) below the pivot     *)
(* k / R and the spike on it, if it is a degree.                           *)
Weight(k, i) ==
  LET pivot == (k * Unit) \div Ripple[k]
  IN (IF i = 1 THEN Unit \div k ELSE Unit \div (i * (i - 1)))
     + (IF i < pivot THEN Ripple[k] \div (i * k) ELSE 0)
     + (IF i = pivot THEN Spike[k] \div k ELSE 0)

TotalWeight(k, n) ==
  LET sum[i \in 0 .. n] == IF i = 0 THEN 0 ELSE sum[i - 1] + Weight(k, i)
  IN sum[n]

(* Of n draws in [0, Unit) how many fall on a degree of at most n.         *)
cdf(k, n) ==
  IF n = k THEN Unit
  ELSE ((TotalWeight(k, n) * 1000) \div TotalWeight(k, k)) * (Unit \div 1000)

(* The smallest degree whose cumulative probability exceeds u.             *)
sample_degree(k, u) ==
  CHOOSE n \in 1 .. k :
    /\ u < cdf(k, n) \/ n = k
    /\ \A m \in 1 .. n - 1 : ~(u < cdf(k, m))

----------------------------------------------------------------------------
Elements(s) == {s[i] : i \in 1 .. Len(s)}

VARIABLE plan   (* [stream, k, state, degree, chosen, blocks]: the plan     *)
                (* being drawn; blocks is what plan() returns, <<>> before; *)
                (* or None                                                  *)

(* plan() is called.                                                       *)
PlanInit ==
  \E s \in Streams :
    plan = [stream |-> s, k |-> div_ceil(s.payload_len, s.block_size),
            state |-> Seed(s.session_id, s.frame_index),
            degree |-> 0, chosen |-> <<>>, blocks |-> <<>>]

(* A systematic frame.                                                     *)
Systematic ==
  /\ plan.blocks = <<>>
  /\ plan.stream.frame_index < plan.k
  /\ plan' = [plan EXCEPT !.blocks = <<plan.stream.frame_index>>]

DrawDegree ==
  /\ plan.blocks = <<>> /\ plan.degree = 0
  /\ plan.stream.frame_index >= plan.k
  /\ LET state == Advance(plan.state)
         u     == Uniform(Output(state), Unit)
     IN plan' = [plan EXCEPT !.state = state,
                             !.degree = sample_degree(plan.k, u)]

(* Mutant: a block may be drawn twice.                                     *)
Bug_DrawBlock ==
  /\ Len(plan.chosen) < plan.degree
  /\ LET state == Advance(plan.state)
         idx == Output(state) % plan.k
     IN plan' = [plan EXCEPT !.state = state, !.chosen = Append(@, idx)]

(* One turn of the loop: a block that was drawn before is drawn again.     *)
DrawBlock ==
  /\ Len(plan.chosen) < plan.degree
  /\ LET state == Advance(plan.state)
         idx == Output(state) % plan.k
     IN plan' = [plan EXCEPT !.state = state, !.chosen =
                   IF idx \in Elements(@) THEN @ ELSE Append(@, idx)]

(* The members of S in ascending order: each one comes after those below   *)
(* it.                                                                     *)
Below(S, x) == {y \in S : y < x}
Ascending(S) ==
  [i \in 1 .. Cardinality(S) |->
     CHOOSE x \in S : Cardinality(Below(S, x)) = i - 1]

SortBlocks ==
  /\ plan.blocks = <<>> /\ plan.degree > 0
  /\ Len(plan.chosen) = plan.degree
  /\ plan' = [plan EXCEPT !.blocks = Ascending(Elements(plan.chosen))]

NextPlan == Systematic \/ DrawDegree \/ DrawBlock \/ SortBlocks

PlanSpec == PlanInit /\ [][NextPlan]_plan

----------------------------------------------------------------------------
(* A plan is a strictly ascending list of blocks of the message: a block   *)
(* that occurred twice would cancel itself in the droplet.  A frame of the *)
(* prefix is its own block, and the blocks of all of them make the payload,*)
(* without the padding.                                                    *)
PlansAreSound ==
  plan # None /\ plan.blocks # <<>> =>
    LET s == plan.stream
    IN /\ Elements(plan.blocks) \subseteq 0 .. plan.k - 1
       /\ \A i \in 1 .. Len(plan.blocks) - 1 : plan.blocks[i] < plan.blocks[i + 1]
       /\ IF s.frame_index < plan.k THEN plan.blocks = <<s.frame_index>>
          ELSE Len(plan.blocks) = plan.degree
       /\ assemble(Split(s.payload_len, s.block_size), s.block_size,
                   s.payload_len)
            = [i \in 1 .. s.payload_len |-> i]

(* Every plan is finished: the loop, which has no bound, draws each block  *)
(* in the end, because the generator passes through all its states and     *)
(* each output belongs to one of them.                                     *)
PlansEnd == (plan # None) ~> (plan # None /\ plan.blocks # <<>>)

(* While the loop runs there is a block it has not drawn: it never waits   *)
(* for a draw that cannot come.                                            *)
DrawsRemain ==
  Len(plan.chosen) < plan.degree =>
    \E b \in 0 .. plan.k - 1 : b \notin Elements(plan.chosen)

----------------------------------------------------------------------------
(* The inductive invariant behind the two.                                 *)
TypeOK ==
  plan \in [stream : Streams, k : Nat \ {0}, state : States, degree : Nat,
            chosen : Seq(Nat), blocks : Seq(Nat)]

(* The blocks drawn so far are different blocks of the message, no more    *)
(* than the degree, which the message has enough blocks for.               *)
DrawsAreSound ==
  /\ plan.k = div_ceil(plan.stream.payload_len, plan.stream.block_size)
  /\ plan.degree <= plan.k
  /\ Len(plan.chosen) <= plan.degree
  /\ plan.degree > 0 => plan.stream.frame_index >= plan.k
  /\ \A i \in 1 .. Len(plan.chosen) :
       /\ plan.chosen[i] < plan.k
       /\ \A j \in 1 .. Len(plan.chosen) :
            plan.chosen[i] = plan.chosen[j] => i = j

(* What plan() returns is the frame's own block or the blocks drawn.       *)
ResultIsDrawn ==
  \/ plan.blocks = <<>>
  \/ /\ plan.stream.frame_index < plan.k
     /\ plan.blocks = <<plan.stream.frame_index>>
  \/ /\ plan.degree > 0 /\ Len(plan.chosen) = plan.degree
     /\ plan.blocks = Ascending(Elements(plan.chosen))

PlanInv == TypeOK /\ DrawsAreSound /\ ResultIsDrawn
============================================================================
