------------------------------ MODULE Peeling ------------------------------
(***************************************************************************)
(* The peeling decoder of pz-fountain (crates/pz-fountain/src/lib.rs).     *)
(*                                                                         *)
(* One call of absorb() is a sequence of steps here: the entry, which      *)
(* folds the known blocks out of the droplet and either solves a block or  *)
(* stores the droplet; then the iterations of the two nested loops of      *)
(* propagate(); then the return.  A step is one iteration of a loop.       *)
(*                                                                         *)
(* Abstractions.  A block of bytes is a formal sum of source blocks        *)
(* (Closure.tla): the code never branches on the bytes.  The work queue    *)
(* and the reference lists are sets, and a step takes any member: the      *)
(* code's last-in-first-out pop and its list order are among the orders    *)
(* allowed, so what holds here holds whatever the order.                   *)
(***************************************************************************)
EXTENDS Closure, Sequences

CONSTANTS
  None,       (* Rust's None, and "no call in progress"                    *)
  MaxAbsorb   (* bound: calls of absorb() that pass the size check         *)

Entry == [indices : SUBSET Blocks, data : SUBSET Blocks]

ASSUME NoneAssumption ==
  /\ \A f \in Frames : None # f
  /\ None \notin Blocks
  /\ \A B \in SUBSET Blocks : None # B
  /\ \A e \in Entry : None # e
ASSUME MaxAbsorbAssumption == MaxAbsorb \in Nat

VARIABLES
  solved,         (* block -> its data, or None                            *)
  solved_count,
  pending,        (* slots, each an Entry or None; only ever appended to   *)
  refs,           (* block -> slots whose entry mentions it                *)
  absorbed,
  useful,
  call,           (* frame whose absorb() is running, or None              *)
  queue,          (* solved blocks propagate() still has to process        *)
  index,          (* block propagate() is processing                       *)
  slots,          (* slots of that block it still has to visit             *)
  received        (* history: frames whose absorb() has returned           *)

vars == <<solved, solved_count, pending, refs, absorbed, useful, call, queue,
          index, slots, received>>

----------------------------------------------------------------------------
Known == {b \in Blocks : solved[b] # None}

(* Mutant: completion declared one block early.                            *)
Bug_is_complete == solved_count + 1 >= K

is_complete == solved_count = K

Live(s) == pending[s] # None

(* The plan of f without the blocks already solved (indices.retain).       *)
Unknown(f) == {b \in Plan[f] : solved[b] = None}

(* Mutant: the known blocks are dropped from the plan but not XORed out.   *)
Bug_FoldOut(d, B) == d

(* d with the data of every block of B XORed out, one after the other.     *)
FoldOut(d, B) ==
  Xor(d, {x \in Blocks : Cardinality({b \in B : x \in solved[b]}) % 2 = 1})

(* Mutants: a block solved twice is counted twice; a solved block is not   *)
(* queued for propagation.                                                 *)
Bug_solve_Recounts(b, d, pushed) ==
  /\ solved' = [solved EXCEPT ![b] = d]
  /\ solved_count' = solved_count + 1
  /\ queue' = pushed \cup {b}

Bug_solve_NoPush(b, d, pushed) ==
  IF solved[b] = None
  THEN /\ solved' = [solved EXCEPT ![b] = d]
       /\ solved_count' = solved_count + 1
       /\ queue' = pushed
  ELSE /\ UNCHANGED <<solved, solved_count>>
       /\ queue' = pushed

(* solve(): a block already solved is left alone.  pushed is the queue     *)
(* before the call.                                                        *)
solve(b, d, pushed) ==
  IF solved[b] = None
  THEN /\ solved' = [solved EXCEPT ![b] = d]
       /\ solved_count' = solved_count + 1
       /\ queue' = pushed \cup {b}
  ELSE /\ UNCHANGED <<solved, solved_count>>
       /\ queue' = pushed

Init ==
  /\ solved = [b \in Blocks |-> None]
  /\ solved_count = 0
  /\ pending = <<>>
  /\ refs = [b \in Blocks |-> {}]
  /\ absorbed = 0
  /\ useful = 0
  /\ call = None
  /\ queue = {}
  /\ index = None
  /\ slots = {}
  /\ received = {}

----------------------------------------------------------------------------
(* absorb() up to the call of propagate().                                 *)

(* The size check fails: Err(WrongBlockSize), nothing has changed.         *)
AbsorbWrongSize ==
  /\ call = None
  /\ UNCHANGED vars

Enter ==
  /\ call = None
  /\ absorbed < MaxAbsorb
  /\ absorbed' = absorbed + 1

(* The message is already complete, or the droplet holds no unknown block: *)
(* absorb() returns at once.                                               *)
AbsorbRedundant(f) ==
  /\ Enter
  /\ is_complete \/ Unknown(f) = {}
  /\ received' = received \cup {f}
  /\ UNCHANGED <<solved, solved_count, pending, refs, useful, call, queue,
                 index, slots>>

(* One unknown block: the folded droplet is that block.                    *)
AbsorbSolve(f) ==
  /\ Enter
  /\ ~is_complete
  /\ \E b \in Blocks :
       /\ Unknown(f) = {b}
       /\ solve(b, FoldOut(Droplet(f), Plan[f] \ {b}), {})
  /\ useful' = useful + 1
  /\ call' = f
  /\ UNCHANGED <<pending, refs, index, slots, received>>

(* Mutants: the slot number read after the push; only one of the blocks    *)
(* refers to the slot.                                                     *)
Bug_AbsorbStore(f, slot, referring) ==
  /\ Enter
  /\ ~is_complete
  /\ \E a, b \in Unknown(f) : a # b
  /\ useful' = useful + 1
  /\ pending' = Append(pending,
                  [indices |-> Unknown(f),
                   data |-> FoldOut(Droplet(f), Plan[f] \ Unknown(f))])
  /\ refs' = [b \in Blocks |-> IF b \in referring
                               THEN refs[b] \cup {slot} ELSE refs[b]]
  /\ call' = f
  /\ UNCHANGED <<solved, solved_count, queue, index, slots, received>>

Bug_AbsorbStore_LateSlot(f) ==
  Bug_AbsorbStore(f, Len(pending) + 2, Unknown(f))

Bug_AbsorbStore_OneRef(f) ==
  Bug_AbsorbStore(f, Len(pending) + 1, {CHOOSE b \in Unknown(f) : TRUE})

(* Two or more: the folded droplet waits in a new slot.                    *)
AbsorbStore(f) ==
  /\ Enter
  /\ ~is_complete
  /\ \E a, b \in Unknown(f) : a # b
  /\ useful' = useful + 1
  /\ pending' = Append(pending,
                  [indices |-> Unknown(f),
                   data |-> FoldOut(Droplet(f), Plan[f] \ Unknown(f))])
  /\ refs' = [b \in Blocks |-> IF b \in Unknown(f)
                               THEN refs[b] \cup {Len(pending) + 1}
                               ELSE refs[b]]
  /\ call' = f
  /\ UNCHANGED <<solved, solved_count, queue, index, slots, received>>

----------------------------------------------------------------------------
(* propagate().                                                            *)

(* Mutant: the queue is peeked instead of popped.                          *)
Bug_Pop(b) ==
  /\ slots = {}
  /\ b \in queue
  /\ solved[b] # None
  /\ index' = b
  /\ slots' = refs[b]
  /\ refs' = [refs EXCEPT ![b] = {}]
  /\ UNCHANGED <<solved, solved_count, pending, absorbed, useful, call, queue,
                 received>>

(* while let Some(index) = queue.pop(): take the block's reference list.   *)
(* A queued block is always solved (the code skips one that is not; here   *)
(* the guard would stop the run, and deadlock is checked).                 *)
Pop(b) ==
  /\ slots = {}
  /\ b \in queue
  /\ solved[b] # None
  /\ queue' = queue \ {b}
  /\ index' = b
  /\ slots' = refs[b]
  /\ refs' = [refs EXCEPT ![b] = {}]
  /\ UNCHANGED <<solved, solved_count, pending, absorbed, useful, call,
                 received>>

(* The slot was emptied earlier: continue.                                 *)
VisitEmpty(s) ==
  /\ s \in slots
  /\ ~Live(s)
  /\ slots' = slots \ {s}
  /\ UNCHANGED <<solved, solved_count, pending, refs, absorbed, useful, call,
                 queue, index, received>>

(* Mutant: the block is removed from the entry's list but not XORed out.   *)
Bug_VisitEntry(s) ==
  /\ s \in slots
  /\ Live(s)
  /\ slots' = slots \ {s}
  /\ LET rest == pending[s].indices \ {index}
     IN \/ /\ \E a, b \in rest : a # b
           /\ pending' = [pending EXCEPT ![s].indices = rest]
           /\ UNCHANGED <<solved, solved_count, queue>>
        \/ \E b \in rest :
             /\ rest = {b}
             /\ pending' = [pending EXCEPT ![s] = None]
             /\ solve(b, pending[s].data, queue)
  /\ UNCHANGED <<refs, absorbed, useful, call, index, received>>

(* XOR the block out of the entry; an entry left with one block solves it, *)
(* and an entry left with at most one is dropped.                          *)
VisitEntry(s) ==
  /\ s \in slots
  /\ Live(s)
  /\ slots' = slots \ {s}
  /\ LET e    == pending[s]
         rest == e.indices \ {index}
         data == IF index \in e.indices THEN Xor(e.data, solved[index])
                                        ELSE e.data
     IN \/ /\ rest = {} \/ \E a, b \in rest : a # b
           /\ pending' = [pending EXCEPT ![s] =
                            IF rest = {} THEN None
                            ELSE [indices |-> rest, data |-> data]]
           /\ UNCHANGED <<solved, solved_count, queue>>
        \/ \E b \in Blocks :
             /\ rest = {b}
             /\ pending' = [pending EXCEPT ![s] = None]
             /\ solve(b, data, queue)
  /\ UNCHANGED <<refs, absorbed, useful, call, index, received>>

(* The queue has run dry: absorb() returns state().                        *)
Return ==
  /\ call # None
  /\ queue = {}
  /\ slots = {}
  /\ call' = None
  /\ received' = received \cup {call}
  /\ UNCHANGED <<solved, solved_count, pending, refs, absorbed, useful, queue,
                 index, slots>>

Cascade ==
  \/ \E b \in queue : Pop(b)
  \/ \E s \in slots : VisitEmpty(s) \/ VisitEntry(s)
  \/ Return

Next ==
  \/ AbsorbWrongSize
  \/ \E f \in Frames : AbsorbRedundant(f) \/ AbsorbSolve(f) \/ AbsorbStore(f)
  \/ Cascade

Spec == Init /\ [][Next]_vars

(* absorb() is one synchronous call: once entered, its loops keep running. *)
FairSpec == Spec /\ WF_vars(Cascade)

----------------------------------------------------------------------------
(* Type invariant.                                                         *)
TypeOK ==
  /\ solved \in [Blocks -> {None} \cup SUBSET Blocks]
  /\ solved_count \in Nat
  /\ pending \in Seq({None} \cup Entry)
  /\ refs \in [Blocks -> SUBSET DOMAIN pending]
  /\ absorbed \in 0 .. MaxAbsorb
  /\ useful \in Nat
  /\ call \in {None} \cup Frames
  /\ queue \in SUBSET Blocks
  /\ index \in {None} \cup Blocks
  /\ slots \in SUBSET DOMAIN pending
  /\ received \in SUBSET Frames

(* Every block the decoder holds as solved is, bit for bit, the sender's   *)
(* block of that index, at every moment of every cascade: no droplet is    *)
(* ever reduced by the wrong block, twice, or not at all.                  *)
BlocksAreExact == \A b \in Known : solved[b] = {b}

(* solved_count, which alone decides is_complete(), never drifts from the  *)
(* number of blocks held, although several droplets of one cascade may     *)
(* resolve to the same block.                                              *)
CountIsExact == solved_count = Cardinality(Known)

(* Between calls no stored droplet could still be used: each one lacks at  *)
(* least two blocks, none of them known.  Nothing useful is stranded in a  *)
(* slot that propagate() will not visit again.                             *)
NothingStranded ==
  call = None =>
    \A s \in DOMAIN pending : Live(s) =>
      /\ pending[s].indices \cap Known = {}
      /\ \E a, b \in pending[s].indices : a # b

(* Between calls the decoder knows exactly what peeling derives from the   *)
(* set of frames it was given: loss aside, neither their order nor their   *)
(* repetition nor the order of the cascade changes the outcome.            *)
Confluent == call = None => Known = Peeled(received)

(* Stored droplets that are still waiting for blocks.                      *)
LiveSlots == {s \in DOMAIN pending : Live(s)}

(* No block comes for free: each one held, and each droplet in store, took *)
(* a useful droplet of its own, however long the cascade that produced it; *)
(* and memory grows with useful droplets only.                             *)
BlocksArePaidFor ==
  /\ solved_count + Cardinality(LiveSlots) <= useful
  /\ Len(pending) <= useful
  /\ useful <= absorbed

(* The decoder implements the abstract one: seen between calls, absorb()   *)
(* is one atomic step.                                                     *)
Promise == INSTANCE Fountain WITH
             known <- IF call = None THEN Known ELSE Peeled(received)
ImplementsFountain == Promise!Spec

(* Every call of absorb() returns.                                         *)
AbsorbReturns == call # None ~> call = None

(* Blocks propagate() has not taken from its queue yet, whether they are   *)
(* already in it or still unknown.                                         *)
Waiting == (Blocks \ Known) \cup queue

ProperSubset(A, B) == A \subseteq B /\ A # B

(* Why every call returns: each iteration of propagate()'s loops, although *)
(* it may push to the queue it pops from, takes a block off the waiting    *)
(* ones for good, or visits a slot, or ends the call, and undoes none of   *)
(* these.                                                                  *)
CascadesShrink ==
  [][call # None =>
       \/ ProperSubset(Waiting', Waiting)
       \/ Waiting' = Waiting /\ ProperSubset(slots', slots)
       \/ Waiting' = Waiting /\ slots' = slots /\ call' = None]_vars

----------------------------------------------------------------------------
(* The inductive invariant behind the three safety invariants.             *)

(* Frames the decoder has been handed, the one in progress included.       *)
Handed == received \cup ({call} \ {None})

(* A stored entry's data is the sum of the blocks it still names, and it   *)
(* names at least two.                                                     *)
EntriesAreExact ==
  \A s \in DOMAIN pending : Live(s) =>
    /\ pending[s].data = pending[s].indices
    /\ \E a, b \in pending[s].indices : a # b

(* Between calls there is no work; queued blocks are solved, and so is the *)
(* block being processed.                                                  *)
WorkIsSolved ==
  /\ queue \subseteq Known
  /\ slots # {} => index \in Known
  /\ call = None => queue = {} /\ slots = {}

(* An entry that names a block is still reachable from it: through the     *)
(* block's reference list, and the block is queued if it is solved; or the *)
(* block is being processed and the slot is still to be visited.           *)
EntriesAreReachable ==
  \A s \in DOMAIN pending : Live(s) =>
    \A b \in pending[s].indices :
      \/ s \in refs[b] /\ (b \in Known => b \in queue)
      \/ b = index /\ s \in slots

(* A stored entry is what is left of some frame...                         *)
LeftOver(s, f) ==
  /\ pending[s].indices \subseteq Plan[f]
  /\ Plan[f] \subseteq pending[s].indices \cup Known

EntriesHaveFrames ==
  \A s \in DOMAIN pending : Live(s) => \E f \in Handed : LeftOver(s, f)

(* ... and a frame is either explained by solved blocks or still stored.   *)
FramesAreKept ==
  \A f \in Handed :
    \/ Plan[f] \subseteq Known
    \/ \E s \in DOMAIN pending : Live(s) /\ LeftOver(s, f)

(* Every solved block is derivable from the frames.                        *)
KnownIsDerivable ==
  \A S \in SUBSET Blocks : Closed(S, Handed) => Known \subseteq S

IInv ==
  /\ TypeOK
  /\ BlocksAreExact
  /\ CountIsExact
  /\ EntriesAreExact
  /\ WorkIsSolved
  /\ EntriesAreReachable
  /\ EntriesHaveFrames
  /\ FramesAreKept
  /\ KnownIsDerivable
============================================================================
