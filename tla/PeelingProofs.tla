--------------------------- MODULE PeelingProofs ---------------------------
(***************************************************************************)
(* Proofs about the peeling decoder, for every set of blocks, every plan   *)
(* and every bound on the number of calls.                                 *)
(***************************************************************************)
EXTENDS Peeling, TLAPS, FiniteSetTheorems

(* XORing exact blocks out of a sum cancels each of them once.             *)
LEMMA FoldOutExact ==
  ASSUME BlocksAreExact,
         NEW d \in SUBSET Blocks, NEW B \in SUBSET Known
  PROVE  FoldOut(d, B) = Xor(d, B)
<1>1. ASSUME NEW x \in Blocks
      PROVE  Cardinality({b \in B : x \in solved[b]}) % 2 = 1 <=> x \in B
  <2>1. CASE x \in B
    <3>1. {b \in B : x \in solved[b]} = {x}
      BY <2>1 DEF BlocksAreExact
    <3>2. Cardinality({b \in B : x \in solved[b]}) = 1
      BY <3>1, FS_Singleton
    <3>3. QED
      BY <2>1, <3>2
  <2>2. CASE x \notin B
    <3>1. {b \in B : x \in solved[b]} = {}
      BY <2>2 DEF BlocksAreExact
    <3>2. QED
      BY <2>2, <3>1, FS_EmptySet
  <2>3. QED
    BY <2>1, <2>2
<1>2. {x \in Blocks : Cardinality({b \in B : x \in solved[b]}) % 2 = 1} = B
  BY <1>1 DEF Known
<1>3. QED
  BY <1>2 DEF FoldOut

LEMMA KnownFinite == IsFiniteSet(Known)
BY BlocksAssumption, FS_Subset DEF Known

(* solve() with the right data adds the block to the known ones, and counts *)
(* it, once.                                                                *)
LEMMA SolveAddsBlock ==
  ASSUME TypeOK, BlocksAreExact, CountIsExact,
         NEW b \in Blocks, NEW q \in SUBSET Blocks, solve(b, {b}, q)
  PROVE  /\ Known' = Known \cup {b}
         /\ queue' = IF b \in Known THEN q ELSE q \cup {b}
         /\ solved' \in [Blocks -> {None} \cup SUBSET Blocks]
         /\ solved_count' \in Nat
         /\ BlocksAreExact'
         /\ CountIsExact'
<1>1. CASE solved[b] = None
  <2>1. /\ solved' = [solved EXCEPT ![b] = {b}]
        /\ solved_count' = solved_count + 1
        /\ queue' = q \cup {b}
    BY <1>1 DEF solve
  <2>2. {b} # None
    BY NoneAssumption
  <2>3. Known' = Known \cup {b} /\ b \notin Known
    BY <1>1, <2>1, <2>2 DEF Known, TypeOK
  <2>4. Cardinality(Known') = Cardinality(Known) + 1
    BY <2>3, KnownFinite, FS_AddElement
  <2>5. BlocksAreExact'
    BY <2>1, <2>3 DEF BlocksAreExact, Known, TypeOK
  <2>6. QED
    BY <2>1, <2>3, <2>4, <2>5 DEF TypeOK, CountIsExact
<1>2. CASE solved[b] # None
  <2>1. UNCHANGED <<solved, solved_count>> /\ queue' = q /\ b \in Known
    BY <1>2 DEF solve, Known
  <2>2. QED
    BY <2>1 DEF TypeOK, BlocksAreExact, CountIsExact, Known
<1>3. QED
  BY <1>1, <1>2

(* A step that leaves the solved blocks alone.                             *)
LEMMA KnownUnchanged ==
  ASSUME TypeOK, BlocksAreExact, CountIsExact, UNCHANGED <<solved, solved_count>>
  PROVE  /\ Known' = Known
         /\ BlocksAreExact'
         /\ CountIsExact'
BY DEF Known, BlocksAreExact, CountIsExact

(* is_complete() is right about the message.                               *)
LEMMA CompleteMeansAll ==
  ASSUME CountIsExact, is_complete
  PROVE  Known = Blocks
BY BlocksAssumption, FS_Subset, KnownFinite, FS_CardinalityType
   DEF CountIsExact, is_complete, K, Known

----------------------------------------------------------------------------
LEMMA InitIInv == Init => IInv
<1> SUFFICES ASSUME Init PROVE IInv
  OBVIOUS
<1>1. Known = {}
  BY DEF Init, Known
<1>2. TypeOK
  BY MaxAbsorbAssumption DEF Init, TypeOK
<1>3. CountIsExact
  BY <1>1, FS_EmptySet DEF Init, CountIsExact
<1>4. Handed = {} /\ DOMAIN pending = {}
  BY DEF Init, Handed
<1>5. QED
  BY <1>1, <1>2, <1>3, <1>4
     DEF Init, IInv, BlocksAreExact, EntriesAreExact, WorkIsSolved,
         EntriesAreReachable, EntriesHaveFrames, FramesAreKept,
         KnownIsDerivable
----------------------------------------------------------------------------
(* More frames close fewer sets.                                           *)
LEMMA ClosedShrinks ==
  ASSUME NEW F, NEW G, F \subseteq G, NEW S, Closed(S, G)
  PROVE  Closed(S, F)
BY DEF Closed

(* What a call hands over.                                                 *)
LEMMA HandedGrows ==
  ASSUME TypeOK, NEW f \in Frames, call = None,
         \/ call' = f /\ received' = received
         \/ call' = None /\ received' = received \cup {f}
  PROVE  Handed' = Handed \cup {f}
BY NoneAssumption DEF Handed

LEMMA UnknownIsRest ==
  ASSUME TypeOK, NEW f \in Frames
  PROVE  /\ Unknown(f) = Plan[f] \ Known
         /\ Plan[f] \subseteq Blocks
BY PlanAssumption DEF Unknown, Known

LEMMA RedundantKeepsIInv ==
  ASSUME IInv, NEW f \in Frames, AbsorbRedundant(f)
  PROVE  IInv'
<1> USE DEF IInv, AbsorbRedundant, Enter
<1>1. TypeOK'
  BY MaxAbsorbAssumption DEF TypeOK
<1>2. Known' = Known /\ BlocksAreExact' /\ CountIsExact'
  BY KnownUnchanged
<1>3. Plan[f] \subseteq Known
  BY UnknownIsRest, CompleteMeansAll
<1>4. Handed' = Handed \cup {f}
  BY HandedGrows
<1>5. KnownIsDerivable'
  BY <1>2, <1>4, ClosedShrinks DEF KnownIsDerivable
<1>6. FramesAreKept' /\ EntriesHaveFrames'
  BY <1>2, <1>3, <1>4 DEF FramesAreKept, EntriesHaveFrames, LeftOver, Live
<1>7. EntriesAreExact' /\ WorkIsSolved' /\ EntriesAreReachable'
  BY <1>2 DEF EntriesAreExact, WorkIsSolved, EntriesAreReachable, Live
<1>8. QED
  BY <1>1, <1>2, <1>5, <1>6, <1>7

LEMMA AbsorbSolveKeepsIInv ==
  ASSUME IInv, NEW f \in Frames, AbsorbSolve(f)
  PROVE  IInv'
<1> USE DEF IInv, Enter
<1>1. PICK b \in Blocks : /\ Unknown(f) = {b}
                          /\ solve(b, FoldOut(Droplet(f), Plan[f] \ {b}), {})
  BY DEF AbsorbSolve
<1>2. /\ Plan[f] \ Known = {b}
      /\ Plan[f] \subseteq Blocks
      /\ Plan[f] \ {b} \subseteq Known
  BY <1>1, UnknownIsRest
<1>3. FoldOut(Droplet(f), Plan[f] \ {b}) = {b}
  <2>1. FoldOut(Droplet(f), Plan[f] \ {b}) = Xor(Plan[f], Plan[f] \ {b})
    BY <1>2, FoldOutExact DEF Droplet
  <2>2. QED
    BY <1>2, <2>1 DEF Xor
<1>4. /\ Known' = Known \cup {b}
      /\ queue' = {b}
      /\ solved' \in [Blocks -> {None} \cup SUBSET Blocks]
      /\ solved_count' \in Nat
      /\ BlocksAreExact'
      /\ CountIsExact'
  <2>1. solve(b, {b}, {})
    BY <1>1, <1>3
  <2>2. /\ Known' = Known \cup {b}
        /\ queue' = IF b \in Known THEN {} ELSE {} \cup {b}
        /\ solved' \in [Blocks -> {None} \cup SUBSET Blocks]
        /\ solved_count' \in Nat
        /\ BlocksAreExact'
        /\ CountIsExact'
    BY <2>1, {} \in SUBSET Blocks, SolveAddsBlock, Zenon
  <2>3. b \notin Known
    BY <1>2
  <2>4. QED
    BY <2>2, <2>3
<1>5. /\ UNCHANGED <<pending, refs, index, slots, received>>
      /\ call = None /\ call' = f
      /\ absorbed' \in 0 .. MaxAbsorb
      /\ useful' \in Nat
  BY MaxAbsorbAssumption DEF AbsorbSolve, TypeOK
<1>6. TypeOK'
  BY <1>4, <1>5 DEF TypeOK
<1>7. Handed' = Handed \cup {f}
  BY <1>5, HandedGrows
<1>8. WorkIsSolved'
  BY <1>4, <1>5, NoneAssumption DEF WorkIsSolved
<1>9. EntriesAreExact'
  BY <1>5 DEF EntriesAreExact, Live
<1>10. EntriesAreReachable'
  BY <1>4, <1>5 DEF EntriesAreReachable, WorkIsSolved, Live
<1>11. EntriesHaveFrames'
  BY <1>4, <1>5, <1>7 DEF EntriesHaveFrames, LeftOver, Live
<1>12. FramesAreKept'
  BY <1>2, <1>4, <1>5, <1>7 DEF FramesAreKept, LeftOver, Live
<1>13. KnownIsDerivable'
  <2> SUFFICES ASSUME NEW S \in SUBSET Blocks, Closed(S, Handed')
               PROVE  Known' \subseteq S
    BY DEF KnownIsDerivable
  <2>1. Known \subseteq S
    BY <1>7, ClosedShrinks DEF KnownIsDerivable
  <2>2. b \in S
    <3>1. Plan[f] \ S \subseteq {b} /\ b \in Plan[f]
      BY <1>2, <2>1
    <3>2. Plan[f] \ S # {b}
      BY <1>7 DEF Closed
    <3>3. QED
      BY <3>1, <3>2
  <2>3. QED
    BY <1>4, <2>1, <2>2
<1>14. QED
  BY <1>4, <1>6, <1>8, <1>9, <1>10, <1>11, <1>12, <1>13
(* The slot a stored droplet gets, and the slots before it.                *)
LEMMA StoredSlot ==
  ASSUME TypeOK, NEW e \in Entry, pending' = Append(pending, e)
  PROVE  /\ pending' \in Seq({None} \cup Entry)
         /\ DOMAIN pending' = DOMAIN pending \cup {Len(pending) + 1}
         /\ pending'[Len(pending) + 1] = e
         /\ Len(pending) + 1 \notin DOMAIN pending
         /\ \A s \in DOMAIN pending : pending'[s] = pending[s]
BY DEF TypeOK

LEMMA AbsorbStoreKeepsIInv ==
  ASSUME IInv, NEW f \in Frames, AbsorbStore(f)
  PROVE  IInv'
<1> USE DEF IInv, Enter
<1> DEFINE rest == Plan[f] \ Known
           e == [indices |-> rest, data |-> rest]
<1>0. PICK new \in Nat : new = Len(pending) + 1
  BY DEF TypeOK
<1>1. /\ Unknown(f) = rest
      /\ rest \subseteq Blocks
      /\ Plan[f] \subseteq Blocks
  BY UnknownIsRest
<1>2. FoldOut(Droplet(f), Plan[f] \ Unknown(f)) = rest
  <2>1. Plan[f] \ Unknown(f) = Plan[f] \cap Known
    BY <1>1
  <2>2. FoldOut(Droplet(f), Plan[f] \cap Known)
          = Xor(Plan[f], Plan[f] \cap Known)
    BY <1>1, FoldOutExact DEF Droplet
  <2>3. QED
    BY <2>1, <2>2 DEF Xor
<1>3. /\ pending' = Append(pending, e)
      /\ e \in Entry
      /\ \E a, b \in rest : a # b
  BY <1>1, <1>2 DEF AbsorbStore, Entry
<1>4. /\ pending' \in Seq({None} \cup Entry)
      /\ DOMAIN pending' = DOMAIN pending \cup {new}
      /\ pending'[new] = e
      /\ new \notin DOMAIN pending
      /\ \A s \in DOMAIN pending : pending'[s] = pending[s]
  BY <1>0, <1>3, StoredSlot
<1>5. \A b \in Blocks :
        refs'[b] = IF b \in rest THEN refs[b] \cup {new} ELSE refs[b]
  BY <1>0, <1>1 DEF AbsorbStore
<1>6. /\ UNCHANGED <<solved, solved_count, queue, index, slots, received>>
      /\ call = None /\ call' = f
      /\ absorbed' \in 0 .. MaxAbsorb
      /\ useful' \in Nat
      /\ DOMAIN refs' = Blocks
  BY MaxAbsorbAssumption DEF AbsorbStore, TypeOK
<1>7. Known' = Known /\ BlocksAreExact' /\ CountIsExact'
  BY <1>6, KnownUnchanged
<1>8. TypeOK'
  <2>1. refs' \in [Blocks -> SUBSET DOMAIN pending']
    BY <1>0, <1>1, <1>4 DEF AbsorbStore, TypeOK
  <2>2. QED
    BY <1>4, <1>6, <2>1 DEF TypeOK
<1>9. Handed' = Handed \cup {f}
  BY <1>6, HandedGrows
<1>10. queue = {} /\ slots = {}
  BY <1>6 DEF WorkIsSolved
<1>11. WorkIsSolved'
  BY <1>6, <1>10, NoneAssumption DEF WorkIsSolved
<1>12. EntriesAreExact'
  BY <1>3, <1>4 DEF EntriesAreExact, Live
<1>13. EntriesAreReachable'
  <2> SUFFICES ASSUME NEW s \in DOMAIN pending', Live(s)',
                      NEW b \in pending'[s].indices
               PROVE  s \in refs'[b] /\ b \notin Known
    BY <1>7 DEF EntriesAreReachable
  <2>1. CASE s = new
    <3>1. b \in rest
      BY <1>4, <2>1
    <3>2. QED
      BY <1>1, <1>5, <2>1, <3>1
  <2>2. CASE s \in DOMAIN pending
    <3>1. Live(s) /\ b \in pending[s].indices
      BY <1>4, <2>2 DEF Live
    <3>2. s \in refs[b] /\ b \notin Known
      BY <1>10, <2>2, <3>1 DEF EntriesAreReachable
    <3>3. b \in Blocks
      BY <2>2, <3>1 DEF TypeOK, Live, Entry
    <3>4. QED
      BY <1>5, <3>2, <3>3
  <2>3. QED
    BY <1>4, <2>1, <2>2
<1>14. \A s \in DOMAIN pending, g \in Handed :
         Live(s) /\ LeftOver(s, g) => Live(s)' /\ LeftOver(s, g)'
  BY <1>4, <1>7 DEF Live, LeftOver
<1>15. Live(new)' /\ LeftOver(new, f)'
  <2>1. e # None
    BY <1>3, NoneAssumption
  <2>2. pending'[new].indices = rest
    BY <1>4
  <2>3. QED
    BY <1>1, <1>4, <1>7, <2>1, <2>2 DEF Live, LeftOver
<1>16. EntriesHaveFrames'
  <2> SUFFICES ASSUME NEW s \in DOMAIN pending', Live(s)'
               PROVE  \E g \in Handed' : LeftOver(s, g)'
    BY DEF EntriesHaveFrames
  <2>1. CASE s = new
    BY <1>9, <1>15, <2>1
  <2>2. CASE s \in DOMAIN pending
    <3>1. Live(s)
      BY <1>4, <2>2 DEF Live
    <3>2. QED
      BY <1>9, <1>14, <2>2, <3>1 DEF EntriesHaveFrames
  <2>3. QED
    BY <1>4, <2>1, <2>2
<1>17. FramesAreKept'
  <2> SUFFICES ASSUME NEW g \in Handed'
               PROVE  \/ Plan[g] \subseteq Known
                      \/ \E s \in DOMAIN pending' : Live(s)' /\ LeftOver(s, g)'
    BY <1>7 DEF FramesAreKept
  <2>1. CASE g = f
    BY <1>4, <1>15, <2>1
  <2>2. CASE g \in Handed
    BY <1>4, <1>14, <2>2 DEF FramesAreKept
  <2>3. QED
    BY <1>9, <2>1, <2>2
<1>18. KnownIsDerivable'
  BY <1>7, <1>9, ClosedShrinks DEF KnownIsDerivable
<1>19. QED
  BY <1>7, <1>8, <1>11, <1>12, <1>13, <1>16, <1>17, <1>18
LEMMA PopKeepsIInv ==
  ASSUME IInv, NEW b \in Blocks, Pop(b)
  PROVE  IInv'
<1> USE DEF IInv
<1>1. /\ slots = {} /\ b \in queue /\ b \in Known
      /\ queue' = queue \ {b} /\ index' = b /\ slots' = refs[b]
      /\ refs' = [refs EXCEPT ![b] = {}]
      /\ UNCHANGED <<solved, solved_count, pending, absorbed, useful, call,
                     received>>
  BY DEF Pop, Known
<1>2. Known' = Known /\ BlocksAreExact' /\ CountIsExact'
  BY <1>1, KnownUnchanged
<1>3. TypeOK'
  BY <1>1 DEF TypeOK
<1>4. WorkIsSolved'
  BY <1>1, <1>2 DEF WorkIsSolved
<1>5. EntriesAreReachable'
  <2> SUFFICES ASSUME NEW s \in DOMAIN pending, Live(s),
                      NEW x \in pending[s].indices
               PROVE  \/ s \in refs'[x] /\ (x \in Known => x \in queue')
                      \/ x = index' /\ s \in slots'
    BY <1>1, <1>2 DEF EntriesAreReachable, Live
  <2>1. s \in refs[x] /\ (x \in Known => x \in queue)
    BY <1>1 DEF EntriesAreReachable
  <2>2. x \in Blocks
    BY DEF TypeOK, Live, Entry
  <2>3. CASE x = b
    BY <1>1, <2>1, <2>3
  <2>4. CASE x # b
    BY <1>1, <2>1, <2>2, <2>4 DEF TypeOK
  <2>5. QED
    BY <2>3, <2>4
<1>6. Handed' = Handed
  BY <1>1 DEF Handed
<1>7. QED
  BY <1>1, <1>2, <1>3, <1>4, <1>5, <1>6
     DEF EntriesAreExact, EntriesHaveFrames, FramesAreKept, LeftOver,
         KnownIsDerivable, Live

LEMMA VisitEmptyKeepsIInv ==
  ASSUME IInv, NEW s \in slots, VisitEmpty(s)
  PROVE  IInv'
<1> USE DEF IInv
<1>1. /\ ~Live(s)
      /\ slots' = slots \ {s}
      /\ UNCHANGED <<solved, solved_count, pending, refs, absorbed, useful,
                     call, queue, index, received>>
  BY DEF VisitEmpty
<1>2. Known' = Known /\ BlocksAreExact' /\ CountIsExact'
  BY <1>1, KnownUnchanged
<1>3. TypeOK'
  BY <1>1 DEF TypeOK
<1>4. WorkIsSolved'
  BY <1>1, <1>2 DEF WorkIsSolved
<1>5. EntriesAreReachable'
  BY <1>1, <1>2 DEF EntriesAreReachable, Live
<1>6. Handed' = Handed
  BY <1>1 DEF Handed
<1>7. QED
  BY <1>1, <1>2, <1>3, <1>4, <1>5, <1>6
     DEF EntriesAreExact, EntriesHaveFrames, FramesAreKept, LeftOver,
         KnownIsDerivable, Live

LEMMA ReturnKeepsIInv ==
  ASSUME IInv, Return
  PROVE  IInv'
<1> USE DEF IInv
<1>1. /\ call # None /\ call' = None
      /\ queue = {} /\ slots = {}
      /\ received' = received \cup {call}
      /\ UNCHANGED <<solved, solved_count, pending, refs, absorbed, useful,
                     queue, index, slots>>
  BY DEF Return
<1>2. Known' = Known /\ BlocksAreExact' /\ CountIsExact'
  BY <1>1, KnownUnchanged
<1>3. TypeOK'
  BY <1>1 DEF TypeOK
<1>4. WorkIsSolved'
  BY <1>1, <1>2 DEF WorkIsSolved
<1>5. Handed' = Handed
  BY <1>1 DEF Handed
<1>6. QED
  BY <1>1, <1>2, <1>3, <1>4, <1>5
     DEF EntriesAreExact, EntriesAreReachable, EntriesHaveFrames,
         FramesAreKept, LeftOver, KnownIsDerivable, Live
----------------------------------------------------------------------------
(* Visiting an entry.                                                      *)
LEMMA ReplacedSlot ==
  ASSUME TypeOK, NEW s \in DOMAIN pending, NEW v \in {None} \cup Entry,
         pending' = [pending EXCEPT ![s] = v]
  PROVE  /\ pending' \in Seq({None} \cup Entry)
         /\ DOMAIN pending' = DOMAIN pending
         /\ pending'[s] = v
         /\ \A t \in DOMAIN pending : t # s => pending'[t] = pending[t]
BY DEF TypeOK

(* The data of a visited entry, with the block XORed out, is the sum of    *)
(* the blocks it has left; and it has some left.                           *)
LEMMA VisitedEntry ==
  ASSUME IInv, NEW s \in slots, Live(s)
  PROVE  LET e == pending[s]
             rest == e.indices \ {index}
         IN  /\ s \in DOMAIN pending
             /\ index \in Known
             /\ e.indices \subseteq Blocks
             /\ rest # {}
             /\ rest = IF index \in e.indices THEN Xor(e.data, solved[index])
                                              ELSE e.data
<1> DEFINE e == pending[s]
<1>1. s \in DOMAIN pending /\ index \in Known
  BY DEF IInv, TypeOK, WorkIsSolved
<1>2. e \in Entry
  BY <1>1 DEF IInv, TypeOK, Live
<1>3. e.data = e.indices /\ \E a, b \in e.indices : a # b
  BY <1>1 DEF IInv, EntriesAreExact
<1>4. solved[index] = {index}
  BY <1>1 DEF IInv, BlocksAreExact
<1>5. QED
  BY <1>1, <1>2, <1>3, <1>4 DEF Xor, Entry

(* The entry still lacks several blocks: it shrinks.                       *)
Shrinks(s, rest) ==
  /\ Live(s) /\ rest = pending[s].indices \ {index}
  /\ \E a, b \in rest : a # b
  /\ pending' = [pending EXCEPT ![s] = [indices |-> rest, data |-> rest]]
  /\ slots' = slots \ {s}
  /\ UNCHANGED <<solved, solved_count, queue, refs, absorbed, useful, call,
                 index, received>>

LEMMA ShrinkKeepsIInv ==
  ASSUME IInv, NEW s \in slots, NEW rest, Shrinks(s, rest)
  PROVE  IInv'
<1> USE DEF IInv, Shrinks
<1> DEFINE e == [indices |-> rest, data |-> rest]
<1>1. /\ s \in DOMAIN pending
      /\ index \in Known
      /\ rest \subseteq Blocks
  BY VisitedEntry
<1>2. e \in Entry /\ e # None
  <2>1. e \in Entry
    BY <1>1 DEF Entry
  <2>2. QED
    BY <2>1, NoneAssumption
<1>3. /\ pending' \in Seq({None} \cup Entry)
      /\ DOMAIN pending' = DOMAIN pending
      /\ pending'[s] = e
      /\ \A t \in DOMAIN pending : t # s => pending'[t] = pending[t]
  BY <1>1, <1>2, ReplacedSlot
<1>4. Known' = Known /\ BlocksAreExact' /\ CountIsExact' /\ Handed' = Handed
  BY KnownUnchanged DEF Handed
<1>5. TypeOK'
  BY <1>3 DEF TypeOK
<1>6. WorkIsSolved'
  BY <1>4 DEF WorkIsSolved
<1>7. EntriesAreExact'
  BY <1>3 DEF EntriesAreExact, Live
<1>8. EntriesAreReachable'
  <2> SUFFICES ASSUME NEW t \in DOMAIN pending, Live(t)',
                      NEW x \in pending'[t].indices
               PROVE  \/ t \in refs[x] /\ (x \in Known => x \in queue)
                      \/ x = index /\ t \in slots \ {s}
    BY <1>3, <1>4 DEF EntriesAreReachable
  <2>1. CASE t = s
    BY <1>1, <1>3, <2>1 DEF EntriesAreReachable
  <2>2. CASE t # s
    BY <1>3, <2>2 DEF EntriesAreReachable, Live
  <2>3. QED
    BY <2>1, <2>2
<1>9. \A t \in DOMAIN pending : \A f \in Handed :
        Live(t) /\ LeftOver(t, f) => Live(t)' /\ LeftOver(t, f)'
  <2> SUFFICES ASSUME NEW t \in DOMAIN pending, NEW f \in Handed,
                      Live(t), LeftOver(t, f)
               PROVE  Live(t)' /\ LeftOver(t, f)'
    OBVIOUS
  <2>1. CASE t = s
    BY <1>1, <1>2, <1>3, <1>4, <2>1 DEF Live, LeftOver
  <2>2. CASE t # s
    BY <1>3, <1>4, <2>2 DEF Live, LeftOver
  <2>3. QED
    BY <2>1, <2>2
<1>10. \A t \in DOMAIN pending : Live(t)' => Live(t)
  BY <1>3 DEF Live
<1>11. EntriesHaveFrames'
  BY <1>3, <1>4, <1>9, <1>10 DEF EntriesHaveFrames
<1>12. FramesAreKept'
  BY <1>3, <1>4, <1>9 DEF FramesAreKept
<1>13. KnownIsDerivable'
  BY <1>4 DEF KnownIsDerivable
<1>14. QED
  BY <1>4, <1>5, <1>6, <1>7, <1>8, <1>11, <1>12, <1>13

(* The entry lacks one block: that block is solved, the entry dropped.     *)
LEMMA ResolveKeepsIInv ==
  ASSUME IInv, NEW s \in slots, Live(s),
         NEW b \in Blocks, pending[s].indices \ {index} = {b},
         pending' = [pending EXCEPT ![s] = None],
         solve(b, {b}, queue),
         slots' = slots \ {s},
         UNCHANGED <<refs, absorbed, useful, call, index, received>>
  PROVE  IInv'
<1> USE DEF IInv
<1>1. /\ s \in DOMAIN pending
      /\ index \in Known
      /\ pending[s].indices \subseteq {b, index}
      /\ b \in pending[s].indices
  BY VisitedEntry
<1>2. /\ pending' \in Seq({None} \cup Entry)
      /\ DOMAIN pending' = DOMAIN pending
      /\ pending'[s] = None
      /\ \A t \in DOMAIN pending : t # s => pending'[t] = pending[t]
  BY <1>1, ReplacedSlot
<1>3. queue \in SUBSET Blocks
  BY DEF TypeOK
<1>4. /\ Known' = Known \cup {b}
      /\ queue' = IF b \in Known THEN queue ELSE queue \cup {b}
      /\ solved' \in [Blocks -> {None} \cup SUBSET Blocks]
      /\ solved_count' \in Nat
      /\ BlocksAreExact'
      /\ CountIsExact'
  BY <1>3, SolveAddsBlock
<1>5. TypeOK'
  BY <1>2, <1>4 DEF TypeOK
<1>6. Handed' = Handed
  BY DEF Handed
<1>7. call # None
  BY DEF WorkIsSolved
<1>8. WorkIsSolved'
  BY <1>4, <1>7 DEF WorkIsSolved
<1>9. EntriesAreExact'
  BY <1>2 DEF EntriesAreExact, Live
<1>10. EntriesAreReachable'
  <2> SUFFICES ASSUME NEW t \in DOMAIN pending, Live(t)', t # s,
                      NEW x \in pending[t].indices
               PROVE  \/ t \in refs[x] /\ (x \in Known' => x \in queue')
                      \/ x = index /\ t \in slots \ {s}
    BY <1>2 DEF EntriesAreReachable, Live
  <2>1. \/ t \in refs[x] /\ (x \in Known => x \in queue)
        \/ x = index /\ t \in slots
    BY <1>2 DEF EntriesAreReachable, Live
  <2>2. QED
    BY <1>4, <2>1
<1>11. \A t \in DOMAIN pending : \A f \in Handed :
         Live(t) /\ t # s /\ LeftOver(t, f) => Live(t)' /\ LeftOver(t, f)'
  BY <1>2, <1>4 DEF Live, LeftOver
<1>12. EntriesHaveFrames'
  <2> SUFFICES ASSUME NEW t \in DOMAIN pending, Live(t)'
               PROVE  \E f \in Handed : LeftOver(t, f)'
    BY <1>2, <1>6 DEF EntriesHaveFrames
  <2>1. t # s /\ Live(t)
    BY <1>2 DEF Live
  <2>2. QED
    BY <1>11, <2>1 DEF EntriesHaveFrames
<1>13. FramesAreKept'
  <2> SUFFICES ASSUME NEW f \in Handed
               PROVE  \/ Plan[f] \subseteq Known'
                      \/ \E t \in DOMAIN pending : Live(t)' /\ LeftOver(t, f)'
    BY <1>2, <1>6 DEF FramesAreKept
  <2>1. CASE Plan[f] \subseteq Known
    BY <1>4, <2>1
  <2>2. CASE LeftOver(s, f)
    BY <1>1, <1>4, <2>2 DEF LeftOver
  <2>3. CASE \E t \in DOMAIN pending : t # s /\ Live(t) /\ LeftOver(t, f)
    BY <1>11, <2>3
  <2>4. QED
    BY <2>1, <2>2, <2>3 DEF FramesAreKept
<1>14. KnownIsDerivable'
  <2> SUFFICES ASSUME NEW S \in SUBSET Blocks, Closed(S, Handed)
               PROVE  Known \cup {b} \subseteq S
    BY <1>4, <1>6 DEF KnownIsDerivable
  <2>1. Known \subseteq S
    BY DEF KnownIsDerivable
  <2>2. PICK f \in Handed : LeftOver(s, f)
    BY <1>1 DEF EntriesHaveFrames
  <2>3. Plan[f] \ S \subseteq {b} /\ b \in Plan[f]
    BY <1>1, <2>1, <2>2 DEF LeftOver
  <2>4. Plan[f] \ S # {b}
    BY DEF Closed
  <2>5. QED
    BY <2>1, <2>3, <2>4
<1>15. QED
  BY <1>4, <1>5, <1>8, <1>9, <1>10, <1>12, <1>13, <1>14

LEMMA VisitEntryKeepsIInv ==
  ASSUME IInv, NEW s \in slots, VisitEntry(s)
  PROVE  IInv'
<1> DEFINE rest == pending[s].indices \ {index}
<1>1. Live(s) /\ slots' = slots \ {s}
      /\ UNCHANGED <<refs, absorbed, useful, call, index, received>>
  BY DEF VisitEntry
<1>2. /\ rest # {}
      /\ rest = IF index \in pending[s].indices
                THEN Xor(pending[s].data, solved[index]) ELSE pending[s].data
  BY <1>1, VisitedEntry
<1>3. \/ /\ \E a, b \in rest : a # b
         /\ pending' = [pending EXCEPT ![s] = [indices |-> rest, data |-> rest]]
         /\ UNCHANGED <<solved, solved_count, queue>>
      \/ \E b \in Blocks :
           /\ rest = {b}
           /\ pending' = [pending EXCEPT ![s] = None]
           /\ solve(b, rest, queue)
  BY <1>2 DEF VisitEntry
<1>4. CASE /\ \E a, b \in rest : a # b
           /\ pending' = [pending EXCEPT ![s] = [indices |-> rest, data |-> rest]]
           /\ UNCHANGED <<solved, solved_count, queue>>
  <2>1. Shrinks(s, rest)
    BY <1>1, <1>4 DEF Shrinks
  <2> HIDE DEF rest
  <2>2. QED
    BY <2>1, ShrinkKeepsIInv, Zenon
<1>5. CASE \E b \in Blocks :
             /\ rest = {b}
             /\ pending' = [pending EXCEPT ![s] = None]
             /\ solve(b, rest, queue)
  BY <1>1, <1>5, ResolveKeepsIInv
<1>6. QED
  BY <1>3, <1>4, <1>5
LEMMA StutterKeepsIInv ==
  ASSUME IInv, UNCHANGED vars
  PROVE  IInv'
<1>1. Known' = Known /\ Handed' = Handed
  BY DEF vars, Known, Handed
<1>2. TypeOK' /\ BlocksAreExact' /\ CountIsExact'
  BY <1>1 DEF IInv, vars, TypeOK, BlocksAreExact, CountIsExact
<1>3. EntriesAreExact' /\ WorkIsSolved' /\ EntriesAreReachable'
  BY <1>1 DEF IInv, vars, EntriesAreExact, WorkIsSolved, EntriesAreReachable,
              Live
<1>4. EntriesHaveFrames' /\ FramesAreKept' /\ KnownIsDerivable'
  BY <1>1 DEF IInv, vars, EntriesHaveFrames, FramesAreKept, KnownIsDerivable,
              LeftOver, Live
<1>5. QED
  BY <1>2, <1>3, <1>4 DEF IInv

----------------------------------------------------------------------------
(* The inductive invariant holds in every reachable state of the decoder   *)
(* (absorb, solve, propagate).                                             *)
THEOREM Inductive == Spec => []IInv
<1>1. Init => IInv
  BY InitIInv
<1>2. IInv /\ [Next]_vars => IInv'
  <2> SUFFICES ASSUME IInv, [Next]_vars PROVE IInv'
    OBVIOUS
  <2>1. CASE AbsorbWrongSize
    BY <2>1, StutterKeepsIInv DEF AbsorbWrongSize
  <2>2. ASSUME NEW f \in Frames, AbsorbRedundant(f) PROVE IInv'
    BY <2>2, RedundantKeepsIInv
  <2>3. ASSUME NEW f \in Frames, AbsorbSolve(f) PROVE IInv'
    BY <2>3, AbsorbSolveKeepsIInv
  <2>4. ASSUME NEW f \in Frames, AbsorbStore(f) PROVE IInv'
    BY <2>4, AbsorbStoreKeepsIInv
  <2>5. ASSUME NEW b \in queue, Pop(b) PROVE IInv'
    <3>1. b \in Blocks
      BY <2>5 DEF IInv, TypeOK
    <3>2. QED
      BY <2>5, <3>1, PopKeepsIInv
  <2>6. ASSUME NEW s \in slots, VisitEmpty(s) PROVE IInv'
    BY <2>6, VisitEmptyKeepsIInv
  <2>7. ASSUME NEW s \in slots, VisitEntry(s) PROVE IInv'
    BY <2>7, VisitEntryKeepsIInv
  <2>8. CASE Return
    BY <2>8, ReturnKeepsIInv
  <2>9. CASE UNCHANGED vars
    BY <2>9, StutterKeepsIInv
  <2>10. QED
    BY <2>1, <2>2, <2>3, <2>4, <2>5, <2>6, <2>7, <2>8, <2>9 DEF Next, Cascade
<1>3. QED
  BY <1>1, <1>2, PTL DEF Spec

(* The variables of the decoder keep their types.                          *)
THEOREM TypeCorrect == Spec => []TypeOK
<1>1. IInv => TypeOK
  BY DEF IInv
<1>2. QED
  BY <1>1, Inductive, PTL

(* A recovered block is the sender's block, whatever arrived before it and *)
(* in the middle of any cascade (solve, propagate).                        *)
THEOREM RecoveredBlocksAreExact == Spec => []BlocksAreExact
<1>1. IInv => BlocksAreExact
  BY DEF IInv
<1>2. QED
  BY <1>1, Inductive, PTL

(* solved_count is the number of blocks held, so is_complete() and         *)
(* recovered() are right.                                                  *)
THEOREM CountNeverDrifts == Spec => []CountIsExact
<1>1. IInv => CountIsExact
  BY DEF IInv
<1>2. QED
  BY <1>1, Inductive, PTL

LEMMA IInvNothingStranded == IInv => NothingStranded
<1> SUFFICES ASSUME IInv, call = None, NEW s \in DOMAIN pending, Live(s)
             PROVE  /\ pending[s].indices \cap Known = {}
                    /\ \E a, b \in pending[s].indices : a # b
  BY DEF NothingStranded
<1>1. queue = {} /\ slots = {}
  BY DEF IInv, WorkIsSolved
<1>2. pending[s].indices \cap Known = {}
  BY <1>1 DEF IInv, EntriesAreReachable
<1>3. QED
  BY <1>2 DEF IInv, EntriesAreExact

(* When absorb() returns, every droplet still stored lacks two or more     *)
(* blocks: propagate() has used whatever it could.                         *)
THEOREM NoDropletIsStranded == Spec => []NothingStranded
BY IInvNothingStranded, Inductive, PTL

(* Between calls no frame handed over misses exactly one block.            *)
LEMMA KnownIsClosed ==
  ASSUME IInv, call = None
  PROVE  Closed(Known, received)
<1> SUFFICES ASSUME NEW f \in received, NEW b \in Blocks, Plan[f] \ Known = {b}
             PROVE  FALSE
  BY DEF Closed
<1>1. f \in Handed
  BY DEF Handed
<1>2. PICK s \in DOMAIN pending : Live(s) /\ LeftOver(s, f)
  BY <1>1 DEF IInv, FramesAreKept
<1>3. /\ pending[s].indices \cap Known = {}
      /\ \E x, y \in pending[s].indices : x # y
  BY <1>2, IInvNothingStranded DEF NothingStranded
<1>4. pending[s].indices \subseteq {b}
  BY <1>2, <1>3 DEF LeftOver
<1>5. QED
  BY <1>3, <1>4

LEMMA IInvConfluent == IInv => Confluent
<1> SUFFICES ASSUME IInv, call = None PROVE Known = Peeled(received)
  BY DEF Confluent
<1>1. Known \in SUBSET Blocks
  BY DEF Known
<1>2. Peeled(received) \subseteq Known
  BY <1>1, KnownIsClosed DEF Peeled
<1>3. Handed = received
  BY DEF Handed
<1>4. Known \subseteq Peeled(received)
  BY <1>1, <1>3 DEF IInv, KnownIsDerivable, Peeled
<1>5. QED
  BY <1>2, <1>4

(* The blocks known when absorb() returns are a function of the set of     *)
(* frames handed over: order, repetition and the order of the cascade do   *)
(* not matter, for any message size and any degree distribution.           *)
THEOREM OrderIndependence == Spec => []Confluent
BY IInvConfluent, Inductive, PTL

LEMMA LiveSlotsFinite ==
  ASSUME TypeOK
  PROVE  IsFiniteSet(LiveSlots) /\ Cardinality(LiveSlots) \in Nat
<1>1. DOMAIN pending = 1 .. Len(pending) /\ Len(pending) \in Nat
  BY DEF TypeOK
<1>2. IsFiniteSet(1 .. Len(pending))
  BY <1>1, FS_Interval
<1>3. QED
  BY <1>1, <1>2, FS_Subset, FS_CardinalityType DEF LiveSlots

(* A visited slot is emptied or keeps waiting.                             *)
LEMMA VisitEmptiesOrShrinks ==
  ASSUME IInv, NEW s \in slots, VisitEntry(s)
  PROVE  /\ Len(pending') = Len(pending)
         /\ \/ LiveSlots' = LiveSlots /\ solved_count' = solved_count
            \/ /\ LiveSlots' = LiveSlots \ {s}
               /\ s \in LiveSlots
               /\ solved_count' \in {solved_count, solved_count + 1}
<1> DEFINE rest == pending[s].indices \ {index}
<1>1. s \in DOMAIN pending /\ Live(s) /\ rest # {} /\ rest \subseteq Blocks
  BY VisitedEntry DEF VisitEntry
<1>2. CASE \E a, b \in rest : a # b
  <2> DEFINE e == [indices |-> rest, data |-> rest]
  <2>1. pending' = [pending EXCEPT ![s] = e] /\ solved_count' = solved_count
    BY <1>1, <1>2, VisitedEntry DEF VisitEntry
  <2>2. e # None
    BY <1>1, NoneAssumption DEF Entry
  <2> HIDE DEF e
  <2>3. QED
    BY <1>1, <2>1, <2>2 DEF LiveSlots, Live, IInv, TypeOK
<1>3. CASE ~\E a, b \in rest : a # b
  <2>1. PICK b \in Blocks : /\ pending' = [pending EXCEPT ![s] = None]
                            /\ \E d : solve(b, d, queue)
    BY <1>1, <1>3 DEF VisitEntry
  <2>2. solved_count' \in {solved_count, solved_count + 1}
    BY <2>1 DEF solve
  <2>3. LiveSlots' = LiveSlots \ {s} /\ s \in LiveSlots
    BY <1>1, <2>1 DEF LiveSlots, Live, IInv, TypeOK
  <2>4. Len(pending') = Len(pending)
    BY <1>1, <2>1 DEF IInv, TypeOK
  <2>5. QED
    BY <2>2, <2>3, <2>4
<1>4. QED
  BY <1>2, <1>3

(* Every block the decoder holds or may still derive from its store cost   *)
(* it a useful droplet, so a message of K blocks is never complete before  *)
(* K of them; and the store never outgrows the useful droplets.            *)
THEOREM NoBlockForFree ==
  Spec => [](BlocksArePaidFor /\ (is_complete => K <= useful))
<1>1. Init => BlocksArePaidFor
  BY FS_EmptySet DEF Init, BlocksArePaidFor, LiveSlots
<1>2. IInv /\ IInv' /\ BlocksArePaidFor /\ [Next]_vars => BlocksArePaidFor'
  <2> SUFFICES ASSUME IInv, IInv', BlocksArePaidFor, [Next]_vars
               PROVE  BlocksArePaidFor'
    OBVIOUS
  <2>1. /\ solved_count \in Nat /\ useful \in Nat /\ absorbed \in Nat
        /\ Len(pending) \in Nat
        /\ IsFiniteSet(LiveSlots) /\ Cardinality(LiveSlots) \in Nat
    BY LiveSlotsFinite, MaxAbsorbAssumption DEF IInv, TypeOK
  <2>2. CASE UNCHANGED <<pending, solved_count, useful, absorbed>>
    BY <2>2 DEF BlocksArePaidFor, LiveSlots, Live
  <2>3. ASSUME NEW f \in Frames, AbsorbRedundant(f) PROVE BlocksArePaidFor'
    <3>1. UNCHANGED <<pending, solved_count, useful>> /\ absorbed' = absorbed + 1
      BY <2>3 DEF AbsorbRedundant, Enter
    <3>2. QED
      BY <2>1, <3>1 DEF BlocksArePaidFor, LiveSlots, Live
  <2>4. ASSUME NEW f \in Frames, AbsorbSolve(f) PROVE BlocksArePaidFor'
    <3>1. /\ solved_count' \in {solved_count, solved_count + 1}
          /\ useful' = useful + 1 /\ absorbed' = absorbed + 1
          /\ pending' = pending
      BY <2>4 DEF AbsorbSolve, Enter, solve
    <3>2. LiveSlots' = LiveSlots
      BY <3>1 DEF LiveSlots, Live
    <3>3. QED
      BY <2>1, <3>1, <3>2 DEF BlocksArePaidFor
  <2>5. ASSUME NEW f \in Frames, AbsorbStore(f) PROVE BlocksArePaidFor'
    <3>1. /\ solved_count' = solved_count
          /\ useful' = useful + 1 /\ absorbed' = absorbed + 1
      BY <2>5 DEF AbsorbStore, Enter
    <3>2. PICK e : pending' = Append(pending, e)
      BY <2>5 DEF AbsorbStore
    <3>3. /\ Len(pending') = Len(pending) + 1
          /\ DOMAIN pending' = DOMAIN pending \cup {Len(pending) + 1}
          /\ \A s \in DOMAIN pending : pending'[s] = pending[s]
          /\ LiveSlots' \subseteq LiveSlots \cup {Len(pending) + 1}
      <4>1. pending \in Seq({None} \cup Entry \cup {e})
        BY DEF IInv, TypeOK
      <4>2. /\ Len(pending') = Len(pending) + 1
            /\ DOMAIN pending' = DOMAIN pending \cup {Len(pending) + 1}
            /\ \A s \in DOMAIN pending : pending'[s] = pending[s]
        BY <3>2, <4>1
      <4>3. QED
        BY <4>2 DEF LiveSlots, Live
    <3>4. /\ Cardinality(LiveSlots') \in Nat
          /\ Cardinality(LiveSlots') <= Cardinality(LiveSlots) + 1
      <4>1. PICK new : new = Len(pending) + 1
        OBVIOUS
      <4> DEFINE L == LiveSlots \cup {new}
      <4>2. IsFiniteSet(L) /\ Cardinality(L) <= Cardinality(LiveSlots) + 1
        BY <2>1, FS_AddElement
      <4>3. LiveSlots' \subseteq L
        BY <3>3, <4>1
      <4> HIDE DEF L
      <4>4. /\ IsFiniteSet(LiveSlots')
            /\ Cardinality(LiveSlots') <= Cardinality(L)
            /\ Cardinality(LiveSlots') \in Nat /\ Cardinality(L) \in Nat
        BY <4>2, <4>3, FS_Subset, FS_CardinalityType
      <4>5. QED
        BY <2>1, <4>2, <4>4
    <3>5. QED
      BY <2>1, <3>1, <3>3, <3>4 DEF BlocksArePaidFor
  <2>6. ASSUME NEW s \in slots, VisitEntry(s) PROVE BlocksArePaidFor'
    <3>1. UNCHANGED <<useful, absorbed>>
      BY <2>6 DEF VisitEntry
    <3>2. CASE LiveSlots' = LiveSlots /\ solved_count' = solved_count
      BY <2>6, <3>1, <3>2, VisitEmptiesOrShrinks DEF BlocksArePaidFor
    <3>3. CASE /\ LiveSlots' = LiveSlots \ {s}
               /\ s \in LiveSlots
               /\ solved_count' \in {solved_count, solved_count + 1}
      <4>1. Cardinality(LiveSlots') = Cardinality(LiveSlots) - 1
        BY <2>1, <3>3, FS_RemoveElement
      <4>2. QED
        BY <2>1, <2>6, <3>1, <3>3, <4>1, VisitEmptiesOrShrinks
           DEF BlocksArePaidFor
    <3>4. QED
      BY <2>6, <3>2, <3>3, VisitEmptiesOrShrinks
  <2>7. QED
    BY <2>2, <2>3, <2>4, <2>5, <2>6
       DEF Next, Cascade, vars, AbsorbWrongSize, Pop, VisitEmpty, Return
<1>3. IInv /\ BlocksArePaidFor => (is_complete => K <= useful)
  <2> SUFFICES ASSUME IInv, BlocksArePaidFor, is_complete PROVE K <= useful
    OBVIOUS
  <2>1. Cardinality(LiveSlots) \in Nat /\ solved_count \in Nat /\ useful \in Nat
    BY LiveSlotsFinite DEF IInv, TypeOK
  <2>2. QED
    BY <2>1 DEF BlocksArePaidFor, is_complete
<1>4. QED
  BY <1>1, <1>2, <1>3, Inductive, PTL DEF Spec

(* propagate() always makes progress: its work is finite and no iteration  *)
(* adds to it, so every call of absorb() ends, whatever order the queue    *)
(* and the reference lists are taken in.                                   *)
THEOREM CascadesTerminate == Spec => []IsFiniteSet(Waiting) /\ CascadesShrink
<1>1. IInv => IsFiniteSet(Waiting)
  BY BlocksAssumption, FS_Subset DEF IInv, TypeOK, Waiting
<1>2. IInv /\ call # None /\ [Next]_vars /\ ~UNCHANGED vars =>
        \/ ProperSubset(Waiting', Waiting)
        \/ Waiting' = Waiting /\ ProperSubset(slots', slots)
        \/ Waiting' = Waiting /\ slots' = slots /\ call' = None
  <2> SUFFICES ASSUME IInv, call # None, Next
               PROVE  \/ ProperSubset(Waiting', Waiting)
                      \/ Waiting' = Waiting /\ ProperSubset(slots', slots)
                      \/ Waiting' = Waiting /\ slots' = slots /\ call' = None
    OBVIOUS
  <2> USE DEF Waiting, ProperSubset
  <2>1. Cascade
    BY DEF Next, AbsorbWrongSize, AbsorbRedundant, AbsorbSolve, AbsorbStore,
           Enter
  <2>2. ASSUME NEW b \in queue, Pop(b)
        PROVE  ProperSubset(Waiting', Waiting)
    <3>1. b \in Known /\ Known' = Known /\ queue' = queue \ {b}
      BY <2>2 DEF Pop, Known, IInv, TypeOK
    <3>2. QED
      BY <3>1
  <2>3. ASSUME NEW s \in slots, VisitEmpty(s)
        PROVE  Waiting' = Waiting /\ ProperSubset(slots', slots)
    BY <2>3 DEF VisitEmpty, Known
  <2>4. ASSUME NEW s \in slots, VisitEntry(s)
        PROVE  Waiting' = Waiting /\ ProperSubset(slots', slots)
    <3>1. slots' = slots \ {s}
      BY <2>4 DEF VisitEntry
    <3>2. \/ UNCHANGED <<solved, queue>>
          \/ \E b \in Blocks : \E d : solve(b, d, queue)
      BY <2>4 DEF VisitEntry
    <3>3. ASSUME NEW b \in Blocks, NEW d, solve(b, d, queue)
          PROVE  Waiting' = Waiting
      <4>1. CASE solved[b] = None
        BY <3>3, <4>1 DEF solve, Known, IInv, TypeOK
      <4>2. CASE solved[b] # None
        BY <3>3, <4>2 DEF solve, Known
      <4>3. QED
        BY <4>1, <4>2
    <3>4. QED
      BY <3>1, <3>2, <3>3 DEF Known
  <2>5. CASE Return
    BY <2>5 DEF Return, Known
  <2>6. QED
    BY <2>1, <2>2, <2>3, <2>4, <2>5 DEF Cascade
<1>3. QED
  BY <1>1, <1>2, Inductive, PTL DEF Spec, CascadesShrink

(* The decoder implements the one-step fountain: a return is one step of   *)
(* it, every other step of the decoder is invisible.                       *)
THEOREM DecoderImplementsFountain == Spec => ImplementsFountain
<1> DEFINE known == IF call = None THEN Known ELSE Peeled(received)
<1>1. Init => Promise!Init
  BY DEF Init, Promise!Init, Known
<1>2. /\ IInv /\ Confluent /\ Confluent'
      /\ [Next]_vars
      => [Promise!Next]_<<received, known>>
  <2> SUFFICES ASSUME IInv, Confluent, Confluent', [Next]_vars
               PROVE  [Promise!Next]_<<received, known>>
    OBVIOUS
  <2> USE DEF Promise!Next, Promise!Absorb
  <2>1. known = Peeled(received) /\ known' = Peeled(received')
    BY DEF Confluent, Peeled, Closed
  <2>2. ASSUME NEW f \in Frames, received' = received \cup {f}
        PROVE  Promise!Next
    BY <2>1, <2>2 DEF Promise!Peeled, Promise!Closed, Peeled, Closed
  <2>3. CASE received' = received
    BY <2>1, <2>3
  <2>4. CASE Return
    <3>1. call \in Frames
      BY <2>4 DEF Return, IInv, TypeOK
    <3>2. QED
      BY <2>2, <2>4, <3>1 DEF Return
  <2>5. ASSUME NEW f \in Frames, AbsorbRedundant(f) PROVE Promise!Next
    BY <2>2, <2>5 DEF AbsorbRedundant
  <2>6. \/ received' = received \/ Return
        \/ \E f \in Frames : AbsorbRedundant(f)
    BY DEF Next, Cascade, vars, AbsorbWrongSize, AbsorbSolve, AbsorbStore, Pop,
           VisitEmpty, VisitEntry
  <2>7. QED
    BY <2>3, <2>4, <2>5, <2>6
<1>3. QED
  BY <1>1, <1>2, Inductive, OrderIndependence, PTL
     DEF Spec, ImplementsFountain, Promise!Spec
============================================================================
