------------------------- MODULE FrameDecodeProofs -------------------------
(***************************************************************************)
(* What decode_sampled() returns, for every code size, number of blocks    *)
(* and pattern of damage and doubt.                                        *)
(***************************************************************************)
EXTENDS FrameDecode, FiniteSetTheorems, TLAPS

Counts == [weak_bad : Nat, bad : Nat, weak_good : Nat]

(* Within its guarantee a code is repaired, hinted or blind.               *)
LEMMA RepairedRight ==
  ASSUME NEW p \in Nat, NEW d \in Counts, Guaranteed(p, d)
  PROVE  Repaired(p, Weak(d), d.bad, d) = {"right"}
<1> DEFINE f == Weak(d)
<1>1. /\ d.weak_bad \in Nat /\ d.bad \in Nat /\ d.weak_good \in Nat
      /\ f \in Nat /\ Damaged(d) \in Nat
  BY DEF Counts, Weak, Damaged
<1>2. CASE 2 * d.bad + f <= p
  <2>1. Corrected(p, f, d.bad) = {"right"}
    BY <1>1, <1>2 DEF Corrected
  <2> QED BY <2>1 DEF Repaired
<1>3. CASE ~(2 * d.bad + f <= p)
  <2>1. 2 * d.bad + f = p + 1 /\ 2 * Damaged(d) <= p /\ f <= p
    BY <1>1, <1>3 DEF Guaranteed
  <2>2. f # p
    BY <2>1, <1>1
  <2>3. Corrected(p, f, d.bad) = {"error"}
    BY <2>1, <2>2, <1>1 DEF Corrected
  <2>4. Corrected(p, 0, Damaged(d)) = {"right"}
    BY <2>1, <1>1 DEF Corrected
  <2> QED BY <2>3, <2>4 DEF Repaired
<1> QED BY <1>2, <1>3

LEMMA HeaderRight ==
  ASSUME NEW d \in Damage(HeaderN), Guaranteed(HeaderParity, d)
  PROVE  RepairedHeader(d) = {"right"}
<1>1. HeaderParity \in Nat /\ d \in Counts
  BY CodeAssumption DEF HeaderParity, Damage, Counts
<1>2. ~(Weak(d) > HeaderParity)
  BY <1>1 DEF Guaranteed, Counts, Weak
<1> QED BY <1>1, <1>2, RepairedRight DEF RepairedHeader

LEMMA BlockRight ==
  ASSUME NEW d \in Counts, Guaranteed(BlockParity, d)
  PROVE  RepairedBlock(d) \subseteq {"right"}
<1> DEFINE f == IF Weak(d) < BlockParity THEN Weak(d) ELSE BlockParity
           kept == {b \in 0 .. d.weak_bad : f - b \in 0 .. d.weak_good}
<1>1. BlockParity \in Nat
  BY CodeAssumption DEF BlockParity
<1>2. d.weak_bad \in Nat /\ d.bad \in Nat /\ d.weak_good \in Nat
  BY DEF Counts
<1>3. f = Weak(d)
  BY <1>1, <1>2 DEF Guaranteed, Weak
<1>4. \A b \in kept : Damaged(d) - b = d.bad
  BY <1>2, <1>3 DEF Weak, Damaged
<1>5. Repaired(BlockParity, f, d.bad, d) = {"right"}
  BY <1>1, <1>3, RepairedRight
<1> HIDE DEF f, kept
<1>6. \A b \in kept : Repaired(BlockParity, f, Damaged(d) - b, d) = {"right"}
  BY <1>4, <1>5
<1>7. UNION {Repaired(BlockParity, f, Damaged(d) - b, d) : b \in kept} \subseteq {"right"}
  BY <1>6
<1> QED BY <1>7 DEF RepairedBlock, f, kept

(* The damage of a block is three numbers.                                 *)
LEMMA BlockDamageCounts ==
  ASSUME NEW x \in Faults, NEW b \in Nat
  PROVE  BlockDamage(x, b) \in Counts
<1>1. IsFiniteSet(Symbols)
  <2>1. BlockCount \in Nat /\ BlockN \in Nat
    BY CodeAssumption
  <2>2. BlockCount * BlockN - 1 \in Int
    BY <2>1
  <2> QED BY <2>2, FS_Interval DEF Symbols
<1>2. x.weak \subseteq Symbols /\ x.damaged \subseteq Symbols
  BY FaultsAssumption
<1>3. \A S \in SUBSET Symbols : Cardinality(S) \in Nat
  BY <1>1, FS_Subset, FS_CardinalityType
<1>4. /\ Positions(b) \cap x.weak \cap x.damaged \in SUBSET Symbols
      /\ Positions(b) \cap (x.damaged \ x.weak) \in SUBSET Symbols
      /\ Positions(b) \cap (x.weak \ x.damaged) \in SUBSET Symbols
  BY <1>2
<1> QED BY <1>3, <1>4 DEF BlockDamage, Counts

LEMMA InitInv == Init => IInv
<1>1. BlockCount \in Nat
  BY CodeAssumption
<1> QED BY <1>1, NoneAssumption DEF Init, IInv, TypeOK, Progressing,
      MisreadIsNoticed, GuaranteeKept, AcceptedIsBound, GuaranteedIsAccepted,
      Verdicts

(* One step per action; what a Reed-Solomon attempt returns comes from the *)
(* lemmas above.                                                           *)
LEMMA NextInv == IInv /\ [Next]_vars => IInv'
<1> SUFFICES ASSUME IInv, [Next]_vars PROVE IInv'
  OBVIOUS
<1> USE DEF IInv, TypeOK, Progressing, MisreadIsNoticed, GuaranteeKept,
            AcceptedIsBound, GuaranteedIsAccepted, Verdicts
<1>0. /\ BlockCount \in Nat /\ BlockCount > 0 /\ None \notin Verdicts
      /\ Sent \in Header
  BY CodeAssumption, NoneAssumption DEF Sent, Header
<1>1. CASE WrongLength
  BY <1>1 DEF WrongLength, Reject
<1>2. ASSUME NEW d \in Damage(HeaderN), HeaderFails(d) PROVE IInv'
  <2>1. guaranteed' = FALSE
    <3>1. SUFFICES ASSUME Guaranteed(HeaderParity, d) PROVE FALSE
      BY <1>2 DEF HeaderFails, Judge
    <3>2. RepairedHeader(d) = {"right"}
      BY <3>1, HeaderRight
    <3> QED BY <3>2, <1>2 DEF HeaderFails
  <2>2. repairable' \in BOOLEAN
    BY <1>2 DEF HeaderFails, Judge
  <2> QED BY <1>2, <2>1, <2>2 DEF HeaderFails, Reject
<1>3. ASSUME NEW d \in Damage(HeaderN), HeaderDecodes(d) PROVE IInv'
  <2>1. header' \in Header
    BY <1>0, <1>3 DEF HeaderDecodes
  <2>2. guaranteed' => header' = Sent
    <3>1. SUFFICES ASSUME Guaranteed(HeaderParity, d) PROVE header' = Sent
      BY <1>3 DEF HeaderDecodes, Judge
    <3>2. RepairedHeader(d) = {"right"}
      BY <3>1, HeaderRight
    <3> QED BY <3>2, <1>3 DEF HeaderDecodes
  <2>3. guaranteed' \in BOOLEAN /\ repairable' \in BOOLEAN
    BY <1>3 DEF HeaderDecodes, Judge
  <2> QED BY <1>0, <1>3, <2>1, <2>2, <2>3 DEF HeaderDecodes
<1>4. CASE Demodulate
  <2>1. header \in Header
    BY <1>4 DEF Demodulate
  <2>2. /\ fault' \in Faults \cup {None}
        /\ header.geometry => fault' \in Faults
    BY <1>4 DEF Demodulate
  <2>3. 0 < BlockCount
    BY CodeAssumption
  <2> QED BY <1>4, <2>1, <2>2, <2>3 DEF Demodulate
<1>5. CASE BlockFails
  <2>1. guaranteed' = FALSE
    <3>1. CASE header.geometry
      <4>1. SUFFICES ASSUME Guaranteed(BlockParity, BlockDamage(fault, block))
                     PROVE FALSE
        BY <1>5, <3>1 DEF BlockFails, JudgeBlock, Judge
      <4>2. fault \in Faults /\ block \in Nat
        BY <1>5, <3>1, CodeAssumption DEF BlockFails
      <4>3. BlockOutcomes \subseteq {"right"}
        BY <3>1, <4>1, <4>2, BlockDamageCounts, BlockRight DEF BlockOutcomes
      <4> QED BY <4>3, <1>5 DEF BlockFails
    <3>2. CASE ~header.geometry
      BY <1>5, <3>2 DEF BlockFails, JudgeBlock
    <3> QED BY <3>1, <3>2
  <2>2. repairable' \in BOOLEAN
    BY <1>5 DEF BlockFails, JudgeBlock, Judge
  <2> QED BY <1>5, <2>1, <2>2 DEF BlockFails, Reject
<1>6. CASE BlockDecodes
  <2>1. /\ stage = "data" /\ header \in Header /\ verdict = None
        /\ block \in Nat /\ block < BlockCount /\ BlockCount \in Nat
    BY <1>6, CodeAssumption DEF BlockDecodes
  <2>2. header' = header /\ fault' = fault /\ verdict' = verdict
    BY <1>6 DEF BlockDecodes
  <2>3. block' \in 1 .. BlockCount /\ stage' \in {"data", "open"}
    BY <1>6, <2>1 DEF BlockDecodes
  <2>4. /\ stage' = "data" => block' < BlockCount
        /\ stage' = "open" => block' = BlockCount
    BY <1>6, <2>1 DEF BlockDecodes
  <2>5. payload' \in BOOLEAN /\ guaranteed' \in BOOLEAN /\ repairable' \in BOOLEAN
    BY <1>6 DEF BlockDecodes, JudgeBlock, Judge
  <2>6. ~header.geometry => ~payload'
    BY <1>6 DEF BlockDecodes, BlockOutcomes
  <2>7. guaranteed' => header = Sent /\ payload'
    <3>1. SUFFICES ASSUME guaranteed' PROVE header = Sent /\ payload'
      OBVIOUS
    <3>2. guaranteed /\ header.geometry
          /\ Guaranteed(BlockParity, BlockDamage(fault, block))
      BY <3>1, <1>6 DEF BlockDecodes, JudgeBlock, Judge
    <3>3. fault \in Faults
      BY <2>1, <3>2
    <3>4. BlockOutcomes \subseteq {"right"}
      BY <2>1, <3>2, <3>3, BlockDamageCounts, BlockRight DEF BlockOutcomes
    <3>5. payload' = payload
      BY <3>4, <1>6 DEF BlockDecodes
    <3> QED BY <2>1, <3>2, <3>5
  <2> QED BY <1>0, <2>1, <2>2, <2>3, <2>4, <2>5, <2>6, <2>7
<1>7. CASE OpenPayload
  <2>1. stage = "open" /\ block = BlockCount /\ BlockCount > 0 /\ header \in Header
    BY <1>7, CodeAssumption DEF OpenPayload
  <2>2. payload => header.geometry
    BY <2>1
  <2>3. header.index \in BOOLEAN /\ Sent.index
    BY <2>1 DEF Header, Sent
  <2> QED BY <1>7, <2>1, <2>2, <2>3 DEF OpenPayload
<1>8. CASE NextCapture
  BY <1>0, <1>8 DEF NextCapture
<1>9. CASE UNCHANGED vars
  BY <1>9 DEF vars
<1> QED BY <1>1, <1>2, <1>3, <1>4, <1>5, <1>6, <1>7, <1>8, <1>9 DEF Next

THEOREM Inductive == Spec => []IInv
BY InitInv, NextInv, PTL DEF Spec

(* Type correctness.                                                       *)
THEOREM TypeCorrect == Spec => []TypeOK
BY Inductive, PTL DEF IInv

(* decode_sampled() hands on no droplet under an index it was not sent     *)
(* with, whatever the damage and whatever forged header passes the CRC-16. *)
THEOREM DropletsAreBound == Spec => []AcceptedIsBound
BY Inductive, PTL DEF IInv

(* The hints, their limits and the retry lose no frame that the            *)
(* Reed-Solomon contract 2e + f <= n - k says is repairable.               *)
THEOREM GuaranteedFramesGetThrough == Spec => []GuaranteedIsAccepted
BY Inductive, PTL DEF IInv

----------------------------------------------------------------------------
(* Division by the number of blocks.                                       *)
LEMMA DivBounds ==
  ASSUME NEW n \in Int, NEW m \in Nat, m > 0
  PROVE  /\ n \div m \in Int
         /\ m * (n \div m) <= n
         /\ n < m * (n \div m) + m
BY SMT

LEMMA ProductsApart ==
  ASSUME NEW s \in Int, NEW t \in Int, NEW m \in Nat, m > 0, s < t
  PROVE  m * s + m <= m * t
BY SMT

(* Interleaving spreads a burst: no block gets more than its share of it.  *)
(* Two of its symbols are at least BlockCount apart, so that their rows in *)
(* the burst differ, and the burst has too few rows.                       *)
LEMMA BurstIsSpread ==
  ASSUME NEW S, Burst(S), NEW b \in Nat
  PROVE  Cardinality(Positions(b) \cap S) <= BlockParity \div 2
<1> DEFINE h == BlockParity \div 2
           T == Positions(b) \cap S
<1>1. PICK first \in Symbols, last \in Symbols :
        S = first .. last /\ last - first < BlockCount * h
  BY DEF Burst
<1>2. /\ BlockCount \in Nat /\ BlockCount > 0 /\ BlockN \in Nat /\ h \in Nat
      /\ first \in Int /\ last \in Int
  <2>1. BlockCount \in Nat /\ BlockCount > 0 /\ BlockN \in Nat /\ BlockParity \in Nat
    BY CodeAssumption DEF BlockParity
  <2>2. h \in Nat
    BY <2>1
  <2>3. BlockCount * BlockN - 1 \in Int
    BY <2>1
  <2> QED BY <2>1, <2>2, <2>3 DEF Symbols
<1>3. h - 1 \in Int
  BY <1>2
<1>4. IsFiniteSet(0 .. h - 1) /\ Cardinality(0 .. h - 1) = h
  BY <1>2, <1>3, FS_Interval
<1>5. T \in SUBSET (first .. last) /\ IsFiniteSet(T) /\ Cardinality(T) \in Nat
  <2>1. T \in SUBSET (first .. last)
    BY <1>1
  <2> QED BY <2>1, <1>2, FS_Interval, FS_Subset, FS_CardinalityType
<1> DEFINE Row(x) == (x - first) \div BlockCount
           f == [x \in T |-> Row(x)]
<1>6. \A x \in T : /\ Row(x) \in 0 .. h - 1
                    /\ BlockCount * Row(x) <= x - first
                    /\ x - first < BlockCount * Row(x) + BlockCount
  <2> SUFFICES ASSUME NEW x \in T
               PROVE  /\ Row(x) \in 0 .. h - 1
                      /\ BlockCount * Row(x) <= x - first
                      /\ x - first < BlockCount * Row(x) + BlockCount
    OBVIOUS
  <2>1. x - first \in Int /\ 0 <= x - first /\ x - first < BlockCount * h
    BY <1>1, <1>2, <1>5
  <2>2. /\ Row(x) \in Int
        /\ BlockCount * Row(x) <= x - first
        /\ x - first < BlockCount * Row(x) + BlockCount
    BY <2>1, <1>2, DivBounds
  <2> HIDE DEF Row, h
  <2>3. ~(Row(x) < 0)
    <3>1. Row(x) < 0 => BlockCount * Row(x) + BlockCount <= BlockCount * 0
      BY <1>2, <2>2, ProductsApart
    <3> QED BY <3>1, <1>2, <2>1, <2>2
  <2>4. Row(x) < h
    <3>1. BlockCount * Row(x) < BlockCount * h
      BY <1>2, <2>1, <2>2
    <3>2. h < Row(x) => BlockCount * h + BlockCount <= BlockCount * Row(x)
      BY <1>2, <2>2, ProductsApart
    <3> QED BY <3>1, <3>2, <1>2, <2>2
  <2> QED BY <1>2, <2>2, <2>3, <2>4
<1>7. \A x, y \in T : x # y => Row(x) # Row(y)
  <2> SUFFICES ASSUME NEW x \in T, NEW y \in T, Row(x) = Row(y)
               PROVE  x = y
    OBVIOUS
  <2>0. \A z \in Positions(b) : \E s \in 0 .. BlockN - 1 : z = s * BlockCount + b
    BY Zenon DEF Positions
  <2>1. PICK s \in 0 .. BlockN - 1 : x = s * BlockCount + b
    <3>1. x \in Positions(b)
      OBVIOUS
    <3> QED BY <3>1, <2>0
  <2>2. PICK t \in 0 .. BlockN - 1 : y = t * BlockCount + b
    <3>1. y \in Positions(b)
      OBVIOUS
    <3> QED BY <3>1, <2>0
  <2>3. x - y < BlockCount /\ y - x < BlockCount
    <3> HIDE DEF Row, T
    <3>1. x \in Int /\ y \in Int /\ Row(x) \in Int
      BY <1>3, <1>5, <1>6, <1>2
    <3>2. BlockCount * Row(x) \in Int
      BY <3>1, <1>2
    <3> QED BY <3>1, <3>2, <1>2, <1>6
  <2>4. ~(s < t)
    <3>1. s < t => BlockCount * s + BlockCount <= BlockCount * t
      BY <1>2, ProductsApart
    <3> QED BY <3>1, <2>1, <2>2, <2>3, <1>2
  <2>5. ~(t < s)
    <3>1. t < s => BlockCount * t + BlockCount <= BlockCount * s
      BY <1>2, ProductsApart
    <3> QED BY <3>1, <2>1, <2>2, <2>3, <1>2
  <2> QED BY <2>1, <2>2, <2>4, <2>5
<1>8. f \in [T -> 0 .. h - 1]
  BY <1>6
<1>9. ~(h < Cardinality(T))
  <2> HIDE DEF T, Row, h
  <2>1. SUFFICES ASSUME h < Cardinality(T) PROVE FALSE
    OBVIOUS
  <2>2. \E x, y \in T : x # y /\ f[x] = f[y]
    <3> HIDE DEF f
    <3> QED BY <2>1, <1>4, <1>5, <1>8, FS_PigeonHole
  <2> QED BY <2>2, <1>7
<1> QED BY <1>2, <1>5, <1>9

(* A burst that is short enough stays within every block's guarantee.      *)
LEMMA BurstWithinGuarantee ==
  ASSUME NEW x \in Faults, x.weak = {}, Burst(x.damaged), NEW b \in Nat
  PROVE  Guaranteed(BlockParity, BlockDamage(x, b))
<1> DEFINE d == BlockDamage(x, b)
<1>1. BlockParity \in Nat
  BY CodeAssumption DEF BlockParity
<1>2. d.weak_bad = 0 /\ d.weak_good = 0
  BY FS_EmptySet DEF BlockDamage
<1>3. d.bad <= BlockParity \div 2
  <2>1. d.bad = Cardinality(Positions(b) \cap x.damaged)
    BY DEF BlockDamage
  <2> QED BY <2>1, BurstIsSpread
<1>4. d.bad \in Nat
  BY BlockDamageCounts DEF Counts
<1> HIDE DEF d
<1> QED BY <1>1, <1>2, <1>3, <1>4 DEF Guaranteed, Weak, d

(* The codes of a frame with such a burst, once its header got through.    *)
BurstInv ==
  /\ stage \in {"header", "cells"} => fault = None
  /\ header = Sent /\ fault # None /\ fault.weak = {} /\ Burst(fault.damaged) =>
       /\ stage \in {"data", "open"} => payload
       /\ stage = "done" => verdict = "Accepted"

LEMMA NextBurst == IInv /\ BurstInv /\ [Next]_vars => BurstInv'
<1> SUFFICES ASSUME IInv, BurstInv, [Next]_vars PROVE BurstInv'
  OBVIOUS
<1>0. Sent.index /\ Sent.geometry
  BY DEF Sent
<1>1. CASE WrongLength
  BY <1>1 DEF WrongLength, Reject, BurstInv
<1>2. ASSUME NEW d \in Damage(HeaderN), HeaderFails(d) \/ HeaderDecodes(d)
      PROVE  BurstInv'
  BY <1>2 DEF HeaderFails, HeaderDecodes, Reject, BurstInv
<1>3. CASE Demodulate
  BY <1>3 DEF Demodulate, BurstInv, IInv, Progressing
<1>4. CASE BlockFails \/ BlockDecodes
  <2>1. UNCHANGED <<header, fault>> /\ stage = "data"
    BY <1>4 DEF BlockFails, BlockDecodes, Reject
  <2>2. SUFFICES ASSUME header = Sent, fault # None, fault.weak = {},
                        Burst(fault.damaged)
                 PROVE  stage' # "done" /\ payload'
    <3>1. stage' \notin {"header", "cells"}
      BY <1>4 DEF BlockFails, BlockDecodes, Reject
    <3> QED BY <2>1, <3>1 DEF BurstInv
  <2>3. payload /\ fault \in Faults /\ block \in Nat
    BY <1>0, <2>1, <2>2, CodeAssumption DEF BurstInv, IInv, TypeOK, Progressing
  <2>4. BlockOutcomes \subseteq {"right"}
    BY <1>0, <2>2, <2>3, BurstWithinGuarantee, BlockDamageCounts, BlockRight
       DEF BlockOutcomes
  <2> QED BY <1>4, <2>3, <2>4 DEF BlockFails, BlockDecodes
<1>5. CASE OpenPayload
  BY <1>0, <1>5 DEF OpenPayload, BurstInv
<1>6. CASE NextCapture
  BY <1>6 DEF NextCapture, BurstInv
<1>7. CASE UNCHANGED vars
  BY <1>7 DEF vars, BurstInv
<1> QED BY <1>1, <1>2, <1>3, <1>4, <1>5, <1>6, <1>7 DEF Next

(* Whatever the size of the code and of the frame: a burst of half of all  *)
(* parity symbols in a row that no confidence estimate gave away costs no  *)
(* frame whose header got through.                                         *)
THEOREM BurstsAreAbsorbed == Spec => []BurstIsAbsorbed
<1>1. Init => BurstInv
  BY DEF Init, BurstInv
<1>2. BurstInv => BurstIsAbsorbed
  BY DEF BurstInv, BurstIsAbsorbed
<1> QED BY <1>1, <1>2, NextBurst, Inductive, PTL DEF Spec
============================================================================
