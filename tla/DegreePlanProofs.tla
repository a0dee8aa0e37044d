-------------------------- MODULE DegreePlanProofs --------------------------
(***************************************************************************)
(* Proofs about the plan of a frame, for every generator, every degree     *)
(* table, every message length and every block size.                       *)
(***************************************************************************)
EXTENDS DegreePlan, TLAPS, FiniteSetTheorems, WellFoundedInduction

(* Among positive integers up to a bound there is a smallest one.          *)
LEMMA LeastMember ==
  ASSUME NEW k \in Nat, NEW T \in SUBSET (1 .. k), T # {}
  PROVE  \E n \in T : \A m \in T : n <= m
<1> DEFINE S == 1 .. k
           F == {1 .. n : n \in T}
           R == StrictSubsetOrdering(S)
<1>1. F \subseteq FiniteSubsetsOf(S) /\ F # {}
  <2>1. ASSUME NEW n \in T PROVE 1 .. n \in SUBSET S /\ IsFiniteSet(1 .. n)
    BY FS_Interval
  <2>2. QED
    BY <2>1 DEF FiniteSubsetsOf
<1>2. IsWellFoundedOn(R, FiniteSubsetsOf(S))
  BY FS_StrictSubsetOrderingWellFounded
<1>3. \E x \in F : \A y \in F : ~(<<y, x>> \in R)
  <2> HIDE DEF F, R
  <2>1. QED
    BY <1>1, <1>2, WFMin
<1>4. PICK n \in T : \A m \in T : <<1 .. m, 1 .. n>> \notin R
  BY <1>3
<1>5. ASSUME NEW m \in T, m < n PROVE FALSE
  <2>1. 1 .. m \subseteq 1 .. n /\ n \in 1 .. n /\ n \notin 1 .. m
    BY <1>5
  <2>2. <<1 .. m, 1 .. n>> \in R
    BY <2>1 DEF StrictSubsetOrdering
  <2>3. QED
    BY <1>4, <2>2
<1>6. QED
  BY <1>5

(* sample_degree() returns a degree: 1 to k, whatever the table says.      *)
LEMMA DegreeIsInRange ==
  ASSUME NEW k \in Nat \ {0}, NEW u
  PROVE  sample_degree(k, u) \in 1 .. k
<1> DEFINE T == {n \in 1 .. k : u < cdf(k, n) \/ n = k}
<1>1. k \in T
  OBVIOUS
<1>2. PICK n \in T : \A m \in T : n <= m
  BY <1>1, LeastMember
<1>3. /\ u < cdf(k, n) \/ n = k
      /\ \A m \in 1 .. n - 1 : ~(u < cdf(k, m))
  BY <1>2
<1>4. QED
  BY <1>2, <1>3 DEF sample_degree

----------------------------------------------------------------------------
(* Ascending() sorts: it lists each member of the set once, in order.      *)
LEMMA AscendingSorts ==
  ASSUME NEW S \in SUBSET Nat, IsFiniteSet(S)
  PROVE  LET n == Cardinality(S)
             a == Ascending(S)
         IN  /\ a \in [1 .. n -> S]
             /\ {a[i] : i \in 1 .. n} = S
             /\ \A i \in 1 .. n - 1 : a[i] < a[i + 1]
<1> DEFINE n == Cardinality(S)
           a == Ascending(S)
           Rank(x) == Cardinality(Below(S, x))
<1>0. n \in Nat
  BY FS_CardinalityType
<1>1. ASSUME NEW x \in S
      PROVE  /\ IsFiniteSet(Below(S, x))
             /\ Rank(x) \in Nat /\ Rank(x) < n
  <2>1. Below(S, x) \in SUBSET S /\ x \notin Below(S, x)
    BY DEF Below
  <2>2. IsFiniteSet(Below(S, x)) /\ Rank(x) <= n /\ Rank(x) # n
    <3>1. PICK B : B = Below(S, x)
      OBVIOUS
    <3>2. B \in SUBSET S /\ S # B
      BY <2>1, <3>1
    <3>3. /\ IsFiniteSet(B)
          /\ Cardinality(B) <= Cardinality(S)
          /\ Cardinality(S) # Cardinality(B)
      BY <3>2, FS_Subset
    <3>4. QED
      BY <3>1, <3>3
  <2>3. Rank(x) \in Nat
    BY <2>2, FS_CardinalityType
  <2>4. QED
    BY <1>0, <2>2, <2>3
<1>2. ASSUME NEW x \in S, NEW y \in S, x < y
      PROVE  Rank(x) < Rank(y)
  <2>1. /\ Below(S, x) \in SUBSET Below(S, y)
        /\ x \in Below(S, y) /\ x \notin Below(S, x)
    <3>1. x \in Nat /\ y \in Nat /\ \A z \in S : z \in Nat
      OBVIOUS
    <3>2. \A z \in S : z < x => z < y
      BY <1>2, <3>1
    <3>3. \A z \in Below(S, x) : z \in Below(S, y)
      BY <3>2 DEF Below
    <3>4. x \in Below(S, y) /\ x \notin Below(S, x)
      BY <1>2, <3>1 DEF Below
    <3>5. QED
      BY <3>3, <3>4
  <2>2. Rank(x) <= Rank(y) /\ Rank(x) # Rank(y)
    BY <1>1, <2>1, FS_Subset
  <2>3. QED
    BY <1>1, <2>2
<1> DEFINE rank == [x \in S |-> Rank(x)]
           T == 0 .. n - 1
<1>3. rank \in Injection(S, T)
  <2>1. rank \in [S -> T]
    BY <1>0, <1>1
  <2>2. ASSUME NEW x \in S, NEW y \in S, rank[x] = rank[y] PROVE x = y
    <3>1. Rank(x) = Rank(y) /\ x \in Nat /\ y \in Nat
      BY <2>2
    <3>2. ~(x < y) /\ ~(y < x)
      BY <1>1, <1>2, <3>1
    <3>3. QED
      BY <3>1, <3>2
  <2> HIDE DEF rank, T
  <2>3. QED
    BY <2>1, <2>2 DEF Injection, IsInjective
<1>4. IsFiniteSet(T) /\ Cardinality(T) = n
  <2> HIDE DEF n
  <2>1. 0 \in Int /\ n - 1 \in Int
    BY <1>0
  <2>2. /\ IsFiniteSet(0 .. n - 1)
        /\ Cardinality(0 .. n - 1) = IF 0 > n - 1 THEN 0 ELSE n - 1 - 0 + 1
    BY <2>1, FS_Interval, Zenon
  <2>3. QED
    BY <1>0, <2>2
<1>5. rank \in Surjection(S, T)
  BY <1>3, <1>4, FS_Injection
<1>6. ASSUME NEW i \in 1 .. n
      PROVE  a[i] \in S /\ Rank(a[i]) = i - 1
  <2>1. i - 1 \in T
    BY <1>0
  <2>2. \E x \in S : Rank(x) = i - 1
    BY <1>5, <2>1 DEF Surjection
  <2>3. a[i] = CHOOSE x \in S : Cardinality(Below(S, x)) = i - 1
    BY DEF Ascending
  <2>4. QED
    BY <2>2, <2>3
<1>7. ASSUME NEW x \in S PROVE \E i \in 1 .. n : a[i] = x
  <2> DEFINE i == Rank(x) + 1
  <2>1. i \in 1 .. n /\ i - 1 = Rank(x)
    BY <1>0, <1>1
  <2> HIDE DEF i
  <2>2. a[i] \in S /\ Rank(a[i]) = Rank(x)
    BY <1>6, <2>1
  <2>3. rank[a[i]] = rank[x] /\ DOMAIN rank = S
    BY <2>2
  <2>4. IsInjective(rank)
    BY <1>3 DEF Injection
  <2>5. a[i] = x
    BY <2>2, <2>3, <2>4 DEF IsInjective
  <2>6. QED
    BY <2>1, <2>5
<1>8. ASSUME NEW i \in 1 .. n - 1 PROVE a[i] < a[i + 1]
  <2>1. i \in 1 .. n /\ i + 1 \in 1 .. n
    BY <1>0
  <2>2. /\ a[i] \in S /\ a[i + 1] \in S
        /\ Rank(a[i]) = i - 1 /\ Rank(a[i + 1]) = i
    BY <1>6, <2>1
  <2>3. a[i] # a[i + 1] /\ ~(a[i + 1] < a[i])
    <3>1. PICK x \in S, y \in S : x = a[i] /\ y = a[i + 1]
      BY <2>2
    <3>2. Rank(x) = i - 1 /\ Rank(y) = i
      BY <2>2, <3>1
    <3>3. x # y /\ ~(y < x)
      BY <1>2, <2>1, <3>2
    <3>4. QED
      BY <3>1, <3>3
  <2>4. a[i] \in Nat /\ a[i + 1] \in Nat
    BY <2>2
  <2>5. QED
    BY <2>3, <2>4
<1>9. a \in [1 .. n -> S]
  <2>1. a = [i \in 1 .. n |-> a[i]]
    BY DEF Ascending
  <2>2. QED
    BY <1>6, <2>1
<1>10. QED
  BY <1>6, <1>7, <1>8, <1>9

(* A list without repetition has as many elements as entries.              *)
LEMMA DistinctAreCounted ==
  ASSUME NEW s \in Seq(Nat),
         \A i, j \in 1 .. Len(s) : s[i] = s[j] => i = j
  PROVE  IsFiniteSet(Elements(s)) /\ Cardinality(Elements(s)) = Len(s)
<1> DEFINE D == 1 .. Len(s)
           E == Elements(s)
<1>1. s \in [D -> E]
  BY DEF Elements
<1>2. s \in Bijection(D, E)
  BY <1>1 DEF Bijection, Injection, Surjection, IsInjective, Elements
<1>3. IsFiniteSet(D) /\ Cardinality(D) = Len(s)
  <2>1. PICK n \in Nat : n = Len(s)
    OBVIOUS
  <2>2. IsFiniteSet(1 .. n) /\ Cardinality(1 .. n) = n
    BY FS_Interval
  <2>3. QED
    BY <2>1, <2>2
<1>4. QED
  BY <1>2, <1>3, FS_Bijection DEF ExistsBijection

----------------------------------------------------------------------------
(* The bytes of len fit into div_ceil(len, size) blocks, which are at      *)
(* least one.                                                              *)
LEMMA DivCeilCovers ==
  ASSUME NEW len \in Nat \ {0}, NEW size \in Nat \ {0}
  PROVE  /\ div_ceil(len, size) \in Nat \ {0}
         /\ len <= size * div_ceil(len, size)
<1> DEFINE q == (len + size - 1) \div size
<1>1. q \in Int /\ len + size - 1 < size * q + size
  BY SMT
<1> HIDE DEF q
<1>2. len <= size * q
  <2>1. size * q \in Int
    BY <1>1
  <2>2. QED
    BY <1>1, <2>1
<1>3. q > 0
  <2>1. q <= 0 => size * q <= 0
    BY <1>1, SMT
  <2>2. size * q \in Int
    BY <1>1
  <2>3. QED
    BY <1>1, <1>2, <2>1, <2>2
<1>4. QED
  BY <1>1, <1>2, <1>3 DEF div_ceil, q

LEMMA TupleIsTheSequence ==
  ASSUME NEW S, NEW s \in Seq(S)
  PROVE  Tuple(s) = s
BY DEF Tuple

(* Byte i of the blocks, counted from 0, is byte i % size of block i \div   *)
(* size.                                                                   *)
LEMMA ByteInBlock ==
  ASSUME NEW len \in Nat \ {0}, NEW size \in Nat \ {0}, NEW i \in 0 .. len - 1
  PROVE  /\ i \div size \in 0 .. div_ceil(len, size) - 1
         /\ i % size \in 0 .. size - 1
         /\ i = (i \div size) * size + (i % size)
<1> DEFINE q == i \div size
           r == i % size
           k == div_ceil(len, size)
<1>1. /\ q \in Int /\ r \in 0 .. size - 1
      /\ i = size * q + r
  BY SMT
<1>2. k \in Nat \ {0} /\ len <= size * k
  BY DivCeilCovers
<1> HIDE DEF q, r, k
<1>3. size * q \in Int /\ size * k \in Int /\ q * size = size * q
  BY <1>1, <1>2, SMT
<1>4. q >= 0
  <2>1. q <= -1 => size * q <= size * (-1)
    BY <1>1, SMT
  <2>2. QED
    BY <1>1, <1>3, <2>1
<1>5. q < k
  <2>1. q >= k => size * q >= size * k
    BY <1>1, <1>2, SMT
  <2>2. QED
    BY <1>1, <1>2, <1>3, <2>1
<1>6. QED
  BY <1>1, <1>2, <1>3, <1>4, <1>5 DEF q, r, k

(* Cutting a message into blocks and putting the blocks together again     *)
(* gives the message, without the padding (Encoder::new, assemble).        *)
THEOREM SplitIsUndone ==
  ASSUME NEW len \in Nat \ {0}, NEW size \in Nat \ {0}
  PROVE  assemble(Split(len, size), size, len) = [i \in 1 .. len |-> i]
<1> DEFINE k == div_ceil(len, size)
           at(b, i) == (b - 1) * size + i
           byte(b, i) == IF at(b, i) <= len THEN at(b, i) ELSE 0
           block(b) == [i \in 1 .. size |-> byte(b, i)]
           blocks == [b \in 1 .. k |-> block(b)]
           out == [i \in 1 .. k * size |->
                     blocks[((i - 1) \div size) + 1][((i - 1) % size) + 1]]
<1>1. k \in Nat \ {0} /\ len <= size * k /\ size * k = k * size /\ k * size \in Nat
  <2>1. k \in Nat \ {0} /\ len <= size * k
    BY DivCeilCovers
  <2> HIDE DEF k
  <2>2. QED
    BY <2>1, SMT
<1>2. Split(len, size) = blocks
  <2>1. ASSUME NEW b \in 1 .. k PROVE block(b) \in Seq(Nat)
    <3>1. \A i \in 1 .. size : at(b, i) \in Nat
      BY <1>1
    <3>2. \A i \in 1 .. size : byte(b, i) \in Nat
      BY <3>1
    <3> HIDE DEF byte
    <3>3. QED
      BY <3>2
  <2>2. \A b \in 1 .. k : Tuple(block(b)) = block(b)
    BY <2>1, TupleIsTheSequence
  <2>3. blocks \in Seq(Seq(Nat))
    <3> HIDE DEF block, k
    <3>1. QED
      BY <1>1, <2>1
  <2>4. Tuple(blocks) = blocks
    <3> HIDE DEF blocks
    <3>1. QED
      BY <2>3, TupleIsTheSequence
  <2>5. Split(len, size) = Tuple([b \in 1 .. k |-> Tuple(block(b))])
    BY DEF Split
  <2> HIDE DEF block, k
  <2>6. QED
    BY <2>2, <2>4, <2>5
<1>3. Len(blocks) = k
  <2> HIDE DEF block, k
  <2>1. QED
    BY <1>1
<1>4. assemble(Split(len, size), size, len) = SubSeq(out, 1, len)
  BY <1>1, <1>2, <1>3 DEF assemble
<1>5. ASSUME NEW i \in 1 .. len PROVE i \in 1 .. k * size /\ out[i] = i
  <2> DEFINE q == (i - 1) \div size
             r == (i - 1) % size
  <2>1. i - 1 \in 0 .. len - 1
    OBVIOUS
  <2>2. q \in 0 .. k - 1 /\ r \in 0 .. size - 1 /\ i - 1 = q * size + r
    BY <2>1, ByteInBlock
  <2>3. i \in 1 .. k * size
    <3> HIDE DEF k
    <3>1. QED
      BY <1>1
  <2>4. q + 1 \in 1 .. k /\ r + 1 \in 1 .. size
    <3> HIDE DEF k, q, r
    <3>1. QED
      BY <1>1, <2>2
  <2>5. out[i] = byte(q + 1, r + 1)
    <3>1. out[i] = blocks[q + 1][r + 1]
      BY <2>3
    <3>2. QED
      BY <2>4, <3>1
  <2>6. at(q + 1, r + 1) = i
    <3> HIDE DEF k, q, r
    <3>1. q + 1 - 1 = q
      BY <2>2
    <3>2. q * size \in Int
      BY <2>2
    <3>3. QED
      BY <2>2, <3>1, <3>2
  <2>7. QED
    BY <2>3, <2>5, <2>6
<1>6. SubSeq(out, 1, len) = [i \in 1 .. len |-> i]
  <2>1. SubSeq(out, 1, len) = [i \in 1 .. len |-> out[i]]
    <3> HIDE DEF out
    <3>1. SubSeq(out, 1, len) = [i \in 1 .. 1 + len - 1 |-> out[i + 1 - 1]]
      OBVIOUS
    <3>2. QED
      BY <3>1
  <2> HIDE DEF out
  <2>2. QED
    BY <1>5, <2>1
<1>7. QED
  BY <1>4, <1>6
----------------------------------------------------------------------------
LEMMA InitPlanInv == PlanInit => PlanInv
<1> SUFFICES ASSUME PlanInit PROVE PlanInv
  OBVIOUS
<1>1. PICK s \in Streams :
        plan = [stream |-> s, k |-> div_ceil(s.payload_len, s.block_size),
                state |-> Seed(s.session_id, s.frame_index),
                degree |-> 0, chosen |-> <<>>, blocks |-> <<>>]
  BY DEF PlanInit
<1>2. div_ceil(s.payload_len, s.block_size) \in Nat \ {0}
  BY StreamAssumption, DivCeilCovers DEF Stream
<1>3. Seed(s.session_id, s.frame_index) \in States
  BY GeneratorAssumption
<1>4. QED
  BY <1>1, <1>2, <1>3 DEF PlanInv, TypeOK, DrawsAreSound, ResultIsDrawn

LEMMA SystematicKeepsPlanInv ==
  ASSUME PlanInv, Systematic
  PROVE  PlanInv'
<1>1. plan.stream.frame_index \in Nat
  BY StreamAssumption DEF PlanInv, TypeOK, Stream
<1>2. TypeOK'
  <2>1. PICK b \in Seq(Nat) : plan' = [plan EXCEPT !.blocks = b]
    BY <1>1, <<plan.stream.frame_index>> \in Seq(Nat) DEF Systematic
  <2>2. QED
    BY <2>1 DEF PlanInv, TypeOK
<1>3. DrawsAreSound'
  BY DEF PlanInv, TypeOK, DrawsAreSound, Systematic
<1>4. ResultIsDrawn'
  BY DEF PlanInv, TypeOK, ResultIsDrawn, Systematic
<1>5. QED
  BY <1>2, <1>3, <1>4 DEF PlanInv

LEMMA DrawDegreeKeepsPlanInv ==
  ASSUME PlanInv, DrawDegree
  PROVE  PlanInv'
<1>1. PICK state \in States, degree \in 1 .. plan.k :
        plan' = [plan EXCEPT !.state = state, !.degree = degree]
  <2>1. Advance(plan.state) \in States
    BY GeneratorAssumption DEF PlanInv, TypeOK
  <2>2. \A u : sample_degree(plan.k, u) \in 1 .. plan.k
    BY DegreeIsInRange DEF PlanInv, TypeOK
  <2>3. QED
    BY <2>1, <2>2 DEF DrawDegree
<1>2. Len(plan.chosen) = 0 /\ plan.stream.frame_index >= plan.k /\ plan.blocks = <<>>
  BY DEF PlanInv, TypeOK, DrawsAreSound, DrawDegree
<1>3. TypeOK'
  <2>1. degree \in Nat
    BY DEF PlanInv, TypeOK
  <2>2. QED
    BY <1>1, <2>1 DEF PlanInv, TypeOK
<1>4. DrawsAreSound'
  BY <1>1, <1>2 DEF PlanInv, TypeOK, DrawsAreSound
<1>5. ResultIsDrawn'
  BY <1>1, <1>2 DEF PlanInv, TypeOK, ResultIsDrawn
<1>6. QED
  BY <1>3, <1>4, <1>5 DEF PlanInv

LEMMA DrawBlockKeepsPlanInv ==
  ASSUME PlanInv, DrawBlock
  PROVE  PlanInv'
<1> DEFINE state == Advance(plan.state)
           idx == Output(state) % plan.k
<1>1. state \in States /\ idx \in 0 .. plan.k - 1
  <2>1. state \in States /\ Output(state) \in Nat /\ plan.k \in Nat \ {0}
    BY GeneratorAssumption DEF PlanInv, TypeOK
  <2>2. QED
    BY <2>1, SMT
<1> HIDE DEF state, idx
<1>2. Len(plan.chosen) < plan.degree
  BY DEF DrawBlock
<1>3. plan.blocks = <<>>
  BY <1>2, StreamAssumption
     DEF PlanInv, TypeOK, DrawsAreSound, ResultIsDrawn, Stream
<1>4. CASE idx \in Elements(plan.chosen)
  <2>1. plan' = [plan EXCEPT !.state = state]
    BY <1>4 DEF DrawBlock, PlanInv, TypeOK, state, idx
  <2>2. QED
    BY <1>1, <1>3, <2>1
       DEF PlanInv, TypeOK, DrawsAreSound, ResultIsDrawn
<1>5. CASE idx \notin Elements(plan.chosen)
  <2>1. plan' = [plan EXCEPT !.state = state, !.chosen = Append(@, idx)]
    BY <1>5 DEF DrawBlock, PlanInv, TypeOK, state, idx
  <2> DEFINE c == plan.chosen
             n == Len(c)
  <2>2. /\ c \in Seq(Nat) /\ n \in Nat
        /\ plan'.chosen = Append(c, idx)
    BY <2>1 DEF PlanInv, TypeOK
  <2>3. /\ Append(c, idx) \in Seq(Nat)
        /\ Len(Append(c, idx)) = n + 1
        /\ Append(c, idx)[n + 1] = idx
        /\ \A i \in 1 .. n : Append(c, idx)[i] = c[i] /\ c[i] # idx
    BY <1>1, <1>5, <2>2 DEF Elements
  <2>4. TypeOK'
    BY <1>1, <2>1, <2>3 DEF PlanInv, TypeOK
  <2>5. \A i \in 1 .. n + 1 :
          /\ Append(c, idx)[i] < plan.k
          /\ \A j \in 1 .. n + 1 :
               Append(c, idx)[i] = Append(c, idx)[j] => i = j
    <3>1. /\ idx < plan.k
          /\ \A i \in 1 .. n : /\ c[i] < plan.k
                              /\ \A j \in 1 .. n : c[i] = c[j] => i = j
      BY <1>1 DEF PlanInv, TypeOK, DrawsAreSound
    <3>2. \A i \in 1 .. n + 1 : i \in 1 .. n \/ i = n + 1
      BY <2>2
    <3> HIDE DEF c, n
    <3>3. QED
      BY <2>3, <3>1, <3>2
  <2>6. DrawsAreSound'
    <3>1. /\ plan'.stream = plan.stream /\ plan'.k = plan.k
          /\ plan'.degree = plan.degree
          /\ plan'.chosen = Append(c, idx)
          /\ n + 1 <= plan.degree
      BY <1>2, <2>1, <2>2 DEF PlanInv, TypeOK
    <3>2. QED
      BY <2>3, <2>5, <3>1 DEF PlanInv, DrawsAreSound
  <2>7. ResultIsDrawn'
    BY <1>3, <2>1 DEF PlanInv, TypeOK, ResultIsDrawn
  <2>8. QED
    BY <2>4, <2>6, <2>7 DEF PlanInv
<1>6. QED
  BY <1>4, <1>5

(* What the blocks drawn come to when they are sorted.                     *)
LEMMA DrawnBlocksAscend ==
  ASSUME PlanInv
  PROVE  LET E == Elements(plan.chosen)
             a == Ascending(E)
         IN  /\ E \subseteq 0 .. plan.k - 1
             /\ IsFiniteSet(E) /\ Cardinality(E) = Len(plan.chosen)
             /\ a \in Seq(Nat) /\ Len(a) = Len(plan.chosen)
             /\ Elements(a) = E
             /\ \A i \in 1 .. Len(a) - 1 : a[i] < a[i + 1]
<1> DEFINE E == Elements(plan.chosen)
           a == Ascending(E)
<1>1. /\ plan.chosen \in Seq(Nat)
      /\ \A i, j \in 1 .. Len(plan.chosen) :
           plan.chosen[i] = plan.chosen[j] => i = j
  BY DEF PlanInv, TypeOK, DrawsAreSound
<1>2. IsFiniteSet(E) /\ Cardinality(E) = Len(plan.chosen)
  BY <1>1, DistinctAreCounted
<1>3. E \subseteq 0 .. plan.k - 1
  BY <1>1 DEF PlanInv, TypeOK, DrawsAreSound, Elements
<1>4. PICK n \in Nat : n = Len(plan.chosen)
  BY <1>1
<1>5. /\ a \in [1 .. n -> E]
      /\ {a[i] : i \in 1 .. n} = E
      /\ \A i \in 1 .. n - 1 : a[i] < a[i + 1]
  <2>1. E \in SUBSET Nat
    BY <1>1 DEF Elements
  <2> HIDE DEF E
  <2>2. QED
    BY <1>2, <1>4, <2>1, AscendingSorts
<1>6. a \in Seq(Nat) /\ Len(a) = n
  <2>1. E \subseteq Nat
    BY <1>1 DEF Elements
  <2> HIDE DEF a, E
  <2>2. a \in [1 .. n -> Nat]
    BY <1>5, <2>1
  <2>3. QED
    BY <1>4, <2>2
<1>7. Elements(a) = E
  <2> HIDE DEF a, E
  <2>1. QED
    BY <1>5, <1>6 DEF Elements
<1>8. QED
  BY <1>2, <1>3, <1>4, <1>5, <1>6, <1>7

LEMMA SortBlocksKeepsPlanInv ==
  ASSUME PlanInv, SortBlocks
  PROVE  PlanInv'
<1> DEFINE a == Ascending(Elements(plan.chosen))
<1>1. a \in Seq(Nat)
  BY DrawnBlocksAscend
<1>2. plan' = [plan EXCEPT !.blocks = a]
  BY DEF SortBlocks
<1> HIDE DEF a
<1>3. TypeOK' /\ DrawsAreSound'
  BY <1>1, <1>2 DEF PlanInv, TypeOK, DrawsAreSound
<1>4. ResultIsDrawn'
  <2>1. /\ plan'.degree = plan.degree /\ plan'.chosen = plan.chosen
        /\ plan'.blocks = a
    BY <1>2 DEF PlanInv, TypeOK
  <2>2. plan.degree > 0 /\ Len(plan.chosen) = plan.degree
    BY DEF SortBlocks
  <2>3. QED
    BY <2>1, <2>2 DEF ResultIsDrawn, a
<1>5. QED
  BY <1>3, <1>4 DEF PlanInv

(* The inductive invariant of plan().                                      *)
THEOREM Inductive == PlanSpec => []PlanInv
<1>1. PlanInit => PlanInv
  BY InitPlanInv
<1>2. PlanInv /\ [NextPlan]_plan => PlanInv'
  <2> SUFFICES ASSUME PlanInv, [NextPlan]_plan PROVE PlanInv'
    OBVIOUS
  <2>1. CASE plan' = plan
    BY <2>1 DEF PlanInv, TypeOK, DrawsAreSound, ResultIsDrawn
  <2>2. QED
    BY <2>1, SystematicKeepsPlanInv, DrawDegreeKeepsPlanInv,
       DrawBlockKeepsPlanInv, SortBlocksKeepsPlanInv DEF NextPlan
<1>3. QED
  BY <1>1, <1>2, PTL DEF PlanSpec

(* Whatever the generator returns and whatever the degree table says, a    *)
(* plan is a strictly ascending list of blocks of the message, as long as  *)
(* the degree drawn; a frame of the systematic prefix is its own block;    *)
(* and the blocks, cut to the payload's length, are the payload            *)
(* (DegreeTable::plan, Encoder::new, assemble).                            *)
THEOREM PlansStaySound == PlanSpec => []PlansAreSound
<1>1. PlanInv => PlansAreSound
  <2> SUFFICES ASSUME PlanInv, plan.blocks # <<>>
               PROVE  LET s == plan.stream
                      IN /\ Elements(plan.blocks) \subseteq 0 .. plan.k - 1
                         /\ \A i \in 1 .. Len(plan.blocks) - 1 :
                              plan.blocks[i] < plan.blocks[i + 1]
                         /\ IF s.frame_index < plan.k
                            THEN plan.blocks = <<s.frame_index>>
                            ELSE Len(plan.blocks) = plan.degree
                         /\ assemble(Split(s.payload_len, s.block_size),
                                     s.block_size, s.payload_len)
                              = [i \in 1 .. s.payload_len |-> i]
    BY DEF PlansAreSound
  <2> DEFINE s == plan.stream
  <2>1. /\ s.payload_len \in Nat \ {0} /\ s.block_size \in Nat \ {0}
        /\ s.frame_index \in Nat /\ plan.k \in Nat
    BY StreamAssumption DEF PlanInv, TypeOK, Stream
  <2>2. assemble(Split(s.payload_len, s.block_size), s.block_size, s.payload_len)
          = [i \in 1 .. s.payload_len |-> i]
    BY <2>1, SplitIsUndone
  <2>3. CASE s.frame_index < plan.k /\ plan.blocks = <<s.frame_index>>
    BY <2>1, <2>2, <2>3 DEF Elements
  <2>4. CASE /\ plan.degree > 0 /\ Len(plan.chosen) = plan.degree
             /\ plan.blocks = Ascending(Elements(plan.chosen))
    <3>1. /\ Elements(plan.blocks) \subseteq 0 .. plan.k - 1
          /\ \A i \in 1 .. Len(plan.blocks) - 1 : plan.blocks[i] < plan.blocks[i + 1]
          /\ Len(plan.blocks) = plan.degree
      BY <2>4, DrawnBlocksAscend
    <3>2. ~(s.frame_index < plan.k)
      BY <2>1, <2>4 DEF PlanInv, DrawsAreSound
    <3>3. QED
      BY <2>2, <3>1, <3>2
  <2>5. QED
    BY <2>3, <2>4 DEF PlanInv, ResultIsDrawn
<1>2. QED
  BY <1>1, Inductive, PTL

(* As long as the drawing loop runs, some block of the message has not     *)
(* been drawn yet: the degree never asks for more blocks than there are.   *)
THEOREM LoopCanAlwaysEnd == PlanSpec => []DrawsRemain
<1>1. PlanInv => DrawsRemain
  <2> SUFFICES ASSUME PlanInv, Len(plan.chosen) < plan.degree,
                      \A b \in 0 .. plan.k - 1 : b \in Elements(plan.chosen)
               PROVE  FALSE
    BY DEF DrawsRemain
  <2> DEFINE E == Elements(plan.chosen)
  <2>1. E = 0 .. plan.k - 1 /\ Cardinality(E) = Len(plan.chosen)
    BY DrawnBlocksAscend
  <2>2. PICK k \in Nat \ {0} : k = plan.k
    BY DEF PlanInv, TypeOK
  <2>3. Cardinality(0 .. k - 1) = k
    <3>1. 0 \in Int /\ k - 1 \in Int /\ ~(0 > k - 1)
      OBVIOUS
    <3>2. Cardinality(0 .. k - 1) = k - 1 - 0 + 1
      BY <3>1, FS_Interval
    <3>3. QED
      BY <3>2
  <2>4. Len(plan.chosen) < k
    BY <2>2 DEF PlanInv, TypeOK, DrawsAreSound
  <2>5. QED
    BY <2>1, <2>2, <2>3, <2>4
<1>2. QED
  BY <1>1, Inductive, PTL
============================================================================
