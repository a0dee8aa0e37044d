--------------------------- MODULE ImagesProofs ----------------------------
(***************************************************************************)
(* Proofs about frames in files: what is drawn, written as PNG or PPM,     *)
(* perhaps by another program, and read again, for every scene.  Stated    *)
(* for files of any size: no bound of the model checker's is used.         *)
(***************************************************************************)
EXTENDS Images, TLAPS, FiniteSetTheorems, WellFoundedInduction

-----------------------------------------------------------------------------
(* Induction and folds.  A fold of the community modules runs through a    *)
(* recursive function on the subsets of an interval; that the function     *)
(* exists is proved by induction over a set of numbers.                    *)

(* Tuple, the sequence built out of a function on 1 .. n, is that          *)
(* function.                                                               *)
LEMMA TupleIsTheSequence ==
  ASSUME NEW n \in Nat, NEW f, f = [i \in 1 .. n |-> f[i]]
  PROVE  Tuple(f) = f /\ f \in Seq({f[i] : i \in 1 .. n}) /\ Len(f) = n
<1>1. f \in [1 .. n -> {f[i] : i \in 1 .. n}]
  OBVIOUS
<1>2. f \in Seq({f[i] : i \in 1 .. n}) /\ Len(f) = n
  BY <1>1
<1>3. QED
  BY <1>2 DEF Tuple

(* Induction up to a bound, for a set of numbers instead of a predicate.   *)
LEMMA UpTo ==
  ASSUME NEW n \in Nat, NEW S, 0 \in S, \A k \in 0 .. n - 1 : k \in S => k + 1 \in S
  PROVE  0 .. n \subseteq S
<1> DEFINE T == {k \in Nat : k \in 0 .. n /\ k \notin S}
<1>1. SUFFICES ASSUME T # {} PROVE FALSE
  OBVIOUS
<1>2. PICK k \in T : \A m \in T : ~(<<m, k>> \in OpToRel(<, Nat))
  BY <1>1, NatLessThanWellFounded, WFMin
<1>3. \A m \in T : ~(m < k)
  BY <1>2 DEF OpToRel
<1>4. k \in 0 .. n /\ k \notin S /\ k # 0
  OBVIOUS
<1>5. k - 1 \notin T
  BY <1>3, <1>4
<1>6. k - 1 \in 0 .. n - 1 /\ k - 1 \in S
  BY <1>4, <1>5
<1>7. (k - 1) + 1 \in S
  BY <1>6, Zenon
<1>8. QED
  BY <1>4, <1>7

(* A set of numbers up to n that is not empty has a greatest and a least.  *)
LEMMA NaturalsBelow ==
  ASSUME NEW n \in Nat, NEW S \in SUBSET (1 .. n), S # {}
  PROVE  /\ Max(S) \in S /\ \A s \in S : s <= Max(S)
         /\ Min(S) \in S /\ \A s \in S : Min(S) <= s
<1>1. \E m \in S : \A s \in S : s <= m
  <2> DEFINE T == {k \in Nat : k \in 0 .. n /\ ((\E s \in S : s > k) \/ \E m \in S : \A s \in S : s <= m)}
  <2>1. PICK a \in S : TRUE
    OBVIOUS
  <2>2. 0 \in T
    BY <2>1
  <2>3. \A k \in 0 .. n - 1 : k \in T => k + 1 \in T
    <3> SUFFICES ASSUME NEW k \in 0 .. n - 1, k \in T, ~\E m \in S : \A s \in S : s <= m PROVE k + 1 \in T
      OBVIOUS
    <3>1. PICK s \in S : s > k
      OBVIOUS
    <3>2. PICK t \in S : t > s
      OBVIOUS
    <3>3. QED BY <3>1, <3>2
  <2>4. 0 .. n \subseteq T
    BY <2>2, <2>3, UpTo
  <2>5. QED
    BY <2>4
<1>2. \E m \in S : \A s \in S : m <= s
  <2>1. S \in SUBSET Nat
    OBVIOUS
  <2>2. PICK k \in S : \A m \in S : ~(<<m, k>> \in OpToRel(<, Nat))
    BY <2>1, NatLessThanWellFounded, WFMin
  <2>3. \A m \in S : ~(m < k)
    BY <2>1, <2>2 DEF OpToRel
  <2>4. QED
    BY <2>1, <2>3
<1>3. QED
  BY <1>1, <1>2 DEF Max, Min

(* f calls itself on p[d] for the values d of T, and has the base's value  *)
(* for the others.                                                         *)
Recurs(f, D, X, T, p, base, F) ==
  /\ f \in [D -> X]
  /\ \A d \in D : f[d] = IF d \in T THEN F[d][f[p[d]]] ELSE base[d]

(* f folds the functions F[1], F[2], ... over the subsets of 1 .. n.       *)
FoldsOver(f, n, X, base, F) ==
  /\ f \in [SUBSET (1 .. n) -> X]
  /\ \A s \in SUBSET (1 .. n) :
       f[s] = IF s = {} THEN base ELSE F[Max(s)][f[s \ {Max(s)}]]

(* A function is defined by recursion when each call goes to a value of    *)
(* lower measure: T are the values that call, p[d] the one that d calls.   *)
LEMMA RecursionExists ==
  ASSUME NEW n \in Nat, NEW D, NEW m \in [D -> 0 .. n],
         NEW T \in SUBSET D, NEW p \in [T -> D], \A d \in T : m[p[d]] < m[d],
         NEW X, NEW base \in [D -> X], NEW F \in [T -> [X -> X]]
  PROVE  \E f : Recurs(f, D, X, T, p, base, F)
<1> DEFINE Low(k) == {d \in D : m[d] <= k}
           Val(f, d) == IF d \in T THEN F[d][f[p[d]]] ELSE base[d]
           Eq(f, k) == f \in [D -> X] /\ \A d \in Low(k) : f[d] = Val(f, d)
           S == {k \in Nat : \E f : Eq(f, k)}
<1>1. ASSUME NEW f \in [D -> X], NEW d \in D PROVE Val(f, d) \in X
  <2>1. CASE d \in T
    <3>1. p[d] \in D
      BY <2>1
    <3>2. f[p[d]] \in X
      BY <3>1
    <3>3. F[d] \in [X -> X]
      BY <2>1
    <3>4. QED
      BY <2>1, <3>2, <3>3
  <2>2. CASE d \notin T
    BY <2>2
  <2>3. QED
    BY <2>1, <2>2
<1>2. 0 \in S
  <2>1. ASSUME NEW d \in Low(0) PROVE d \notin T
    <3>1. d \in T => m[p[d]] \in 0 .. n /\ m[d] \in 0 .. n /\ m[p[d]] < m[d]
      OBVIOUS
    <3>2. QED
      BY <3>1
  <2>2. \A d \in Low(0) : base[d] = Val(base, d)
    BY <2>1
  <2>3. Eq(base, 0)
    BY <2>2
  <2> HIDE DEF Eq
  <2>4. QED
    BY <2>3
<1>3. ASSUME NEW k \in 0 .. n - 1, k \in S
      PROVE  k + 1 \in S
  <2>1. PICK f : Eq(f, k)
    BY <1>3
  <2> DEFINE g == [d \in D |-> Val(f, d)]
  <2>2. g \in [D -> X]
    <3>1. f \in [D -> X]
      BY <2>1
    <3> HIDE DEF Val
    <3>2. QED
      BY <1>1, <3>1
  <2>3. ASSUME NEW d \in Low(k) PROVE g[d] = f[d]
    BY <2>1
  <2>4. ASSUME NEW d \in Low(k + 1) PROVE g[d] = Val(g, d)
    <3>1. CASE d \in T
      <4>1. p[d] \in D /\ m[p[d]] \in 0 .. n /\ m[d] \in 0 .. n /\ m[p[d]] < m[d] /\ m[d] <= k + 1
        BY <3>1
      <4>2. p[d] \in Low(k)
        BY <4>1
      <4>3. g[p[d]] = f[p[d]]
        BY <2>3, <4>2, Zenon
      <4>4. g[d] = F[d][f[p[d]]]
        BY <3>1
      <4> HIDE DEF g
      <4>5. QED
        BY <3>1, <4>3, <4>4
    <3>2. CASE d \notin T
      BY <3>2
    <3>3. QED
      BY <3>1, <3>2
  <2>5. Eq(g, k + 1)
    <3> HIDE DEF g, Val
    <3>1. QED
      BY <2>2, <2>4
  <2> HIDE DEF g, Eq
  <2>6. k + 1 \in Nat
    OBVIOUS
  <2>7. QED
    BY <2>5, <2>6
<1>4. n \in S
  <2> HIDE DEF S
  <2>1. 0 .. n \subseteq S
    BY <1>2, <1>3, UpTo
  <2>2. QED
    BY <2>1
<1>5. Low(n) = D
  OBVIOUS
<1> HIDE DEF Low, Val
<1>6. PICK f : Eq(f, n)
  BY <1>4
<1>7. QED
  BY <1>5, <1>6 DEF Val, Recurs

(* A fold goes through the values of a sequence in order.                  *)
LEMMA Initials ==
  ASSUME NEW k \in Nat, k > 0
  PROVE  Max(1 .. k) = k /\ (1 .. k) \ {k} = 1 .. k - 1 /\ 1 .. k # {}
<1>1. 1 .. k # {} /\ k \in 1 .. k
  OBVIOUS
<1>2. Max(1 .. k) \in 1 .. k /\ \A s \in 1 .. k : s <= Max(1 .. k)
  BY <1>1, NaturalsBelow
<1>3. (1 .. k) \ {k} = 1 .. k - 1
  OBVIOUS
<1>4. QED
  BY <1>1, <1>2, <1>3

(* The recursive function inside a fold exists.                            *)
LEMMA FoldExists ==
  ASSUME NEW n \in Nat, NEW X, NEW base \in X, NEW F \in [1 .. n -> [X -> X]]
  PROVE  \E f : FoldsOver(f, n, X, base, F)
<1> DEFINE D == SUBSET (1 .. n)
           T == D \ {{}}
           p == [s \in T |-> s \ {Max(s)}]
           m == [s \in D |-> IF s = {} THEN 0 ELSE Max(s)]
           B == [s \in D |-> base]
           G == [s \in T |-> F[Max(s)]]
<1>1. ASSUME NEW s \in T
      PROVE  /\ Max(s) \in 1 .. n /\ Max(s) \in s /\ s \ {Max(s)} \in D
             /\ \A i \in s : i <= Max(s)
  BY NaturalsBelow
<1>2. m \in [D -> 0 .. n]
  <2>1. ASSUME NEW s \in D PROVE m[s] \in 0 .. n
    <3>1. CASE s = {}
      BY <3>1
    <3>2. CASE s # {}
      BY <1>1, <3>2
    <3>3. QED
      BY <3>1, <3>2
  <2>2. QED
    BY <2>1
<1>3. p \in [T -> D] /\ B \in [D -> X] /\ G \in [T -> [X -> X]] /\ T \in SUBSET D
  BY <1>1
<1>4. ASSUME NEW s \in T PROVE m[p[s]] < m[s]
  <2> DEFINE t == s \ {Max(s)}
  <2>1. p[s] = t /\ m[s] = Max(s) /\ m[p[s]] = IF t = {} THEN 0 ELSE Max(t)
    BY <1>1
  <2>2. PICK top \in 1 .. n : top = Max(s)
    BY <1>1
  <2>3. CASE t = {}
    BY <2>1, <2>2, <2>3
  <2>4. CASE t # {}
    <3>1. Max(t) \in t
      BY <1>1, <2>4
    <3>2. Max(t) \in s /\ Max(t) # Max(s)
      BY <3>1
    <3>3. Max(t) <= Max(s) /\ Max(t) \in 1 .. n
      BY <1>1, <3>2
    <3> HIDE DEF t
    <3>4. QED
      BY <2>1, <2>2, <2>4, <3>2, <3>3
  <2>5. QED
    BY <2>3, <2>4
<1> HIDE DEF m, B, G, p, T
<1>5. PICK f : Recurs(f, D, X, T, p, B, G)
  BY <1>2, <1>3, <1>4, RecursionExists, Zenon
<1>6. ASSUME NEW s \in D
      PROVE f[s] = IF s = {} THEN base ELSE F[Max(s)][f[s \ {Max(s)}]]
  BY <1>5 DEF B, G, p, T, Recurs
<1>7. f \in [D -> X]
  BY <1>5 DEF Recurs
<1>8. QED
  BY <1>6, <1>7 DEF FoldsOver

-----------------------------------------------------------------------------
(* Numbers in decimal.                                                     *)

(* A number is read digit by digit.                                        *)
Value(s) == FoldLeft(LAMBDA v, d : 10 * v + d - 48, 0, s)
(* r[k] is the value of the first k digits of s.                           *)
NumberSteps(r, n, s) ==
  /\ r[0] = 0
  /\ \A k \in 1 .. n : r[k] = 10 * r[k - 1] + s[k] - 48
  /\ r[n] = Value(s)

(* Folding s has the intermediate results that NumberSteps names.          *)
LEMMA NumberRuns ==
  ASSUME NEW n \in Nat, NEW s \in [1 .. n -> Int]
  PROVE  \E r : NumberSteps(r, n, s)
<1> DEFINE F == [i \in 1 .. n |-> [v \in Int |-> 10 * v + s[i] - 48]]
           iter == CHOOSE f : f = [S \in SUBSET (1 .. n) |->
                     IF S = {} THEN 0 ELSE 10 * f[S \ {Max(S)}] + s[Max(S)] - 48]
<1>1. Value(s) = iter[1 .. n]
  BY DEF Value, FoldLeft, MapThenFoldSet
<1>2. F \in [1 .. n -> [Int -> Int]] /\ 0 \in Int
  OBVIOUS
<1> HIDE DEF F, iter
<1>3. PICK f : FoldsOver(f, n, Int, 0, F)
  BY <1>2, FoldExists, Zenon
<1>4. f = [S \in SUBSET (1 .. n) |->
             IF S = {} THEN 0 ELSE 10 * f[S \ {Max(S)}] + s[Max(S)] - 48]
  <2>1. ASSUME NEW S \in SUBSET (1 .. n), S # {}
        PROVE  f[S] = 10 * f[S \ {Max(S)}] + s[Max(S)] - 48
    <3>1. Max(S) \in 1 .. n /\ S \ {Max(S)} \in SUBSET (1 .. n)
      BY <2>1, NaturalsBelow
    <3>2. f[S] = F[Max(S)][f[S \ {Max(S)}]] /\ f[S \ {Max(S)}] \in Int
      BY <1>3, <2>1, <3>1 DEF FoldsOver
    <3>3. QED
      BY <3>1, <3>2 DEF F
  <2>2. QED
    BY <1>3, <2>1 DEF FoldsOver
<1>5. iter = [S \in SUBSET (1 .. n) |->
                IF S = {} THEN 0 ELSE 10 * iter[S \ {Max(S)}] + s[Max(S)] - 48]
  BY <1>4, Zenon DEF iter
<1>6. iter[1 .. 0] = 0
  BY <1>5
<1>7. ASSUME NEW k \in 1 .. n
      PROVE  iter[1 .. k] = 10 * iter[1 .. k - 1] + s[k] - 48
  <2>1. 1 .. k \in SUBSET (1 .. n)
    OBVIOUS
  <2>2. k \in Nat /\ k > 0
    OBVIOUS
  <2>3. Max(1 .. k) = k /\ (1 .. k) \ {k} = 1 .. k - 1 /\ 1 .. k # {}
    BY <2>2, Initials
  <2>4. QED
    BY <1>5, <2>1, <2>3, Zenon
<1> DEFINE r == [k \in 0 .. n |-> iter[1 .. k]]
<1>8. r[0] = 0 /\ r[n] = iter[1 .. n]
  BY <1>6
<1>9. ASSUME NEW k \in 1 .. n
      PROVE  r[k] = 10 * r[k - 1] + s[k] - 48
  BY <1>7
<1> HIDE DEF r
<1>10. NumberSteps(r, n, s)
  BY <1>1, <1>8, <1>9 DEF NumberSteps
<1>11. QED
  BY <1>10

(* The digits in ASCII.                                                    *)
Numerals == 48 .. 57

(* A digit more is ten times the value and the digit.                      *)
LEMMA OneMoreDigit ==
  ASSUME NEW s \in Seq(Numerals), NEW c \in Numerals
  PROVE  Value(Append(s, c)) = 10 * Value(s) + c - 48
<1> DEFINE n == Len(s)
           t == Append(s, c)
<1>1. /\ n \in Nat /\ n + 1 \in Nat
      /\ s \in [1 .. n -> Int] /\ t \in [1 .. n + 1 -> Int]
      /\ \A k \in 1 .. n : t[k] = s[k]
      /\ t[n + 1] = c
  <2>1. n \in Nat /\ s \in [1 .. n -> Numerals] /\ t \in Seq(Numerals) /\ Len(t) = n + 1
    OBVIOUS
  <2>2. t[n + 1] = c /\ \A k \in 1 .. n : t[k] = s[k]
    OBVIOUS
  <2> HIDE DEF n, t
  <2>3. t \in [1 .. n + 1 -> Numerals]
    <3>1. PICK m \in Nat : m = n + 1
      BY <2>1
    <3>2. t \in [1 .. m -> Numerals]
      BY <2>1, <3>1
    <3>3. QED
      BY <3>1, <3>2
  <2>4. QED
    BY <2>1, <2>2, <2>3, SMTT(20) DEF Numerals
<1> HIDE DEF n, t
<1>2. PICK r : NumberSteps(r, n, s)
  BY <1>1, NumberRuns, Zenon
<1>3. PICK q : NumberSteps(q, n + 1, t)
  BY <1>1, NumberRuns, Zenon
<1> DEFINE S == {k \in 0 .. n : r[k] = q[k]}
<1>4. 0 .. n \subseteq S
  <2>1. 0 \in S
    BY <1>1, <1>2, <1>3 DEF NumberSteps
  <2>2. ASSUME NEW k \in 0 .. n - 1, k \in S PROVE k + 1 \in S
    <3>1. k + 1 \in 1 .. n /\ k + 1 \in 1 .. n + 1 /\ k + 1 \in 0 .. n /\ (k + 1) - 1 = k
      BY <1>1
    <3>2. r[k + 1] = 10 * r[k] + s[k + 1] - 48
      BY <1>2, <3>1 DEF NumberSteps
    <3>3. q[k + 1] = 10 * q[k] + t[k + 1] - 48
      BY <1>3, <3>1 DEF NumberSteps
    <3>4. QED
      BY <1>1, <2>2, <3>1, <3>2, <3>3
  <2> HIDE DEF S
  <2>3. QED
    BY <1>1, <2>1, <2>2, UpTo
<1>5. r[n] = q[n]
  BY <1>1, <1>4
<1>6. q[n + 1] = 10 * q[n] + t[n + 1] - 48
  <2>1. n + 1 \in 1 .. n + 1 /\ (n + 1) - 1 = n
    BY <1>1
  <2>2. QED
    BY <1>3, <2>1 DEF NumberSteps
<1>7. r[n] = Value(s) /\ q[n + 1] = Value(t)
  BY <1>2, <1>3 DEF NumberSteps
<1>8. Value(t) = 10 * Value(s) + c - 48
  BY <1>1, <1>5, <1>6, <1>7
<1>9. QED
  BY <1>8 DEF t

(* A number is written and read back, whatever its size.                   *)
LEMMA OneDigit ==
  ASSUME NEW c \in Numerals
  PROVE  Value(<<c>>) = c - 48
<1>1. 1 \in Nat /\ <<c>> \in [1 .. 1 -> Int]
  BY DEF Numerals
<1>2. PICK r : NumberSteps(r, 1, <<c>>)
  BY <1>1, NumberRuns, Zenon
<1>3. r[1] = 10 * r[0] + c - 48 /\ r[0] = 0
  BY <1>2 DEF NumberSteps
<1>4. QED
  BY <1>2, <1>3 DEF NumberSteps, Numerals

(* d[k] is k in decimal, digit after digit, as the formatter writes it.    *)
Written(d, n) ==
  /\ d[n] = Digits(n)
  /\ \A k \in 0 .. n :
       d[k] = IF k < 10 THEN <<48 + k>> ELSE Append(d[k \div 10], 48 + (k % 10))

(* The recursive definition of Digits has a value for every number.        *)
LEMMA DigitsRun ==
  ASSUME NEW n \in Nat
  PROVE  \E d : Written(d, n)
<1> DEFINE D == 0 .. n
           T == {k \in D : k >= 10}
           X == Seq(Numerals)
           p == [k \in T |-> k \div 10]
           m == [k \in D |-> k]
           B == [k \in D |-> IF k < 10 THEN <<48 + k>> ELSE <<>>]
           F == [k \in T |-> [v \in X |-> Append(v, 48 + (k % 10))]]
           digits == CHOOSE f : f = [k \in 0 .. n |->
                       IF k < 10 THEN <<48 + k>> ELSE Append(f[k \div 10], 48 + (k % 10))]
<1>1. Digits(n) = digits[n]
  BY DEF Digits
<1> HIDE DEF digits
<1>2. m \in [D -> 0 .. n] /\ T \in SUBSET D
  OBVIOUS
<1>3. ASSUME NEW k \in T PROVE k \div 10 \in D /\ k \div 10 < k
  OBVIOUS
<1>4. p \in [T -> D] /\ \A k \in T : m[p[k]] < m[k]
  BY <1>3
<1>5. B \in [D -> X]
  <2>1. ASSUME NEW k \in D, k < 10 PROVE <<48 + k>> \in Seq(Numerals)
    <3>1. 48 + k \in Numerals
      BY <2>1 DEF Numerals
    <3>2. QED
      BY <3>1
  <2>2. QED
    BY <2>1
<1>6. F \in [T -> [X -> X]]
  <2>1. ASSUME NEW k \in T, NEW v \in X PROVE Append(v, 48 + (k % 10)) \in X
    <3>1. 48 + (k % 10) \in Numerals
      BY DEF Numerals
    <3>2. QED
      BY <3>1
  <2> HIDE DEF X
  <2>2. QED
    BY <2>1
<1> HIDE DEF m, p, B, F, X, T
<1>7. PICK f : Recurs(f, D, X, T, p, B, F)
  BY <1>2, <1>4, <1>5, <1>6, RecursionExists, Zenon
<1>8. f \in [D -> X]
  BY <1>7 DEF Recurs
<1>9. ASSUME NEW k \in D
      PROVE  f[k] = IF k < 10 THEN <<48 + k>> ELSE Append(f[k \div 10], 48 + (k % 10))
  <2>1. CASE k < 10
    <3>1. f[k] = B[k]
      BY <1>7, <2>1 DEF Recurs, T
    <3>2. QED
      BY <2>1, <3>1 DEF B
  <2>2. CASE ~(k < 10)
    <3>1. k \in T
      BY <2>2 DEF T
    <3>2. f[k] = F[k][f[p[k]]] /\ p[k] = k \div 10
      BY <1>7, <3>1 DEF Recurs, p
    <3>3. f[k \div 10] \in X
      BY <1>3, <1>8, <3>1
    <3>4. QED
      BY <2>2, <3>1, <3>2, <3>3 DEF F
  <2>3. QED
    BY <2>1, <2>2
<1>10. f = [k \in 0 .. n |->
              IF k < 10 THEN <<48 + k>> ELSE Append(f[k \div 10], 48 + (k % 10))]
  BY <1>8, <1>9
<1>11. digits = [k \in 0 .. n |->
              IF k < 10 THEN <<48 + k>> ELSE Append(digits[k \div 10], 48 + (k % 10))]
  BY <1>10, Zenon DEF digits
<1> HIDE DEF D
<1>12. ASSUME NEW k \in 0 .. n
       PROVE  digits[k] = IF k < 10 THEN <<48 + k>> ELSE Append(digits[k \div 10], 48 + (k % 10))
  BY <1>11, Zenon
<1>13. QED
  BY <1>1, <1>12, Zenon DEF Written

(* A number that is written in decimal is read back: header number of      *)
(* ppm.rs.                                                                 *)
LEMMA NumbersSurvive ==
  ASSUME NEW n \in Nat
  PROVE  Digits(n) \in Seq(Numerals) /\ Digits(n) # <<>> /\ Value(Digits(n)) = n
<1>1. PICK d : Written(d, n)
  BY DigitsRun
<1> DEFINE P(k) == d[k] \in Seq(Numerals) /\ d[k] # <<>> /\ Value(d[k]) = k
           S == {k \in 0 .. n : \A j \in 0 .. k : P(j)}
<1>2. ASSUME NEW k \in 0 .. n, \A j \in 0 .. k - 1 : P(j)
      PROVE  P(k)
  <2>1. CASE k < 10
    <3>1. d[k] = <<48 + k>>
      BY <1>1, <2>1, Zenon DEF Written
    <3>2. PICK c \in Numerals : c = 48 + k /\ c - 48 = k
      BY <2>1 DEF Numerals
    <3>3. Value(<<c>>) = c - 48
      BY OneDigit
    <3>4. <<c>> \in Seq(Numerals) /\ <<c>> # <<>>
      OBVIOUS
    <3>5. QED
      BY <3>1, <3>2, <3>3, <3>4
  <2>2. CASE ~(k < 10)
    <3>1. PICK j \in 0 .. k - 1, c \in Numerals : j = k \div 10 /\ c = 48 + (k % 10) /\ 10 * j + c - 48 = k
      BY <2>2 DEF Numerals
    <3>2. P(j)
      BY <1>2
    <3>3. d[k] = Append(d[j], c)
      BY <1>1, <2>2, <3>1 DEF Written
    <3>4. Value(Append(d[j], c)) = 10 * Value(d[j]) + c - 48
      BY <3>2, OneMoreDigit
    <3>5. Append(d[j], c) \in Seq(Numerals) /\ Append(d[j], c) # <<>>
      BY <3>2
    <3>6. Value(d[k]) = k
      BY <3>1, <3>2, <3>3, <3>4
    <3>7. QED
      BY <3>3, <3>5, <3>6
  <2>3. QED
    BY <2>1, <2>2
<1> HIDE DEF P
<1>3. 0 \in S
  BY <1>2
<1>4. ASSUME NEW k \in 0 .. n - 1, k \in S PROVE k + 1 \in S
  <2>1. \A j \in 0 .. k + 1 - 1 : P(j)
    BY <1>4
  <2>2. P(k + 1)
    BY <1>2, <2>1
  <2>3. QED
    BY <2>1, <2>2
<1> HIDE DEF S
<1>5. 0 .. n \subseteq S
  BY <1>3, <1>4, UpTo
<1>6. n \in S
  BY <1>5
<1>7. P(n)
  BY <1>6 DEF S
<1>8. QED
  BY <1>1, <1>7 DEF P, Written

(* The number that a token spells is the value of its digits.              *)
LEMMA NumberIsValue ==
  ASSUME NEW n \in Nat
  PROVE  Number(Digits(n)) = n
<1>1. Digits(n) \in Seq(Numerals) /\ Digits(n) # <<>> /\ Value(Digits(n)) = n
  BY NumbersSurvive
<1>2. PICK s : s = Digits(n)
  OBVIOUS
<1>3. ~(s = <<>> \/ \E i \in DOMAIN s : s[i] \notin 48 .. 57)
  BY <1>1, <1>2 DEF Numerals
<1>4. Number(s) = Value(s)
  BY <1>3, Zenon DEF Number, Value
<1>5. QED
  BY <1>1, <1>2, <1>4

-----------------------------------------------------------------------------
(* Tokens of a PPM header.                                                 *)

(* Next_ returns a place not before pos, and one in S when it is not the   *)
(* end.                                                                    *)
LEMMA NextInside ==
  ASSUME NEW b \in Seq(Byte), NEW pos \in 1 .. Len(b) + 1, NEW S
  PROVE  /\ Next_(b, pos, S) \in pos .. Len(b) + 1
         /\ Next_(b, pos, S) <= Len(b) => b[Next_(b, pos, S)] \in S
<1> DEFINE C == {i \in pos .. Len(b) : b[i] \in S} \cup {Len(b) + 1}
<1>1. PICK n \in Nat : n = Len(b) + 1
  OBVIOUS
<1>2. C \in SUBSET (1 .. n) /\ C # {}
  BY <1>1
<1> HIDE DEF C
<1>3. Min(C) \in C
  BY <1>2, NaturalsBelow
<1>4. PICK k \in C : k = Min(C)
  BY <1>3
<1>5. k \in pos .. Len(b) + 1 /\ (k <= Len(b) => b[k] \in S)
  BY DEF C
<1>6. Next_(b, pos, S) = k
  BY <1>4, Zenon DEF Next_, C
<1>7. QED
  BY <1>5, <1>6, Zenon

(* Next_ returns the first place in S, or the place after the end.         *)
LEMMA NextIs ==
  ASSUME NEW b \in Seq(Byte), NEW pos \in 1 .. Len(b) + 1, NEW S,
         NEW at \in pos .. Len(b) + 1, at <= Len(b) => b[at] \in S,
         \A i \in pos .. at - 1 : b[i] \notin S
  PROVE  Next_(b, pos, S) = at
<1> DEFINE C == {i \in pos .. Len(b) : b[i] \in S} \cup {Len(b) + 1}
<1>1. PICK n \in Nat : n = Len(b) + 1
  OBVIOUS
<1>2. C \in SUBSET (1 .. n) /\ C # {}
  BY <1>1
<1>3. at \in C /\ \A i \in C : at <= i
  OBVIOUS
<1> HIDE DEF C
<1>4. Min(C) \in C /\ \A i \in C : Min(C) <= i
  BY <1>2, NaturalsBelow
<1>5. PICK k \in 1 .. n : k = Min(C)
  BY <1>2, <1>4
<1>6. k \in C /\ k <= at /\ at <= k
  BY <1>3, <1>4, <1>5
<1>7. k = at
  BY <1>6
<1>8. QED
  BY <1>5, <1>7, Zenon DEF Next_, C

(* Where a token starts: behind the white space, and behind a comment if   *)
(* one is there.                                                           *)
TokenStep(b) ==
  \A i \in 1 .. Len(b) + 1 :
    LET start == Next_(b, i, Byte \ White)
    IN TokenStart(b, i) =
         IF start <= Len(b) /\ b[start] = Hash
         THEN TokenStart(b, Next_(b, start, {Newline})) ELSE start

(* The scan of comments and white space ends, at a place of the file or    *)
(* its end.                                                                *)
LEMMA TokenStarts ==
  ASSUME NEW b \in Seq(Byte)
  PROVE  TokenStep(b) /\ \A i \in 1 .. Len(b) + 1 : TokenStart(b, i) \in 1 .. Len(b) + 1
<1> DEFINE D == 1 .. Len(b) + 1
           start(i) == Next_(b, i, Byte \ White)
           T == {i \in D : start(i) <= Len(b) /\ b[start(i)] = Hash}
           p == [i \in T |-> Next_(b, start(i), {Newline})]
           m == [i \in D |-> Len(b) + 1 - i]
           base == [i \in D |-> start(i)]
           F == [i \in T |-> [x \in D |-> x]]
           skip == CHOOSE f : f = [i \in 1 .. Len(b) + 1 |->
                     LET s == Next_(b, i, Byte \ White)
                     IN IF s <= Len(b) /\ b[s] = Hash
                        THEN f[Next_(b, s, {Newline})] ELSE s]
<1>0. \A i : TokenStart(b, i) = skip[i]
  BY DEF TokenStart
<1>1. ASSUME NEW i \in D PROVE start(i) \in i .. Len(b) + 1 /\ start(i) \in D
  <2>1. start(i) \in i .. Len(b) + 1
    BY NextInside
  <2> HIDE DEF start
  <2>2. QED
    BY <2>1
<1> HIDE DEF skip
<1>2. ASSUME NEW i \in T PROVE p[i] \in D /\ p[i] > i
  <2>1. PICK s \in i .. Len(b) + 1 : s = start(i)
    BY <1>1
  <2>2. s <= Len(b) /\ b[s] = Hash /\ p[i] = Next_(b, s, {Newline})
    BY <2>1
  <2>3. PICK q : q = Next_(b, s, {Newline})
    OBVIOUS
  <2>4. q \in s .. Len(b) + 1 /\ (q <= Len(b) => b[q] \in {Newline})
    BY <2>3, NextInside
  <2>5. q # s
    BY <2>2, <2>4 DEF Hash, Newline
  <2> HIDE DEF start, p
  <2>6. QED
    BY <2>2, <2>3, <2>4, <2>5
<1>3. T \in SUBSET D
  OBVIOUS
<1>4. p \in [T -> D]
  <2>1. p = [i \in T |-> p[i]]
    OBVIOUS
  <2> HIDE DEF p, D, T
  <2>2. QED
    BY <1>2, <2>1
<1>5. m \in [D -> 0 .. Len(b)] /\ Len(b) \in Nat
  OBVIOUS
<1>6. \A i \in T : m[p[i]] < m[i]
  <2> SUFFICES ASSUME NEW i \in T PROVE m[p[i]] < m[i]
    OBVIOUS
  <2>1. PICK q \in D : q = p[i] /\ q > i /\ i \in D
    BY <1>2
  <2> HIDE DEF p, T
  <2>2. QED
    BY <2>1
<1>7. base \in [D -> D] /\ F \in [T -> [D -> D]]
  <2> HIDE DEF start
  <2>1. QED
    BY <1>1
<1> HIDE DEF m, p, base, F, T, start, D
<1>8. PICK f : Recurs(f, D, D, T, p, base, F)
  BY <1>3, <1>4, <1>5, <1>6, <1>7, RecursionExists, Zenon
<1>9. ASSUME NEW i \in D
      PROVE  f[i] = LET s == Next_(b, i, Byte \ White)
                    IN IF s <= Len(b) /\ b[s] = Hash
                       THEN f[Next_(b, s, {Newline})] ELSE s
  <2>1. CASE i \in T
    <3>1. f[i] = F[i][f[p[i]]]
      BY <1>8, <2>1 DEF Recurs
    <3>2. p[i] \in D /\ f[p[i]] \in D
      BY <1>4, <1>8, <2>1 DEF Recurs
    <3>3. f[i] = f[p[i]]
      BY <2>1, <3>1, <3>2 DEF F
    <3>4. QED
      BY <2>1, <3>3 DEF T, p, start
  <2>2. CASE i \notin T
    <3>1. f[i] = base[i]
      BY <1>8, <2>2 DEF Recurs
    <3>2. QED
      BY <2>2, <3>1 DEF base, T, start
  <2>3. QED
    BY <2>1, <2>2
<1>10. f = [i \in 1 .. Len(b) + 1 |->
              LET s == Next_(b, i, Byte \ White)
              IN IF s <= Len(b) /\ b[s] = Hash
                 THEN f[Next_(b, s, {Newline})] ELSE s]
  BY <1>8, <1>9 DEF Recurs, D
<1>11. skip = [i \in 1 .. Len(b) + 1 |->
              LET s == Next_(b, i, Byte \ White)
              IN IF s <= Len(b) /\ b[s] = Hash
                 THEN skip[Next_(b, s, {Newline})] ELSE s]
  BY <1>10, Zenon DEF skip
<1>12. TokenStep(b)
  BY <1>0, <1>11, Zenon DEF TokenStep
<1>13. \A i \in D : skip[i] \in D
  <2> DEFINE S == {k \in Nat : k \in 0 .. Len(b) /\ \A j \in 0 .. k : skip[Len(b) + 1 - j] \in D}
  <2>1. ASSUME NEW i \in D, \A j \in D : j > i => skip[j] \in D PROVE skip[i] \in D
    <3>1. CASE i \in T
      <4>1. skip[i] = skip[p[i]]
        BY <1>11, <3>1 DEF T, p, start, D
      <4>2. QED
        BY <1>2, <2>1, <3>1, <4>1
    <3>2. CASE i \notin T
      <4>1. skip[i] = start(i)
        BY <1>11, <3>2 DEF T, start, D
      <4>2. QED
        BY <1>1, <4>1
    <3>3. QED
      BY <3>1, <3>2
  <2>2. 0 \in S
    <3>1. Len(b) + 1 \in D /\ \A j \in D : ~(j > Len(b) + 1)
      BY DEF D
    <3>2. QED
      BY <2>1, <3>1
  <2>3. ASSUME NEW k \in 0 .. Len(b) - 1, k \in S PROVE k + 1 \in S
    <3>1. PICK i \in D : i = Len(b) + 1 - (k + 1)
      BY DEF D
    <3>2. ASSUME NEW j \in D, j > i PROVE skip[j] \in D
      <4>1. PICK u \in 0 .. k : j = Len(b) + 1 - u
        BY <3>1, <3>2 DEF D
      <4>2. QED
        BY <2>3, <4>1
    <3>3. skip[i] \in D
      BY <2>1, <3>2
    <3>4. \A j \in 0 .. k + 1 : j \in 0 .. k \/ j = k + 1
      OBVIOUS
    <3>5. QED
      BY <2>3, <3>1, <3>3, <3>4
  <2> HIDE DEF S
  <2>4. 0 .. Len(b) \subseteq S
    BY <2>2, <2>3, UpTo
  <2>5. Len(b) \in S
    BY <2>4
  <2>6. \A j \in 0 .. Len(b) : skip[Len(b) + 1 - j] \in D
    BY <2>5 DEF S
  <2>7. ASSUME NEW i \in D PROVE skip[i] \in D
    <3>1. PICK n \in Nat : n = Len(b)
      OBVIOUS
    <3>2. i \in Nat /\ i >= 1 /\ i <= n + 1
      BY <3>1 DEF D
    <3>3. PICK u : u = n + 1 - i
      OBVIOUS
    <3>4. u \in 0 .. n /\ i = n + 1 - u
      BY <3>2, <3>3
    <3>5. QED
      BY <2>6, <3>1, <3>4
  <2>8. QED
    BY <2>7
<1>14. QED
  BY <1>0, <1>12, <1>13 DEF D

(* t is the four tokens at the front of b, each with its two ends.         *)
SomeTokens(b, t) ==
  LET from(n) == TokenStart(b, IF n = 1 THEN 1 ELSE t[n - 1][2])
  IN /\ Tokens(b) = t
     /\ t \in Seq((1 .. Len(b) + 1) \X (1 .. Len(b) + 1)) /\ Len(t) = 4
     /\ \A n \in 1 .. 4 : t[n] = <<from(n), Next_(b, from(n), White)>>

(* t is s with e behind it.                                                *)
OneLonger(t, s, e) ==
  /\ Len(t) = Len(s) + 1 /\ t[Len(s) + 1] = e
  /\ \A i \in 1 .. Len(s) : t[i] = s[i]

(* Append puts one element behind a sequence.                              *)
LEMMA Grown ==
  ASSUME NEW Q, NEW s \in Seq(Q), NEW e \in Q
  PROVE  Append(s, e) \in Seq(Q) /\ OneLonger(Append(s, e), s, e)
  BY DEF OneLonger

(* One element appended to a pair's first.                                 *)
LEMMA SecondAppended ==
  ASSUME NEW Q, NEW a \in Q, NEW b \in Q
  PROVE  Append(<<a>>, b) = <<a, b>>
<1>1. PICK s : s = <<a>>
  OBVIOUS
<1>2. s \in Seq(Q) /\ Len(s) = 1 /\ s[1] = a
  BY <1>1
<1>3. PICK n \in Nat : n = Len(s) /\ n = 1
  BY <1>2
<1>4. PICK t : t = Append(s, b)
  OBVIOUS
<1>5. t \in Seq(Q)
  BY <1>2, <1>4
<1>6. Len(t) = n + 1 /\ t[n + 1] = b /\ \A i \in 1 .. n : t[i] = s[i]
  <2>1. s \in Seq(Q)
    BY <1>2
  <2>2. OneLonger(t, s, b)
    BY <1>4, <2>1, Grown, Zenon
  <2>3. QED
    BY <1>3, <2>2 DEF OneLonger
<1>7. Len(t) = 2 /\ t[1] = a /\ t[2] = b
  BY <1>2, <1>3, <1>6
<1>8. t = <<a, b>>
  BY <1>5, <1>7
<1>9. QED
  BY <1>1, <1>4, <1>8, Zenon

(* One element appended to a pair.                                         *)
LEMMA ThirdAppended ==
  ASSUME NEW Q, NEW a \in Q, NEW b \in Q, NEW c \in Q
  PROVE  Append(<<a, b>>, c) = <<a, b, c>>
<1>1. PICK s : s = <<a, b>>
  OBVIOUS
<1>2. s \in Seq(Q) /\ Len(s) = 2 /\ s[1] = a /\ s[2] = b
  BY <1>1
<1>3. PICK n \in Nat : n = Len(s) /\ n = 2
  BY <1>2
<1>4. PICK t : t = Append(s, c)
  OBVIOUS
<1>5. t \in Seq(Q)
  BY <1>2, <1>4
<1>6. Len(t) = n + 1 /\ t[n + 1] = c /\ \A i \in 1 .. n : t[i] = s[i]
  <2>1. s \in Seq(Q)
    BY <1>2
  <2>2. OneLonger(t, s, c)
    BY <1>4, <2>1, Grown, Zenon
  <2>3. QED
    BY <1>3, <2>2 DEF OneLonger
<1>7. Len(t) = 3 /\ t[1] = a /\ t[2] = b /\ t[3] = c
  BY <1>2, <1>3, <1>6
<1>8. t = <<a, b, c>>
  BY <1>5, <1>7
<1>9. QED
  BY <1>1, <1>4, <1>8, Zenon

(* One element appended to a triple.                                       *)
LEMMA FourthAppended ==
  ASSUME NEW Q, NEW a \in Q, NEW b \in Q, NEW c \in Q, NEW d \in Q
  PROVE  Append(<<a, b, c>>, d) = <<a, b, c, d>>
<1>1. PICK s : s = <<a, b, c>>
  OBVIOUS
<1>2. s \in Seq(Q) /\ Len(s) = 3 /\ s[1] = a /\ s[2] = b /\ s[3] = c
  BY <1>1
<1>3. PICK n \in Nat : n = Len(s) /\ n = 3
  BY <1>2
<1>4. PICK t : t = Append(s, d)
  OBVIOUS
<1>5. t \in Seq(Q)
  BY <1>2, <1>4
<1>6. Len(t) = n + 1 /\ t[n + 1] = d /\ \A i \in 1 .. n : t[i] = s[i]
  <2>1. s \in Seq(Q)
    BY <1>2
  <2>2. OneLonger(t, s, d)
    BY <1>4, <2>1, Grown, Zenon
  <2>3. QED
    BY <1>3, <2>2 DEF OneLonger
<1>7. Len(t) = 4 /\ t[1] = a /\ t[2] = b /\ t[3] = c /\ t[4] = d
  BY <1>2, <1>3, <1>6
<1>8. t = <<a, b, c, d>>
  BY <1>5, <1>7
<1>9. QED
  BY <1>1, <1>4, <1>8, Zenon

(* Four elements appended to nothing, one by one, with their last ones.    *)
LEMMA FourAppended ==
  ASSUME NEW Q, NEW a \in Q, NEW b \in Q, NEW c \in Q, NEW d \in Q
  PROVE  /\ Append(<<>>, a) = <<a>> /\ Append(<<a>>, b) = <<a, b>>
         /\ Append(<<a, b>>, c) = <<a, b, c>> /\ Append(<<a, b, c>>, d) = <<a, b, c, d>>
         /\ <<a>> # <<>> /\ <<a, b>> # <<>> /\ <<a, b, c>> # <<>>
         /\ Last(<<a>>) = a /\ Last(<<a, b>>) = b /\ Last(<<a, b, c>>) = c
         /\ <<a, b, c, d>> \in Seq(Q) /\ Len(<<a, b, c, d>>) = 4
<1>1. Append(<<a>>, b) = <<a, b>>
  BY SecondAppended
<1>2. Append(<<a, b>>, c) = <<a, b, c>>
  BY ThirdAppended
<1>3. Append(<<a, b, c>>, d) = <<a, b, c, d>>
  BY FourthAppended
<1>8. Append(<<>>, a) = <<a>>
  OBVIOUS
<1>9. Last(<<a>>) = a /\ Last(<<a, b>>) = b /\ Last(<<a, b, c>>) = c
  BY DEF Last
<1>10. <<a, b, c, d>> \in Seq(Q) /\ Len(<<a, b, c, d>>) = 4
  OBVIOUS
<1>11. <<a>> # <<>> /\ <<a, b>> # <<>> /\ <<a, b, c>> # <<>>
  OBVIOUS
<1>12. QED
  BY <1>1, <1>2, <1>3, <1>8, <1>9, <1>10, <1>11, Zenon

(* The fold of read_ppm over its four tokens finds each behind the last.   *)
LEMMA TokensRun ==
  ASSUME NEW b \in Seq(Byte)
  PROVE  \E t : SomeTokens(b, t)
<1> DEFINE P == 1 .. Len(b) + 1
           X == Seq(P \X P)
           from(v) == TokenStart(b, IF v = <<>> THEN 1 ELSE Last(v)[2])
           op(v) == Append(v, <<from(v), Next_(b, from(v), White)>>)
           F == [n \in 1 .. 4 |-> [v \in X |-> op(v)]]
           s == <<1, 2, 3, 4>>
           iter == CHOOSE f : f = [S \in SUBSET (1 .. 4) |->
                     IF S = {} THEN <<>>
                     ELSE Append(f[S \ {Max(S)}],
                       <<TokenStart(b, IF f[S \ {Max(S)}] = <<>> THEN 1 ELSE Last(f[S \ {Max(S)}])[2]),
                         Next_(b, TokenStart(b, IF f[S \ {Max(S)}] = <<>> THEN 1 ELSE Last(f[S \ {Max(S)}])[2]), White)>>)]
<1>1. DOMAIN <<1, 2, 3, 4>> = 1 .. 4
  OBVIOUS
<1>2. Tokens(b) = iter[1 .. 4]
  BY <1>1, Zenon DEF Tokens, FoldLeft, MapThenFoldSet
<1> HIDE DEF iter
<1>3. ASSUME NEW v \in X PROVE op(v) \in X /\ from(v) \in P
  <2>1. (IF v = <<>> THEN 1 ELSE Last(v)[2]) \in P
    <3>1. CASE v = <<>>
      BY <3>1
    <3>2. CASE v # <<>>
      <4>1. Last(v) \in P \X P
        BY <3>2 DEF Last
      <4>2. QED
        BY <3>2, <4>1
    <3>3. QED
      BY <3>1, <3>2
  <2>2. from(v) \in P
    <3>1. PICK q \in P : q = IF v = <<>> THEN 1 ELSE Last(v)[2]
      BY <2>1
    <3>2. TokenStart(b, q) \in P
      BY TokenStarts
    <3>3. QED
      BY <3>1, <3>2, Zenon
  <2>3. Next_(b, from(v), White) \in P
    <3>1. PICK q \in P : q = from(v)
      BY <2>2
    <3>2. Next_(b, q, White) \in q .. Len(b) + 1
      BY NextInside
    <3>3. Next_(b, q, White) \in P
      BY <3>2
    <3>4. QED
      BY <3>1, <3>3, Zenon
  <2> HIDE DEF from
  <2>4. <<from(v), Next_(b, from(v), White)>> \in P \X P
    BY <2>2, <2>3
  <2> HIDE DEF P
  <2>5. QED
    BY <2>2, <2>4
<1>4. F \in [1 .. 4 -> [X -> X]] /\ <<>> \in X
  <2> HIDE DEF X, op
  <2>1. F \in [1 .. 4 -> [X -> X]]
    BY <1>3
  <2>2. <<>> \in X
    BY DEF X
  <2>3. QED
    BY <2>1, <2>2
<1> HIDE DEF F, X, P, op, from
<1>5. PICK f : FoldsOver(f, 4, X, <<>>, F)
  <2>1. 4 \in Nat
    OBVIOUS
  <2>2. QED
    BY <1>4, <2>1, FoldExists, Zenon
<1>6. ASSUME NEW S \in SUBSET (1 .. 4)
      PROVE  f[S] = IF S = {} THEN <<>> ELSE op(f[S \ {Max(S)}])
  <2>1. CASE S # {}
    <3>1. Max(S) \in 1 .. 4 /\ S \ {Max(S)} \in SUBSET (1 .. 4)
      BY <2>1, NaturalsBelow
    <3>2. f[S] = F[Max(S)][f[S \ {Max(S)}]] /\ f[S \ {Max(S)}] \in X
      BY <1>5, <2>1, <3>1 DEF FoldsOver
    <3>3. QED
      BY <2>1, <3>1, <3>2 DEF F
  <2>2. QED
    BY <1>5, <2>1 DEF FoldsOver
<1>7. f = [S \in SUBSET (1 .. 4) |->
                     IF S = {} THEN <<>>
                     ELSE Append(f[S \ {Max(S)}],
                       <<TokenStart(b, IF f[S \ {Max(S)}] = <<>> THEN 1 ELSE Last(f[S \ {Max(S)}])[2]),
                         Next_(b, TokenStart(b, IF f[S \ {Max(S)}] = <<>> THEN 1 ELSE Last(f[S \ {Max(S)}])[2]), White)>>)]
  <2>1. f = [S \in SUBSET (1 .. 4) |-> f[S]]
    BY <1>5 DEF FoldsOver
  <2>2. QED
    BY <1>6, <2>1, Zenon DEF op, from
<1>8. iter = [S \in SUBSET (1 .. 4) |->
                     IF S = {} THEN <<>>
                     ELSE Append(iter[S \ {Max(S)}],
                       <<TokenStart(b, IF iter[S \ {Max(S)}] = <<>> THEN 1 ELSE Last(iter[S \ {Max(S)}])[2]),
                         Next_(b, TokenStart(b, IF iter[S \ {Max(S)}] = <<>> THEN 1 ELSE Last(iter[S \ {Max(S)}])[2]), White)>>)]
  BY <1>7, Zenon DEF iter
<1>9. ASSUME NEW S \in SUBSET (1 .. 4)
      PROVE  iter[S] = IF S = {} THEN <<>> ELSE op(iter[S \ {Max(S)}])
  BY <1>8, Zenon DEF op, from
<1>10. iter[1 .. 0] = <<>>
  <2>1. 1 .. 0 = {} /\ {} \in SUBSET (1 .. 4)
    OBVIOUS
  <2>2. QED
    BY <1>9, <2>1, Zenon
<1>11. ASSUME NEW k \in 1 .. 4 PROVE iter[1 .. k] = op(iter[1 .. k - 1])
  <2>1. 1 .. k \in SUBSET (1 .. 4)
    OBVIOUS
  <2>2. k \in Nat /\ k > 0
    OBVIOUS
  <2>3. Max(1 .. k) = k /\ (1 .. k) \ {k} = 1 .. k - 1 /\ 1 .. k # {}
    BY <2>2, Initials
  <2>4. QED
    BY <1>9, <2>1, <2>3, Zenon
<1> DEFINE r(k) == iter[1 .. k]
           pair(v) == <<from(v), Next_(b, from(v), White)>>
<1>12. /\ r(0) = <<>> /\ r(1) = op(r(0)) /\ r(2) = op(r(1))
       /\ r(3) = op(r(2)) /\ r(4) = op(r(3)) /\ Tokens(b) = r(4)
  <2>1. 1 - 1 = 0 /\ 2 - 1 = 1 /\ 3 - 1 = 2 /\ 4 - 1 = 3 /\ 1 \in 1 .. 4 /\ 2 \in 1 .. 4 /\ 3 \in 1 .. 4 /\ 4 \in 1 .. 4
    OBVIOUS
  <2>2. r(1) = op(r(0)) /\ r(2) = op(r(1)) /\ r(3) = op(r(2)) /\ r(4) = op(r(3))
    BY <1>11, <2>1, Zenon
  <2>3. QED
    BY <1>2, <1>10, <2>2, Zenon
<1> HIDE DEF r
<1>13. r(0) \in X /\ r(1) \in X /\ r(2) \in X /\ r(3) \in X /\ r(4) \in X
  BY <1>3, <1>4, <1>12
<1>14. \A v \in X : op(v) = Append(v, pair(v)) /\ pair(v) \in P \X P
  <2> SUFFICES ASSUME NEW v \in X PROVE op(v) = Append(v, pair(v)) /\ pair(v) \in P \X P
    OBVIOUS
  <2>1. op(v) = Append(v, pair(v))
    BY Zenon DEF op
  <2>2. from(v) \in P
    BY <1>3
  <2>3. Next_(b, from(v), White) \in P
    <3>1. PICK q \in P : q = from(v)
      BY <2>2
    <3>2. Next_(b, q, White) \in q .. Len(b) + 1
      BY NextInside DEF P
    <3>3. Next_(b, q, White) \in P
      BY <3>2 DEF P
    <3>4. QED
      BY <3>1, <3>3, Zenon
  <2>4. QED
    BY <2>1, <2>2, <2>3
<1> HIDE DEF pair
<1>15. PICK p0 \in P \X P, p1 \in P \X P, p2 \in P \X P, p3 \in P \X P :
         p0 = pair(r(0)) /\ p1 = pair(r(1)) /\ p2 = pair(r(2)) /\ p3 = pair(r(3))
  BY <1>13, <1>14
<1> DEFINE Q == P \X P
<1>16. /\ Append(<<>>, p0) = <<p0>> /\ Append(<<p0>>, p1) = <<p0, p1>>
        /\ Append(<<p0, p1>>, p2) = <<p0, p1, p2>> /\ Append(<<p0, p1, p2>>, p3) = <<p0, p1, p2, p3>>
        /\ <<p0>> # <<>> /\ <<p0, p1>> # <<>> /\ <<p0, p1, p2>> # <<>>
        /\ Last(<<p0>>) = p0 /\ Last(<<p0, p1>>) = p1 /\ Last(<<p0, p1, p2>>) = p2
        /\ <<p0, p1, p2, p3>> \in Seq(Q) /\ Len(<<p0, p1, p2, p3>>) = 4
  <2>1. p0 \in Q /\ p1 \in Q /\ p2 \in Q /\ p3 \in Q
    OBVIOUS
  <2> HIDE DEF Q
  <2>2. QED
    BY <2>1, FourAppended
<1>17. r(1) = <<p0>> /\ r(2) = <<p0, p1>> /\ r(3) = <<p0, p1, p2>> /\ r(4) = <<p0, p1, p2, p3>>
  <2>1. r(1) = Append(<<>>, p0) /\ r(2) = Append(r(1), p1) /\ r(3) = Append(r(2), p2) /\ r(4) = Append(r(3), p3)
    BY <1>12, <1>13, <1>14, <1>15, Zenon
  <2>2. QED
    BY <2>1, <1>16, Zenon
<1> DEFINE t == r(4)
           after(n) == TokenStart(b, IF n = 1 THEN 1 ELSE t[n - 1][2])
<1>18. from(r(0)) = TokenStart(b, 1)
  BY <1>12, Zenon DEF from
<1>19. from(r(1)) = TokenStart(b, p0[2]) /\ from(r(2)) = TokenStart(b, p1[2]) /\ from(r(3)) = TokenStart(b, p2[2])
  <2>1. r(1) # <<>> /\ Last(r(1)) = p0 /\ r(2) # <<>> /\ Last(r(2)) = p1 /\ r(3) # <<>> /\ Last(r(3)) = p2
    BY <1>16, <1>17, Zenon
  <2>2. QED
    BY <2>1, Zenon DEF from
<1>20. /\ t[1] = <<after(1), Next_(b, after(1), White)>>
       /\ t[2] = <<after(2), Next_(b, after(2), White)>>
       /\ t[3] = <<after(3), Next_(b, after(3), White)>>
       /\ t[4] = <<after(4), Next_(b, after(4), White)>>
  <2>1. t[1] = p0 /\ t[2] = p1 /\ t[3] = p2 /\ t[4] = p3
    BY <1>17
  <2>2. after(1) = from(r(0)) /\ after(2) = from(r(1)) /\ after(3) = from(r(2)) /\ after(4) = from(r(3))
    <3>1. 2 - 1 = 1 /\ 3 - 1 = 2 /\ 4 - 1 = 3 /\ 2 # 1 /\ 3 # 1 /\ 4 # 1
      OBVIOUS
    <3>2. QED
      BY <1>18, <1>19, <2>1, <3>1, Zenon
  <2>3. QED
    BY <1>15, <2>1, <2>2, Zenon DEF pair
<1>21. SomeTokens(b, t)
  <2>1. t \in Seq(P \X P) /\ Len(t) = 4
    BY <1>16, <1>17, Zenon
  <2>2. \A n \in 1 .. 4 : t[n] = <<after(n), Next_(b, after(n), White)>>
    <3>1. \A n \in 1 .. 4 : n = 1 \/ n = 2 \/ n = 3 \/ n = 4
      OBVIOUS
    <3> HIDE DEF t, after
    <3>2. QED
      BY <1>20, <3>1, Zenon
  <2> HIDE DEF t
  <2>3. QED
    BY <1>12, <2>1, <2>2, Zenon DEF SomeTokens, P, t
<1>22. QED
  BY <1>21

-----------------------------------------------------------------------------
(* PPM files.                                                              *)

(* Where the elements of two sequences are in their concatenation.         *)
LEMMA Joined ==
  ASSUME NEW Q, NEW s \in Seq(Q), NEW t \in Seq(Q)
  PROVE  /\ s \o t \in Seq(Q) /\ Len(s \o t) = Len(s) + Len(t)
         /\ \A i \in 1 .. Len(s) : (s \o t)[i] = s[i]
         /\ \A i \in 1 .. Len(t) : (s \o t)[Len(s) + i] = t[i]
  OBVIOUS

(* Two equal elements appended to a sequence of one.                       *)
LEMMA TwoAppended ==
  ASSUME NEW Q, NEW a \in Q, NEW c \in Q
  PROVE  Append(<<a>>, c) = <<a, c>> /\ Append(<<a, c>>, c) = <<a, c, c>>
<1>1. Append(<<a>>, c) = <<a, c>>
  BY SecondAppended
<1>2. Append(<<a, c>>, c) = <<a, c, c>>
  BY ThirdAppended
<1>3. QED
  BY <1>1, <1>2

(* The greatest sample is written 255.                                     *)
LEMMA LimitInDigits == Digits(255) = <<50, 53, 53>>
<1>1. PICK d : Written(d, 255)
  BY DigitsRun
<1>2. \A k \in 0 .. 255 : d[k] = IF k < 10 THEN <<48 + k>> ELSE Append(d[k \div 10], 48 + (k % 10))
  BY <1>1, Zenon DEF Written
<1>3. PICK a \in Nat, c \in Nat : a = 50 /\ c = 53
  OBVIOUS
<1>4. /\ 255 \in 0 .. 255 /\ 25 \in 0 .. 255 /\ 2 \in 0 .. 255
      /\ ~(255 < 10) /\ ~(25 < 10) /\ 2 < 10
      /\ 255 \div 10 = 25 /\ 255 % 10 = 5 /\ 25 \div 10 = 2 /\ 25 % 10 = 5
      /\ 48 + 5 = c /\ 48 + 2 = a
  BY <1>3
<1>5. d[2] = <<a>> /\ d[25] = Append(d[2], c) /\ d[255] = Append(d[25], c)
  <2>1. \A k \in 0 .. 255 : k < 10 => d[k] = <<48 + k>>
    BY <1>2, Zenon
  <2>2. \A k \in 0 .. 255 : ~(k < 10) => d[k] = Append(d[k \div 10], 48 + (k % 10))
    BY <1>2, Zenon
  <2> HIDE <1>2
  <2>3. d[2] = <<48 + 2>>
    BY <1>4, <2>1, Zenon
  <2>4. d[25] = Append(d[25 \div 10], 48 + (25 % 10))
    BY <1>4, <2>2, Zenon
  <2>5. d[255] = Append(d[255 \div 10], 48 + (255 % 10))
    BY <1>4, <2>2, ZenonT(30)
  <2>6. QED
    BY <1>4, <2>3, <2>4, <2>5, ZenonT(30)
<1>6. Append(<<a>>, c) = <<a, c>> /\ Append(<<a, c>>, c) = <<a, c, c>>
  BY TwoAppended
<1>7. QED
  BY <1>1, <1>3, <1>5, <1>6, ZenonT(30) DEF Written

(* u is s and then t.                                                      *)
Joins(s, t, u) ==
  /\ s \in Seq(Byte) /\ t \in Seq(Byte) /\ u \in Seq(Byte)
  /\ Len(u) = Len(s) + Len(t)
  /\ \A i \in 1 .. Len(s) : u[i] = s[i]
  /\ \A i \in 1 .. Len(t) : u[Len(s) + i] = t[i]

(* Where the parts of the file are.                                        *)
Comments == {<<>>, <<32, Hash, 49, 32>>}

(* b is a file of write_ppm: the magic number, a comment of g bytes, the   *)
(* two numbers v and w in digits, 255, and data.                           *)
PpmParts(b, g, v, w, data) ==
  /\ b \in Seq(Byte)
  /\ Len(b) = 9 + g + Len(v) + Len(w) + Len(data)
  /\ b[1] = 80 /\ b[2] = 54
  /\ g \in {0, 4}
  /\ g = 4 => b[3] = 32 /\ b[4] = Hash /\ b[5] = 49 /\ b[6] = 32
  /\ b[3 + g] = Newline
  /\ \A i \in 1 .. Len(v) : b[3 + g + i] = v[i]
  /\ b[4 + g + Len(v)] = 32
  /\ \A i \in 1 .. Len(w) : b[4 + g + Len(v) + i] = w[i]
  /\ b[5 + g + Len(v) + Len(w)] = Newline
  /\ b[6 + g + Len(v) + Len(w)] = 50
  /\ b[7 + g + Len(v) + Len(w)] = 53
  /\ b[8 + g + Len(v) + Len(w)] = 53
  /\ b[9 + g + Len(v) + Len(w)] = Newline
  /\ \A i \in 1 .. Len(data) : b[9 + g + Len(v) + Len(w) + i] = data[i]

(* What write_ppm writes is laid out like that.                            *)
LEMMA HeaderLaidOut ==
  ASSUME NEW x \in Nat, NEW y \in Nat, NEW comment \in Comments, NEW data \in Seq(Byte)
  PROVE  PpmParts(PpmHeader(x, y, comment) \o data, Len(comment), Digits(x), Digits(y), data)
<1>1. PICK v \in Seq(Byte) : v = Digits(x)
  BY NumbersSurvive DEF Numerals, Byte
<1>2. PICK w \in Seq(Byte) : w = Digits(y)
  BY NumbersSurvive DEF Numerals, Byte
<1>3. PICK lim : lim = Digits(255)
  OBVIOUS
<1>4. lim \in Seq(Byte) /\ Len(lim) = 3 /\ lim[1] = 50 /\ lim[2] = 53 /\ lim[3] = 53
  <2>1. lim = <<50, 53, 53>>
    BY <1>3, LimitInDigits, Zenon
  <2>2. QED
    BY <2>1 DEF Byte
<1>5. PICK nl : nl = <<Newline>>
  OBVIOUS
<1>6. nl \in Seq(Byte) /\ Len(nl) = 1 /\ nl[1] = Newline
  BY <1>5 DEF Byte, Newline
<1>7. PICK sp : sp = <<32>>
  OBVIOUS
<1>8. sp \in Seq(Byte) /\ Len(sp) = 1 /\ sp[1] = 32
  BY <1>7 DEF Byte
<1>9. PICK mg : mg = Magic
  OBVIOUS
<1>10. mg \in Seq(Byte) /\ Len(mg) = 2 /\ mg[1] = 80 /\ mg[2] = 54
  BY <1>9 DEF Byte, Magic
<1>11. PICK g : g = Len(comment)
  OBVIOUS
<1>12. /\ comment \in Seq(Byte) /\ g \in {0, 4}
       /\ g = 4 => comment[1] = 32 /\ comment[2] = Hash /\ comment[3] = 49 /\ comment[4] = 32
  <2>1. CASE comment = <<>>
    BY <2>1, <1>11
  <2>2. CASE comment = <<32, Hash, 49, 32>>
    BY <2>2, <1>11 DEF Byte, Hash
  <2>3. QED
    BY <2>1, <2>2 DEF Comments
<1>13. PICK s1 : s1 = mg \o comment
  OBVIOUS
<1>14. PICK s2 : s2 = s1 \o nl
  OBVIOUS
<1>15. PICK s3 : s3 = s2 \o v
  OBVIOUS
<1>16. PICK s4 : s4 = s3 \o sp
  OBVIOUS
<1>17. PICK s5 : s5 = s4 \o w
  OBVIOUS
<1>18. PICK s6 : s6 = s5 \o nl
  OBVIOUS
<1>19. PICK s7 : s7 = s6 \o lim
  OBVIOUS
<1>20. PICK s8 : s8 = s7 \o nl
  OBVIOUS
<1>21. PICK b : b = s8 \o data
  OBVIOUS
<1>22. b = PpmHeader(x, y, comment) \o data
  BY <1>1, <1>2, <1>3, <1>5, <1>7, <1>9, <1>13, <1>14, <1>15, <1>16, <1>17, <1>18, <1>19,
     <1>20, <1>21, Zenon DEF PpmHeader
<1>23. \A s, t \in Seq(Byte) : Joins(s, t, s \o t)
  BY Joined DEF Joins
<1>24. \A s, t, u : Joins(s, t, u) => s \in Seq(Byte) /\ t \in Seq(Byte) /\ u \in Seq(Byte)
  BY DEF Joins
<1>25. Joins(mg, comment, s1) /\ Joins(s1, nl, s2) /\ Joins(s2, v, s3)
  BY <1>6, <1>10, <1>12, <1>13, <1>14, <1>15, <1>23, <1>24, Zenon
<1>26. Joins(s3, sp, s4) /\ Joins(s4, w, s5) /\ Joins(s5, nl, s6)
  BY <1>6, <1>8, <1>16, <1>17, <1>18, <1>23, <1>24, <1>25, Zenon
<1>27. Joins(s6, lim, s7) /\ Joins(s7, nl, s8) /\ Joins(s8, data, b)
  BY <1>4, <1>6, <1>19, <1>20, <1>21, <1>23, <1>24, <1>26, Zenon
<1>28. PICK n \in Nat, k \in Nat, m \in Nat :
         n = Len(v) /\ k = Len(w) /\ m = Len(data)
  OBVIOUS
<1>29. /\ Len(s1) = 2 + g /\ Len(s2) = 3 + g /\ Len(s3) = 3 + g + n /\ Len(s4) = 4 + g + n
       /\ Len(s5) = 4 + g + n + k /\ Len(s6) = 5 + g + n + k /\ Len(s7) = 8 + g + n + k
       /\ Len(s8) = 9 + g + n + k /\ Len(b) = 9 + g + n + k + m
  BY <1>4, <1>6, <1>8, <1>10, <1>11, <1>12, <1>25, <1>26, <1>27, <1>28 DEF Joins
<1> DEFINE Pre(s) == \A i \in 1 .. Len(s) : b[i] = s[i]
           At_(s, t) == \A i \in 1 .. Len(t) : b[Len(s) + i] = t[i]
<1>30. ASSUME NEW s, NEW t, NEW u, Joins(s, t, u), Pre(u)
       PROVE  Pre(s) /\ At_(s, t)
  <2>1. Len(s) \in Nat /\ Len(t) \in Nat /\ Len(u) = Len(s) + Len(t)
    BY <1>30 DEF Joins
  <2>2. ASSUME NEW i \in 1 .. Len(s) PROVE b[i] = s[i]
    <3>1. i \in 1 .. Len(u) /\ u[i] = s[i]
      BY <1>30, <2>1 DEF Joins
    <3>2. QED
      BY <1>30, <3>1
  <2>3. ASSUME NEW i \in 1 .. Len(t) PROVE b[Len(s) + i] = t[i]
    <3>1. Len(s) + i \in 1 .. Len(u) /\ u[Len(s) + i] = t[i]
      BY <1>30, <2>1 DEF Joins
    <3>2. QED
      BY <1>30, <3>1
  <2>4. QED
    BY <2>2, <2>3
<1>31. Pre(b)
  OBVIOUS
<1> HIDE DEF Pre, At_
<1>32. /\ At_(s8, data) /\ At_(s7, nl) /\ At_(s6, lim) /\ At_(s5, nl) /\ At_(s4, w) /\ At_(s3, sp)
       /\ At_(s2, v) /\ At_(s1, nl) /\ At_(mg, comment) /\ Pre(mg)
  BY <1>25, <1>26, <1>27, <1>30, <1>31, Zenon
<1>33. PpmParts(b, g, v, w, data)
  <2>1. b \in Seq(Byte) /\ Len(b) = 9 + g + n + k + m
    BY <1>27, <1>29 DEF Joins
  <2>2. b[1] = 80 /\ b[2] = 54
    BY <1>10, <1>32 DEF Pre
  <2>3. g = 4 => b[3] = 32 /\ b[4] = Hash /\ b[5] = 49 /\ b[6] = 32
    <3> SUFFICES ASSUME g = 4 PROVE b[3] = 32 /\ b[4] = Hash /\ b[5] = 49 /\ b[6] = 32
      OBVIOUS
    <3>1. b[2 + 1] = comment[1] /\ b[2 + 2] = comment[2] /\ b[2 + 3] = comment[3] /\ b[2 + 4] = comment[4]
      <4>1. Len(comment) = 4
        BY <1>11, Zenon
      <4>2. 1 \in 1 .. Len(comment) /\ 2 \in 1 .. Len(comment) /\ 3 \in 1 .. Len(comment) /\ 4 \in 1 .. Len(comment)
        BY <4>1
      <4>3. QED
        BY <1>10, <1>32, <4>2 DEF At_
    <3>2. QED
      BY <1>12, <3>1
  <2>4. b[3 + g] = Newline
    <3>1. b[Len(s1) + 1] = nl[1]
      BY <1>6, <1>32 DEF At_
    <3>2. QED
      BY <1>6, <1>12, <1>29, <3>1 DEF Newline
  <2>5. \A i \in 1 .. n : b[3 + g + i] = v[i]
    BY <1>28, <1>29, <1>32 DEF At_
  <2>6. b[4 + g + n] = 32
    <3>1. b[Len(s3) + 1] = sp[1]
      BY <1>8, <1>32 DEF At_
    <3>2. QED
      BY <1>8, <1>12, <1>29, <3>1
  <2>7. \A i \in 1 .. k : b[4 + g + n + i] = w[i]
    BY <1>28, <1>29, <1>32 DEF At_
  <2>8. b[5 + g + n + k] = Newline
    <3>1. b[Len(s5) + 1] = nl[1]
      BY <1>6, <1>32 DEF At_
    <3>2. QED
      BY <1>6, <1>12, <1>29, <3>1 DEF Newline
  <2>9. b[6 + g + n + k] = 50 /\ b[7 + g + n + k] = 53 /\ b[8 + g + n + k] = 53
    <3>1. b[Len(s6) + 1] = lim[1] /\ b[Len(s6) + 2] = lim[2] /\ b[Len(s6) + 3] = lim[3]
      <4>1. 1 \in 1 .. Len(lim) /\ 2 \in 1 .. Len(lim) /\ 3 \in 1 .. Len(lim)
        BY <1>4
      <4>2. QED
        BY <1>32, <4>1, Zenon DEF At_
    <3>2. QED
      BY <1>4, <1>12, <1>29, <3>1
  <2>10. b[9 + g + n + k] = Newline
    <3>1. b[Len(s7) + 1] = nl[1]
      BY <1>6, <1>32 DEF At_
    <3>2. QED
      BY <1>6, <1>12, <1>29, <3>1 DEF Newline
  <2>11. \A i \in 1 .. m : b[9 + g + n + k + i] = data[i]
    BY <1>28, <1>29, <1>32 DEF At_
  <2>12. QED
    BY <1>12, <1>28, <2>1, <2>2, <2>3, <2>4, <2>5, <2>6, <2>7, <2>8, <2>9, <2>10, <2>11, Zenon DEF PpmParts
<1>34. QED
  BY <1>1, <1>2, <1>11, <1>22, <1>33, Zenon

(* A token begins at from, behind white space, and goes on up to to.       *)
LEMMA TokenAt ==
  ASSUME NEW b \in Seq(Byte), NEW pos \in 1 .. Len(b) + 1, NEW from \in pos .. Len(b),
         \A i \in pos .. from - 1 : b[i] \in White,
         b[from] \notin White, b[from] # Hash
  PROVE  TokenStart(b, pos) = from
<1>1. Next_(b, pos, Byte \ White) = from
  <2>1. b[from] \in Byte \ White /\ from \in pos .. Len(b) + 1
    OBVIOUS
  <2>2. \A i \in pos .. from - 1 : b[i] \notin Byte \ White
    OBVIOUS
  <2>3. QED
    BY <2>1, <2>2, NextIs
<1>2. from <= Len(b)
  OBVIOUS
<1>3. QED
  BY <1>1, <1>2, TokenStarts, Zenon DEF TokenStep

(* A comment at from goes up to the end of its line.                       *)
LEMMA CommentPassed ==
  ASSUME NEW b \in Seq(Byte), NEW pos \in 1 .. Len(b) + 1, NEW from \in pos .. Len(b),
         \A i \in pos .. from - 1 : b[i] \in White, b[from] = Hash,
         NEW end \in from .. Len(b), b[end] = Newline,
         \A i \in from .. end - 1 : b[i] # Newline
  PROVE  TokenStart(b, pos) = TokenStart(b, end)
<1>1. Next_(b, pos, Byte \ White) = from
  <2>1. b[from] \in Byte \ White /\ from \in pos .. Len(b) + 1
    BY DEF Byte, Hash, White
  <2>2. \A i \in pos .. from - 1 : b[i] \notin Byte \ White
    OBVIOUS
  <2>3. QED
    BY <2>1, <2>2, NextIs
<1>2. Next_(b, from, {Newline}) = end
  <2>1. from \in 1 .. Len(b) + 1 /\ end \in from .. Len(b) + 1
    OBVIOUS
  <2>2. b[end] \in {Newline} /\ \A i \in from .. end - 1 : b[i] \notin {Newline}
    OBVIOUS
  <2>3. QED
    BY <2>1, <2>2, NextIs
<1>3. from <= Len(b)
  OBVIOUS
<1>4. QED
  BY <1>1, <1>2, <1>3, TokenStarts, Zenon DEF TokenStep

(* A token that starts at from ends at the first white space.              *)
LEMMA TokenEnd ==
  ASSUME NEW b \in Seq(Byte), NEW from \in 1 .. Len(b), NEW to \in from .. Len(b),
         b[to] \in White, \A i \in from .. to - 1 : b[i] \notin White
  PROVE  Next_(b, from, White) = to
<1>1. from \in 1 .. Len(b) + 1 /\ to \in from .. Len(b) + 1
  OBVIOUS
<1>2. QED
  BY <1>1, NextIs

(* The tokens of a header: magic number, width, height and 255.            *)
FourTokens(t, g, n, k) ==
  /\ t[1] = <<1, 3>> /\ t[2] = <<4 + g, 4 + g + n>>
  /\ t[3] = <<5 + g + n, 5 + g + n + k>>
  /\ t[4] = <<6 + g + n + k, 9 + g + n + k>>

(* read_ppm finds those four tokens, behind a comment or without one.      *)
LEMMA HeaderTokens ==
  ASSUME NEW b, NEW g, NEW v \in Seq(Numerals), NEW w \in Seq(Numerals), NEW data \in Seq(Byte),
         PpmParts(b, g, v, w, data), v # <<>>, w # <<>>
  PROVE  FourTokens(Tokens(b), g, Len(v), Len(w))
<1>1. PICK n \in Nat, k \in Nat : n = Len(v) /\ k = Len(w) /\ n > 0 /\ k > 0
  OBVIOUS
<1>2. PICK m \in Nat : m = Len(data)
  OBVIOUS
<1>3. b \in Seq(Byte) /\ Len(b) = 9 + g + n + k + m /\ g \in {0, 4}
  BY <1>1, <1>2 DEF PpmParts
<1>4. b[1] = 80 /\ b[2] = 54 /\ b[3 + g] = Newline /\ b[4 + g + n] = 32
      /\ b[5 + g + n + k] = Newline /\ b[9 + g + n + k] = Newline
      /\ b[6 + g + n + k] = 50 /\ b[7 + g + n + k] = 53 /\ b[8 + g + n + k] = 53
  BY <1>1 DEF PpmParts
<1>5. \A i \in 4 + g .. 3 + g + n : b[i] \in Numerals
  <2> SUFFICES ASSUME NEW i \in 4 + g .. 3 + g + n PROVE b[i] \in Numerals
    OBVIOUS
  <2>1. PICK j \in 1 .. n : 3 + g + j = i
    BY <1>1, <1>3
  <2>2. b[3 + g + j] = v[j] /\ v[j] \in Numerals
    BY <1>1, <2>1 DEF PpmParts
  <2>3. QED
    BY <2>1, <2>2
<1>6. \A i \in 5 + g + n .. 4 + g + n + k : b[i] \in Numerals
  <2> SUFFICES ASSUME NEW i \in 5 + g + n .. 4 + g + n + k PROVE b[i] \in Numerals
    OBVIOUS
  <2>1. PICK j : j = i - 4 - g - n
    OBVIOUS
  <2>2. j \in 1 .. k /\ 4 + g + n + j = i
    BY <1>1, <1>3, <2>1
  <2>3. b[4 + g + n + j] = w[j] /\ w[j] \in Numerals
    BY <1>1, <2>2, SMTT(20) DEF PpmParts
  <2>4. QED
    BY <2>2, <2>3
<1>7. /\ \A x \in Numerals : x \notin White /\ x # Hash
      /\ 80 \notin White /\ 54 \notin White /\ 80 # Hash
      /\ Newline \in White /\ 32 \in White /\ 50 \in Numerals /\ 53 \in Numerals
  BY DEF White, Hash, Newline, Numerals
<1>8. PICK t : SomeTokens(b, t)
  BY <1>3, TokensRun
<1> DEFINE from(j) == TokenStart(b, IF j = 1 THEN 1 ELSE t[j - 1][2])
<1>9. \A j \in 1 .. 4 : t[j] = <<from(j), Next_(b, from(j), White)>>
  BY <1>8, Zenon DEF SomeTokens
<1> HIDE DEF from
<1>10. PICK p0, p1, p2, p3, p4, p5, p6 :
        /\ p0 = 3 + g /\ p1 = 4 + g /\ p2 = 4 + g + n /\ p3 = 5 + g + n /\ p4 = 5 + g + n + k
        /\ p5 = 6 + g + n + k /\ p6 = 9 + g + n + k
  OBVIOUS
<1>11. /\ p0 \in Nat /\ p1 \in Nat /\ p2 \in Nat /\ p3 \in Nat /\ p4 \in Nat /\ p5 \in Nat /\ p6 \in Nat
       /\ p0 = 3 + g /\ p1 = 4 + g /\ p2 = 4 + g + n /\ p3 = 5 + g + n /\ p4 = 5 + g + n + k
       /\ p5 = 6 + g + n + k /\ p6 = 9 + g + n + k
  BY <1>1, <1>3, <1>10, SMTT(20)
<1>12. /\ p0 >= 3 /\ p0 <= 7 /\ p1 = p0 + 1 /\ p1 < p2 /\ p3 = p2 + 1 /\ p3 < p4 /\ p5 = p4 + 1 /\ p6 = p5 + 3
       /\ p6 <= Len(b) /\ Len(b) \in Nat
       /\ p0 \in Nat /\ p1 \in Nat /\ p2 \in Nat /\ p3 \in Nat /\ p4 \in Nat /\ p5 \in Nat /\ p6 \in Nat
  BY <1>1, <1>3, <1>11, SMTT(20)
<1>13. /\ b[p0] \in White /\ b[p2] \in White /\ b[p4] \in White /\ b[p6] \in White
       /\ \A i \in p1 .. p2 - 1 : b[i] \notin White /\ b[i] # Hash
       /\ \A i \in p3 .. p4 - 1 : b[i] \notin White /\ b[i] # Hash
       /\ \A i \in p5 .. p6 - 1 : b[i] \notin White /\ b[i] # Hash
  <2>1. b[p0] \in White /\ b[p2] \in White /\ b[p4] \in White /\ b[p6] \in White
    <3>1. p0 = 3 + g /\ p2 = 4 + g + n /\ p4 = 5 + g + n + k /\ p6 = 9 + g + n + k
      BY <1>11
    <3>2. b[p0] = Newline /\ b[p2] = 32 /\ b[p4] = Newline /\ b[p6] = Newline
      BY <1>4, <3>1
    <3>3. QED
      BY <1>7, <3>2
  <2>2. ASSUME NEW i \in p1 .. p2 - 1 PROVE b[i] \notin White /\ b[i] # Hash
    <3>1. i \in 4 + g .. 3 + g + n
      BY <1>3, <1>11
    <3>2. QED
      BY <1>5, <1>7, <3>1, Zenon
  <2>3. ASSUME NEW i \in p3 .. p4 - 1 PROVE b[i] \notin White /\ b[i] # Hash
    <3>1. i \in 5 + g + n .. 4 + g + n + k
      BY <1>3, <1>11
    <3>2. QED
      BY <1>6, <1>7, <3>1, Zenon
  <2>4. ASSUME NEW i \in p5 .. p6 - 1 PROVE b[i] \notin White /\ b[i] # Hash
    <3>1. i = 6 + g + n + k \/ i = 7 + g + n + k \/ i = 8 + g + n + k
      BY <1>3, <1>11
    <3>2. QED
      <4>1. b[i] = 50 \/ b[i] = 53
        BY <1>4, <3>1, SMTT(20)
      <4>2. QED
        BY <1>7, <4>1, Zenon
  <2>5. QED
    BY <2>1, <2>2, <2>3, <2>4
<1>14. t[1] = <<1, 3>>
  <2>1. TokenStart(b, 1) = 1
    <3>1. 1 \in 1 .. Len(b) + 1 /\ 1 \in 1 .. Len(b) /\ b[1] \notin White /\ b[1] # Hash
          /\ \A i \in 1 .. 1 - 1 : b[i] \in White
      BY <1>3, <1>4, <1>7
    <3>2. QED
      BY <1>3, <3>1, TokenAt
  <2>2. Next_(b, 1, White) = 3
    <3>1. 1 \in 1 .. Len(b) /\ 3 \in 1 .. Len(b)
      BY <1>3
    <3>2. b[3] \in White
      <4>1. CASE g = 0
        BY <1>4, <1>7, <4>1
      <4>2. CASE g = 4
        BY <1>7, <4>2 DEF PpmParts
      <4>3. QED
        BY <1>3, <4>1, <4>2
    <3>3. \A i \in 1 .. 3 - 1 : b[i] \notin White
      BY <1>4, <1>7
    <3>4. QED
      BY <1>3, <3>1, <3>2, <3>3, TokenEnd
  <2>3. from(1) = 1
    BY <2>1 DEF from
  <2>4. QED
    BY <1>9, <2>2, <2>3
<1>15. t[2] = <<p1, p2>>
  <2>1. TokenStart(b, p0) = p1
    <3>1. p0 \in 1 .. Len(b) + 1 /\ p1 \in p0 .. Len(b) /\ p1 \in p1 .. p2 - 1
          /\ \A i \in p0 .. p1 - 1 : i = p0
      BY <1>12
    <3>2. b[p1] \notin White /\ b[p1] # Hash /\ \A i \in p0 .. p1 - 1 : b[i] \in White
      BY <1>13, <3>1, Zenon
    <3>3. QED
      BY <1>3, <3>1, <3>2, TokenAt
  <2>2. TokenStart(b, 3) = p1
    <3>1. CASE g = 0
      <4>1. p0 = 3
        BY <1>11, <3>1
      <4>2. QED
        BY <2>1, <4>1
    <3>2. CASE g = 4
      <4>1. p0 = 7
        BY <1>11, <3>2
      <4>2. b[3] = 32 /\ b[4] = Hash /\ b[5] = 49 /\ b[6] = 32 /\ b[7] = Newline
        <5>1. b[7] = Newline
          BY <1>4, <1>11, <4>1
        <5>2. QED
          BY <5>1, <3>2 DEF PpmParts
      <4>3. /\ 3 \in 1 .. Len(b) + 1 /\ 4 \in 3 .. Len(b) /\ 7 \in 4 .. Len(b)
            /\ \A i \in 3 .. 4 - 1 : b[i] \in White
            /\ \A i \in 4 .. 7 - 1 : b[i] # Newline
        BY <1>3, <1>7, <4>2, SMTT(20) DEF Newline, Hash
      <4>4. TokenStart(b, 3) = TokenStart(b, 7)
        BY <1>3, <4>2, <4>3, CommentPassed
      <4>5. QED
        BY <2>1, <4>1, <4>4
    <3>3. QED
      BY <1>3, <3>1, <3>2
  <2>3. from(2) = p1
    BY <1>14, <2>2 DEF from
  <2>4. Next_(b, p1, White) = p2
    <3>1. p1 \in 1 .. Len(b) /\ p2 \in p1 .. Len(b)
      BY <1>12
    <3>2. QED
      BY <1>3, <1>13, <3>1, TokenEnd
  <2>5. t[2] = <<from(2), Next_(b, from(2), White)>>
    BY <1>9
  <2>6. QED
    BY <2>3, <2>4, <2>5, Zenon
<1>16. t[3] = <<p3, p4>>
  <2>1. TokenStart(b, p2) = p3
    <3>1. p2 \in 1 .. Len(b) + 1 /\ p3 \in p2 .. Len(b) /\ p3 \in p3 .. p4 - 1
          /\ \A i \in p2 .. p3 - 1 : i = p2
      BY <1>12
    <3>2. b[p3] \notin White /\ b[p3] # Hash /\ \A i \in p2 .. p3 - 1 : b[i] \in White
      BY <1>13, <3>1, Zenon
    <3>3. QED
      BY <1>3, <3>1, <3>2, TokenAt
  <2>2. Next_(b, p3, White) = p4
    <3>1. p3 \in 1 .. Len(b) /\ p4 \in p3 .. Len(b)
      BY <1>12
    <3>2. QED
      BY <1>3, <1>13, <3>1, TokenEnd
  <2>3. from(3) = p3
    <3>1. from(3) = TokenStart(b, t[2][2])
      BY DEF from
    <3>2. t[2][2] = p2
      BY <1>15
    <3>3. QED
      BY <2>1, <3>1, <3>2, Zenon
  <2>4. t[3] = <<from(3), Next_(b, from(3), White)>>
    BY <1>9
  <2>5. QED
    BY <2>2, <2>3, <2>4, Zenon
<1>17. t[4] = <<p5, p6>>
  <2>1. TokenStart(b, p4) = p5
    <3>1. p4 \in 1 .. Len(b) + 1 /\ p5 \in p4 .. Len(b) /\ p5 \in p5 .. p6 - 1
          /\ \A i \in p4 .. p5 - 1 : i = p4
      BY <1>12
    <3>2. b[p5] \notin White /\ b[p5] # Hash /\ \A i \in p4 .. p5 - 1 : b[i] \in White
      BY <1>13, <3>1, Zenon
    <3>3. QED
      BY <1>3, <3>1, <3>2, TokenAt
  <2>2. Next_(b, p5, White) = p6
    <3>1. p5 \in 1 .. Len(b) /\ p6 \in p5 .. Len(b)
      BY <1>12
    <3>2. QED
      BY <1>3, <1>13, <3>1, TokenEnd
  <2>3. from(4) = p5
    <3>1. from(4) = TokenStart(b, t[3][2])
      BY DEF from
    <3>2. t[3][2] = p4
      BY <1>16
    <3>3. QED
      BY <2>1, <3>1, <3>2, Zenon
  <2>4. t[4] = <<from(4), Next_(b, from(4), White)>>
    BY <1>9
  <2>5. QED
    BY <2>2, <2>3, <2>4, Zenon
<1>18. Tokens(b) = t
  BY <1>8, Zenon DEF SomeTokens
<1>19. QED
  <2>1. FourTokens(t, g, n, k)
    BY <1>11, <1>14, <1>15, <1>16, <1>17 DEF FourTokens
  <2>2. QED
    BY <1>1, <1>18, <2>1, Zenon

(* The piece of b behind the first bytes is s.                             *)
LEMMA TextIs ==
  ASSUME NEW Q, NEW b \in Seq(Q), NEW s \in Seq(Q), NEW before \in Nat, NEW to \in Nat,
         to = before + Len(s), to <= Len(b), \A i \in 1 .. Len(s) : b[before + i] = s[i]
  PROVE  SubSeq(b, before + 1, to) = s
<1>1. PICK n \in Nat : n = Len(s)
  OBVIOUS
<1>2. PICK t : t = SubSeq(b, before + 1, to)
  OBVIOUS
<1>3. t \in Seq(Q) /\ Len(t) = n /\ \A i \in 1 .. n : t[i] = b[before + i]
  BY <1>1, <1>2
<1>4. \A i \in 1 .. n : t[i] = s[i]
  BY <1>1, <1>3
<1>5. t = s
  BY <1>1, <1>3, <1>4
<1>6. QED
  BY <1>2, <1>5

(* As many samples as the header announces.                                *)
Enough(x, y, data) == Len(data) = x * y * 3
(* Fewer samples than the header announces.                                *)
TooShort(x, y, data) == Len(data) < x * y * 3

(* read_ppm returns what the header announces, and nothing when the data   *)
(* is short.                                                               *)
LEMMA PpmReads ==
  ASSUME NEW b, NEW g, NEW x \in Nat, NEW y \in Nat, NEW data \in Seq(Byte),
         PpmParts(b, g, Digits(x), Digits(y), data)
  PROVE  /\ Enough(x, y, data) => read_ppm(b) = [width |-> x, height |-> y, data |-> data]
         /\ TooShort(x, y, data) => read_ppm(b) = None
<1>1. PICK v : v = Digits(x)
  OBVIOUS
<1>2. PICK w : w = Digits(y)
  OBVIOUS
<1>3. v \in Seq(Numerals) /\ w \in Seq(Numerals) /\ v # <<>> /\ w # <<>> /\ Number(v) = x /\ Number(w) = y
  BY <1>1, <1>2, NumbersSurvive, NumberIsValue
<1>4. PpmParts(b, g, v, w, data)
  BY <1>1, <1>2, Zenon
<1>5. PICK t : t = Tokens(b)
  OBVIOUS
<1>6. FourTokens(t, g, Len(v), Len(w))
  BY <1>3, <1>4, <1>5, HeaderTokens
<1>7. PICK n \in Nat, k \in Nat, m \in Nat : n = Len(v) /\ k = Len(w) /\ m = Len(data)
  BY <1>3
<1>8. b \in Seq(Byte) /\ Len(b) = 9 + g + n + k + m /\ g \in {0, 4}
  BY <1>4, <1>7 DEF PpmParts
<1> DEFINE text(i) == SubSeq(b, t[i][1], t[i][2] - 1)
<1>9. text(1) = Magic
  <2>1. t[1][1] = 0 + 1 /\ t[1][2] - 1 = 2
    BY <1>6 DEF FourTokens
  <2>2. PICK s : s = Magic
    OBVIOUS
  <2>3. s \in Seq(Byte) /\ Len(s) = 2 /\ s[1] = 80 /\ s[2] = 54
    BY <2>2 DEF Magic, Byte
  <2>4. \A i \in 1 .. Len(s) : b[0 + i] = s[i]
    <3>1. b[1] = 80 /\ b[2] = 54
      BY <1>4 DEF PpmParts
    <3>2. \A i \in 1 .. Len(s) : 0 + i = i /\ (i = 1 \/ i = 2)
      BY <2>3
    <3>3. QED
      BY <2>3, <3>1, <3>2
  <2>5. 2 = 0 + Len(s) /\ 2 <= Len(b) /\ 0 \in Nat /\ 2 \in Nat
    BY <1>8, <2>3
  <2>6. SubSeq(b, 0 + 1, 2) = s
    BY <1>8, <2>3, <2>4, <2>5, TextIs
  <2>7. QED
    BY <2>1, <2>2, <2>6, Zenon
<1>10. text(2) = v
  <2>1. PICK p : p = 3 + g
    OBVIOUS
  <2>2. PICK q : q = 3 + g + n
    OBVIOUS
  <2>3. p \in Nat /\ q \in Nat /\ q = p + Len(v) /\ q <= Len(b)
    BY <1>7, <1>8, <2>1, <2>2
  <2>4. t[2][1] = p + 1 /\ t[2][2] - 1 = q
    BY <1>6, <1>7, <1>8, <2>1, <2>2 DEF FourTokens
  <2>5. \A i \in 1 .. Len(v) : b[p + i] = v[i]
    BY <1>4, <2>1 DEF PpmParts
  <2>6. v \in Seq(Byte)
    BY <1>3 DEF Numerals, Byte
  <2>7. SubSeq(b, p + 1, q) = v
    BY <1>8, <2>3, <2>5, <2>6, TextIs
  <2>8. QED
    BY <2>4, <2>7, Zenon
<1>11. text(3) = w
  <2>1. PICK p : p = 4 + g + n
    OBVIOUS
  <2>2. PICK q : q = 4 + g + n + k
    OBVIOUS
  <2>3. p \in Nat /\ q \in Nat /\ q = p + Len(w) /\ q <= Len(b)
    BY <1>7, <1>8, <2>1, <2>2
  <2>4. t[3][1] = p + 1 /\ t[3][2] - 1 = q
    BY <1>6, <1>7, <1>8, <2>1, <2>2 DEF FourTokens
  <2>5. \A i \in 1 .. Len(w) : b[p + i] = w[i]
    BY <1>4, <1>7, <2>1 DEF PpmParts
  <2>6. w \in Seq(Byte)
    BY <1>3 DEF Numerals, Byte
  <2>7. SubSeq(b, p + 1, q) = w
    BY <1>8, <2>3, <2>5, <2>6, TextIs
  <2>8. QED
    BY <2>4, <2>7, Zenon
<1>12. Number(text(4)) = 255
  <2>1. PICK p : p = 5 + g + n + k
    OBVIOUS
  <2>2. PICK q : q = 8 + g + n + k
    OBVIOUS
  <2>3. PICK s : s = <<50, 53, 53>>
    OBVIOUS
  <2>4. s \in Seq(Byte) /\ Len(s) = 3 /\ s[1] = 50 /\ s[2] = 53 /\ s[3] = 53
    BY <2>3 DEF Byte
  <2>5. p \in Nat /\ q \in Nat /\ q = p + Len(s) /\ q <= Len(b)
    BY <1>7, <1>8, <2>1, <2>2, <2>4, SMTT(20)
  <2>6. t[4][1] = p + 1 /\ t[4][2] - 1 = q
    BY <1>6, <1>7, <1>8, <2>1, <2>2 DEF FourTokens
  <2>7. b[p + 1] = 50 /\ b[p + 2] = 53 /\ b[p + 3] = 53
    <3>1. p + 1 = 6 + g + n + k /\ p + 2 = 7 + g + n + k /\ p + 3 = 8 + g + n + k
      BY <1>8, <2>1
    <3>2. b[6 + g + n + k] = 50 /\ b[7 + g + n + k] = 53 /\ b[8 + g + n + k] = 53
      BY <1>4, <1>7 DEF PpmParts
    <3>3. QED
      BY <3>1, <3>2
  <2>8. \A i \in 1 .. Len(s) : b[p + i] = s[i]
    <3>1. \A i \in 1 .. Len(s) : i = 1 \/ i = 2 \/ i = 3
      BY <2>4
    <3>2. QED
      BY <2>4, <2>7, <3>1, Zenon
  <2>9. SubSeq(b, p + 1, q) = s
    <3>1. b \in Seq(Byte) /\ s \in Seq(Byte) /\ p \in Nat /\ q \in Nat /\ q = p + Len(s) /\ q <= Len(b)
      BY <1>8, <2>4, <2>5
    <3> HIDE <2>4
    <3>2. QED
      BY <2>8, <3>1, TextIs
  <2>10. text(4) = Digits(255)
    BY <2>3, <2>6, <2>9, LimitInDigits, Zenon
  <2>11. Number(Digits(255)) = 255
    BY NumberIsValue
  <2> HIDE DEF text
  <2>12. QED
    BY <2>10, <2>11, Zenon
<1>13. t[4][2] = 9 + g + n + k
  BY <1>6, <1>7 DEF FourTokens
<1>14. PICK needed \in Nat : needed = x * y * 3
  OBVIOUS
<1>15. PICK start : start = t[4][2]
  OBVIOUS
<1>16. /\ start \in Nat /\ start + m = Len(b)
       /\ start = 9 + g + n + k
  BY <1>7, <1>8, <1>13, <1>15
<1>17. read_ppm(b) = IF \/ text(1) # Magic
                        \/ Number(text(2)) < 0 \/ Number(text(3)) < 0 \/ Number(text(4)) # 255
                        \/ Len(b) < start + Number(text(2)) * Number(text(3)) * 3
                     THEN None
                     ELSE [width |-> Number(text(2)), height |-> Number(text(3)),
                           data |-> Slice(b, start, Number(text(2)) * Number(text(3)) * 3)]
  BY <1>5, <1>15, Zenon DEF read_ppm
<1> HIDE DEF text
<1>18. read_ppm(b) = IF x < 0 \/ y < 0 \/ Len(b) < start + needed THEN None
                     ELSE [width |-> x, height |-> y, data |-> Slice(b, start, needed)]
  BY <1>3, <1>9, <1>10, <1>11, <1>12, <1>14, <1>17, Zenon
<1>19. ~(x < 0 \/ y < 0)
  OBVIOUS
<1>20. ASSUME TooShort(x, y, data) PROVE read_ppm(b) = None
  <2>1. Len(b) < start + needed
    BY <1>7, <1>14, <1>16, <1>20 DEF TooShort
  <2>2. QED
    BY <1>18, <2>1, Zenon
<1>21. ASSUME Enough(x, y, data) PROVE read_ppm(b) = [width |-> x, height |-> y, data |-> data]
  <2>1. ~(Len(b) < start + needed) /\ needed = m
    BY <1>7, <1>14, <1>16, <1>21 DEF Enough
  <2>2. \A i \in 1 .. Len(data) : b[start + i] = data[i]
    BY <1>4, <1>7, <1>16 DEF PpmParts
  <2>3. PICK to : to = start + needed
    OBVIOUS
  <2>4. to \in Nat /\ to = start + Len(data) /\ to <= Len(b)
    BY <1>7, <1>16, <2>1, <2>3
  <2>5. SubSeq(b, start + 1, to) = data
    BY <1>8, <1>16, <2>2, <2>4, TextIs
  <2>6. Slice(b, start, needed) = data
    BY <2>3, <2>5, Zenon DEF Slice
  <2>7. QED
    BY <1>18, <1>19, <2>1, <2>6, Zenon
<1>22. QED
  BY <1>20, <1>21

(* A picture as decode() and read_ppm return it.                           *)
IsImage(img) ==
  /\ img = [width |-> img.width, height |-> img.height, data |-> img.data]
  /\ img.width \in Nat \ {0} /\ img.height \in Nat \ {0}
  /\ img.data \in Seq(Byte) /\ Len(img.data) = 3 * img.width * img.height

(* What Front leaves of a sequence.                                        *)
LEMMA FrontOf ==
  ASSUME NEW Q, NEW s \in Seq(Q), s # <<>>
  PROVE  /\ Front(s) \in Seq(Q) /\ Len(Front(s)) = Len(s) - 1
         /\ \A i \in 1 .. Len(s) - 1 : Front(s)[i] = s[i]
<1>1. PICK n \in Nat : n = Len(s) - 1
  OBVIOUS
<1>2. PICK t : t = SubSeq(s, 1, n)
  OBVIOUS
<1>3. t \in Seq(Q) /\ Len(t) = n
  BY <1>1, <1>2
<1>4. \A i \in 1 .. n : t[i] = s[i]
  BY <1>1, <1>2
<1>5. Front(s) = t
  BY <1>1, <1>2, Zenon DEF Front
<1>6. QED
  BY <1>1, <1>3, <1>4, <1>5

(* A file without its last byte is a file without the last byte of its     *)
(* data.                                                                   *)
LEMMA CutParts ==
  ASSUME NEW b, NEW g, NEW v \in Seq(Numerals), NEW w \in Seq(Numerals), NEW data \in Seq(Byte),
         PpmParts(b, g, v, w, data), data # <<>>
  PROVE  PpmParts(Front(b), g, v, w, Front(data))
<1>1. PICK n \in Nat, k \in Nat, m \in Nat : n = Len(v) /\ k = Len(w) /\ m = Len(data) /\ m > 0
  OBVIOUS
<1>2. b \in Seq(Byte) /\ Len(b) = 9 + g + n + k + m /\ g \in {0, 4} /\ b # <<>>
  BY <1>1 DEF PpmParts
<1>3. PICK c : c = Front(b)
  OBVIOUS
<1>4. PICK d : d = Front(data)
  OBVIOUS
<1>5. c \in Seq(Byte) /\ Len(c) = 8 + g + n + k + m
      /\ \A i \in 1 .. 8 + g + n + k + m : c[i] = b[i]
  <2>1. Front(b) \in Seq(Byte) /\ Len(Front(b)) = Len(b) - 1 /\ \A i \in 1 .. Len(b) - 1 : Front(b)[i] = b[i]
    BY <1>2, FrontOf
  <2>2. Len(b) - 1 = 8 + g + n + k + m
    BY <1>2
  <2>3. QED
    BY <1>3, <2>1, <2>2
<1>6. d \in Seq(Byte) /\ Len(d) = m - 1 /\ \A i \in 1 .. m - 1 : d[i] = data[i]
  <2>1. Front(data) \in Seq(Byte) /\ Len(Front(data)) = Len(data) - 1 /\ \A i \in 1 .. Len(data) - 1 : Front(data)[i] = data[i]
    BY <1>1, FrontOf
  <2>2. QED
    BY <1>1, <1>4, <2>1
<1>7. c \in Seq(Byte) /\ Len(c) = 9 + g + n + k + Len(d)
  BY <1>1, <1>2, <1>5, <1>6
<1>8. /\ c[1] = b[1] /\ c[2] = b[2] /\ c[3] = b[3] /\ c[4] = b[4] /\ c[5] = b[5] /\ c[6] = b[6]
      /\ c[3 + g] = b[3 + g] /\ c[4 + g + n] = b[4 + g + n]
  BY <1>1, <1>2, <1>5
<1>9. /\ c[5 + g + n + k] = b[5 + g + n + k] /\ c[6 + g + n + k] = b[6 + g + n + k]
      /\ c[7 + g + n + k] = b[7 + g + n + k] /\ c[8 + g + n + k] = b[8 + g + n + k]
      /\ c[9 + g + n + k] = b[9 + g + n + k]
  BY <1>1, <1>2, <1>5
<1>10. /\ \A i \in 1 .. n : c[3 + g + i] = b[3 + g + i]
       /\ \A i \in 1 .. k : c[4 + g + n + i] = b[4 + g + n + i]
       /\ \A i \in 1 .. m - 1 : c[9 + g + n + k + i] = b[9 + g + n + k + i]
  <2>1. ASSUME NEW i \in 1 .. n PROVE c[3 + g + i] = b[3 + g + i]
    <3>1. 3 + g + i \in 1 .. 8 + g + n + k + m
      BY <1>1, <1>2
    <3>2. QED
      BY <1>5, <3>1
  <2>2. ASSUME NEW i \in 1 .. k PROVE c[4 + g + n + i] = b[4 + g + n + i]
    <3>1. 4 + g + n + i \in 1 .. 8 + g + n + k + m
      BY <1>1, <1>2
    <3>2. QED
      BY <1>5, <3>1
  <2>3. ASSUME NEW i \in 1 .. m - 1 PROVE c[9 + g + n + k + i] = b[9 + g + n + k + i]
    <3>1. 9 + g + n + k + i \in 1 .. 8 + g + n + k + m
      BY <1>1, <1>2
    <3>2. QED
      BY <1>5, <3>1
  <2>4. QED
    BY <2>1, <2>2, <2>3
<1>11. PpmParts(c, g, v, w, d)
  <2>1. c[1] = 80 /\ c[2] = 54 /\ g \in {0, 4}
        /\ (g = 4 => c[3] = 32 /\ c[4] = Hash /\ c[5] = 49 /\ c[6] = 32)
        /\ c[3 + g] = Newline
    BY <1>2, <1>8 DEF PpmParts
  <2>2. c[4 + g + n] = 32
    BY <1>1, <1>8 DEF PpmParts
  <2>3. c[5 + g + n + k] = Newline /\ c[6 + g + n + k] = 50 /\ c[7 + g + n + k] = 53
        /\ c[8 + g + n + k] = 53 /\ c[9 + g + n + k] = Newline
    BY <1>1, <1>9 DEF PpmParts
  <2>4. \A i \in 1 .. n : c[3 + g + i] = v[i]
    BY <1>1, <1>10 DEF PpmParts
  <2>5. \A i \in 1 .. k : c[4 + g + n + i] = w[i]
    BY <1>1, <1>10 DEF PpmParts
  <2>6. \A i \in 1 .. m - 1 : c[9 + g + n + k + i] = d[i]
    <3>1. \A i \in 1 .. m : b[9 + g + n + k + i] = data[i]
      BY <1>1 DEF PpmParts
    <3>2. QED
      BY <1>6, <1>10, <3>1
  <2>7. QED
    BY <1>1, <1>6, <1>7, <2>1, <2>2, <2>3, <2>4, <2>5, <2>6 DEF PpmParts
<1>12. QED
  BY <1>3, <1>4, <1>11

(* A PPM file gives back its picture, with a comment or without, and one   *)
(* that lacks its last byte is refused.                                    *)
THEOREM PpmSurvives ==
  ASSUME NEW img, IsImage(img), NEW comment \in Comments
  PROVE  LET file == PpmHeader(img.width, img.height, comment) \o img.data
         IN read_ppm(file) = img /\ read_ppm(Front(file)) = None
<1>1. PICK x \in Nat \ {0}, y \in Nat \ {0} : x = img.width /\ y = img.height
  BY DEF IsImage
<1>2. PICK data \in Seq(Byte) : data = img.data
  BY DEF IsImage
<1>3. PICK b : b = PpmHeader(x, y, comment) \o data
  OBVIOUS
<1>4. PICK g : g = Len(comment)
  OBVIOUS
<1>5. PpmParts(b, g, Digits(x), Digits(y), data)
  BY <1>3, <1>4, HeaderLaidOut
<1>6. Len(data) = 3 * x * y /\ Len(data) = x * y * 3 /\ Len(data) > 0
  <2>1. Len(data) = 3 * x * y
    BY <1>1, <1>2 DEF IsImage
  <2>2. PICK p \in Nat : p = x * y /\ p > 0
    OBVIOUS
  <2>3. 3 * x * y = 3 * p /\ x * y * 3 = 3 * p
    BY <2>2
  <2>4. QED
    BY <2>1, <2>2, <2>3
<1>7. Enough(x, y, data)
  BY <1>6 DEF Enough
<1>8. read_ppm(b) = [width |-> x, height |-> y, data |-> data]
  BY <1>5, <1>7, PpmReads
<1>9. read_ppm(b) = img
  BY <1>1, <1>2, <1>8 DEF IsImage
<1>10. data # <<>> /\ Digits(x) \in Seq(Numerals) /\ Digits(y) \in Seq(Numerals)
  <2>1. data # <<>>
    BY <1>6
  <2>2. QED
    BY <2>1, NumbersSurvive
<1>11. PpmParts(Front(b), g, Digits(x), Digits(y), Front(data))
  BY <1>5, <1>10, CutParts
<1>12. Front(data) \in Seq(Byte) /\ TooShort(x, y, Front(data))
  BY <1>6, <1>10, FrontOf DEF TooShort
<1>13. read_ppm(Front(b)) = None
  BY <1>11, <1>12, PpmReads
<1>14. b = PpmHeader(img.width, img.height, comment) \o img.data
  BY <1>1, <1>2, <1>3
<1>15. QED
  BY <1>9, <1>13, <1>14, Zenon

-----------------------------------------------------------------------------
(* Flattening, stored blocks and rows of PNG data.                         *)

(* The pieces of a sequence: e[k] is how long the first k are together.    *)
Ends(e, seqs, n) ==
  /\ e \in [0 .. n -> Nat] /\ e[0] = 0
  /\ \A k \in 1 .. n : e[k] = e[k - 1] + Len(seqs[k])

(* raw has every piece where Ends puts it.                                 *)
LaidOut(raw, seqs, e, n) ==
  /\ Len(raw) = e[n]
  /\ \A k \in 1 .. n : \A i \in 1 .. Len(seqs[k]) : raw[e[k - 1] + i] = seqs[k][i]

(* f[k] is the first k pieces together.                                    *)
Flattens(f, seqs, n) ==
  /\ f[n] = FlattenSeq(seqs)
  /\ f[1] = seqs[1]
  /\ \A k \in 2 .. n : f[k] = f[k - 1] \o seqs[k]

(* Flattening has the intermediate results that Flattens names.            *)
LEMMA FlattenRuns ==
  ASSUME NEW Q, NEW n \in Nat \ {0}, NEW seqs \in [1 .. n -> Seq(Q)]
  PROVE  \E f : f \in [1 .. n -> Seq(Q)] /\ Flattens(f, seqs, n)
<1> DEFINE D == 1 .. n
           T == 2 .. n
           X == Seq(Q)
           p == [k \in T |-> k - 1]
           m == [k \in D |-> k]
           F == [k \in T |-> [v \in X |-> v \o seqs[k]]]
           flatten == CHOOSE f : f = [k \in 1 .. n |-> IF k = 1 THEN seqs[k] ELSE f[k - 1] \o seqs[k]]
<1>1. Len(seqs) = n /\ n # 0
  OBVIOUS
<1>2. FlattenSeq(seqs) = flatten[n]
  BY <1>1, Zenon DEF FlattenSeq
<1> HIDE DEF flatten
<1>3. /\ m \in [D -> 0 .. n] /\ T \in SUBSET D /\ p \in [T -> D]
      /\ \A k \in T : m[p[k]] < m[k]
  OBVIOUS
<1>4. F \in [T -> [X -> X]]
  <2>1. ASSUME NEW k \in T, NEW v \in X PROVE v \o seqs[k] \in X
    <3>1. seqs[k] \in X
      OBVIOUS
    <3>2. QED
      BY <3>1
  <2> HIDE DEF X, T
  <2>2. QED
    BY <2>1
<1>5. seqs \in [D -> X]
  OBVIOUS
<1> HIDE DEF m, p, F, X, T, D
<1>6. PICK f : Recurs(f, D, X, T, p, seqs, F)
  BY <1>3, <1>4, <1>5, RecursionExists, Zenon
<1>7. ASSUME NEW k \in D
      PROVE  f[k] = IF k = 1 THEN seqs[k] ELSE f[k - 1] \o seqs[k]
  <2>1. CASE k = 1
    <3>1. k \notin T
      BY <2>1 DEF T
    <3>2. QED
      BY <1>6, <2>1, <3>1 DEF Recurs
  <2>2. CASE k # 1
    <3>1. k \in T
      BY <2>2 DEF T, D
    <3>2. f[k] = F[k][f[p[k]]] /\ p[k] = k - 1 /\ k - 1 \in D
      BY <1>6, <3>1 DEF Recurs, p, T, D
    <3>3. f[k - 1] \in X
      BY <1>6, <3>2 DEF Recurs
    <3>4. QED
      BY <2>2, <3>1, <3>2, <3>3 DEF F
  <2>3. QED
    BY <2>1, <2>2
<1>8. f \in [1 .. n -> X]
  BY <1>6 DEF Recurs, D
<1>9. f = [k \in 1 .. n |-> IF k = 1 THEN seqs[k] ELSE f[k - 1] \o seqs[k]]
  BY <1>7, <1>8 DEF D
<1>10. flatten = [k \in 1 .. n |-> IF k = 1 THEN seqs[k] ELSE flatten[k - 1] \o seqs[k]]
  BY <1>9, Zenon DEF flatten
<1>11. ASSUME NEW k \in 1 .. n PROVE flatten[k] = IF k = 1 THEN seqs[k] ELSE flatten[k - 1] \o seqs[k]
  BY <1>10, Zenon
<1>12. flatten[1] = seqs[1] /\ \A k \in 2 .. n : flatten[k] = flatten[k - 1] \o seqs[k]
  <2>1. 1 \in 1 .. n /\ \A k \in 2 .. n : k \in 1 .. n /\ k # 1
    OBVIOUS
  <2>2. QED
    BY <1>11, <2>1, Zenon
<1>13. Flattens(flatten, seqs, n)
  BY <1>2, <1>12, Zenon DEF Flattens
<1>14. flatten \in [1 .. n -> Seq(Q)]
  <2> DEFINE S == {k \in Nat : k \in 0 .. n /\ (k = 0 \/ flatten[k] \in Seq(Q))}
  <2>1. 0 \in S
    OBVIOUS
  <2>2. ASSUME NEW k \in 0 .. n - 1, k \in S PROVE k + 1 \in S
    <3>1. CASE k = 0
      <4>1. k + 1 = 1 /\ seqs[1] \in Seq(Q) /\ k + 1 \in 0 .. n /\ k + 1 \in Nat
        BY <3>1
      <4>2. QED
        BY <1>12, <4>1
    <3>2. CASE k # 0
      <4>1. k + 1 \in 2 .. n /\ (k + 1) - 1 = k /\ seqs[k + 1] \in Seq(Q) /\ k + 1 \in 0 .. n
        BY <3>2
      <4>2. flatten[k + 1] = flatten[k] \o seqs[k + 1] /\ flatten[k] \in Seq(Q)
        BY <1>12, <2>2, <3>2, <4>1
      <4>3. flatten[k + 1] \in Seq(Q)
        BY <4>1, <4>2
      <4>4. QED
        BY <4>1, <4>3
    <3>3. QED
      BY <3>1, <3>2
  <2> HIDE DEF S
  <2>3. 0 .. n \subseteq S
    BY <2>1, <2>2, UpTo
  <2>4. \A k \in 1 .. n : flatten[k] \in Seq(Q)
    <3>1. ASSUME NEW k \in 1 .. n PROVE flatten[k] \in Seq(Q)
      <4>1. k \in S /\ k # 0
        BY <2>3
      <4>2. QED
        BY <4>1 DEF S
    <3>2. QED
      BY <3>1
  <2>5. QED
    BY <1>10, <2>4, Zenon
<1>15. QED
  BY <1>13, <1>14, Zenon

(* Flattening puts every piece where the lengths before it say.            *)
LEMMA Flattened ==
  ASSUME NEW Q, NEW n \in Nat \ {0}, NEW seqs \in [1 .. n -> Seq(Q)], NEW e, Ends(e, seqs, n)
  PROVE  FlattenSeq(seqs) \in Seq(Q) /\ LaidOut(FlattenSeq(seqs), seqs, e, n)
<1>1. PICK f : f \in [1 .. n -> Seq(Q)] /\ Flattens(f, seqs, n)
  BY FlattenRuns
<1> DEFINE Done(k, h) == h \in Seq(Q) /\ LaidOut(h, seqs, e, k)
           S == {k \in Nat : k \in 0 .. n /\ (k = 0 \/ Done(k, f[k]))}
<1>2. 0 \in S
  OBVIOUS
<1>3. ASSUME NEW k \in 0 .. n - 1, k \in S PROVE k + 1 \in S
  <2>1. k + 1 \in 1 .. n /\ (k + 1) - 1 = k /\ k \in Nat /\ e[k] \in Nat
    BY DEF Ends
  <2>2. PICK s \in Seq(Q) : s = seqs[k + 1]
    BY <2>1
  <2>3. e[k + 1] = e[k] + Len(s)
    BY <2>1, <2>2 DEF Ends
  <2>4. CASE k = 0
    <3>1. f[1] = seqs[1]
      BY <1>1 DEF Flattens
    <3>2. f[1] = s /\ e[1] = Len(s) /\ e[0] = 0
      BY <2>2, <2>3, <2>4, <3>1 DEF Ends
    <3>3. LaidOut(s, seqs, e, 1)
      <4>1. \A j \in 1 .. 1 : j = 1 /\ j - 1 = 0
        OBVIOUS
      <4>2. \A i \in 1 .. Len(seqs[1]) : s[e[0] + i] = seqs[1][i]
        BY <2>2, <2>4, <3>2
      <4>3. QED
        BY <3>2, <4>1, <4>2 DEF LaidOut
    <3>4. k + 1 = 1
      BY <2>4
    <3>5. Done(1, f[1])
      BY <3>2, <3>3
    <3> HIDE DEF Done
    <3>6. QED
      BY <2>1, <3>4, <3>5
  <2>5. CASE k # 0
    <3>1. PICK h : h = f[k]
      OBVIOUS
    <3>2. h \in Seq(Q) /\ LaidOut(h, seqs, e, k)
      BY <1>3, <2>5, <3>1
    <3>3. f[k + 1] = h \o s
      <4>1. k + 1 \in 2 .. n
        BY <2>1, <2>5
      <4>2. QED
        BY <1>1, <2>1, <2>2, <3>1, <4>1 DEF Flattens
    <3>4. PICK g : g = h \o s
      OBVIOUS
    <3>5. g \in Seq(Q) /\ g = h \o s
      BY <3>2, <3>4
    <3>6. /\ Len(g) = Len(h) + Len(s)
          /\ \A i \in 1 .. Len(h) : g[i] = h[i]
          /\ \A i \in 1 .. Len(s) : g[Len(h) + i] = s[i]
      BY <3>2, <3>5, Joined
    <3>7. Len(h) = e[k]
      BY <3>2 DEF LaidOut
    <3>8. ASSUME NEW j \in 1 .. k + 1, NEW i \in 1 .. Len(seqs[j])
          PROVE  g[e[j - 1] + i] = seqs[j][i]
      <4>1. CASE j = k + 1
        BY <2>1, <2>2, <3>6, <3>7, <4>1
      <4>2. CASE j # k + 1
        <5>1. j \in 1 .. k
          BY <4>2
        <5>2. h[e[j - 1] + i] = seqs[j][i]
          BY <3>2, <5>1 DEF LaidOut
        <5>3. e[j - 1] + i \in 1 .. e[j]
          <6>1. j - 1 \in 0 .. n /\ e[j - 1] \in Nat /\ e[j] = e[j - 1] + Len(seqs[j]) /\ seqs[j] \in Seq(Q)
            BY <2>1, <5>1 DEF Ends
          <6>2. Len(seqs[j]) \in Nat
            BY <6>1
          <6>3. QED
            BY <6>1, <6>2
        <5>4. e[j] <= e[k]
          <6> DEFINE R == {u \in Nat : u \in 0 .. k - j /\ e[j] <= e[j + u]}
          <6>1. 0 \in R
            <7>1. e[j] \in Nat /\ j + 0 = j /\ 0 \in 0 .. k - j
              BY <2>1, <5>1 DEF Ends
            <7>2. QED
              BY <7>1
          <6>2. ASSUME NEW u \in 0 .. (k - j) - 1, u \in R PROVE u + 1 \in R
            <7>1. PICK x \in 1 .. n : x = j + u + 1
              BY <2>1, <5>1
            <7>2. e[x] = e[x - 1] + Len(seqs[x]) /\ e[x - 1] \in Nat /\ seqs[x] \in Seq(Q)
              <8>1. x - 1 \in 0 .. n
                OBVIOUS
              <8>2. QED
                BY <8>1 DEF Ends
            <7>3. Len(seqs[x]) \in Nat /\ x - 1 = j + u /\ j + (u + 1) = x
              BY <5>1, <7>1, <7>2
            <7>4. e[j] <= e[x - 1] /\ e[j] \in Nat
              BY <2>1, <5>1, <6>2, <7>3 DEF Ends
            <7>5. e[j] <= e[j + (u + 1)] /\ u + 1 \in 0 .. k - j
              BY <5>1, <7>2, <7>3, <7>4
            <7>6. QED
              BY <7>5
          <6> HIDE DEF R
          <6>3. k - j \in Nat
            BY <5>1
          <6>4. 0 .. k - j \subseteq R
            BY <6>1, <6>2, <6>3, UpTo
          <6>5. k - j \in R
            BY <6>3, <6>4
          <6>6. e[j] <= e[j + (k - j)] /\ j + (k - j) = k
            BY <5>1, <6>5 DEF R
          <6>7. QED
            BY <6>6
        <5>5. e[j - 1] + i \in 1 .. Len(h)
          <6>1. e[j] \in Nat /\ e[k] \in Nat
            BY <2>1, <5>1 DEF Ends
          <6>2. QED
            BY <3>7, <5>3, <5>4, <6>1
        <5>6. QED
          BY <3>6, <5>2, <5>5
      <4>3. QED
        BY <4>1, <4>2
    <3>9. LaidOut(g, seqs, e, k + 1)
      BY <2>3, <3>6, <3>7, <3>8 DEF LaidOut
    <3>10. Done(k + 1, f[k + 1])
      BY <3>3, <3>5, <3>9
    <3> HIDE DEF Done
    <3>11. QED
      BY <2>1, <3>10
  <2>6. QED
    BY <2>4, <2>5
<1> HIDE DEF S, Done
<1>4. 0 .. n \subseteq S
  BY <1>2, <1>3, UpTo
<1>5. n \in S /\ n # 0
  BY <1>4
<1>6. Done(n, f[n])
  BY <1>5 DEF S
<1>7. QED
  BY <1>1, <1>6, Zenon DEF Done, Flattens

(* No other sequence contains the same pieces.                             *)
LEMMA FlattenedIs ==
  ASSUME NEW Q, NEW n \in Nat \ {0}, NEW seqs \in [1 .. n -> Seq(Q)], NEW e, Ends(e, seqs, n),
         NEW raw \in Seq(Q), LaidOut(raw, seqs, e, n)
  PROVE  FlattenSeq(seqs) = raw
<1>1. PICK f : f = FlattenSeq(seqs)
  OBVIOUS
<1>2. f \in Seq(Q) /\ LaidOut(f, seqs, e, n)
  BY <1>1, Flattened
<1> DEFINE S == {k \in Nat : k \in 0 .. n /\ \A p \in 1 .. e[k] : f[p] = raw[p]}
<1>3. 0 \in S
  BY DEF Ends
<1>4. ASSUME NEW k \in 0 .. n - 1, k \in S PROVE k + 1 \in S
  <2>0. k + 1 \in 1 .. n /\ (k + 1) - 1 = k /\ k + 1 \in 0 .. n /\ e[k] \in Nat
    BY DEF Ends
  <2>1. e[k + 1] = e[k] + Len(seqs[k + 1]) /\ seqs[k + 1] \in Seq(Q)
    BY <2>0 DEF Ends
  <2>2. PICK l \in Nat : l = Len(seqs[k + 1])
    BY <2>1
  <2>3. ASSUME NEW p \in 1 .. e[k + 1] PROVE f[p] = raw[p]
    <3>1. CASE p <= e[k]
      <4>1. p \in 1 .. e[k]
        BY <2>0, <3>1
      <4>2. QED
        BY <1>4, <4>1
    <3>2. CASE ~(p <= e[k])
      <4>1. PICK i : i = p - e[k]
        OBVIOUS
      <4>2. i \in 1 .. l /\ e[k] + i = p
        BY <2>0, <2>1, <2>2, <3>2, <4>1
      <4>3. f[e[k] + i] = seqs[k + 1][i]
        BY <1>2, <2>0, <2>2, <4>2 DEF LaidOut
      <4>4. raw[e[k] + i] = seqs[k + 1][i]
        BY <2>0, <2>2, <4>2 DEF LaidOut
      <4>5. QED
        BY <4>2, <4>3, <4>4
    <3>3. QED
      BY <3>1, <3>2
  <2>4. QED
    BY <2>0, <2>3
<1> HIDE DEF S
<1>5. 0 .. n \subseteq S
  BY <1>3, <1>4, UpTo
<1>6. n \in S
  BY <1>5
<1>7. \A p \in 1 .. e[n] : f[p] = raw[p]
  BY <1>6 DEF S
<1>8. Len(f) = e[n] /\ Len(raw) = e[n]
  BY <1>2 DEF LaidOut
<1>9. f = raw
  <2>1. e[n] \in Nat
    BY DEF Ends
  <2>2. PICK l \in Nat : l = e[n]
    BY <2>1
  <2>3. f \in [1 .. l -> Q] /\ raw \in [1 .. l -> Q]
    BY <1>2, <1>8, <2>2
  <2>4. \A p \in 1 .. l : f[p] = raw[p]
    BY <1>7, <2>2
  <2>5. QED
    BY <2>3, <2>4
<1>10. QED
  BY <1>1, <1>9

(* A number is the divisor times the quotient and the remainder.           *)
LEMMA Division ==
  ASSUME NEW a \in Nat, NEW m \in Nat \ {0}
  PROVE  a \div m \in Nat /\ a = m * (a \div m) + (a % m) /\ a % m \in 0 .. m - 1
  OBVIOUS

(* How many blocks of m bytes hold l bytes: l.div_ceil(m).                 *)
LEMMA RoundedUp ==
  ASSUME NEW l \in Nat \ {0}, NEW m \in Nat \ {0}, NEW n, n = (l + m - 1) \div m
  PROVE  n \in Nat \ {0} /\ (n - 1) * m < l /\ l <= n * m
<1>1. PICK a \in Nat : a = l + m - 1
  OBVIOUS
<1>2. PICK r \in 0 .. m - 1 : n \in Nat /\ a = m * n + r
  BY <1>1, Division
<1>3. PICK x : x = m * n
  OBVIOUS
<1>4. x \in Nat /\ (n - 1) * m = x - m /\ n * m = x
  BY <1>2, <1>3
<1>5. x - m < l /\ l <= x
  BY <1>1, <1>2, <1>3, <1>4
<1>6. n # 0
  BY <1>4, <1>5
<1>7. QED
  BY <1>2, <1>4, <1>5, <1>6

(* A product grows with its factor.                                        *)
LEMMA Products ==
  ASSUME NEW b \in Nat, NEW n \in Nat, b <= n, NEW m \in Nat
  PROVE  b * m \in Nat /\ b * m <= n * m
  OBVIOUS

(* t is the len elements of s behind from.                                 *)
IsPiece(t, s, from, len) ==
  Len(t) = len /\ \A i \in 1 .. len : t[i] = s[from + i]

(* Slice returns that piece.                                               *)
LEMMA PieceOf ==
  ASSUME NEW Q, NEW s \in Seq(Q), NEW from \in Nat, NEW len \in Nat, from + len <= Len(s)
  PROVE  Slice(s, from, len) \in Seq(Q) /\ IsPiece(Slice(s, from, len), s, from, len)
<1>1. PICK t : t = SubSeq(s, from + 1, from + len)
  OBVIOUS
<1>2. t \in Seq(Q) /\ Len(t) = len
  BY <1>1
<1>3. \A i \in 1 .. len : t[i] = s[from + i]
  BY <1>1
<1>4. Slice(s, from, len) = t
  BY <1>1, Zenon DEF Slice
<1>5. IsPiece(t, s, from, len)
  BY <1>2, <1>3 DEF IsPiece
<1>6. QED
  BY <1>2, <1>4, <1>5

(* The lesser of two numbers.                                              *)
LEMMA MinOfTwo ==
  ASSUME NEW a \in Int, NEW b \in Int
  PROVE  Min({a, b}) = IF a <= b THEN a ELSE b
<1>1. \E m \in {a, b} : \A s \in {a, b} : m <= s
  <2>1. CASE a <= b
    BY <2>1
  <2>2. CASE ~(a <= b)
    <3>1. b <= a
      BY <2>2
    <3>2. QED
      BY <3>1
  <2>3. QED
    BY <2>1, <2>2
<1>2. Min({a, b}) \in {a, b} /\ \A s \in {a, b} : Min({a, b}) <= s
  BY <1>1 DEF Min
<1>3. PICK m : m = Min({a, b})
  OBVIOUS
<1>4. (m = a \/ m = b) /\ m <= a /\ m <= b
  BY <1>2, <1>3
<1>5. QED
  BY <1>3, <1>4

(* A stored block of a deflate stream.                                     *)
Block == [final : BOOLEAN, type : {0}, bytes : Seq(Byte)]

(* Stored blocks with the last one final, whose bytes are those of raw.    *)
Inflates(blocks, n, raw) ==
  /\ blocks \in Seq(Block) /\ Len(blocks) = n
  /\ \A b \in 1 .. n : blocks[b].final <=> b = n
  /\ FlattenSeq([b \in 1 .. n |-> blocks[b].bytes]) = raw

(* zlib_stored of png.rs cuts the rows into blocks of which the last       *)
(* alone is final, and loses no byte.                                      *)
LEMMA StoredBlocks ==
  ASSUME NEW raw \in Seq(Byte), raw # <<>>
  PROVE  \E n \in Nat \ {0} : Inflates(zlib_stored(raw), n, raw)
<1>1. PICK l \in Nat \ {0} : l = Len(raw)
  OBVIOUS
<1>2. PICK M \in Nat \ {0} : M = MaxStored
  BY StoredAssumption
<1>3. PICK n : n = (l + M - 1) \div M
  OBVIOUS
<1>4. n \in Nat \ {0} /\ (n - 1) * M < l /\ l <= n * M
  BY <1>3, RoundedUp
<1> DEFINE off(b) == (b - 1) * M
           len(b) == Min({M, l - off(b)})
           blk(b) == Stored(off(b) + len(b) >= l, Slice(raw, off(b), len(b)))
           f == [b \in 1 .. n |-> blk(b)]
           e == [b \in 0 .. n |-> IF b < n THEN b * M ELSE l]
           seqs == [b \in 1 .. n |-> Slice(raw, off(b), len(b))]
<1>5. zlib_stored(raw) = Tuple(f)
  BY <1>1, <1>2, <1>3, Zenon DEF zlib_stored
<1>6. ASSUME NEW b \in 1 .. n
      PROVE  /\ off(b) \in Nat /\ off(b) = e[b - 1] /\ e[b] \in Nat
             /\ len(b) \in Nat /\ off(b) + len(b) = e[b] /\ e[b] <= l
             /\ off(b) + len(b) >= l <=> b = n
  <2>1. off(b) \in Nat /\ off(b) < l
    <3>1. b - 1 \in Nat /\ n - 1 \in Nat /\ b - 1 <= n - 1
      BY <1>4
    <3>2. (b - 1) * M \in Nat /\ (b - 1) * M <= (n - 1) * M /\ (n - 1) * M \in Nat
      BY <3>1, Products
    <3>3. QED
      BY <1>4, <3>2
  <2>2. off(b) = e[b - 1]
    <3>1. b - 1 \in 0 .. n /\ b - 1 < n
      BY <1>4
    <3>2. QED
      BY <3>1
  <2>3. PICK o \in Nat : o = off(b) /\ o < l
    BY <2>1
  <2>4. len(b) = IF M <= l - o THEN M ELSE l - o
    <3>1. M \in Int /\ l - o \in Int
      OBVIOUS
    <3>2. Min({M, l - o}) = IF M <= l - o THEN M ELSE l - o
      BY <3>1, MinOfTwo
    <3>3. QED
      BY <2>3, <3>2, Zenon
  <2>5. o + M = b * M
    BY <1>4, <2>3
  <2>6. CASE b = n
    <3>1. l <= o + M
      BY <1>4, <2>5, <2>6
    <3>2. len(b) \in Nat /\ o + len(b) = l
      <4> HIDE DEF len
      <4>1. QED
        BY <2>3, <2>4, <3>1
    <3>3. e[b] = l
      BY <1>4, <2>6
    <3> HIDE DEF off, len, e
    <3>4. QED
      BY <2>1, <2>2, <2>3, <2>6, <3>2, <3>3
  <2>7. CASE b # n
    <3>1. b \in Nat /\ n - 1 \in Nat /\ b <= n - 1 /\ b < n /\ b \in 0 .. n
      BY <1>4, <2>7
    <3>2. b * M \in Nat /\ b * M <= (n - 1) * M /\ (n - 1) * M \in Nat
      BY <3>1, Products
    <3>3. o + M < l /\ e[b] = o + M
      BY <1>4, <2>5, <3>1, <3>2
    <3>4. len(b) = M
      <4> HIDE DEF len
      <4>1. QED
        BY <2>3, <2>4, <3>3
    <3> HIDE DEF off, len, e
    <3>5. QED
      BY <2>1, <2>2, <2>3, <2>7, <3>3, <3>4
  <2>8. QED
    BY <2>6, <2>7
<1>7. ASSUME NEW b \in 1 .. n
      PROVE  /\ seqs[b] \in Seq(Byte) /\ Len(seqs[b]) = len(b)
             /\ \A i \in 1 .. len(b) : raw[e[b - 1] + i] = seqs[b][i]
  <2>1. PICK o \in Nat : o = off(b)
    BY <1>6
  <2>2. PICK c \in Nat : c = len(b)
    BY <1>6
  <2>3. o + c <= Len(raw) /\ o = e[b - 1]
    <3> HIDE DEF off, len, e
    <3>1. QED
      BY <1>1, <1>6, <2>1, <2>2
  <2>4. Slice(raw, o, c) \in Seq(Byte) /\ IsPiece(Slice(raw, o, c), raw, o, c)
    BY <2>3, PieceOf
  <2>5. seqs[b] = Slice(raw, o, c)
    BY <2>1, <2>2
  <2> HIDE DEF seqs, off, len, e
  <2>6. QED
    BY <2>1, <2>2, <2>3, <2>4, <2>5 DEF IsPiece
<1>8. e \in [0 .. n -> Nat] /\ e[0] = 0 /\ e[n] = l
  <2>1. ASSUME NEW b \in 0 .. n PROVE e[b] \in Nat
    <3>1. b * M \in Nat
      OBVIOUS
    <3>2. QED
      BY <3>1
  <2>2. e[0] = 0 /\ e[n] = l
    BY <1>4
  <2>3. QED
    BY <2>1, <2>2
<1>9. seqs \in [1 .. n -> Seq(Byte)]
  <2>1. seqs = [b \in 1 .. n |-> seqs[b]]
    OBVIOUS
  <2> HIDE DEF seqs
  <2>2. QED
    BY <1>7, <2>1
<1>10. Ends(e, seqs, n)
  <2> HIDE DEF e, seqs, off, len
  <2>1. \A b \in 1 .. n : e[b] = e[b - 1] + Len(seqs[b])
    BY <1>6, <1>7
  <2>2. QED
    BY <1>8, <2>1 DEF Ends
<1>11. LaidOut(raw, seqs, e, n)
  <2> HIDE DEF e, seqs, off, len
  <2>1. QED
    BY <1>1, <1>7, <1>8 DEF LaidOut
<1>12. FlattenSeq(seqs) = raw
  <2> HIDE DEF e, seqs
  <2>1. QED
    BY <1>4, <1>9, <1>10, <1>11, FlattenedIs
<1>13. f \in Seq(Block) /\ Len(f) = n /\ Tuple(f) = f
  <2>1. ASSUME NEW b \in 1 .. n PROVE f[b] \in Block
    <3>1. f[b] = [final |-> off(b) + len(b) >= l, type |-> 0, bytes |-> seqs[b]]
      BY DEF Stored
    <3>2. (off(b) + len(b) >= l) \in BOOLEAN
      BY <1>6
    <3> HIDE DEF f, off, len, seqs
    <3>3. QED
      BY <1>7, <3>1, <3>2 DEF Block
  <2>2. f = [b \in 1 .. n |-> f[b]] /\ n \in Nat
    BY <1>4
  <2> HIDE DEF f
  <2>3. Tuple(f) = f /\ Len(f) = n /\ f \in Seq({f[i] : i \in 1 .. n})
    BY <2>2, TupleIsTheSequence
  <2>4. f \in [1 .. n -> Block]
    BY <2>1, <2>2
  <2>5. QED
    BY <2>2, <2>3, <2>4
<1>14. ASSUME NEW b \in 1 .. n PROVE (f[b].final <=> b = n) /\ f[b].bytes = seqs[b]
  <2>1. f[b] = [final |-> off(b) + len(b) >= l, type |-> 0, bytes |-> seqs[b]]
    BY DEF Stored
  <2>2. off(b) + len(b) >= l <=> b = n
    BY <1>6
  <2> HIDE DEF f, off, len, seqs
  <2>3. PICK o \in Nat, c \in Nat : o = off(b) /\ c = len(b)
    BY <1>6
  <2>4. PICK last : last = (o + c >= l)
    OBVIOUS
  <2>5. last \in BOOLEAN
    BY <2>4
  <2>6. last \in BOOLEAN /\ last = (off(b) + len(b) >= l)
    BY <2>3, <2>4, <2>5, Zenon
  <2>7. f[b] = [final |-> last, type |-> 0, bytes |-> seqs[b]]
    BY <2>1, <2>6, Zenon
  <2>8. f[b].final = last /\ f[b].bytes = seqs[b]
    BY <2>7
  <2>9. last <=> b = n
    BY <2>2, <2>6, Zenon
  <2>10. QED
    BY <2>8, <2>9, Zenon
<1>15. [b \in 1 .. n |-> f[b].bytes] = seqs
  <2> HIDE DEF f
  <2>1. QED
    BY <1>14
<1>16. Inflates(f, n, raw)
  <2> HIDE DEF f, seqs
  <2>1. QED
    BY <1>12, <1>13, <1>14, <1>15 DEF Inflates
<1>17. QED
  <2> HIDE DEF f
  <2>1. QED
    BY <1>4, <1>5, <1>13, <1>16

(* The concatenation of two sequences of bytes joins them.                 *)
LEMMA JoinsAre ==
  ASSUME NEW s \in Seq(Byte), NEW t \in Seq(Byte)
  PROVE  Joins(s, t, s \o t)
  BY Joined DEF Joins

(* inflate of png.rs returns what the blocks hold together.                *)
LEMMA InflateGives ==
  ASSUME NEW n \in Nat \ {0}, NEW blocks, NEW raw, Inflates(blocks, n, raw)
  PROVE  Inflate(blocks) = raw
<1>1. blocks \in Seq(Block) /\ DOMAIN blocks = 1 .. n
  BY DEF Inflates
<1>2. {b \in DOMAIN blocks : blocks[b].final} = {n}
  BY <1>1 DEF Inflates
<1>3. Min({n}) = n
  <2>1. {n} \in SUBSET (1 .. n)
    OBVIOUS
  <2>2. Min({n}) \in {n}
    BY <2>1, NaturalsBelow
  <2>3. QED
    BY <2>2
<1>4. \A b \in 1 .. n : blocks[b].type = 0
  <2>1. \A b \in 1 .. n : blocks[b] \in Block
    BY <1>1
  <2>2. \A x \in Block : x.type = 0
    BY DEF Block
  <2>3. QED
    BY <2>1, <2>2
<1>5. {n} # {}
  OBVIOUS
<1>6. Inflate(blocks) = FlattenSeq([b \in 1 .. n |-> blocks[b].bytes])
  <2>1. Inflate(blocks) = IF {n} = {} \/ \E b \in 1 .. n : blocks[b].type # 0 THEN None
                          ELSE FlattenSeq([b \in 1 .. n |-> blocks[b].bytes])
    BY <1>2, <1>3, Zenon DEF Inflate
  <2>2. ~({n} = {} \/ \E b \in 1 .. n : blocks[b].type # 0)
    BY <1>4, <1>5, Zenon
  <2>3. QED
    BY <2>1, <2>2, Zenon
<1>7. QED
  BY <1>6, Zenon DEF Inflates

(* The stream of rows, each behind its filter.                             *)
RowStream(raw, bytes, stride, height, filter) ==
  /\ raw \in Seq(Byte) /\ Len(raw) = (stride + 1) * height
  /\ \A y \in 1 .. height :
       /\ raw[(y - 1) * (stride + 1) + 1] = filter[y]
       /\ \A j \in 1 .. stride : raw[(y - 1) * (stride + 1) + 1 + j] = bytes[(y - 1) * stride + j]

(* The rows that encode() of png.rs lays out, each behind its filter       *)
(* byte.                                                                   *)
LEMMA RowsAre ==
  ASSUME NEW bytes \in Seq(Byte), NEW stride \in Nat \ {0}, NEW height \in Nat \ {0},
         Len(bytes) = stride * height, NEW filter \in [1 .. height -> 0 .. 4]
  PROVE  RowStream(Rows(bytes, stride, filter), bytes, stride, height, filter)
<1>1. Len(bytes) \div stride = height
  <2>1. PICK a \in Nat : a = Len(bytes) /\ a = stride * height
    OBVIOUS
  <2>2. PICK q \in Nat, r \in 0 .. stride - 1 : q = a \div stride /\ a = stride * q + r
    <3>1. /\ a \div stride \in Nat /\ a % stride \in 0 .. stride - 1
          /\ a = stride * (a \div stride) + (a % stride)
      BY <2>1, Division, Zenon
    <3>2. QED
      BY <3>1, Zenon
  <2>3. stride * height = stride * q + r
    BY <2>1, <2>2
  <2>4. q <= height
    <3>1. CASE q >= height + 1
      <4>1. stride * (height + 1) <= stride * q
        BY <3>1
      <4>2. stride * (height + 1) = stride * height + stride
        OBVIOUS
      <4>3. QED
        BY <2>3, <4>1, <4>2
    <3>2. QED
      BY <3>1
  <2>5. q >= height
    <3>1. CASE q + 1 <= height
      <4>1. stride * (q + 1) <= stride * height
        BY <3>1
      <4>2. stride * (q + 1) = stride * q + stride
        OBVIOUS
      <4>3. QED
        BY <2>3, <4>1, <4>2
    <3>2. QED
      BY <3>1
  <2>6. q = height
    BY <2>4, <2>5
  <2>7. QED
    BY <2>1, <2>2, <2>6
<1> DEFINE seqs == [y \in 1 .. height |-> <<filter[y]>> \o Slice(bytes, (y - 1) * stride, stride)]
           e == [y \in 0 .. height |-> y * (stride + 1)]
<1>2. Rows(bytes, stride, filter) = FlattenSeq(seqs)
  BY <1>1, Zenon DEF Rows
<1>3. ASSUME NEW y \in 1 .. height
      PROVE  /\ seqs[y] \in Seq(Byte) /\ Len(seqs[y]) = stride + 1 /\ seqs[y][1] = filter[y]
             /\ \A j \in 1 .. stride : seqs[y][1 + j] = bytes[(y - 1) * stride + j]
  <2>1. PICK o \in Nat : o = (y - 1) * stride /\ o + stride <= stride * height
    <3>1. y - 1 \in Nat /\ y \in Nat /\ y <= height
      OBVIOUS
    <3>2. (y - 1) * stride \in Nat /\ y * stride <= height * stride
      BY <3>1, Products
    <3>3. (y - 1) * stride + stride = y * stride /\ height * stride = stride * height
      OBVIOUS
    <3>4. QED
      BY <3>2, <3>3
  <2>2. PICK t : t = Slice(bytes, o, stride)
    OBVIOUS
  <2>3. t \in Seq(Byte) /\ IsPiece(t, bytes, o, stride)
    <3>1. o + stride <= Len(bytes)
      BY <2>1
    <3>2. QED
      BY <2>2, <3>1, PieceOf
  <2>4. PICK s : s = <<filter[y]>>
    OBVIOUS
  <2>5. s \in Seq(Byte) /\ Len(s) = 1 /\ s[1] = filter[y]
    <3>1. filter[y] \in Byte
      BY DEF Byte
    <3>2. QED
      BY <2>4, <3>1
  <2>6. PICK u : u = s \o t
    OBVIOUS
  <2>7. Joins(s, t, u)
    BY <2>3, <2>5, <2>6, JoinsAre
  <2>8. seqs[y] = u
    BY <2>1, <2>2, <2>4, <2>6
  <2> HIDE DEF seqs
  <2>9. u \in Seq(Byte) /\ Len(u) = stride + 1 /\ u[1] = filter[y]
    BY <2>3, <2>5, <2>7 DEF Joins, IsPiece
  <2>10. ASSUME NEW j \in 1 .. stride PROVE u[1 + j] = bytes[o + j]
    <3>1. u[Len(s) + j] = t[j] /\ t[j] = bytes[o + j]
      BY <2>3, <2>7 DEF Joins, IsPiece
    <3>2. QED
      BY <2>5, <3>1
  <2>11. QED
    BY <2>1, <2>8, <2>9, <2>10
<1>4. e \in [0 .. height -> Nat] /\ e[0] = 0 /\ e[height] = (stride + 1) * height
  <2>1. ASSUME NEW y \in 0 .. height PROVE y * (stride + 1) \in Nat
    OBVIOUS
  <2>2. e \in [0 .. height -> Nat]
    BY <2>1
  <2>3. height * (stride + 1) = (stride + 1) * height /\ 0 * (stride + 1) = 0
    OBVIOUS
  <2>4. QED
    BY <2>2, <2>3
<1>5. ASSUME NEW y \in 1 .. height PROVE e[y - 1] = (y - 1) * (stride + 1) /\ e[y] = e[y - 1] + (stride + 1)
  <2>1. y * (stride + 1) = (y - 1) * (stride + 1) + (stride + 1)
    OBVIOUS
  <2>2. y - 1 \in 0 .. height /\ y \in 0 .. height
    OBVIOUS
  <2>3. QED
    BY <2>1, <2>2
<1>6. seqs \in [1 .. height -> Seq(Byte)]
  <2>1. seqs = [y \in 1 .. height |-> seqs[y]]
    OBVIOUS
  <2> HIDE DEF seqs
  <2>2. QED
    BY <1>3, <2>1
<1> HIDE DEF seqs, e
<1>7. Ends(e, seqs, height)
  BY <1>3, <1>4, <1>5 DEF Ends
<1>8. PICK raw : raw = FlattenSeq(seqs)
  OBVIOUS
<1>9. raw \in Seq(Byte) /\ LaidOut(raw, seqs, e, height)
  BY <1>6, <1>7, <1>8, Flattened
<1>10. Len(raw) = (stride + 1) * height
  BY <1>4, <1>9 DEF LaidOut
<1>11. ASSUME NEW y \in 1 .. height
       PROVE  /\ raw[(y - 1) * (stride + 1) + 1] = filter[y]
              /\ \A j \in 1 .. stride : raw[(y - 1) * (stride + 1) + 1 + j] = bytes[(y - 1) * stride + j]
  <2>1. PICK o \in Nat : o = (y - 1) * (stride + 1) /\ o = e[y - 1]
    <3>1. (y - 1) * (stride + 1) \in Nat
      OBVIOUS
    <3>2. QED
      BY <1>5, <3>1
  <2>2. \A i \in 1 .. stride + 1 : raw[o + i] = seqs[y][i]
    <3>1. \A i \in 1 .. Len(seqs[y]) : raw[e[y - 1] + i] = seqs[y][i]
      BY <1>9 DEF LaidOut
    <3>2. Len(seqs[y]) = stride + 1
      BY <1>3
    <3>3. QED
      BY <2>1, <3>1, <3>2
  <2>3. raw[o + 1] = filter[y]
    <3>1. 1 \in 1 .. stride + 1
      OBVIOUS
    <3>2. QED
      BY <1>3, <2>2, <3>1
  <2>4. ASSUME NEW j \in 1 .. stride PROVE raw[o + 1 + j] = bytes[(y - 1) * stride + j]
    <3>1. 1 + j \in 1 .. stride + 1 /\ o + 1 + j = o + (1 + j)
      OBVIOUS
    <3>2. raw[o + (1 + j)] = seqs[y][1 + j]
      BY <2>2, <3>1
    <3>3. seqs[y][1 + j] = bytes[(y - 1) * stride + j]
      BY <1>3
    <3>4. QED
      BY <3>1, <3>2, <3>3
  <2>5. QED
    BY <2>1, <2>3, <2>4
<1>12. RowStream(raw, bytes, stride, height, filter)
  BY <1>9, <1>10, <1>11 DEF RowStream
<1>13. QED
  BY <1>2, <1>8, <1>12

-----------------------------------------------------------------------------
(* The five filters of PNG.                                                *)

(* What a filter predicts is a number.                                     *)
LEMMA PredictedInt ==
  ASSUME NEW filter \in 0 .. 4, NEW a \in Int, NEW b \in Int, NEW c \in Int
  PROVE  Predicted(filter, a, b, c) \in Int
<1>1. Paeth(a, b, c) \in Int
  BY DEF Paeth
<1>2. (a + b) \div 2 \in Int
  OBVIOUS
<1>3. filter = 0 \/ filter = 1 \/ filter = 2 \/ filter = 3 \/ filter = 4
  OBVIOUS
<1>4. QED
  BY <1>1, <1>2, <1>3 DEF Predicted

(* Adding modulo 256 undoes subtracting modulo 256.                        *)
LEMMA FilterUndone ==
  ASSUME NEW b \in Byte, NEW p \in Int
  PROVE  (((b - p) % 256) + p) % 256 = b
  BY DEF Byte

(* One byte more of a row that is restored.                                *)
Restores(v, x, filter, previous, channels) ==
  Append(v, Restored(v, x, filter, previous, channels))

(* r[k] is the first k bytes of the row restored.                          *)
UnfilterSteps(r, n, filter, row, previous, channels) ==
  /\ r[0] = <<>> /\ r[n] = Unfilter(filter, row, previous, channels)
  /\ \A k \in 1 .. n : r[k] = Restores(r[k - 1], row[k], filter, previous, channels)

(* Unfilter has the intermediate results that UnfilterSteps names.         *)
LEMMA UnfilterRuns ==
  ASSUME NEW n \in Nat, NEW filter, NEW row, DOMAIN row = 1 .. n, NEW previous, NEW channels
  PROVE  \E r : UnfilterSteps(r, n, filter, row, previous, channels)
<1> DEFINE step(v, x) == Restores(v, x, filter, previous, channels)
           Eq(f, k) == f = [S \in SUBSET (1 .. k) |->
                              IF S = {} THEN <<>> ELSE step(f[S \ {Max(S)}], row[Max(S)])]
           iter == CHOOSE f : f = [S \in SUBSET (1 .. n) |->
                              IF S = {} THEN <<>> ELSE step(f[S \ {Max(S)}], row[Max(S)])]
           K == {k \in Nat : k \in 0 .. n /\ \E f : Eq(f, k)}
<1>1. Unfilter(filter, row, previous, channels) = iter[1 .. n]
  BY Zenon DEF Unfilter, FoldLeft, MapThenFoldSet, Restores
<1> HIDE DEF step, iter
<1>2. 0 \in K
  <2> DEFINE f == [S \in SUBSET (1 .. 0) |-> <<>>]
  <2>1. \A S \in SUBSET (1 .. 0) : S = {}
    OBVIOUS
  <2>2. f = [S \in SUBSET (1 .. 0) |->
               IF S = {} THEN <<>> ELSE step(f[S \ {Max(S)}], row[Max(S)])]
    BY <2>1
  <2> HIDE DEF f
  <2>3. Eq(f, 0)
    BY <2>2
  <2> HIDE DEF Eq
  <2>4. QED
    BY <2>3
<1>3. ASSUME NEW k \in 0 .. n - 1, k \in K PROVE k + 1 \in K
  <2>1. PICK f : Eq(f, k)
    BY <1>3
  <2>2. ASSUME NEW S \in SUBSET (1 .. k)
        PROVE  f[S] = IF S = {} THEN <<>> ELSE step(f[S \ {Max(S)}], row[Max(S)])
    BY <2>1, Zenon
  <2> DEFINE g == [S \in SUBSET (1 .. k + 1) |->
                     IF S \subseteq 1 .. k THEN f[S] ELSE step(f[S \ {Max(S)}], row[Max(S)])]
  <2>3. ASSUME NEW S \in SUBSET (1 .. k + 1), S # {}
        PROVE  S \ {Max(S)} \in SUBSET (1 .. k) /\ S \ {Max(S)} \in SUBSET (1 .. k + 1)
    <3>1. k + 1 \in Nat
      OBVIOUS
    <3>2. Max(S) \in S /\ \A s \in S : s <= Max(S)
      BY <2>3, <3>1, NaturalsBelow
    <3>3. PICK m \in 1 .. k + 1 : m = Max(S)
      BY <3>2
    <3>4. \A s \in S : s # m => s \in 1 .. k
      BY <3>2, <3>3
    <3>5. QED
      BY <3>3, <3>4
  <2>4. ASSUME NEW S \in SUBSET (1 .. k)
        PROVE  g[S] = f[S]
    <3>1. S \in SUBSET (1 .. k + 1)
      OBVIOUS
    <3>2. QED
      BY <3>1
  <2>5. ASSUME NEW S \in SUBSET (1 .. k + 1)
        PROVE  g[S] = IF S = {} THEN <<>> ELSE step(g[S \ {Max(S)}], row[Max(S)])
    <3>1. CASE S = {}
      <4>1. S \in SUBSET (1 .. k)
        BY <3>1
      <4>2. g[S] = f[S]
        BY <2>4, <4>1
      <4> HIDE DEF g
      <4>3. QED
        BY <2>2, <3>1, <4>1, <4>2, Zenon
    <3>2. CASE S # {}
      <4>1. S \ {Max(S)} \in SUBSET (1 .. k)
        BY <2>3, <3>2
      <4>2. g[S \ {Max(S)}] = f[S \ {Max(S)}]
        BY <2>4, <4>1
      <4>3. CASE S \subseteq 1 .. k
        <5>1. g[S] = f[S]
          BY <4>3
        <5> HIDE DEF g
        <5>2. QED
          BY <2>2, <3>2, <4>2, <4>3, <5>1, Zenon
      <4>4. CASE ~(S \subseteq 1 .. k)
        <5>1. g[S] = step(f[S \ {Max(S)}], row[Max(S)])
          BY <4>4
        <5> HIDE DEF g
        <5>2. QED
          BY <3>2, <4>2, <5>1, Zenon
      <4>5. QED
        BY <4>3, <4>4
    <3>3. QED
      BY <3>1, <3>2
  <2>6. g = [S \in SUBSET (1 .. k + 1) |-> g[S]]
    OBVIOUS
  <2> HIDE DEF g
  <2>7. Eq(g, k + 1)
    BY <2>5, <2>6, Zenon
  <2> HIDE DEF Eq
  <2>8. k + 1 \in 0 .. n /\ k + 1 \in Nat
    OBVIOUS
  <2>9. QED
    BY <2>7, <2>8
<1> HIDE DEF K, Eq
<1>4. 0 .. n \subseteq K
  BY <1>2, <1>3, UpTo
<1>5. n \in K
  BY <1>4
<1>6. PICK f : Eq(f, n)
  BY <1>5 DEF K
<1>7. iter = [S \in SUBSET (1 .. n) |->
                IF S = {} THEN <<>> ELSE step(iter[S \ {Max(S)}], row[Max(S)])]
  BY <1>6, Zenon DEF iter, Eq
<1>8. ASSUME NEW S \in SUBSET (1 .. n)
      PROVE  iter[S] = IF S = {} THEN <<>> ELSE step(iter[S \ {Max(S)}], row[Max(S)])
  BY <1>7, Zenon
<1> DEFINE r == [k \in 0 .. n |-> iter[1 .. k]]
<1>9. r[0] = <<>>
  <2>1. 1 .. 0 = {} /\ {} \in SUBSET (1 .. n) /\ r[0] = iter[1 .. 0]
    OBVIOUS
  <2>2. QED
    BY <1>8, <2>1, Zenon
<1>10. ASSUME NEW k \in 1 .. n PROVE r[k] = step(r[k - 1], row[k])
  <2>1. 1 .. k \in SUBSET (1 .. n) /\ k \in Nat /\ k > 0
    OBVIOUS
  <2>2. Max(1 .. k) = k /\ (1 .. k) \ {k} = 1 .. k - 1 /\ 1 .. k # {}
    BY <2>1, Initials
  <2>3. r[k] = iter[1 .. k] /\ r[k - 1] = iter[1 .. k - 1]
    OBVIOUS
  <2> HIDE DEF r
  <2>4. QED
    BY <1>8, <2>1, <2>2, <2>3, Zenon
<1>11. r[n] = iter[1 .. n]
  OBVIOUS
<1> HIDE DEF r
<1>12. UnfilterSteps(r, n, filter, row, previous, channels)
  BY <1>1, <1>9, <1>10, <1>11, Zenon DEF UnfilterSteps, step
<1>13. QED
  BY <1>12

(* row is original with the prediction taken off every byte.               *)
FilteredRow(row, original, previous, filter, channels, n) ==
  \A j \in 1 .. n :
    row[j] = (original[j] - Predicted(filter, At(original, j - channels), previous[j],
                                      At(previous, j - channels))) % 256

(* At() is a number, a byte of the row or the zero left of it.             *)
LEMMA AtInt ==
  ASSUME NEW n \in Nat, NEW row \in [1 .. n -> Byte], NEW i \in Int, i <= n
  PROVE  At(row, i) \in Int
<1>1. CASE i >= 1
  <2>1. row[i] \in Byte
    BY <1>1
  <2>2. Byte \subseteq Int
    BY DEF Byte
  <2>3. QED
    BY <1>1, <2>1, <2>2 DEF At
<1>2. CASE ~(i >= 1)
  BY <1>2 DEF At
<1>3. QED
  BY <1>1, <1>2

(* Reading a row undoes its filter.                                        *)
LEMMA UnfilterGives ==
  ASSUME NEW n \in Nat, NEW filter \in 0 .. 4, NEW channels \in Nat \ {0},
         NEW original \in [1 .. n -> Byte], NEW previous \in [1 .. n -> Byte],
         NEW row, DOMAIN row = 1 .. n,
         FilteredRow(row, original, previous, filter, channels, n)
  PROVE  Unfilter(filter, row, previous, channels) = original
<1>1. PICK r : UnfilterSteps(r, n, filter, row, previous, channels)
  BY UnfilterRuns
<1> DEFINE Prefix(v, k) == v \in Seq(Byte) /\ Len(v) = k /\ \A j \in 1 .. k : v[j] = original[j]
           K == {k \in Nat : k \in 0 .. n /\ Prefix(r[k], k)}
<1>2. 0 \in K
  <2>1. r[0] = <<>> /\ 0 \in 0 .. n
    BY <1>1 DEF UnfilterSteps
  <2>2. Prefix(<<>>, 0)
    OBVIOUS
  <2> HIDE DEF Prefix
  <2>3. QED
    BY <2>1, <2>2
<1>3. ASSUME NEW k \in 0 .. n - 1, k \in K PROVE k + 1 \in K
  <2>1. PICK v : v = r[k]
    OBVIOUS
  <2>2. v \in Seq(Byte) /\ Len(v) = k /\ \A j \in 1 .. k : v[j] = original[j]
    BY <1>3, <2>1
  <2>3. PICK i \in 1 .. n : i = k + 1
    OBVIOUS
  <2>4. r[i] = Restores(v, row[i], filter, previous, channels)
    <3>1. i - 1 = k
      BY <2>3
    <3>2. QED
      BY <1>1, <2>1, <3>1 DEF UnfilterSteps
  <2>5. PICK p : p = Predicted(filter, At(original, i - channels), previous[i], At(previous, i - channels))
    OBVIOUS
  <2>6. At(v, i - channels) = At(original, i - channels)
    <3>1. i - channels \in Int /\ i - channels <= k
      BY <2>3
    <3>2. CASE i - channels >= 1
      <4>1. i - channels \in 1 .. k
        BY <3>1, <3>2
      <4>2. v[i - channels] = original[i - channels]
        BY <2>2, <4>1
      <4>3. QED
        BY <3>2, <4>2 DEF At
    <3>3. CASE ~(i - channels >= 1)
      BY <3>3 DEF At
    <3>4. QED
      BY <3>2, <3>3
  <2>7. r[i] = Append(v, (row[i] + p) % 256)
    <3>1. Len(v) + 1 = i
      BY <2>2, <2>3
    <3>2. QED
      BY <2>4, <2>5, <2>6, <3>1, Zenon DEF Restores, Restored
  <2>8. p \in Int
    <3>1. i - channels \in Int /\ i - channels <= n
      BY <2>3
    <3>2. At(original, i - channels) \in Int /\ At(previous, i - channels) \in Int
      BY <3>1, AtInt
    <3>3. previous[i] \in Int
      <4>1. previous[i] \in Byte
        OBVIOUS
      <4>2. Byte \subseteq Int
        BY DEF Byte
      <4>3. QED
        BY <4>1, <4>2
    <3>4. QED
      BY <2>5, <3>2, <3>3, PredictedInt
  <2>9. row[i] = (original[i] - p) % 256
    BY <2>5 DEF FilteredRow
  <2>10. (row[i] + p) % 256 = original[i]
    <3>1. original[i] \in Byte
      OBVIOUS
    <3>2. (((original[i] - p) % 256) + p) % 256 = original[i]
      BY <2>8, <3>1, FilterUndone
    <3>3. QED
      BY <2>9, <3>2
  <2>11. PICK c \in Byte : c = original[i]
    OBVIOUS
  <2>12. r[i] = Append(v, c)
    BY <2>7, <2>10, <2>11
  <2>13. PICK w : w = Append(v, c)
    OBVIOUS
  <2>14. w \in Seq(Byte) /\ OneLonger(w, v, c)
    BY <2>2, <2>13, Grown
  <2>15. Prefix(w, i)
    <3>1. Len(w) = i /\ w[i] = c /\ \A j \in 1 .. k : w[j] = v[j]
      BY <2>2, <2>3, <2>14 DEF OneLonger
    <3>2. \A j \in 1 .. i : j = i \/ j \in 1 .. k
      BY <2>3
    <3>3. \A j \in 1 .. i : w[j] = original[j]
      BY <2>2, <2>11, <3>1, <3>2
    <3>4. QED
      BY <2>14, <3>1, <3>3
  <2> HIDE DEF Prefix
  <2>16. i \in K
    <3>1. Prefix(r[i], i)
      BY <2>12, <2>13, <2>15, Zenon
    <3>2. i \in Nat /\ i \in 0 .. n
      OBVIOUS
    <3>3. QED
      BY <3>1, <3>2
  <2>17. QED
    BY <2>3, <2>16
<1> HIDE DEF K, Prefix
<1>4. 0 .. n \subseteq K
  BY <1>2, <1>3, UpTo
<1>5. n \in K
  BY <1>4
<1>6. Prefix(r[n], n)
  BY <1>5 DEF K
<1>7. PICK v : v = r[n]
  OBVIOUS
<1>8. v \in Seq(Byte) /\ Len(v) = n /\ \A j \in 1 .. n : v[j] = original[j]
  BY <1>6, <1>7 DEF Prefix
<1>9. v = original
  BY <1>8
<1>10. QED
  BY <1>1, <1>7, <1>9 DEF UnfilterSteps

(* r[k] is the first k rows restored.                                      *)
UnfilteredSteps(r, n, raw, stride, channels) ==
  /\ r[0] = <<>> /\ r[n] = Unfiltered(raw, stride, n, channels)
  /\ \A k \in 1 .. n : r[k] = Append(r[k - 1], RowBelow(r[k - 1], k, raw, stride, channels))

(* Unfiltered has the intermediate results that UnfilteredSteps names.     *)
LEMMA UnfilteredRuns ==
  ASSUME NEW n \in Nat, NEW raw, NEW stride, NEW channels
  PROVE  \E r : UnfilteredSteps(r, n, raw, stride, channels)
<1> DEFINE row == [y \in 1 .. n |-> y]
           step(v, y) == Append(v, RowBelow(v, y, raw, stride, channels))
           Eq(f, k) == f = [S \in SUBSET (1 .. k) |->
                              IF S = {} THEN <<>> ELSE step(f[S \ {Max(S)}], row[Max(S)])]
           iter == CHOOSE f : f = [S \in SUBSET (1 .. n) |->
                              IF S = {} THEN <<>> ELSE step(f[S \ {Max(S)}], row[Max(S)])]
           K == {k \in Nat : k \in 0 .. n /\ \E f : Eq(f, k)}
<1>0. DOMAIN row = 1 .. n
  OBVIOUS
<1>1. Unfiltered(raw, stride, n, channels) = iter[1 .. n]
  <2> HIDE DEF row
  <2>1. Unfiltered(raw, stride, n, channels) =
          FoldLeft(LAMBDA rows, y : Append(rows, RowBelow(rows, y, raw, stride, channels)), <<>>, row)
    BY Zenon DEF Unfiltered, row
  <2>2. FoldLeft(LAMBDA rows, y : Append(rows, RowBelow(rows, y, raw, stride, channels)), <<>>, row) = iter[1 .. n]
    BY <1>0, Zenon DEF FoldLeft, MapThenFoldSet
  <2>3. QED
    BY <2>1, <2>2, Zenon
<1> HIDE DEF step, iter, row
<1>2. 0 \in K
  <2> DEFINE f == [S \in SUBSET (1 .. 0) |-> <<>>]
  <2>1. \A S \in SUBSET (1 .. 0) : S = {}
    OBVIOUS
  <2>2. f = [S \in SUBSET (1 .. 0) |->
               IF S = {} THEN <<>> ELSE step(f[S \ {Max(S)}], row[Max(S)])]
    BY <2>1
  <2> HIDE DEF f
  <2>3. Eq(f, 0)
    BY <2>2
  <2> HIDE DEF Eq
  <2>4. QED
    BY <2>3
<1>3. ASSUME NEW k \in 0 .. n - 1, k \in K PROVE k + 1 \in K
  <2>1. PICK f : Eq(f, k)
    BY <1>3
  <2>2. ASSUME NEW S \in SUBSET (1 .. k)
        PROVE  f[S] = IF S = {} THEN <<>> ELSE step(f[S \ {Max(S)}], row[Max(S)])
    BY <2>1, Zenon
  <2> DEFINE g == [S \in SUBSET (1 .. k + 1) |->
                     IF S \subseteq 1 .. k THEN f[S] ELSE step(f[S \ {Max(S)}], row[Max(S)])]
  <2>3. ASSUME NEW S \in SUBSET (1 .. k + 1), S # {}
        PROVE  S \ {Max(S)} \in SUBSET (1 .. k) /\ S \ {Max(S)} \in SUBSET (1 .. k + 1)
    <3>1. k + 1 \in Nat
      OBVIOUS
    <3>2. Max(S) \in S /\ \A s \in S : s <= Max(S)
      BY <2>3, <3>1, NaturalsBelow
    <3>3. PICK m \in 1 .. k + 1 : m = Max(S)
      BY <3>2
    <3>4. \A s \in S : s # m => s \in 1 .. k
      BY <3>2, <3>3
    <3>5. QED
      BY <3>3, <3>4
  <2>4. ASSUME NEW S \in SUBSET (1 .. k)
        PROVE  g[S] = f[S]
    <3>1. S \in SUBSET (1 .. k + 1)
      OBVIOUS
    <3>2. QED
      BY <3>1
  <2>5. ASSUME NEW S \in SUBSET (1 .. k + 1)
        PROVE  g[S] = IF S = {} THEN <<>> ELSE step(g[S \ {Max(S)}], row[Max(S)])
    <3>1. CASE S = {}
      <4>1. S \in SUBSET (1 .. k)
        BY <3>1
      <4>2. g[S] = f[S]
        BY <2>4, <4>1
      <4> HIDE DEF g
      <4>3. QED
        BY <2>2, <3>1, <4>1, <4>2, Zenon
    <3>2. CASE S # {}
      <4>1. S \ {Max(S)} \in SUBSET (1 .. k)
        BY <2>3, <3>2
      <4>2. g[S \ {Max(S)}] = f[S \ {Max(S)}]
        BY <2>4, <4>1
      <4>3. CASE S \subseteq 1 .. k
        <5>1. g[S] = f[S]
          BY <4>3
        <5> HIDE DEF g
        <5>2. QED
          BY <2>2, <3>2, <4>2, <4>3, <5>1, Zenon
      <4>4. CASE ~(S \subseteq 1 .. k)
        <5>1. g[S] = step(f[S \ {Max(S)}], row[Max(S)])
          BY <4>4
        <5> HIDE DEF g
        <5>2. QED
          BY <3>2, <4>2, <5>1, Zenon
      <4>5. QED
        BY <4>3, <4>4
    <3>3. QED
      BY <3>1, <3>2
  <2>6. g = [S \in SUBSET (1 .. k + 1) |-> g[S]]
    OBVIOUS
  <2> HIDE DEF g
  <2>7. Eq(g, k + 1)
    BY <2>5, <2>6, Zenon
  <2> HIDE DEF Eq
  <2>8. k + 1 \in 0 .. n /\ k + 1 \in Nat
    OBVIOUS
  <2>9. QED
    BY <2>7, <2>8
<1> HIDE DEF K, Eq
<1>4. 0 .. n \subseteq K
  BY <1>2, <1>3, UpTo
<1>5. n \in K
  BY <1>4
<1>6. PICK f : Eq(f, n)
  BY <1>5 DEF K
<1>7. iter = [S \in SUBSET (1 .. n) |->
                IF S = {} THEN <<>> ELSE step(iter[S \ {Max(S)}], row[Max(S)])]
  BY <1>6, Zenon DEF iter, Eq
<1>8. ASSUME NEW S \in SUBSET (1 .. n)
      PROVE  iter[S] = IF S = {} THEN <<>> ELSE step(iter[S \ {Max(S)}], row[Max(S)])
  BY <1>7, Zenon
<1> DEFINE r == [k \in 0 .. n |-> iter[1 .. k]]
<1>9. r[0] = <<>>
  <2>1. 1 .. 0 = {} /\ {} \in SUBSET (1 .. n) /\ r[0] = iter[1 .. 0]
    OBVIOUS
  <2>2. QED
    BY <1>8, <2>1, Zenon
<1>10. ASSUME NEW k \in 1 .. n PROVE r[k] = step(r[k - 1], row[k])
  <2>1. 1 .. k \in SUBSET (1 .. n) /\ k \in Nat /\ k > 0
    OBVIOUS
  <2>2. Max(1 .. k) = k /\ (1 .. k) \ {k} = 1 .. k - 1 /\ 1 .. k # {}
    BY <2>1, Initials
  <2>3. r[k] = iter[1 .. k] /\ r[k - 1] = iter[1 .. k - 1]
    OBVIOUS
  <2> HIDE DEF r
  <2>4. QED
    BY <1>8, <2>1, <2>2, <2>3, Zenon
<1>11. r[n] = iter[1 .. n]
  OBVIOUS
<1> HIDE DEF r
<1>12. UnfilteredSteps(r, n, raw, stride, channels)
  <2>1. \A k \in 1 .. n : row[k] = k
    BY DEF row
  <2>2. QED
    BY <1>1, <1>9, <1>10, <1>11, <2>1, Zenon DEF UnfilteredSteps, step
<1>13. QED
  BY <1>12

(* A row of a picture.                                                     *)
RowOf(bytes, stride, y) == [j \in 1 .. stride |-> bytes[(y - 1) * stride + j]]
(* The row above, which is zero above the first.                           *)
Above(bytes, stride, y) ==
  IF y = 1 THEN [i \in 1 .. stride |-> 0] ELSE RowOf(bytes, stride, y - 1)

(* f are the bytes, each row of them filtered.                             *)
FilteredBytes(f, bytes, stride, height, channels, filter) ==
  \A y \in 1 .. height :
    FilteredRow(RowOf(f, stride, y), RowOf(bytes, stride, y), Above(bytes, stride, y),
                filter[y], channels, stride)

(* A row of a picture is bytes.                                            *)
LEMMA RowTyped ==
  ASSUME NEW bytes \in Seq(Byte), NEW stride \in Nat \ {0}, NEW height \in Nat \ {0},
         Len(bytes) = stride * height, NEW y \in 1 .. height
  PROVE  RowOf(bytes, stride, y) \in [1 .. stride -> Byte]
<1>1. PICK o \in Nat : o = (y - 1) * stride /\ o + stride <= stride * height
  <2>1. y - 1 \in Nat /\ y \in Nat /\ y <= height
    OBVIOUS
  <2>2. (y - 1) * stride \in Nat /\ y * stride <= height * stride
    BY <2>1, Products
  <2>3. (y - 1) * stride + stride = y * stride /\ height * stride = stride * height
    OBVIOUS
  <2>4. QED
    BY <2>2, <2>3
<1>2. ASSUME NEW j \in 1 .. stride PROVE bytes[o + j] \in Byte
  BY <1>1
<1>3. QED
  BY <1>1, <1>2 DEF RowOf

(* The row above is bytes.                                                 *)
LEMMA AboveTyped ==
  ASSUME NEW bytes \in Seq(Byte), NEW stride \in Nat \ {0}, NEW height \in Nat \ {0},
         Len(bytes) = stride * height, NEW y \in 1 .. height
  PROVE  Above(bytes, stride, y) \in [1 .. stride -> Byte]
<1>1. CASE y = 1
  <2>1. 0 \in Byte
    BY DEF Byte
  <2>2. QED
    BY <1>1, <2>1 DEF Above
<1>2. CASE y # 1
  <2>1. y - 1 \in 1 .. height
    BY <1>2
  <2>2. RowOf(bytes, stride, y - 1) \in [1 .. stride -> Byte]
    BY <2>1, RowTyped
  <2>3. QED
    BY <1>2, <2>2 DEF Above
<1>3. QED
  BY <1>1, <1>2

(* The first k rows are those of the picture.                              *)
RowsSoFar(v, k, bytes, stride) ==
  /\ v \in Seq([1 .. stride -> Byte]) /\ Len(v) = k
  /\ \A y \in 1 .. k : v[y] = RowOf(bytes, stride, y)

(* The next row that the decoder restores is the picture's.                *)
LEMMA RowBelowGives ==
  ASSUME NEW bytes \in Seq(Byte), NEW f, NEW raw, NEW stride \in Nat \ {0}, NEW height \in Nat \ {0},
         Len(bytes) = stride * height, NEW channels \in Nat \ {0}, NEW filter \in [1 .. height -> 0 .. 4],
         RowStream(raw, f, stride, height, filter),
         FilteredBytes(f, bytes, stride, height, channels, filter),
         NEW y \in 1 .. height, NEW v, RowsSoFar(v, y - 1, bytes, stride)
  PROVE  RowBelow(v, y, raw, stride, channels) = RowOf(bytes, stride, y)
<1>1. PICK above : above = Above(bytes, stride, y)
  OBVIOUS
<1>2. above \in [1 .. stride -> Byte] /\ RowOf(bytes, stride, y) \in [1 .. stride -> Byte]
  BY <1>1, AboveTyped, RowTyped
<1>3. (IF y = 1 THEN [i \in 1 .. stride |-> 0] ELSE Last(v)) = above
  <2>1. CASE y = 1
    BY <1>1, <2>1 DEF Above
  <2>2. CASE y # 1
    <3>1. Len(v) = y - 1 /\ y - 1 \in 1 .. y - 1
      BY <2>2 DEF RowsSoFar
    <3>2. Last(v) = RowOf(bytes, stride, y - 1)
      BY <3>1 DEF Last, RowsSoFar
    <3>3. QED
      BY <1>1, <2>2, <3>2 DEF Above
  <2>3. QED
    BY <2>1, <2>2
<1>4. PICK start \in Nat : start = (y - 1) * (stride + 1)
  OBVIOUS
<1>5. raw \in Seq(Byte) /\ start + 1 + stride <= Len(raw)
  <2>1. y \in Nat /\ y <= height /\ stride + 1 \in Nat
    OBVIOUS
  <2>2. y * (stride + 1) <= height * (stride + 1)
    BY <2>1, Products
  <2>3. y * (stride + 1) = start + (stride + 1) /\ height * (stride + 1) = (stride + 1) * height
    BY <1>4
  <2>4. raw \in Seq(Byte) /\ Len(raw) = (stride + 1) * height
    BY DEF RowStream
  <2>5. QED
    BY <2>2, <2>3, <2>4
<1>6. PICK row : row = Slice(raw, start + 1, stride)
  OBVIOUS
<1>7. row \in Seq(Byte) /\ IsPiece(row, raw, start + 1, stride)
  <2>1. PICK from \in Nat : from = start + 1
    OBVIOUS
  <2>2. from + stride <= Len(raw)
    BY <1>5, <2>1
  <2>3. Slice(raw, from, stride) \in Seq(Byte) /\ IsPiece(Slice(raw, from, stride), raw, from, stride)
    BY <1>5, <2>2, PieceOf
  <2>4. QED
    BY <1>6, <2>1, <2>3
<1>8. DOMAIN row = 1 .. stride
  BY <1>7 DEF IsPiece
<1>9. FilteredRow(row, RowOf(bytes, stride, y), above, filter[y], channels, stride)
  <2>1. FilteredRow(RowOf(f, stride, y), RowOf(bytes, stride, y), above, filter[y], channels, stride)
    BY <1>1 DEF FilteredBytes
  <2>2. \A j \in 1 .. stride : row[j] = RowOf(f, stride, y)[j]
    <3>1. ASSUME NEW j \in 1 .. stride PROVE row[j] = RowOf(f, stride, y)[j]
      <4>1. row[j] = raw[start + 1 + j]
        BY <1>7 DEF IsPiece
      <4>2. raw[(y - 1) * (stride + 1) + 1 + j] = f[(y - 1) * stride + j]
        BY DEF RowStream
      <4>3. RowOf(f, stride, y)[j] = f[(y - 1) * stride + j]
        BY DEF RowOf
      <4>4. QED
        BY <1>4, <4>1, <4>2, <4>3
    <3>2. QED
      BY <3>1
  <2>3. QED
    BY <2>1, <2>2 DEF FilteredRow
<1>10. raw[start + 1] = filter[y] /\ filter[y] \in 0 .. 4
  BY <1>4 DEF RowStream
<1>11. Unfilter(filter[y], row, above, channels) = RowOf(bytes, stride, y)
  BY <1>2, <1>8, <1>9, <1>10, UnfilterGives
<1>12. RowBelow(v, y, raw, stride, channels) = Unfilter(raw[start + 1], row, above, channels)
  BY <1>3, <1>4, <1>6, Zenon DEF RowBelow
<1>13. QED
  BY <1>10, <1>11, <1>12, Zenon

(* Reading the rows undoes their filters.                                  *)
LEMMA UnfilteredGives ==
  ASSUME NEW bytes \in Seq(Byte), NEW f, NEW raw, NEW stride \in Nat \ {0}, NEW height \in Nat \ {0},
         Len(bytes) = stride * height, NEW channels \in Nat \ {0}, NEW filter \in [1 .. height -> 0 .. 4],
         RowStream(raw, f, stride, height, filter),
         FilteredBytes(f, bytes, stride, height, channels, filter)
  PROVE  RowsSoFar(Unfiltered(raw, stride, height, channels), height, bytes, stride)
<1>1. PICK r : UnfilteredSteps(r, height, raw, stride, channels)
  BY UnfilteredRuns
<1> DEFINE K == {k \in Nat : k \in 0 .. height /\ RowsSoFar(r[k], k, bytes, stride)}
<1>2. 0 \in K
  <2>1. r[0] = <<>>
    BY <1>1 DEF UnfilteredSteps
  <2>2. RowsSoFar(<<>>, 0, bytes, stride)
    BY DEF RowsSoFar
  <2>3. QED
    BY <2>1, <2>2
<1>3. ASSUME NEW k \in 0 .. height - 1, k \in K PROVE k + 1 \in K
  <2>1. PICK y \in 1 .. height : y = k + 1 /\ y - 1 = k
    OBVIOUS
  <2>2. PICK v : v = r[k]
    OBVIOUS
  <2>3. RowsSoFar(v, k, bytes, stride)
    BY <1>3, <2>2
  <2>4. RowBelow(v, y, raw, stride, channels) = RowOf(bytes, stride, y)
    BY <2>1, <2>3, RowBelowGives
  <2>5. PICK row \in [1 .. stride -> Byte] : row = RowOf(bytes, stride, y)
    BY RowTyped
  <2>6. r[y] = Append(v, row)
    BY <1>1, <2>1, <2>2, <2>4, <2>5 DEF UnfilteredSteps
  <2>7. PICK w : w = Append(v, row)
    OBVIOUS
  <2>8. v \in Seq([1 .. stride -> Byte]) /\ Len(v) = k /\ \A i \in 1 .. k : v[i] = RowOf(bytes, stride, i)
    BY <2>3 DEF RowsSoFar
  <2>9. w \in Seq([1 .. stride -> Byte]) /\ OneLonger(w, v, row)
    BY <2>7, <2>8, Grown
  <2>10. RowsSoFar(w, y, bytes, stride)
    <3>1. Len(w) = y /\ w[y] = row /\ \A i \in 1 .. k : w[i] = v[i]
      BY <2>1, <2>8, <2>9 DEF OneLonger
    <3>2. \A i \in 1 .. y : i = y \/ i \in 1 .. k
      BY <2>1
    <3>3. \A i \in 1 .. y : w[i] = RowOf(bytes, stride, i)
      BY <2>5, <2>8, <3>1, <3>2
    <3>4. QED
      BY <2>9, <3>1, <3>3 DEF RowsSoFar
  <2>11. y \in K
    <3>1. RowsSoFar(r[y], y, bytes, stride)
      BY <2>6, <2>7, <2>10, Zenon
    <3>2. y \in Nat /\ y \in 0 .. height
      OBVIOUS
    <3>3. QED
      BY <3>1, <3>2
  <2>12. QED
    BY <2>1, <2>11
<1> HIDE DEF K
<1>4. 0 .. height \subseteq K
  BY <1>2, <1>3, UpTo
<1>5. height \in K
  BY <1>4
<1>6. RowsSoFar(r[height], height, bytes, stride)
  BY <1>5 DEF K
<1>7. QED
  BY <1>1, <1>6 DEF UnfilteredSteps

(* Quotient and remainder of a sum of a multiple and a remainder.          *)
LEMMA DivisionIs ==
  ASSUME NEW m \in Nat \ {0}, NEW q \in Nat, NEW r \in 0 .. m - 1, NEW a, a = m * q + r
  PROVE  a \in Nat /\ a \div m = q /\ a % m = r
<1>1. a \in Nat
  <2>1. m * q \in Nat
    OBVIOUS
  <2>2. QED
    BY <2>1
<1>2. PICK d \in Nat, s \in 0 .. m - 1 : d = a \div m /\ s = a % m /\ a = m * d + s
  BY <1>1, Division
<1>3. m * q + r = m * d + s
  BY <1>2
<1>4. d <= q
  <2>1. CASE d >= q + 1
    <3>1. m * (q + 1) <= m * d
      BY <2>1
    <3>2. m * (q + 1) = m * q + m
      OBVIOUS
    <3>3. m * q \in Nat /\ m * d \in Nat
      OBVIOUS
    <3>4. QED
      BY <1>3, <3>1, <3>2, <3>3
  <2>2. QED
    BY <2>1
<1>5. d >= q
  <2>1. CASE q >= d + 1
    <3>1. m * (d + 1) <= m * q
      BY <2>1
    <3>2. m * (d + 1) = m * d + m
      OBVIOUS
    <3>3. m * q \in Nat /\ m * d \in Nat
      OBVIOUS
    <3>4. QED
      BY <1>3, <3>1, <3>2, <3>3
  <2>2. QED
    BY <2>1
<1>6. d = q
  BY <1>4, <1>5
<1>7. m * q \in Nat
  OBVIOUS
<1>8. r = s
  BY <1>3, <1>6, <1>7
<1>9. QED
  BY <1>1, <1>2, <1>6, <1>8

(* Where byte j of row y is.                                               *)
LEMMA Position ==
  ASSUME NEW stride \in Nat \ {0}, NEW height \in Nat \ {0},
         NEW y \in 1 .. height, NEW j \in 1 .. stride,
         NEW i, i = (y - 1) * stride + j
  PROVE  /\ i \in 1 .. stride * height
         /\ (i - 1) % stride = j - 1 /\ (i - 1) \div stride = y - 1
<1>1. PICK q \in Nat : q = y - 1
  OBVIOUS
<1>2. PICK r \in 0 .. stride - 1 : r = j - 1
  OBVIOUS
<1>3. PICK o \in Nat : o = q * stride
  OBVIOUS
<1>4. i = o + r + 1 /\ i - 1 = stride * q + r
  BY <1>1, <1>2, <1>3
<1>5. o + stride <= stride * height
  <2>1. y \in Nat /\ y <= height
    OBVIOUS
  <2>2. y * stride <= height * stride
    BY <2>1, Products
  <2>3. y * stride = o + stride /\ height * stride = stride * height
    BY <1>1, <1>3
  <2>4. QED
    BY <2>2, <2>3
<1>6. PICK total \in Nat : total = stride * height
  OBVIOUS
<1>7. i \in 1 .. total
  BY <1>4, <1>5, <1>6
<1>8. (i - 1) \div stride = q /\ (i - 1) % stride = r
  BY <1>4, DivisionIs
<1>9. QED
  BY <1>1, <1>2, <1>6, <1>7, <1>8

(* Rows as encode() of png.rs writes them, filter 0, are filtered rows.    *)
LEMMA PlainRows ==
  ASSUME NEW bytes \in Seq(Byte), NEW stride \in Nat \ {0}, NEW height \in Nat \ {0},
         Len(bytes) = stride * height, NEW channels
  PROVE  FilteredBytes(bytes, bytes, stride, height, channels, [y \in 1 .. height |-> 0])
<1> DEFINE filter == [y \in 1 .. height |-> 0]
<1>1. \A y \in 1 .. height : filter[y] = 0
  OBVIOUS
<1>2. ASSUME NEW y \in 1 .. height
      PROVE  FilteredRow(RowOf(bytes, stride, y), RowOf(bytes, stride, y),
                         Above(bytes, stride, y), 0, channels, stride)
  <2>1. PICK row : row = RowOf(bytes, stride, y)
    OBVIOUS
  <2>2. row \in [1 .. stride -> Byte]
    BY <2>1, RowTyped
  <2>3. ASSUME NEW j \in 1 .. stride, NEW a, NEW b, NEW c
        PROVE  row[j] = (row[j] - Predicted(0, a, b, c)) % 256
    <3>1. PICK x : x = row[j]
      OBVIOUS
    <3>2. x \in Byte
      BY <2>2, <3>1
    <3>3. Predicted(0, a, b, c) = 0
      BY DEF Predicted
    <3>4. (x - 0) % 256 = x
      BY <3>2 DEF Byte
    <3>5. QED
      BY <3>1, <3>3, <3>4
  <2>4. PICK above : above = Above(bytes, stride, y)
    OBVIOUS
  <2>5. FilteredRow(row, row, above, 0, channels, stride)
    <3> SUFFICES ASSUME NEW j \in 1 .. stride
                 PROVE  row[j] = (row[j] - Predicted(0, At(row, j - channels), above[j],
                                                     At(above, j - channels))) % 256
      BY DEF FilteredRow
    <3>1. QED
      BY <2>3
  <2>6. QED
    BY <2>1, <2>4, <2>5
<1> HIDE DEF filter
<1>3. FilteredBytes(bytes, bytes, stride, height, channels, filter)
  BY <1>1, <1>2, Zenon DEF FilteredBytes
<1>4. QED
  BY <1>3 DEF filter

(* f is the bytes filtered row by row, and has their length.               *)
IsFiltered(f, bytes, stride, height, channels, filter) ==
  /\ FilteredBytes(f, bytes, stride, height, channels, filter)
  /\ f \in Seq(Byte) /\ Len(f) = stride * height

(* Rows as another program writes them, with any filter for each row, are  *)
(* filtered rows.                                                          *)
LEMMA FilteredRows ==
  ASSUME NEW bytes \in Seq(Byte), NEW stride \in Nat \ {0}, NEW height \in Nat \ {0},
         Len(bytes) = stride * height, NEW channels \in 1 .. stride,
         NEW filter \in [1 .. height -> 0 .. 4]
  PROVE  IsFiltered(Filtered(bytes, stride, channels, filter), bytes, stride, height, channels, filter)
<1> DEFINE left(i) == IF (i - 1) % stride >= channels THEN i - channels ELSE 0
           up(i) == i - stride
           corner(i) == IF left(i) > 0 THEN left(i) - stride ELSE 0
           line(i) == 1 + ((i - 1) \div stride)
           pred(i) == Predicted(filter[line(i)], At(bytes, left(i)), At(bytes, up(i)), At(bytes, corner(i)))
           g == [i \in 1 .. Len(bytes) |-> (bytes[i] - pred(i)) % 256]
<1>1. Filtered(bytes, stride, channels, filter) = Tuple(g)
  <2>1. DOMAIN bytes = 1 .. Len(bytes)
    OBVIOUS
  <2>2. QED
    BY <2>1, Zenon DEF Filtered
<1>2. PICK total \in Nat : total = Len(bytes)
  OBVIOUS
<1>3. ASSUME NEW i \in 1 .. total
      PROVE  line(i) \in 1 .. height /\ (i - 1) % stride \in 0 .. stride - 1
  <2>1. PICK a \in Nat : a = i - 1
    OBVIOUS
  <2>2. PICK q \in Nat, r \in 0 .. stride - 1 : q = a \div stride /\ r = a % stride /\ a = stride * q + r
    <3>1. /\ a \div stride \in Nat /\ a % stride \in 0 .. stride - 1
          /\ a = stride * (a \div stride) + (a % stride)
      BY <2>1, Division, Zenon
    <3>2. QED
      BY <3>1, Zenon
  <2>3. q < height
    <3>1. CASE q >= height
      <4>1. stride * height <= stride * q
        BY <3>1
      <4>2. stride * height \in Nat /\ stride * q \in Nat
        OBVIOUS
      <4>3. a < total /\ total = stride * height
        BY <1>2, <2>1
      <4>4. QED
        BY <2>2, <4>1, <4>2, <4>3
    <3>2. QED
      BY <3>1
  <2>4. QED
    BY <2>1, <2>2, <2>3
<1>4. ASSUME NEW i \in 1 .. total
      PROVE  pred(i) \in Int /\ bytes[i] \in Byte
  <2>1. left(i) \in Int /\ left(i) <= total
    BY <1>3
  <2>2. up(i) \in Int /\ up(i) <= total
    OBVIOUS
  <2>3. corner(i) \in Int /\ corner(i) <= total
    <3> HIDE DEF left
    <3>1. QED
      BY <2>1
  <2>4. bytes \in [1 .. total -> Byte]
    BY <1>2
  <2>5. filter[line(i)] \in 0 .. 4
    <3> HIDE DEF line
    <3>1. QED
      BY <1>3
  <2> HIDE DEF left, up, corner, line
  <2>6. At(bytes, left(i)) \in Int /\ At(bytes, up(i)) \in Int /\ At(bytes, corner(i)) \in Int
    BY <2>1, <2>2, <2>3, <2>4, AtInt
  <2>7. QED
    BY <2>4, <2>5, <2>6, PredictedInt
<1>5. ASSUME NEW i \in 1 .. total PROVE g[i] \in Byte
  <2>1. PICK p \in Int : p = pred(i)
    BY <1>4
  <2>2. PICK b \in Int : b = bytes[i]
    <3>1. Byte \subseteq Int
      BY DEF Byte
    <3>2. QED
      BY <1>4, <3>1
  <2>3. (b - p) % 256 \in Byte
    BY DEF Byte
  <2>4. g[i] = (b - p) % 256
    <3> HIDE DEF pred
    <3>1. QED
      BY <1>2, <2>1, <2>2
  <2>5. QED
    BY <2>3, <2>4
<1>6. g \in Seq(Byte) /\ Len(g) = total /\ Tuple(g) = g
  <2>1. g = [i \in 1 .. total |-> g[i]]
    BY <1>2
  <2> HIDE DEF g
  <2>2. Tuple(g) = g /\ Len(g) = total
    BY <2>1, TupleIsTheSequence
  <2>3. g \in [1 .. total -> Byte]
    BY <1>5, <2>1
  <2>4. g \in Seq(Byte)
    BY <2>3
  <2>5. QED
    BY <2>2, <2>4
<1>7. ASSUME NEW y \in 1 .. height, NEW j \in 1 .. stride
      PROVE  RowOf(g, stride, y)[j] =
               (RowOf(bytes, stride, y)[j]
                  - Predicted(filter[y], At(RowOf(bytes, stride, y), j - channels),
                              Above(bytes, stride, y)[j],
                              At(Above(bytes, stride, y), j - channels))) % 256
  <2>1. PICK o \in Nat : o = (y - 1) * stride
    OBVIOUS
  <2>2. PICK i : i = o + j
    OBVIOUS
  <2>3. i \in 1 .. total /\ (i - 1) % stride = j - 1 /\ (i - 1) \div stride = y - 1
    <3>1. i = (y - 1) * stride + j
      BY <2>1, <2>2
    <3>2. /\ i \in 1 .. stride * height
          /\ (i - 1) % stride = j - 1 /\ (i - 1) \div stride = y - 1
      BY <3>1, Position
    <3>3. QED
      BY <1>2, <3>2
  <2>4. line(i) = y
    BY <2>3
  <2>5. left(i) = IF j - channels >= 1 THEN i - channels ELSE 0
    BY <2>3
  <2>6. PICK l \in Int : l = j - channels /\ l < j
    OBVIOUS
  <2>7. At(bytes, left(i)) = At(RowOf(bytes, stride, y), l)
    <3>1. CASE l >= 1
      <4>1. left(i) = o + l /\ o + l >= 1 /\ l \in 1 .. stride
        BY <2>2, <2>5, <2>6, <3>1
      <4>2. RowOf(bytes, stride, y)[l] = bytes[o + l]
        BY <2>1, <4>1 DEF RowOf
      <4> HIDE DEF left
      <4>3. QED
        BY <3>1, <4>1, <4>2 DEF At
    <3>2. CASE ~(l >= 1)
      <4>1. left(i) = 0
        BY <2>5, <2>6, <3>2
      <4> HIDE DEF left
      <4>2. QED
        BY <3>2, <4>1 DEF At
    <3>3. QED
      BY <3>1, <3>2
  <2>8. At(bytes, up(i)) = Above(bytes, stride, y)[j]
    <3>1. CASE y = 1
      <4>1. up(i) = j - stride
        BY <2>1, <2>2, <3>1
      <4>2. ~(up(i) >= 1)
        BY <4>1
      <4>3. Above(bytes, stride, y)[j] = 0
        BY <3>1 DEF Above
      <4> HIDE DEF up
      <4>4. QED
        BY <4>2, <4>3 DEF At
    <3>2. CASE y # 1
      <4>1. PICK u \in Nat : u = (y - 1 - 1) * stride /\ o = u + stride
        BY <2>1, <3>2
      <4>2. up(i) = u + j /\ u + j >= 1
        BY <2>2, <4>1
      <4>3. Above(bytes, stride, y)[j] = bytes[u + j]
        BY <3>2, <4>1 DEF Above, RowOf
      <4> HIDE DEF up
      <4>4. QED
        BY <4>2, <4>3 DEF At
    <3>3. QED
      BY <3>1, <3>2
  <2>9. At(bytes, corner(i)) = At(Above(bytes, stride, y), l)
    <3>1. CASE l >= 1
      <4>1. left(i) = o + l /\ l \in 1 .. stride
        BY <2>2, <2>5, <2>6, <3>1
      <4>2. corner(i) = o + l - stride
        <5>1. left(i) > 0
          BY <4>1
        <5> HIDE DEF left
        <5>2. QED
          BY <4>1, <5>1
      <4>3. CASE y = 1
        <5>1. ~(corner(i) >= 1)
          <6>1. o = 0
            BY <2>1, <4>3
          <6> HIDE DEF corner
          <6>2. QED
            BY <4>1, <4>2, <6>1
        <5>2. Above(bytes, stride, y)[l] = 0
          BY <4>1, <4>3 DEF Above
        <5> HIDE DEF corner
        <5>3. QED
          BY <3>1, <5>1, <5>2 DEF At
      <4>4. CASE y # 1
        <5>1. PICK u \in Nat : u = (y - 1 - 1) * stride /\ o = u + stride
          BY <2>1, <4>4
        <5>2. corner(i) = u + l /\ u + l >= 1
          <6> HIDE DEF corner
          <6>1. QED
            BY <3>1, <4>2, <5>1
        <5>3. Above(bytes, stride, y)[l] = bytes[u + l]
          BY <4>1, <4>4, <5>1 DEF Above, RowOf
        <5> HIDE DEF corner
        <5>4. QED
          BY <3>1, <5>2, <5>3 DEF At
      <4>5. QED
        BY <4>3, <4>4
    <3>2. CASE ~(l >= 1)
      <4>1. left(i) = 0
        BY <2>5, <2>6, <3>2
      <4>2. corner(i) = 0
        <5> HIDE DEF left
        <5>1. QED
          BY <4>1
      <4> HIDE DEF corner
      <4>3. QED
        BY <3>2, <4>2 DEF At
    <3>3. QED
      BY <3>1, <3>2
  <2>10. RowOf(g, stride, y)[j] = g[i] /\ RowOf(bytes, stride, y)[j] = bytes[i]
    <3> HIDE DEF g
    <3>1. QED
      BY <2>1, <2>2 DEF RowOf
  <2>11. g[i] = (bytes[i] - pred(i)) % 256
    <3> HIDE DEF pred
    <3>1. QED
      BY <1>2, <2>3
  <2> HIDE DEF g, left, up, corner, line
  <2>12. QED
    BY <2>4, <2>6, <2>7, <2>8, <2>9, <2>10, <2>11, Zenon
<1> HIDE DEF g
<1>8. FilteredBytes(g, bytes, stride, height, channels, filter)
  BY <1>7, Zenon DEF FilteredBytes, FilteredRow
<1>9. QED
  BY <1>1, <1>2, <1>6, <1>8 DEF IsFiltered

-----------------------------------------------------------------------------
(* Reading a PNG file.                                                     *)

(* The chunks that decode() reads, and the stream they hold.               *)
ReadOf(file) ==
  SubSeq(file, 1, Min({i \in DOMAIN file : file[i].kind = "IEND"} \cup {Len(file) + 1}) - 1)

StreamOf(read) ==
  FlattenSeq([i \in DOMAIN read |-> IF read[i].kind = "IDAT" THEN read[i].blocks ELSE <<>>])

HeadersOf(read) == {i \in DOMAIN read : read[i].kind = "IHDR"}

(* What decode() of png.rs refuses before it looks at the data.            *)
Refused(read) ==
  \/ HeadersOf(read) = {}
  \/ \E i \in HeadersOf(read) : \/ read[i].depth # 8
                                \/ read[i].interlace # 0
                                \/ Channels(read[i].color) = 0

(* The picture that decode() makes out of restored rows, without alpha.    *)
Pixels(h, rows, channels) ==
  [width |-> h.width, height |-> h.height,
   data |-> Tuple([i \in 1 .. 3 * h.width * h.height |->
              LET p == (i - 1) \div 3
              IN rows[1 + (p \div h.width)]
                     [(p % h.width) * channels + ((i - 1) % 3) + 1]])]

(* No header, or one that is not supported, is an error.                   *)
LEMMA NotRead ==
  ASSUME NEW file, Refused(ReadOf(file))
  PROVE  decode_png(file) = None
BY Zenon DEF decode_png, Refused, ReadOf, HeadersOf

(* A stream that does not inflate is an error.                             *)
LEMMA NoPicture ==
  ASSUME NEW file, Inflate(StreamOf(ReadOf(file))) = None
  PROVE  decode_png(file) = None
BY Zenon DEF decode_png, ReadOf, StreamOf

(* The stream is long enough and has the five filters only.                *)
Suffices(raw, stride, height) ==
  /\ raw # None
  /\ ~(Len(raw) < (stride + 1) * height)
  /\ ~\E y \in 0 .. height - 1 : raw[y * (stride + 1) + 1] \notin 0 .. 4

(* decode() in the terms of these proofs.                                  *)
LEMMA DecodeIs ==
  ASSUME NEW file
  PROVE  decode_png(file) =
           LET read == ReadOf(file)
               h == read[Max(HeadersOf(read))]
               channels == Channels(h.color)
               stride == h.width * channels
               raw == Inflate(StreamOf(read))
           IN IF Refused(read) THEN None
              ELSE IF h.width = 0 \/ h.height = 0 \/ raw = None THEN None
              ELSE IF Len(raw) < (stride + 1) * h.height THEN None
              ELSE IF \E y \in 0 .. h.height - 1 : raw[y * (stride + 1) + 1] \notin 0 .. 4
                   THEN None
              ELSE Pixels(h, Unfiltered(raw, stride, h.height, channels), channels)
BY Zenon DEF decode_png, Refused, ReadOf, StreamOf, HeadersOf, Pixels

(* decode() where nothing is wrong with the file.                          *)
LEMMA Decodes ==
  ASSUME NEW file, NEW read, read = ReadOf(file), ~Refused(read),
         NEW h, h = read[Max(HeadersOf(read))], NEW raw, raw = Inflate(StreamOf(read)),
         h.width # 0, h.height # 0,
         NEW channels, channels = Channels(h.color),
         NEW stride, stride = h.width * channels,
         Suffices(raw, stride, h.height)
  PROVE  decode_png(file) = Pixels(h, Unfiltered(raw, stride, h.height, channels), channels)
BY DecodeIs, Zenon DEF Suffices

(* The bytes of a picture in three or four channels.                       *)
BytesIn(img, channels) == IF channels = 4 THEN to_rgba(img) ELSE img.data

(* The sizes of a picture's bytes in three and four channels.              *)
LEMMA Sized ==
  ASSUME NEW img, IsImage(img)
  PROVE  \E n \in Nat \ {0} :
           /\ n = img.width * img.height /\ Len(img.data) = 3 * n
           /\ 3 * img.width * img.height = 3 * n /\ 4 * img.width * img.height = 4 * n
<1>1. PICK w \in Nat \ {0}, h \in Nat \ {0} : w = img.width /\ h = img.height
  BY DEF IsImage
<1>2. PICK n \in Nat \ {0} : n = w * h
  OBVIOUS
<1>3. 3 * w * h = 3 * n /\ 4 * w * h = 4 * n
  BY <1>2
<1>4. Len(img.data) = 3 * w * h
  BY <1>1 DEF IsImage
<1>5. QED
  BY <1>1, <1>2, <1>3, <1>4

(* The pixels of data, in as many channels.                                *)
Shows(bytes, channels, data, n) ==
  \A p \in 0 .. n - 1, c \in 0 .. 2 : bytes[channels * p + c + 1] = data[3 * p + c + 1]

(* Three or four bytes for every pixel, the colours first.                 *)
LEMMA BytesAre ==
  ASSUME NEW img, IsImage(img), NEW channels \in {3, 4},
         NEW n \in Nat, n = img.width * img.height,
         NEW bytes, bytes = BytesIn(img, channels)
  PROVE  /\ bytes \in Seq(Byte) /\ Len(bytes) = channels * n
         /\ Shows(bytes, channels, img.data, n)
<1>1. /\ Len(img.data) = 3 * n /\ 4 * img.width * img.height = 4 * n
      /\ img.data \in Seq(Byte)
  BY Sized DEF IsImage
<1>2. CASE channels = 3
  <2>1. bytes = img.data
    BY <1>2 DEF BytesIn
  <2>2. QED
    BY <1>1, <1>2, <2>1 DEF Shows
<1>3. CASE channels = 4
  <2> DEFINE g == [i \in 1 .. 4 * n |->
                     LET channel == (i - 1) % 4
                     IN IF channel = 3 THEN 255
                        ELSE img.data[((i - 1) \div 4) * 3 + channel + 1]]
  <2>1. to_rgba(img) = Tuple(g)
    BY <1>1, Zenon DEF to_rgba
  <2>2. PICK data \in [1 .. 3 * n -> Byte] : data = img.data
    BY <1>1
  <2>3. ASSUME NEW p \in 0 .. n - 1, NEW c \in 0 .. 3
        PROVE  g[4 * p + c + 1] = IF c = 3 THEN 255 ELSE data[3 * p + c + 1]
    <3>1. PICK i \in 1 .. 4 * n : i = 4 * p + c + 1 /\ i - 1 = 4 * p + c
      OBVIOUS
    <3>2. (i - 1) \div 4 = p /\ (i - 1) % 4 = c
      BY <3>1
    <3>3. g[i] = IF c = 3 THEN 255 ELSE img.data[p * 3 + c + 1]
      BY <3>2
    <3>4. p * 3 = 3 * p
      OBVIOUS
    <3> HIDE DEF g
    <3>5. QED
      BY <2>2, <3>1, <3>3, <3>4
  <2>4. ASSUME NEW i \in 1 .. 4 * n
        PROVE  g[i] \in Byte
    <3>1. PICK p \in 0 .. n - 1, c \in 0 .. 3 : i = 4 * p + c + 1
      <4>1. PICK a \in Nat : a = i - 1 /\ a < 4 * n
        OBVIOUS
      <4>2. PICK q, r : q = a \div 4 /\ r = a % 4
        OBVIOUS
      <4>3. q \in 0 .. n - 1 /\ r \in 0 .. 3 /\ i = 4 * q + r + 1
        BY <4>1, <4>2, SMTT(20)
      <4>4. QED
        BY <4>3
    <3> HIDE DEF g
    <3>2. g[i] = IF c = 3 THEN 255 ELSE data[3 * p + c + 1]
      <4>1. g[4 * p + c + 1] = IF c = 3 THEN 255 ELSE data[3 * p + c + 1]
        BY <2>3, ZenonT(30)
      <4>2. QED
        BY <3>1, <4>1, Zenon
    <3>3. c # 3 => data[3 * p + c + 1] \in Byte
      <4>1. c # 3 => 3 * p + c + 1 \in 1 .. 3 * n
        OBVIOUS
      <4>2. QED
        BY <2>2, <4>1
    <3>4. 255 \in Byte
      BY DEF Byte
    <3>5. QED
      BY <3>2, <3>3, <3>4
  <2>5. g = [i \in 1 .. 4 * n |-> g[i]] /\ 4 * n \in Nat
    OBVIOUS
  <2> HIDE DEF g
  <2>6. Tuple(g) = g /\ Len(g) = 4 * n
    BY <2>5, TupleIsTheSequence
  <2>7. bytes = g
    BY <1>3, <2>1, <2>6 DEF BytesIn
  <2>8. g \in [1 .. 4 * n -> Byte]
    BY <2>4, <2>5
  <2>9. g \in Seq(Byte)
    <3>1. PICK m \in Nat : m = 4 * n
      OBVIOUS
    <3>2. g \in [1 .. m -> Byte]
      BY <2>8, <3>1
    <3>3. QED
      BY <3>2
  <2>10. ASSUME NEW p \in 0 .. n - 1, NEW c \in 0 .. 2
         PROVE  g[4 * p + c + 1] = data[3 * p + c + 1]
    <3>1. c \in 0 .. 3 /\ c # 3
      OBVIOUS
    <3>2. QED
      BY <2>3, <3>1
  <2>11. Shows(g, 4, data, n)
    BY <2>10 DEF Shows
  <2>12. QED
    BY <1>3, <2>2, <2>6, <2>7, <2>9, <2>11
<1>4. QED
  BY <1>2, <1>3

(* The rows of the bytes show the picture.                                 *)
LEMMA PixelsAre ==
  ASSUME NEW img, IsImage(img), NEW h, h.width = img.width, h.height = img.height,
         NEW channels \in {3, 4}, NEW stride, stride = img.width * channels,
         NEW rows, RowsSoFar(rows, img.height, BytesIn(img, channels), stride)
  PROVE  Pixels(h, rows, channels) = img
<1>1. PICK w \in Nat \ {0}, k \in Nat \ {0} : w = img.width /\ k = img.height
  BY DEF IsImage
<1>2. PICK n \in Nat \ {0} : n = w * k
  OBVIOUS
<1>3. PICK bytes : bytes = BytesIn(img, channels)
  OBVIOUS
<1>4. PICK data \in Seq(Byte) : data = img.data /\ Len(data) = 3 * n /\ 3 * w * k = 3 * n
  BY <1>1, <1>2, Sized DEF IsImage
<1>5. Shows(bytes, channels, data, n)
  <2>1. n \in Nat /\ n = img.width * img.height
    BY <1>1, <1>2
  <2>2. QED
    BY <1>3, <1>4, <2>1, BytesAre
<1> DEFINE g == [i \in 1 .. 3 * n |->
              LET p == (i - 1) \div 3
              IN rows[1 + (p \div w)][(p % w) * channels + ((i - 1) % 3) + 1]]
<1>6. Pixels(h, rows, channels) = [width |-> w, height |-> k, data |-> Tuple(g)]
  BY <1>1, <1>4, Zenon DEF Pixels
<1>7. ASSUME NEW i \in 1 .. 3 * n
      PROVE  g[i] = data[i]
  <2>1. PICK a \in Nat : a = i - 1 /\ a < 3 * n
    OBVIOUS
  <2>2. PICK p, c : p = a \div 3 /\ c = a % 3
    OBVIOUS
  <2>3. p \in Nat /\ p \in 0 .. n - 1 /\ c \in 0 .. 2 /\ i = 3 * p + c + 1
    BY <2>1, <2>2
  <2>4. PICK q \in Nat, r \in 0 .. w - 1 : q = p \div w /\ r = p % w /\ p = w * q + r
    <3>1. p \div w \in Nat /\ p = w * (p \div w) + (p % w) /\ p % w \in 0 .. w - 1
      BY <2>3, Division
    <3>2. QED
      BY <3>1
  <2>5. q < k
    <3>1. CASE q >= k
      <4>1. w * k <= w * q
        BY <3>1
      <4>2. w * k \in Nat /\ w * q \in Nat
        OBVIOUS
      <4>3. QED
        BY <1>2, <2>3, <2>4, <4>1, <4>2
    <3>2. QED
      BY <3>1
  <2>6. g[i] = rows[1 + q][r * channels + c + 1]
    BY <2>1, <2>2, <2>4
  <2> HIDE DEF g
  <2>7. PICK y : y = 1 + q
    OBVIOUS
  <2>8. y \in 1 .. k /\ y - 1 = q
    BY <2>5, <2>7
  <2>9. rows[y] = RowOf(bytes, stride, y)
    BY <1>1, <1>3, <2>8 DEF RowsSoFar
  <2>10. PICK j : j = r * channels + c + 1
    OBVIOUS
  <2>11. j \in 1 .. w * channels
    <3>1. CASE channels = 3
      BY <2>3, <2>4, <2>10, <3>1
    <3>2. CASE channels = 4
      BY <2>3, <2>4, <2>10, <3>2
    <3>3. QED
      BY <3>1, <3>2
  <2>12. RowOf(bytes, stride, y)[j] = bytes[q * (w * channels) + j]
    BY <1>1, <2>8, <2>11 DEF RowOf
  <2>13. q * (w * channels) + j = channels * p + c + 1
    <3>1. PICK o \in Nat : o = w * q
      OBVIOUS
    <3>2. CASE channels = 3
      <4>1. q * (w * 3) = 3 * o
        BY <3>1
      <4>2. QED
        BY <2>3, <2>4, <2>10, <3>1, <3>2, <4>1
    <3>3. CASE channels = 4
      <4>1. q * (w * 4) = 4 * o
        BY <3>1
      <4>2. QED
        BY <2>3, <2>4, <2>10, <3>1, <3>3, <4>1
    <3>4. QED
      BY <3>2, <3>3
  <2>14. bytes[channels * p + c + 1] = data[3 * p + c + 1]
    BY <1>5, <2>3 DEF Shows
  <2>15. QED
    BY <2>3, <2>6, <2>7, <2>9, <2>10, <2>12, <2>13, <2>14, Zenon
<1>8. g = [i \in 1 .. 3 * n |-> g[i]] /\ 3 * n \in Nat
  OBVIOUS
<1> HIDE DEF g
<1>9. Tuple(g) = g
  BY <1>8, TupleIsTheSequence
<1>10. g = data
  <2>1. PICK m \in Nat : m = 3 * n
    OBVIOUS
  <2>2. data \in [1 .. m -> Byte]
    BY <1>4, <2>1
  <2>3. QED
    BY <1>7, <1>8, <2>1, <2>2
<1>11. img = [width |-> w, height |-> k, data |-> data]
  BY <1>1, <1>4 DEF IsImage
<1>12. QED
  BY <1>6, <1>9, <1>10, <1>11

(* A file as the sequence of its chunks, and the first n of them.          *)
Listed(file, m) == file = [i \in 1 .. m |-> file[i]]

FirstChunks(file, n) == [i \in 1 .. n |-> file[i]]

(* A file of m chunks, n of them before IEND.                              *)
EndsAt(file, m, n) ==
  /\ Listed(file, m)
  /\ \A i \in 1 .. n : file[i].kind # "IEND"
  /\ n = m \/ file[n + 1].kind = "IEND"

(* Reading stops at IEND.                                                  *)
LEMMA ReadPiece ==
  ASSUME NEW m \in Nat, NEW n \in Nat \ {0}, n <= m, NEW file, EndsAt(file, m, n)
  PROVE  ReadOf(file) = FirstChunks(file, n)
<1>0. /\ file = [i \in 1 .. m |-> file[i]]
      /\ \A i \in 1 .. n : file[i].kind # "IEND"
      /\ n = m \/ file[n + 1].kind = "IEND"
  BY DEF EndsAt, Listed
<1>1. PICK Q : file \in Seq(Q) /\ Len(file) = m
  BY <1>0, TupleIsTheSequence
<1> DEFINE ends == {i \in DOMAIN file : file[i].kind = "IEND"}
           S == ends \cup {Len(file) + 1}
<1>2. DOMAIN file = 1 .. m
  BY <1>0
<1>3. S \in SUBSET (1 .. m + 1) /\ S # {} /\ m + 1 \in Nat
  BY <1>1, <1>2
<1>4. n + 1 \in S /\ \A s \in S : n + 1 <= s
  <2>1. S = ends \cup {m + 1}
    BY <1>1
  <2>2. \A s \in ends : n + 1 <= s
    <3>1. SUFFICES ASSUME NEW s \in 1 .. m, file[s].kind = "IEND", s <= n
                   PROVE  FALSE
      BY <1>2
    <3>2. s \in 1 .. n
      BY <3>1
    <3>3. QED
      BY <1>0, <3>1, <3>2
  <2>3. n + 1 \in S
    <3>1. CASE n = m
      BY <2>1, <3>1
    <3>2. CASE n # m
      <4>1. n + 1 \in ends
        BY <1>0, <1>2, <3>2
      <4>2. QED
        BY <4>1
    <3>3. QED
      BY <3>1, <3>2
  <2> HIDE DEF ends, S
  <2>4. QED
    BY <2>1, <2>2, <2>3
<1>5. Min(S) = n + 1
  <2> HIDE DEF S
  <2>1. Min(S) \in S /\ \A s \in S : Min(S) <= s
    BY <1>3, NaturalsBelow
  <2>2. Min(S) \in 1 .. m + 1
    BY <1>3, <2>1
  <2>3. Min(S) <= n + 1 /\ n + 1 <= Min(S)
    BY <1>4, <2>1
  <2>4. QED
    BY <2>2, <2>3
<1>6. ReadOf(file) = SubSeq(file, 1, n)
  <2>1. (n + 1) - 1 = n
    OBVIOUS
  <2>2. ReadOf(file) = SubSeq(file, 1, Min(S) - 1)
    BY DEF ReadOf
  <2> HIDE DEF S
  <2>3. QED
    BY <1>5, <2>1, <2>2
<1>7. SubSeq(file, 1, n) = [i \in 1 .. n |-> file[i]]
  BY <1>1
<1>8. QED
  BY <1>6, <1>7 DEF FirstChunks

(* The greatest of one number.                                             *)
LEMMA MaxOfOne ==
  Max({1}) = 1
<1>1. {1} \in SUBSET (1 .. 1) /\ {1} # {} /\ 1 \in Nat
  OBVIOUS
<1>2. Max({1}) \in {1}
  BY <1>1, NaturalsBelow
<1>3. QED
  BY <1>2

(* What is read starts with its only header, h, and holds the stream.      *)
ReadsAs(read, h, stream) ==
  /\ HeadersOf(read) = {1} /\ read[1] = h
  /\ StreamOf(read) = stream

(* A file of header, one data chunk and IEND.                              *)
LEMMA PlainLayout ==
  ASSUME NEW Q, NEW blocks \in Seq(Q), NEW h, h.kind = "IHDR",
         NEW file, file = <<h, IDAT(blocks), Chunk("IEND")>>
  PROVE  ReadsAs(ReadOf(file), h, blocks)
<1>1. /\ file[1] = h /\ file[2] = IDAT(blocks) /\ file[3] = Chunk("IEND")
      /\ file = [i \in 1 .. 3 |-> file[i]]
  OBVIOUS
<1>2. /\ file[1].kind = "IHDR" /\ file[2].kind = "IDAT" /\ file[3].kind = "IEND"
      /\ file[2].blocks = blocks
  BY <1>1 DEF IDAT, Chunk
<1>3. PICK read : read = ReadOf(file)
  OBVIOUS
<1>4. read = [i \in 1 .. 2 |-> file[i]]
  <2>1. \A i \in 1 .. 2 : file[i].kind # "IEND"
    BY <1>2
  <2>2. file[2 + 1].kind = "IEND"
    BY <1>2
  <2>3. 3 \in Nat /\ 2 \in Nat \ {0} /\ 2 <= 3
    OBVIOUS
  <2>4. file = [i \in 1 .. 3 |-> file[i]]
    BY <1>1
  <2>5. EndsAt(file, 3, 2)
    BY <2>1, <2>2, <2>4, Zenon DEF EndsAt, Listed
  <2>6. ReadOf(file) = FirstChunks(file, 2)
    BY <2>3, <2>5, ReadPiece, Zenon
  <2>7. QED
    BY <1>3, <2>6 DEF FirstChunks
<1>5. HeadersOf(read) = {1}
  BY <1>2, <1>4 DEF HeadersOf
<1> DEFINE seqs == [i \in 1 .. 2 |-> IF i = 1 THEN <<>> ELSE blocks]
           e == [i \in 0 .. 2 |-> IF i = 2 THEN Len(blocks) ELSE 0]
<1>6. [i \in DOMAIN read |-> IF read[i].kind = "IDAT" THEN read[i].blocks ELSE <<>>] = seqs
  BY <1>2, <1>4
<1>7. seqs \in [1 .. 2 -> Seq(Q)]
  OBVIOUS
<1>8. Ends(e, seqs, 2)
  BY DEF Ends
<1>9. LaidOut(blocks, seqs, e, 2)
  BY DEF LaidOut
<1> HIDE DEF seqs, e
<1>10. FlattenSeq(seqs) = blocks
  <2>1. 2 \in Nat \ {0}
    OBVIOUS
  <2>2. QED
    BY <1>7, <1>8, <1>9, <2>1, FlattenedIs, Zenon
<1>11. StreamOf(read) = blocks
  BY <1>6, <1>10 DEF StreamOf
<1>12. read[1] = h
  BY <1>1, <1>4
<1>13. QED
  BY <1>3, <1>5, <1>11, <1>12, Zenon DEF ReadsAs

(* A file whose data is in two chunks, behind a chunk that the decoder     *)
(* skips.                                                                  *)
SplitChunks(file, h, x, t) ==
  /\ Listed(file, 5)
  /\ file[1] = h
  /\ file[2].kind = "tEXt"
  /\ file[3].kind = "IDAT" /\ file[3].blocks = <<x>>
  /\ file[4].kind = "IDAT" /\ file[4].blocks = t
  /\ file[5].kind = "IEND"

(* Reading such a file joins its two data chunks.                          *)
LEMMA SplitRead ==
  ASSUME NEW Q, NEW block \in Q, NEW rest \in Seq(Q), NEW h, h.kind = "IHDR",
         NEW file, SplitChunks(file, h, block, rest)
  PROVE  ReadsAs(ReadOf(file), h, <<block>> \o rest)
<1>2. /\ file[1].kind = "IHDR" /\ file[2].kind = "tEXt" /\ file[3].kind = "IDAT"
      /\ file[4].kind = "IDAT" /\ file[5].kind = "IEND"
      /\ file[3].blocks = <<block>> /\ file[4].blocks = rest
  BY DEF SplitChunks
<1>3. PICK read : read = ReadOf(file)
  OBVIOUS
<1>4. read = [i \in 1 .. 4 |-> file[i]]
  <2>1. EndsAt(file, 5, 4)
    <3>1. Listed(file, 5)
      BY DEF SplitChunks
    <3>2. \A i \in 1 .. 4 : file[i].kind # "IEND"
      BY <1>2
    <3>3. file[4 + 1].kind = "IEND"
      BY <1>2
    <3>4. QED
      BY <3>1, <3>2, <3>3 DEF EndsAt
  <2>2. 5 \in Nat /\ 4 \in Nat \ {0} /\ 4 <= 5
    OBVIOUS
  <2>3. ReadOf(file) = FirstChunks(file, 4)
    BY <2>1, <2>2, ReadPiece, Zenon
  <2>4. QED
    BY <1>3, <2>3 DEF FirstChunks
<1>5. HeadersOf(read) = {1}
  BY <1>2, <1>4 DEF HeadersOf
<1> DEFINE seqs == [i \in 1 .. 4 |-> IF i <= 2 THEN <<>> ELSE IF i = 3 THEN <<block>> ELSE rest]
           e == [i \in 0 .. 4 |-> IF i <= 2 THEN 0 ELSE IF i = 3 THEN 1 ELSE 1 + Len(rest)]
<1>6. [i \in DOMAIN read |-> IF read[i].kind = "IDAT" THEN read[i].blocks ELSE <<>>] = seqs
  BY <1>2, <1>4
<1>7. seqs \in [1 .. 4 -> Seq(Q)]
  OBVIOUS
<1>8. Ends(e, seqs, 4)
  BY DEF Ends
<1>9. LaidOut(<<block>> \o rest, seqs, e, 4)
  BY DEF LaidOut
<1> HIDE DEF seqs, e
<1>10. FlattenSeq(seqs) = <<block>> \o rest
  <2>1. <<block>> \o rest \in Seq(Q) /\ 4 \in Nat \ {0}
    OBVIOUS
  <2>2. QED
    BY <1>7, <1>8, <1>9, <2>1, FlattenedIs, Zenon
<1>11. StreamOf(read) = <<block>> \o rest
  BY <1>6, <1>10 DEF StreamOf
<1>12. read[1] = h
  BY <1>4 DEF SplitChunks
<1>13. QED
  BY <1>3, <1>5, <1>11, <1>12, Zenon DEF ReadsAs

(* The files of other programs are laid out like that.                     *)
LEMMA SplitLayout ==
  ASSUME NEW Q, NEW block \in Q, NEW rest \in Seq(Q), NEW h, h.kind = "IHDR",
         NEW file, file = <<h, Chunk("tEXt"), IDAT(<<block>>), IDAT(rest), Chunk("IEND")>>
  PROVE  ReadsAs(ReadOf(file), h, <<block>> \o rest)
<1>1. /\ file[1] = h /\ file[2] = Chunk("tEXt") /\ file[3] = IDAT(<<block>>)
      /\ file[4] = IDAT(rest) /\ file[5] = Chunk("IEND")
      /\ file = [i \in 1 .. 5 |-> file[i]]
  OBVIOUS
<1>2. Listed(file, 5)
  BY <1>1, Zenon DEF Listed
<1>3. SplitChunks(file, h, block, rest)
  BY <1>1, <1>2 DEF SplitChunks, IDAT, Chunk
<1>4. QED
  BY <1>3, SplitRead

(* The rows of a picture, filtered, as a stream that blocks holds.         *)
Carries(blocks, img, channels, filter) ==
  \E f \in Seq(Byte) :
    LET stride == channels * img.width
    IN /\ Len(f) = stride * img.height
       /\ FilteredBytes(f, BytesIn(img, channels), stride, img.height, channels, filter)
       /\ blocks = zlib_stored(Rows(f, stride, filter))

(* The sizes of the rows of a picture in three or four channels.           *)
LEMMA FrameDims ==
  ASSUME NEW img, IsImage(img), NEW channels \in {3, 4}
  PROVE  \E stride \in Nat \ {0}, height \in Nat \ {0} :
           /\ height = img.height
           /\ stride = channels * img.width /\ stride = img.width * channels
           /\ channels \in 1 .. stride
           /\ BytesIn(img, channels) \in Seq(Byte)
           /\ Len(BytesIn(img, channels)) = stride * height
<1>1. PICK w \in Nat \ {0}, height \in Nat \ {0} : w = img.width /\ height = img.height
  BY DEF IsImage
<1>2. PICK n \in Nat : n = w * height
  OBVIOUS
<1>3. PICK stride \in Nat \ {0} : stride = channels * w
  OBVIOUS
<1>4. stride * height = channels * n
  BY <1>2, <1>3
<1>5. BytesIn(img, channels) \in Seq(Byte) /\ Len(BytesIn(img, channels)) = channels * n
  BY <1>1, <1>2, BytesAre, SMTT(20)
<1>6. channels \in 1 .. stride /\ w * channels = stride
  BY <1>3
<1>7. QED
  BY <1>1, <1>3, <1>4, <1>5, <1>6

(* The stream of a picture inflates to its rows, which are long enough.    *)
LEMMA StreamRead ==
  ASSUME NEW raw, NEW f \in Seq(Byte), NEW stride \in Nat \ {0}, NEW height \in Nat \ {0},
         NEW filter \in [1 .. height -> 0 .. 4],
         RowStream(raw, f, stride, height, filter)
  PROVE  Inflate(zlib_stored(raw)) = raw /\ Suffices(raw, stride, height)
<1>1. raw \in Seq(Byte) /\ Len(raw) = (stride + 1) * height
  BY DEF RowStream
<1>2. PICK l \in Nat \ {0} : l = (stride + 1) * height
  OBVIOUS
<1>3. raw # <<>>
  BY <1>1, <1>2
<1>4. PICK n \in Nat \ {0} : Inflates(zlib_stored(raw), n, raw)
  BY <1>1, <1>3, StoredBlocks
<1>5. Inflate(zlib_stored(raw)) = raw
  BY <1>4, InflateGives
<1>6. raw # None
  BY <1>1, NoneAssumption
<1>7. ~(Len(raw) < (stride + 1) * height)
  BY <1>1, <1>2
<1>8. ASSUME NEW y \in 0 .. height - 1
      PROVE  raw[y * (stride + 1) + 1] \in 0 .. 4
  <2>1. PICK k \in 1 .. height : k = y + 1 /\ k - 1 = y
    OBVIOUS
  <2>2. raw[(k - 1) * (stride + 1) + 1] = filter[k]
    BY DEF RowStream
  <2>3. filter[k] \in 0 .. 4
    OBVIOUS
  <2>4. QED
    BY <2>1, <2>2, <2>3, Zenon
<1>9. QED
  BY <1>5, <1>6, <1>7, <1>8, Zenon DEF Suffices

(* A file that is read as a header and a stream of a picture decodes to    *)
(* the picture.                                                            *)
LEMMA CarriedPicture ==
  ASSUME NEW img, IsImage(img), NEW channels \in {3, 4}, NEW color, Channels(color) = channels,
         NEW filter \in [1 .. img.height -> 0 .. 4],
         NEW blocks, Carries(blocks, img, channels, filter),
         NEW file, NEW h, h = IHDR(img.width, img.height, color, 8, 0),
         ReadsAs(ReadOf(file), h, blocks)
  PROVE  decode_png(file) = img
<1>1. PICK stride \in Nat \ {0}, height \in Nat \ {0} :
           /\ height = img.height
           /\ stride = channels * img.width /\ stride = img.width * channels
           /\ channels \in 1 .. stride
           /\ BytesIn(img, channels) \in Seq(Byte)
           /\ Len(BytesIn(img, channels)) = stride * height
  BY FrameDims
<1>2. PICK bytes \in Seq(Byte) : bytes = BytesIn(img, channels) /\ Len(bytes) = stride * height
  BY <1>1
<1>3. PICK f \in Seq(Byte) :
        /\ Len(f) = stride * height
        /\ FilteredBytes(f, bytes, stride, height, channels, filter)
        /\ blocks = zlib_stored(Rows(f, stride, filter))
  BY <1>1, <1>2, Zenon DEF Carries
<1>4. filter \in [1 .. height -> 0 .. 4]
  BY <1>1
<1>5. PICK raw : raw = Rows(f, stride, filter)
  OBVIOUS
<1>6. RowStream(raw, f, stride, height, filter)
  BY <1>3, <1>4, <1>5, RowsAre
<1>7. Inflate(blocks) = raw /\ Suffices(raw, stride, height)
  BY <1>3, <1>4, <1>5, <1>6, StreamRead
<1>8. channels \in Nat \ {0}
  OBVIOUS
<1>9. RowsSoFar(Unfiltered(raw, stride, height, channels), height, bytes, stride)
  BY <1>2, <1>3, <1>4, <1>6, <1>8, UnfilteredGives, Zenon
<1>10. PICK read : read = ReadOf(file)
  OBVIOUS
<1>11. HeadersOf(read) = {1} /\ read[1] = h /\ StreamOf(read) = blocks
  BY <1>10 DEF ReadsAs
<1>12. /\ h.width = img.width /\ h.height = height /\ h.color = color
       /\ h.depth = 8 /\ h.interlace = 0
  BY <1>1 DEF IHDR
<1>13. ~Refused(read)
  BY <1>8, <1>11, <1>12 DEF Refused
<1>14. h = read[Max(HeadersOf(read))]
  BY <1>11, MaxOfOne
<1>15. raw = Inflate(StreamOf(read))
  BY <1>7, <1>11
<1>16. h.width # 0 /\ h.height # 0
  BY <1>1, <1>12 DEF IsImage
<1>17. channels = Channels(h.color) /\ stride = h.width * channels /\ Suffices(raw, stride, h.height)
  BY <1>1, <1>7, <1>12
<1>18. decode_png(file) = Pixels(h, Unfiltered(raw, stride, h.height, channels), channels)
  <2>1. h.width # 0
    BY <1>16
  <2>2. h.height # 0
    BY <1>16
  <2>3. Suffices(raw, stride, h.height)
    BY <1>17
  <2>4. channels = Channels(h.color)
    BY <1>17
  <2>5. stride = h.width * channels
    BY <1>17
  <2>6. QED
    BY <1>10, <1>13, <1>14, <1>15, <2>1, <2>2, <2>3, <2>4, <2>5, Decodes
<1>19. PICK rows : rows = Unfiltered(raw, stride, height, channels)
  OBVIOUS
<1>20. RowsSoFar(rows, img.height, BytesIn(img, channels), stride)
  BY <1>1, <1>2, <1>9, <1>19, Zenon
<1>21. Pixels(h, rows, channels) = img
  <2>1. h.width = img.width /\ h.height = img.height /\ stride = img.width * channels
    BY <1>1, <1>12
  <2>2. QED
    BY <1>20, <2>1, PixelsAre, ZenonT(30)
<1>22. QED
  BY <1>12, <1>18, <1>19, <1>21, Zenon

(* The stream that encode_png writes.                                      *)
LEMMA PlainCarries ==
  ASSUME NEW img, IsImage(img)
  PROVE  LET filter == [y \in 1 .. img.height |-> 0]
             blocks == zlib_stored(Rows(img.data, 3 * img.width, filter))
         IN Carries(blocks, img, 3, filter)
<1> DEFINE filter == [y \in 1 .. img.height |-> 0]
           blocks == zlib_stored(Rows(img.data, 3 * img.width, filter))
<1>1. PICK stride \in Nat \ {0}, height \in Nat \ {0} :
           /\ height = img.height
           /\ stride = 3 * img.width /\ stride = img.width * 3
           /\ 3 \in 1 .. stride
           /\ BytesIn(img, 3) \in Seq(Byte)
           /\ Len(BytesIn(img, 3)) = stride * height
  BY FrameDims
<1>2. BytesIn(img, 3) = img.data
  BY DEF BytesIn
<1>3. FilteredBytes(img.data, img.data, stride, height, 3, [y \in 1 .. height |-> 0])
  BY <1>1, <1>2, PlainRows
<1>4. FilteredBytes(img.data, BytesIn(img, 3), 3 * img.width, img.height, 3, filter)
  BY <1>1, <1>2, <1>3, Zenon
<1>5. img.data \in Seq(Byte) /\ Len(img.data) = (3 * img.width) * img.height
  BY <1>1, <1>2
<1> HIDE DEF filter
<1>6. Carries(blocks, img, 3, filter)
  BY <1>4, <1>5, Zenon DEF Carries
<1>7. QED
  BY <1>6 DEF filter

(* The stream that another program writes carries the picture.             *)
LEMMA ResavedCarries ==
  ASSUME NEW img, IsImage(img), NEW channels \in {3, 4},
         NEW filter \in [1 .. img.height -> 0 .. 4]
  PROVE  Carries(zlib_stored(Rows(Filtered(BytesIn(img, channels), channels * img.width, channels, filter),
                                  channels * img.width, filter)),
                 img, channels, filter)
<1>1. PICK stride \in Nat \ {0}, height \in Nat \ {0} :
           /\ height = img.height
           /\ stride = channels * img.width /\ stride = img.width * channels
           /\ channels \in 1 .. stride
           /\ BytesIn(img, channels) \in Seq(Byte)
           /\ Len(BytesIn(img, channels)) = stride * height
  BY FrameDims
<1>2. PICK bytes : bytes = BytesIn(img, channels)
  OBVIOUS
<1>3. PICK f : f = Filtered(bytes, stride, channels, filter)
  OBVIOUS
<1>4. /\ FilteredBytes(f, bytes, stride, height, channels, filter)
      /\ f \in Seq(Byte) /\ Len(f) = stride * height
  <2>1. bytes \in Seq(Byte) /\ Len(bytes) = stride * height
    BY <1>1, <1>2
  <2>2. filter \in [1 .. height -> 0 .. 4]
    BY <1>1
  <2>3. IsFiltered(f, bytes, stride, height, channels, filter)
    BY <1>1, <1>3, <2>1, <2>2, FilteredRows
  <2>4. QED
    BY <2>3 DEF IsFiltered
<1>5. QED
  BY <1>1, <1>2, <1>3, <1>4, Zenon DEF Carries

-----------------------------------------------------------------------------
(* PNG files that are refused.                                             *)

(* The stream of a picture has a block at least.                           *)
LEMMA CarriesBlocks ==
  ASSUME NEW img, IsImage(img), NEW channels \in {3, 4},
         NEW filter \in [1 .. img.height -> 0 .. 4],
         NEW blocks, Carries(blocks, img, channels, filter)
  PROVE  blocks \in Seq(Block) /\ blocks # <<>>
<1>1. PICK stride \in Nat \ {0}, height \in Nat \ {0} :
           height = img.height /\ stride = channels * img.width
  BY FrameDims
<1>2. PICK f \in Seq(Byte) :
        Len(f) = stride * height /\ blocks = zlib_stored(Rows(f, stride, filter))
  BY <1>1, Zenon DEF Carries
<1>3. filter \in [1 .. height -> 0 .. 4]
  BY <1>1
<1>4. PICK raw : raw = Rows(f, stride, filter)
  OBVIOUS
<1>5. RowStream(raw, f, stride, height, filter)
  BY <1>2, <1>3, <1>4, RowsAre
<1>6. raw \in Seq(Byte) /\ raw # <<>>
  <2>1. raw \in Seq(Byte) /\ Len(raw) = (stride + 1) * height
    BY <1>5 DEF RowStream
  <2>2. PICK l \in Nat \ {0} : l = (stride + 1) * height
    OBVIOUS
  <2>3. QED
    BY <2>1, <2>2
<1>7. PICK n \in Nat \ {0} : Inflates(blocks, n, raw)
  BY <1>2, <1>4, <1>6, StoredBlocks
<1>8. QED
  BY <1>7 DEF Inflates

(* A header that decode() of png.rs does not support is an error.          *)
LEMMA HeaderRefused ==
  ASSUME NEW file, NEW h, NEW stream, ReadsAs(ReadOf(file), h, stream),
         h.depth # 8 \/ h.interlace # 0 \/ Channels(h.color) = 0
  PROVE  decode_png(file) = None
<1>1. PICK read : read = ReadOf(file)
  OBVIOUS
<1>2. Refused(read)
  BY <1>1 DEF Refused, ReadsAs
<1>3. QED
  BY <1>1, <1>2, NotRead

(* No block, or a block that is not stored, is an error.                   *)
LEMMA StreamRefused ==
  ASSUME NEW Q, NEW file, NEW stream \in Seq(Q), stream = <<>> \/ stream[1].type # 0,
         StreamOf(ReadOf(file)) = stream
  PROVE  decode_png(file) = None
<1> DEFINE finals == {b \in DOMAIN stream : stream[b].final}
<1>1. PICK l \in Nat : l = Len(stream) /\ DOMAIN stream = 1 .. l
  OBVIOUS
<1>2. finals # {} => \E b \in 1 .. Min(finals) : stream[b].type # 0
  <2>1. SUFFICES ASSUME finals # {} PROVE \E b \in 1 .. Min(finals) : stream[b].type # 0
    OBVIOUS
  <2>2. finals \in SUBSET (1 .. l)
    BY <1>1
  <2> HIDE DEF finals
  <2>3. Min(finals) \in 1 .. l
    BY <2>1, <2>2, NaturalsBelow
  <2>4. 1 \in 1 .. Min(finals) /\ stream # <<>>
    BY <1>1, <2>3
  <2>5. QED
    BY <2>4
<1>3. Inflate(stream) = None
  BY <1>2 DEF Inflate
<1>4. QED
  BY <1>3, NoPicture

(* No header is an error.                                                  *)
LEMMA HeaderMissing ==
  ASSUME NEW m \in Nat, NEW n \in Nat \ {0}, n <= m, NEW file, EndsAt(file, m, n),
         \A i \in 1 .. n : file[i].kind # "IHDR"
  PROVE  decode_png(file) = None
<1>1. PICK read : read = ReadOf(file)
  OBVIOUS
<1>2. read = [i \in 1 .. n |-> file[i]]
  BY <1>1, ReadPiece DEF FirstChunks
<1>3. HeadersOf(read) = {}
  BY <1>2 DEF HeadersOf
<1>4. Refused(read)
  BY <1>3 DEF Refused
<1>5. QED
  BY <1>1, <1>4, NotRead

(* A header and no data is an error.                                       *)
LEMMA HeaderAlone ==
  ASSUME NEW h, h.kind = "IHDR", NEW file, file = <<h>>
  PROVE  decode_png(file) = None
<1>1. Listed(file, 1) /\ file[1] = h
  BY DEF Listed
<1>2. EndsAt(file, 1, 1)
  BY <1>1 DEF EndsAt
<1>3. 1 \in Nat /\ 1 \in Nat \ {0} /\ 1 <= 1
  OBVIOUS
<1>4. PICK read : read = ReadOf(file)
  OBVIOUS
<1>5. read = FirstChunks(file, 1)
  BY <1>2, <1>3, <1>4, ReadPiece, Zenon
<1> DEFINE seqs == [i \in 1 .. 1 |-> <<>>]
           e == [i \in 0 .. 1 |-> 0]
<1>6. [i \in DOMAIN read |-> IF read[i].kind = "IDAT" THEN read[i].blocks ELSE <<>>] = seqs
  BY <1>1, <1>5 DEF FirstChunks
<1>7. seqs \in [1 .. 1 -> Seq(Block)] /\ <<>> \in Seq(Block)
  OBVIOUS
<1>8. Ends(e, seqs, 1)
  BY DEF Ends
<1>9. LaidOut(<<>>, seqs, e, 1)
  BY DEF LaidOut
<1> HIDE DEF seqs, e
<1>10. FlattenSeq(seqs) = <<>>
  <2>1. 1 \in Nat \ {0}
    OBVIOUS
  <2>2. QED
    BY <1>7, <1>8, <1>9, <2>1, FlattenedIs, Zenon
<1>11. StreamOf(read) = <<>>
  BY <1>6, <1>10 DEF StreamOf
<1>12. QED
  BY <1>4, <1>7, <1>11, StreamRefused

(* The ways in which a file is spoilt.                                     *)
Hows == {"interlaced", "deep", "palette", "no header", "compressed", "short"}

(* Colour types 2 and 6 are supported and 3, a palette, is not.            *)
LEMMA ChannelsAre ==
  Channels(2) = 3 /\ Channels(6) = 4 /\ Channels(3) = 0
BY DEF Channels

(* A header that the decoder accepts.                                      *)
Header(h) ==
  \E w, k, color : h = [kind |-> "IHDR", width |-> w, height |-> k, color |-> color,
                        depth |-> 8, interlace |-> 0]

(* The header, with what Spoilt changes in it.                             *)
Altered(h, how) ==
  IF how = "interlaced" THEN [h EXCEPT !.interlace = 1]
  ELSE IF how = "deep" THEN [h EXCEPT !.depth = 16] ELSE [h EXCEPT !.color = 3]

(* An altered header is one that the decoder does not support.             *)
LEMMA AlteredHeader ==
  ASSUME NEW h, Header(h), NEW how \in {"interlaced", "deep", "palette"}
  PROVE  LET g == Altered(h, how)
         IN /\ g.kind = "IHDR"
            /\ g.depth # 8 \/ g.interlace # 0 \/ Channels(g.color) = 0
<1>1. PICK w, k, color : h = [kind |-> "IHDR", width |-> w, height |-> k, color |-> color,
                        depth |-> 8, interlace |-> 0]
  BY DEF Header
<1>2. CASE how = "interlaced"
  BY <1>1, <1>2 DEF Altered
<1>3. CASE how = "deep"
  BY <1>1, <1>3 DEF Altered
<1>4. CASE how = "palette"
  BY <1>1, <1>4, ChannelsAre DEF Altered
<1>5. QED
  BY <1>2, <1>3, <1>4

(* Three of the ways alter the header.                                     *)
LEMMA SpoiltHeader ==
  ASSUME NEW file, NEW how \in {"interlaced", "deep", "palette"}
  PROVE  Spoilt(file, how) = [file EXCEPT ![1] = Altered(file[1], how)]
<1>1. CASE how = "interlaced"
  BY <1>1 DEF Spoilt, Altered
<1>2. CASE how = "deep"
  BY <1>2 DEF Spoilt, Altered
<1>3. CASE how = "palette"
  BY <1>3 DEF Spoilt, Altered
<1>4. QED
  BY <1>1, <1>2, <1>3

(* Two of the ways leave chunks out.                                       *)
LEMMA SpoiltOthers ==
  ASSUME NEW file
  PROVE  /\ Spoilt(file, "no header") = Tail(file)
         /\ Spoilt(file, "short") = SubSeq(file, 1, 1)
BY DEF Spoilt

(* The first chunk of a file.                                              *)
LEMMA FirstOf ==
  ASSUME NEW m \in Nat \ {0}, NEW file, file = [i \in 1 .. m |-> file[i]]
  PROVE  SubSeq(file, 1, 1) = <<file[1]>>
<1>1. PICK Q : file \in Seq(Q) /\ Len(file) = m
  BY TupleIsTheSequence
<1>2. SubSeq(file, 1, 1) = [i \in 1 .. 1 |-> file[i]]
  BY <1>1
<1>3. PICK x : x = file[1]
  OBVIOUS
<1>4. [i \in 1 .. 1 |-> file[i]] = [i \in 1 .. 1 |-> x]
  BY <1>3
<1>5. <<x>> = [i \in 1 .. 1 |-> x]
  OBVIOUS
<1>6. QED
  BY <1>2, <1>3, <1>4, <1>5, Zenon

(* Blocks of which the first is not stored.                                *)
Packed(blocks) == IF blocks = <<>> THEN blocks ELSE [blocks EXCEPT ![1].type = 2]
(* A block, stored or compressed.                                          *)
AnyBlock == [final : BOOLEAN, type : {0, 2}, bytes : Seq(Byte)]

(* The first block of a compressed stream is not stored.                   *)
LEMMA PackedBlocks ==
  ASSUME NEW blocks \in Seq(Block)
  PROVE  /\ Packed(blocks) \in Seq(AnyBlock)
         /\ blocks # <<>> => Packed(blocks)[1].type = 2
<1>1. Block \subseteq AnyBlock
  BY DEF Block, AnyBlock
<1>2. PICK l \in Nat : l = Len(blocks) /\ blocks \in [1 .. l -> Block]
  OBVIOUS
<1>3. CASE blocks = <<>>
  BY <1>3 DEF Packed
<1>4. CASE blocks # <<>>
  <2>1. 1 \in 1 .. l
    BY <1>2, <1>4
  <2>2. PICK b : b = [blocks[1] EXCEPT !.type = 2]
    OBVIOUS
  <2>3. Packed(blocks) = [blocks EXCEPT ![1] = b]
    BY <1>4, <2>2 DEF Packed
  <2>4. blocks[1] \in Block
    BY <1>2, <2>1
  <2>5. b \in AnyBlock /\ b.type = 2
    BY <2>2, <2>4 DEF Block, AnyBlock
  <2>6. PICK packed : packed = [blocks EXCEPT ![1] = b]
    OBVIOUS
  <2>7. packed \in [1 .. l -> AnyBlock]
    BY <1>1, <1>2, <2>5, <2>6
  <2>8. packed \in Seq(AnyBlock)
    BY <2>7
  <2>9. packed[1] = b
    BY <1>2, <2>1, <2>6
  <2>10. QED
    BY <2>3, <2>5, <2>6, <2>8, <2>9
<1>5. QED
  BY <1>3, <1>4

(* A data chunk compressed.                                                *)
LEMMA PackedData ==
  ASSUME NEW blocks \in Seq(Block)
  PROVE  (IF IDAT(blocks).kind = "IDAT" /\ IDAT(blocks).blocks # <<>>
          THEN [IDAT(blocks) EXCEPT !.blocks[1].type = 2] ELSE IDAT(blocks))
         = IDAT(Packed(blocks))
BY DEF IDAT, Packed

(* A file with one data chunk, compressed.                                 *)
LEMMA PackedPlain ==
  ASSUME NEW blocks \in Seq(Block), NEW h, h.kind = "IHDR",
         NEW file, file = <<h, IDAT(blocks), Chunk("IEND")>>
  PROVE  Spoilt(file, "compressed") = <<h, IDAT(Packed(blocks)), Chunk("IEND")>>
<1>1. Chunk("IEND").kind # "IDAT"
  BY DEF Chunk
<1>2. PICK data : data = IDAT(blocks)
  OBVIOUS
<1>3. PICK end : end = Chunk("IEND") /\ end.kind # "IDAT"
  BY <1>1
<1>4. PICK packed : packed = IDAT(Packed(blocks))
  OBVIOUS
<1>5. (IF data.kind = "IDAT" /\ data.blocks # <<>>
       THEN [data EXCEPT !.blocks[1].type = 2] ELSE data) = packed
  BY <1>2, <1>4, PackedData
<1>6. file = <<h, data, end>>
  BY <1>2, <1>3
<1>7. Spoilt(file, "compressed") =
              [i \in DOMAIN file |->
                 IF file[i].kind = "IDAT" /\ file[i].blocks # <<>>
                 THEN [file[i] EXCEPT !.blocks[1].type = 2] ELSE file[i]]
  BY DEF Spoilt
<1>8. Spoilt(file, "compressed") = <<h, packed, end>>
  BY <1>3, <1>5, <1>6, <1>7
<1>9. QED
  BY <1>3, <1>4, <1>8

(* A file with one data chunk is refused whichever way it is spoilt.       *)
LEMMA SpoiltPlain ==
  ASSUME NEW blocks \in Seq(Block), blocks # <<>>, NEW h, Header(h),
         NEW file, file = <<h, IDAT(blocks), Chunk("IEND")>>, NEW how \in Hows
  PROVE  decode_png(Spoilt(file, how)) = None
<1>0. h.kind = "IHDR"
  BY DEF Header
<1>1. CASE how \in {"interlaced", "deep", "palette"}
  <2>1. PICK g : g = Altered(h, how)
    OBVIOUS
  <2>2. g.kind = "IHDR" /\ (g.depth # 8 \/ g.interlace # 0 \/ Channels(g.color) = 0)
    BY <1>1, <2>1, AlteredHeader
  <2>3. Spoilt(file, how) = [file EXCEPT ![1] = g]
    <3>1. file[1] = h
      OBVIOUS
    <3>2. QED
      BY <1>1, <2>1, <3>1, SpoiltHeader
  <2>4. [file EXCEPT ![1] = g] = <<g, IDAT(blocks), Chunk("IEND")>>
    OBVIOUS
  <2>5. ReadsAs(ReadOf(Spoilt(file, how)), g, blocks)
    BY <2>2, <2>3, <2>4, PlainLayout
  <2>6. QED
    BY <2>2, <2>5, HeaderRefused
<1>2. CASE how = "no header"
  <2>1. PICK rest : rest = Tail(file)
    OBVIOUS
  <2>2. rest = <<IDAT(blocks), Chunk("IEND")>>
    BY <2>1
  <2>3. rest[1] = IDAT(blocks) /\ rest[2] = Chunk("IEND") /\ rest = [i \in 1 .. 2 |-> rest[i]]
    BY <2>2
  <2>4. rest[1].kind = "IDAT" /\ rest[2].kind = "IEND"
    BY <2>3 DEF IDAT, Chunk
  <2>5. Listed(rest, 2)
    BY <2>3, Zenon DEF Listed
  <2>6. EndsAt(rest, 2, 1)
    BY <2>4, <2>5 DEF EndsAt
  <2>7. \A i \in 1 .. 1 : rest[i].kind # "IHDR"
    BY <2>4
  <2>8. 2 \in Nat /\ 1 \in Nat \ {0} /\ 1 <= 2
    OBVIOUS
  <2>9. decode_png(rest) = None
    BY <2>6, <2>7, <2>8, HeaderMissing, Zenon
  <2>10. QED
    BY <1>2, <2>1, <2>9, SpoiltOthers
<1>3. CASE how = "compressed"
  <2>1. PICK packed : packed = Packed(blocks)
    OBVIOUS
  <2>2. packed \in Seq(AnyBlock) /\ packed[1].type = 2
    BY <2>1, PackedBlocks
  <2>3. Spoilt(file, how) = <<h, IDAT(packed), Chunk("IEND")>>
    BY <1>0, <1>3, <2>1, PackedPlain
  <2>4. ReadsAs(ReadOf(Spoilt(file, how)), h, packed)
    BY <1>0, <2>2, <2>3, PlainLayout
  <2>5. StreamOf(ReadOf(Spoilt(file, how))) = packed
    BY <2>4 DEF ReadsAs
  <2>6. QED
    BY <2>2, <2>5, StreamRefused
<1>4. CASE how = "short"
  <2>1. SubSeq(file, 1, 1) = <<h>>
    <3>1. file = [i \in 1 .. 3 |-> file[i]] /\ file[1] = h /\ 3 \in Nat \ {0}
      OBVIOUS
    <3>2. QED
      BY <3>1, FirstOf
  <2>2. QED
    BY <1>0, <1>4, <2>1, SpoiltOthers, HeaderAlone
<1>5. QED
  BY <1>1, <1>2, <1>3, <1>4 DEF Hows

(* A file with two data chunks, compressed.                                *)
LEMMA PackedSplit ==
  ASSUME NEW x \in Block, NEW t \in Seq(Block), NEW h, h.kind = "IHDR",
         NEW file, file = <<h, Chunk("tEXt"), IDAT(<<x>>), IDAT(t), Chunk("IEND")>>
  PROVE  Spoilt(file, "compressed") =
           <<h, Chunk("tEXt"), IDAT(Packed(<<x>>)), IDAT(Packed(t)), Chunk("IEND")>>
<1>1. PICK end : end = Chunk("IEND") /\ end.kind # "IDAT"
  BY DEF Chunk
<1>2. PICK text : text = Chunk("tEXt") /\ text.kind # "IDAT"
  BY DEF Chunk
<1>3. PICK head : head = IDAT(<<x>>)
  OBVIOUS
<1>4. PICK tail : tail = IDAT(t)
  OBVIOUS
<1>5. PICK packed : packed = IDAT(Packed(<<x>>))
  OBVIOUS
<1>6. PICK rest : rest = IDAT(Packed(t))
  OBVIOUS
<1>7. (IF head.kind = "IDAT" /\ head.blocks # <<>>
       THEN [head EXCEPT !.blocks[1].type = 2] ELSE head) = packed
  <2>1. <<x>> \in Seq(Block)
    OBVIOUS
  <2>2. QED
    BY <1>3, <1>5, <2>1, PackedData
<1>8. (IF tail.kind = "IDAT" /\ tail.blocks # <<>>
       THEN [tail EXCEPT !.blocks[1].type = 2] ELSE tail) = rest
  BY <1>4, <1>6, PackedData
<1>9. file = <<h, text, head, tail, end>>
  BY <1>1, <1>2, <1>3, <1>4
<1>10. Spoilt(file, "compressed") =
              [i \in DOMAIN file |->
                 IF file[i].kind = "IDAT" /\ file[i].blocks # <<>>
                 THEN [file[i] EXCEPT !.blocks[1].type = 2] ELSE file[i]]
  BY DEF Spoilt
<1>11. Spoilt(file, "compressed") = <<h, text, packed, rest, end>>
  BY <1>1, <1>2, <1>7, <1>8, <1>9, <1>10, SMTT(20)
<1>12. QED
  BY <1>1, <1>2, <1>5, <1>6, <1>11

(* An element in front of a sequence.                                      *)
LEMMA Prefixed ==
  ASSUME NEW Q, NEW y \in Q, NEW s \in Seq(Q)
  PROVE  <<y>> \o s \in Seq(Q) /\ (<<y>> \o s)[1] = y
<1>1. <<y>> \in Seq(Q) /\ Len(<<y>>) = 1 /\ <<y>>[1] = y
  OBVIOUS
<1>2. QED
  BY <1>1

(* A file with two data chunks is refused whichever way it is spoilt.      *)
LEMMA SpoiltSplit ==
  ASSUME NEW x \in Block, NEW t \in Seq(Block), NEW h, Header(h),
         NEW file, file = <<h, Chunk("tEXt"), IDAT(<<x>>), IDAT(t), Chunk("IEND")>>,
         NEW how \in Hows
  PROVE  decode_png(Spoilt(file, how)) = None
<1>0. h.kind = "IHDR"
  BY DEF Header
<1>1. CASE how \in {"interlaced", "deep", "palette"}
  <2>1. PICK g : g = Altered(h, how)
    OBVIOUS
  <2>2. g.kind = "IHDR" /\ (g.depth # 8 \/ g.interlace # 0 \/ Channels(g.color) = 0)
    BY <1>1, <2>1, AlteredHeader
  <2>3. Spoilt(file, how) = [file EXCEPT ![1] = g]
    <3>1. file[1] = h
      OBVIOUS
    <3>2. QED
      BY <1>1, <2>1, <3>1, SpoiltHeader
  <2>4. [file EXCEPT ![1] = g] = <<g, Chunk("tEXt"), IDAT(<<x>>), IDAT(t), Chunk("IEND")>>
    OBVIOUS
  <2>5. ReadsAs(ReadOf(Spoilt(file, how)), g, <<x>> \o t)
    BY <2>2, <2>3, <2>4, SplitLayout
  <2>6. QED
    BY <2>2, <2>5, HeaderRefused
<1>2. CASE how = "no header"
  <2>1. PICK rest : rest = Tail(file)
    OBVIOUS
  <2>2. rest = <<Chunk("tEXt"), IDAT(<<x>>), IDAT(t), Chunk("IEND")>>
    BY <2>1
  <2>3. /\ rest[1] = Chunk("tEXt") /\ rest[2] = IDAT(<<x>>) /\ rest[3] = IDAT(t)
        /\ rest[4] = Chunk("IEND") /\ rest = [i \in 1 .. 4 |-> rest[i]]
    BY <2>2
  <2>4. /\ rest[1].kind = "tEXt" /\ rest[2].kind = "IDAT" /\ rest[3].kind = "IDAT"
        /\ rest[4].kind = "IEND"
    BY <2>3 DEF IDAT, Chunk
  <2>5. Listed(rest, 4)
    BY <2>3, Zenon DEF Listed
  <2>6. EndsAt(rest, 4, 3)
    <3>1. \A i \in 1 .. 3 : rest[i].kind # "IEND"
      BY <2>4
    <3>2. rest[3 + 1].kind = "IEND"
      BY <2>4
    <3>3. QED
      BY <2>5, <3>1, <3>2 DEF EndsAt
  <2>7. \A i \in 1 .. 3 : rest[i].kind # "IHDR"
    BY <2>4
  <2>8. 4 \in Nat /\ 3 \in Nat \ {0} /\ 3 <= 4
    OBVIOUS
  <2>9. decode_png(rest) = None
    BY <2>6, <2>7, <2>8, HeaderMissing, Zenon
  <2>10. QED
    BY <1>2, <2>1, <2>9, SpoiltOthers
<1>3. CASE how = "compressed"
  <2>1. <<x>> \in Seq(Block) /\ <<x>> # <<>>
    OBVIOUS
  <2>2. PICK packed : packed = Packed(<<x>>)
    OBVIOUS
  <2>3. packed \in Seq(AnyBlock) /\ packed[1].type = 2
    BY <2>1, <2>2, PackedBlocks
  <2>4. PICK y \in AnyBlock : packed = <<y>> /\ y.type = 2
    <3>1. packed = [<<x>> EXCEPT ![1].type = 2]
      BY <2>1, <2>2 DEF Packed
    <3>2. packed = <<[x EXCEPT !.type = 2]>>
      BY <3>1
    <3>3. [x EXCEPT !.type = 2] \in AnyBlock /\ [x EXCEPT !.type = 2].type = 2
      BY DEF Block, AnyBlock
    <3>4. QED
      BY <3>2, <3>3
  <2>5. PICK rest \in Seq(AnyBlock) : rest = Packed(t)
    BY PackedBlocks
  <2>6. Spoilt(file, how) = <<h, Chunk("tEXt"), IDAT(<<y>>), IDAT(rest), Chunk("IEND")>>
    BY <1>0, <1>3, <2>2, <2>4, <2>5, PackedSplit
  <2>7. ReadsAs(ReadOf(Spoilt(file, how)), h, <<y>> \o rest)
    BY <1>0, <2>6, SplitLayout
  <2>8. StreamOf(ReadOf(Spoilt(file, how))) = <<y>> \o rest
    BY <2>7 DEF ReadsAs
  <2>9. PICK stream : stream = <<y>> \o rest
    OBVIOUS
  <2>10. stream \in Seq(AnyBlock) /\ stream[1] = y
    BY <2>9, Prefixed
  <2>11. stream[1].type # 0
    <3>1. stream[1].type = 2
      BY <2>4, <2>10
    <3>2. QED
      BY <3>1
  <2>12. QED
    BY <2>8, <2>9, <2>10, <2>11, StreamRefused
<1>4. CASE how = "short"
  <2>1. SubSeq(file, 1, 1) = <<h>>
    <3>1. file = [i \in 1 .. 5 |-> file[i]] /\ file[1] = h /\ 5 \in Nat \ {0}
      OBVIOUS
    <3>2. QED
      BY <3>1, FirstOf
  <2>2. QED
    BY <1>0, <1>4, <2>1, SpoiltOthers, HeaderAlone
<1>5. QED
  BY <1>1, <1>2, <1>3, <1>4 DEF Hows

(* The PNG files of a picture that decode() reads.                         *)
PngFiles(img) ==
  {encode_png(img)}
    \cup {Resaved(img, filter, alpha) : filter \in [1 .. img.height -> 0 .. 4], alpha \in BOOLEAN}

(* Every such file is one of two shapes, and its stream carries the        *)
(* picture.                                                                *)
LEMMA PngShapes ==
  ASSUME NEW img, IsImage(img), NEW file \in PngFiles(img)
  PROVE  \E channels \in {3, 4}, color \in {2, 6}, filter \in [1 .. img.height -> 0 .. 4] :
         \E blocks \in Seq(Block) :
           /\ Channels(color) = channels /\ blocks # <<>>
           /\ Carries(blocks, img, channels, filter)
           /\ LET h == IHDR(img.width, img.height, color, 8, 0)
              IN \/ file = <<h, IDAT(blocks), Chunk("IEND")>>
                 \/ file = <<h, Chunk("tEXt"), IDAT(<<Head(blocks)>>), IDAT(Tail(blocks)), Chunk("IEND")>>
<1>1. img.height \in Nat \ {0}
  BY DEF IsImage
<1>2. CASE file = encode_png(img)
  <2>1. PICK filter : filter = [y \in 1 .. img.height |-> 0]
    OBVIOUS
  <2>2. filter \in [1 .. img.height -> 0 .. 4]
    BY <2>1
  <2>3. PICK blocks : blocks = zlib_stored(Rows(img.data, 3 * img.width, filter))
    OBVIOUS
  <2>4. Carries(blocks, img, 3, filter)
    BY <2>1, <2>3, PlainCarries
  <2>5. blocks \in Seq(Block) /\ blocks # <<>>
    BY <2>2, <2>4, CarriesBlocks
  <2>6. file = <<IHDR(img.width, img.height, 2, 8, 0), IDAT(blocks), Chunk("IEND")>>
    BY <1>2, <2>1, <2>3, Zenon DEF encode_png
  <2>7. QED
    BY <2>2, <2>4, <2>5, <2>6, ChannelsAre
<1>3. CASE \E filter \in [1 .. img.height -> 0 .. 4], alpha \in BOOLEAN :
             file = Resaved(img, filter, alpha)
  <2>1. PICK filter \in [1 .. img.height -> 0 .. 4], alpha \in BOOLEAN :
          file = Resaved(img, filter, alpha)
    BY <1>3
  <2>2. PICK channels \in {3, 4} : channels = IF alpha THEN 4 ELSE 3
    OBVIOUS
  <2>3. PICK color \in {2, 6} : color = IF alpha THEN 6 ELSE 2
    OBVIOUS
  <2>4. Channels(color) = channels
    BY <2>2, <2>3, ChannelsAre
  <2>5. (IF alpha THEN to_rgba(img) ELSE img.data) = BytesIn(img, channels)
    BY <2>2 DEF BytesIn
  <2>6. PICK blocks : blocks = zlib_stored(Rows(Filtered(BytesIn(img, channels), channels * img.width, channels, filter),
                                  channels * img.width, filter))
    OBVIOUS
  <2>7. Carries(blocks, img, channels, filter)
    BY <2>6, ResavedCarries
  <2>8. blocks \in Seq(Block) /\ blocks # <<>>
    BY <2>7, CarriesBlocks
  <2>9. file = <<IHDR(img.width, img.height, color, 8, 0), Chunk("tEXt"),
                 IDAT(<<Head(blocks)>>), IDAT(Tail(blocks)), Chunk("IEND")>>
    BY <2>1, <2>2, <2>3, <2>5, <2>6, Zenon DEF Resaved
  <2>10. QED
    BY <2>4, <2>7, <2>8, <2>9
<1>4. \/ file = encode_png(img)
      \/ \E filter \in [1 .. img.height -> 0 .. 4], alpha \in BOOLEAN :
           file = Resaved(img, filter, alpha)
  <2>1. SUFFICES ASSUME file # encode_png(img)
                 PROVE  \E filter \in [1 .. img.height -> 0 .. 4], alpha \in BOOLEAN :
                          file = Resaved(img, filter, alpha)
    OBVIOUS
  <2>2. QED
    BY <2>1 DEF PngFiles
<1>5. QED
  BY <1>2, <1>3, <1>4

(* Head and tail are the sequence.                                         *)
LEMMA HeadAndTail ==
  ASSUME NEW Q, NEW s \in Seq(Q), s # <<>>
  PROVE  Head(s) \in Q /\ Tail(s) \in Seq(Q) /\ <<Head(s)>> \o Tail(s) = s
OBVIOUS

(* A PNG file is read as the picture it was written from.                  *)
THEOREM PngSurvives ==
  ASSUME NEW img, IsImage(img), NEW file \in PngFiles(img)
  PROVE  decode_png(file) = img
<1>1. PICK channels \in {3, 4}, color \in {2, 6}, filter \in [1 .. img.height -> 0 .. 4] :
         \E blocks \in Seq(Block) :
           /\ Channels(color) = channels /\ blocks # <<>>
           /\ Carries(blocks, img, channels, filter)
           /\ LET h == IHDR(img.width, img.height, color, 8, 0)
              IN \/ file = <<h, IDAT(blocks), Chunk("IEND")>>
                 \/ file = <<h, Chunk("tEXt"), IDAT(<<Head(blocks)>>), IDAT(Tail(blocks)), Chunk("IEND")>>
  BY PngShapes
<1>2. PICK h : h = IHDR(img.width, img.height, color, 8, 0)
  OBVIOUS
<1>3. h.kind = "IHDR"
  BY <1>2 DEF IHDR
<1>4. PICK blocks \in Seq(Block) :
           /\ Channels(color) = channels /\ blocks # <<>>
           /\ Carries(blocks, img, channels, filter)
           /\ \/ file = <<h, IDAT(blocks), Chunk("IEND")>>
              \/ file = <<h, Chunk("tEXt"), IDAT(<<Head(blocks)>>), IDAT(Tail(blocks)), Chunk("IEND")>>
  BY <1>1, <1>2
<1>5. ReadsAs(ReadOf(file), h, blocks)
  <2>1. CASE file = <<h, IDAT(blocks), Chunk("IEND")>>
    BY <1>3, <2>1, PlainLayout
  <2>2. CASE file = <<h, Chunk("tEXt"), IDAT(<<Head(blocks)>>), IDAT(Tail(blocks)), Chunk("IEND")>>
    <3>1. PICK x \in Block, t \in Seq(Block) : x = Head(blocks) /\ t = Tail(blocks) /\ <<x>> \o t = blocks
      BY <1>4, HeadAndTail
    <3>2. file = <<h, Chunk("tEXt"), IDAT(<<x>>), IDAT(t), Chunk("IEND")>>
      BY <2>2, <3>1
    <3>3. ReadsAs(ReadOf(file), h, <<x>> \o t)
      BY <1>3, <3>2, SplitLayout
    <3>4. QED
      BY <3>1, <3>3
  <2>3. QED
    BY <1>4, <2>1, <2>2
<1>6. QED
  <2>1. Channels(color) = channels
    BY <1>4
  <2>2. Carries(blocks, img, channels, filter)
    BY <1>4
  <2>3. QED
    BY <1>2, <1>5, <2>1, <2>2, CarriedPicture

(* A file that pz does not read is refused.                                *)
THEOREM PngRefused ==
  ASSUME NEW img, IsImage(img), NEW file \in PngFiles(img), NEW how \in Hows
  PROVE  decode_png(Spoilt(file, how)) = None
<1>1. PICK channels \in {3, 4}, color \in {2, 6}, filter \in [1 .. img.height -> 0 .. 4] :
         \E blocks \in Seq(Block) :
           /\ Channels(color) = channels /\ blocks # <<>>
           /\ Carries(blocks, img, channels, filter)
           /\ LET h == IHDR(img.width, img.height, color, 8, 0)
              IN \/ file = <<h, IDAT(blocks), Chunk("IEND")>>
                 \/ file = <<h, Chunk("tEXt"), IDAT(<<Head(blocks)>>), IDAT(Tail(blocks)), Chunk("IEND")>>
  BY PngShapes
<1>2. PICK h : h = IHDR(img.width, img.height, color, 8, 0)
  OBVIOUS
<1>3. PICK blocks \in Seq(Block) :
           /\ blocks # <<>>
           /\ \/ file = <<h, IDAT(blocks), Chunk("IEND")>>
              \/ file = <<h, Chunk("tEXt"), IDAT(<<Head(blocks)>>), IDAT(Tail(blocks)), Chunk("IEND")>>
  BY <1>1, <1>2
<1>4. Header(h)
  BY <1>2 DEF Header, IHDR
<1>5. CASE file = <<h, IDAT(blocks), Chunk("IEND")>>
  BY <1>3, <1>4, <1>5, SpoiltPlain
<1>6. CASE file = <<h, Chunk("tEXt"), IDAT(<<Head(blocks)>>), IDAT(Tail(blocks)), Chunk("IEND")>>
  <2>1. Head(blocks) \in Block /\ Tail(blocks) \in Seq(Block)
    BY <1>3, HeadAndTail
  <2>2. QED
    BY <1>4, <1>6, <2>1, SpoiltSplit
<1>7. QED
  BY <1>3, <1>5, <1>6

-----------------------------------------------------------------------------
(* Rendering.                                                              *)

(* The greater of two numbers.                                             *)
LEMMA MaxOfTwo ==
  ASSUME NEW a \in Int, NEW b \in Int
  PROVE  Max({a, b}) = IF a >= b THEN a ELSE b
<1>1. CASE a >= b
  <2>1. \A y \in {a, b} : a >= y
    BY <1>1
  <2>2. \A m \in {a, b} : (\A y \in {a, b} : m >= y) => m = a
    BY <1>1
  <2>3. QED
    BY <1>1, <2>1, <2>2 DEF Max
<1>2. CASE ~(a >= b)
  <2>1. \A y \in {a, b} : b >= y
    BY <1>2
  <2>2. \A m \in {a, b} : (\A y \in {a, b} : m >= y) => m = b
    BY <1>2
  <2>3. QED
    BY <1>2, <2>1, <2>2 DEF Max
<1>3. QED
  BY <1>1, <1>2

(* What SceneAssumption says of a scene.                                   *)
IsScene(cells, o) ==
  /\ cells \in Seq(Seq(Colour)) /\ cells # <<>>
  /\ \A row \in DOMAIN cells : Len(cells[row]) = Len(cells)
  /\ o.module_px \in Nat /\ o.quiet_zone \in Nat
  /\ o.background \in Colour \ {Black}
  /\ o.ink \in Colour \cup {None}

(* The scenes of the assumption are scenes.                                *)
LEMMA ScenesAre ==
  ASSUME NEW s \in Scenes
  PROVE  IsScene(s.cells, s.options)
BY SceneAssumption DEF IsScene

(* A cell is one pixel wide at least.                                      *)
LEMMA ScaleIs ==
  ASSUME NEW cells, NEW o, IsScene(cells, o)
  PROVE  scale(o) \in Nat \ {0}
<1>1. PICK m \in Nat : m = o.module_px
  BY DEF IsScene
<1>2. Max({m, 1}) = IF m >= 1 THEN m ELSE 1
  BY MaxOfTwo
<1>3. QED
  BY <1>1, <1>2 DEF scale

(* A cell is drawn in a colour.                                            *)
LEMMA CellColour ==
  ASSUME NEW cells, NEW o, IsScene(cells, o),
         NEW row \in 1 .. Len(cells), NEW col \in 1 .. Len(cells)
  PROVE  cells[row][col] \in Colour /\ Drawn(cells[row][col], o) \in Colour
<1>1. cells[row] \in Seq(Colour) /\ Len(cells[row]) = Len(cells)
  BY DEF IsScene
<1>2. PICK rgb \in Colour : rgb = cells[row][col]
  BY <1>1
<1>3. o.ink # None => o.ink \in Colour
  BY DEF IsScene
<1>4. Drawn(rgb, o) \in Colour
  BY <1>3 DEF Drawn
<1>5. QED
  BY <1>2, <1>4

(* Every pixel has a colour.                                               *)
LEMMA PixelColour ==
  ASSUME NEW cells, NEW o, IsScene(cells, o), NEW x \in Nat, NEW y \in Nat
  PROVE  PixelAt(cells, o, x, y) \in Colour
<1>1. PICK s \in Nat \ {0} : s = scale(o)
  BY ScaleIs
<1>2. PICK n \in Nat : n = Len(cells)
  BY DEF IsScene
<1>3. PICK q \in Nat : q = o.quiet_zone
  BY DEF IsScene
<1>4. PICK a, b : a = (x \div s) - q /\ b = (y \div s) - q
  OBVIOUS
<1>5. o.background \in Colour
  BY DEF IsScene
<1>6. PixelAt(cells, o, x, y) =
        IF a \in 0 .. n - 1 /\ b \in 0 .. n - 1
        THEN Drawn(cells[b + 1][a + 1], o) ELSE o.background
  BY <1>1, <1>2, <1>3, <1>4, Zenon DEF PixelAt
<1>7. CASE a \in 0 .. n - 1 /\ b \in 0 .. n - 1
  <2>1. a + 1 \in 1 .. Len(cells) /\ b + 1 \in 1 .. Len(cells)
    BY <1>2, <1>7
  <2>2. Drawn(cells[b + 1][a + 1], o) \in Colour
    BY <2>1, CellColour
  <2>3. QED
    BY <1>6, <1>7, <2>2
<1>8. QED
  BY <1>5, <1>6, <1>7

(* Every pixel of the rendering.                                           *)
Painted(img, size, cells, o) ==
  \A x \in 0 .. size - 1, y \in 0 .. size - 1, c \in 0 .. 2 :
    img.data[(y * size + x) * 3 + c + 1] = PixelAt(cells, o, x, y)[1 + c]

(* The picture is one pixel wide at least.                                 *)
LEMMA SizeIs ==
  ASSUME NEW cells, NEW o, IsScene(cells, o)
  PROVE  (Len(cells) + 2 * o.quiet_zone) * scale(o) \in Nat \ {0}
<1>1. PICK s \in Nat \ {0} : s = scale(o)
  BY ScaleIs
<1>2. PICK n \in Nat \ {0} : n = Len(cells)
  BY DEF IsScene
<1>3. PICK q \in Nat : q = o.quiet_zone
  BY DEF IsScene
<1>4. (n + 2 * q) * s \in Nat \ {0}
  OBVIOUS
<1>5. QED
  BY <1>1, <1>2, <1>3, <1>4

(* How many pixels render() of render.rs makes a side.                     *)
IsSize(size, cells, o) == size = (Len(cells) + 2 * o.quiet_zone) * scale(o)

(* Which row and column pixel p is in.                                     *)
LEMMA PixelPosition ==
  ASSUME NEW size \in Nat \ {0}, NEW x \in 0 .. size - 1, NEW y \in 0 .. size - 1,
         NEW p, p = y * size + x
  PROVE  p \in Nat /\ p \div size = y /\ p % size = x /\ p < size * size
<1>1. PICK v \in Nat : v = y /\ v + 1 <= size
  OBVIOUS
<1>2. PICK k \in Nat : k = size * v
  OBVIOUS
<1>3. p = size * v + x /\ p = k + x
  BY <1>1, <1>2
<1>4. p \in Nat /\ p \div size = v /\ p % size = x
  BY <1>3, DivisionIs
<1>5. p < size * size
  <2>1. size * (v + 1) <= size * size
    BY <1>1
  <2>2. size * (v + 1) = k + size
    BY <1>2
  <2>3. size * size \in Nat
    OBVIOUS
  <2>4. QED
    BY <1>3, <2>1, <2>2, <2>3
<1>6. QED
  BY <1>1, <1>4, <1>5

(* render() returns a picture with every pixel painted.                    *)
LEMMA RenderedImage ==
  ASSUME NEW cells, NEW o, IsScene(cells, o),
         NEW size \in Nat \ {0}, IsSize(size, cells, o)
  PROVE  /\ render(cells, o).width = size /\ render(cells, o).height = size
         /\ IsImage(render(cells, o))
         /\ Painted(render(cells, o), size, cells, o)
<1> DEFINE g == [i \in 1 .. 3 * size * size |->
                 LET p == (i - 1) \div 3
                 IN PixelAt(cells, o, p % size, p \div size)[1 + ((i - 1) % 3)]]
<1>1. size \in Nat \ {0}
  OBVIOUS
<1>2. PICK n \in Nat \ {0} : n = size * size
  BY <1>1
<1>3. 3 * size * size = 3 * n
  BY <1>1, <1>2
<1>4. render(cells, o) = [width |-> size, height |-> size, data |-> Tuple(g)]
  BY Zenon DEF render, IsSize
<1>5. ASSUME NEW x \in 0 .. size - 1, NEW y \in 0 .. size - 1, NEW c \in 0 .. 2
      PROVE  /\ (y * size + x) * 3 + c + 1 \in 1 .. 3 * n
             /\ g[(y * size + x) * 3 + c + 1] = PixelAt(cells, o, x, y)[1 + c]
  <2>1. PICK p : p = y * size + x
    OBVIOUS
  <2>2. p \in Nat /\ p \div size = y /\ p % size = x /\ p < n
    <3>1. p \in Nat /\ p \div size = y /\ p % size = x /\ p < size * size
      BY <1>1, <2>1, PixelPosition, Zenon
    <3>2. QED
      BY <1>2, <3>1, Zenon
  <2>6. PICK i : i = p * 3 + c + 1
    OBVIOUS
  <2>7. i \in 1 .. 3 * n /\ (i - 1) \div 3 = p /\ (i - 1) % 3 = c
    BY <2>2, <2>6
  <2>8. g[i] = PixelAt(cells, o, p % size, p \div size)[1 + c]
    <3>1. i \in 1 .. 3 * size * size
      BY <1>3, <2>7
    <3>2. QED
      BY <2>7, <3>1
  <2> HIDE DEF g
  <2>9. QED
    BY <2>1, <2>2, <2>6, <2>7, <2>8
<1>6. ASSUME NEW i \in 1 .. 3 * n
      PROVE  g[i] \in Byte
  <2>1. PICK a \in Nat : a = i - 1 /\ a < 3 * n
    OBVIOUS
  <2>2. PICK p, c : p = a \div 3 /\ c = a % 3
    OBVIOUS
  <2>3. p \in Nat /\ c \in 0 .. 2
    BY <2>1, <2>2
  <2>4. PICK x, y : x = p % size /\ y = p \div size
    OBVIOUS
  <2>5. x \in Nat /\ y \in Nat
    <3>1. p \div size \in Nat /\ p % size \in 0 .. size - 1
      BY <1>1, <2>3, Division
    <3>2. QED
      BY <2>4, <3>1
  <2>6. PICK rgb \in Colour : rgb = PixelAt(cells, o, x, y)
    BY <2>5, PixelColour
  <2>7. g[i] = rgb[1 + c]
    <3>1. i \in 1 .. 3 * size * size
      BY <1>3
    <3>2. QED
      BY <2>1, <2>2, <2>4, <2>6, <3>1
  <2>8. rgb[1 + c] \in Byte
    <3>1. 1 + c \in 1 .. 3
      BY <2>3
    <3>2. QED
      BY <3>1 DEF Colour
  <2> HIDE DEF g
  <2>9. QED
    BY <2>7, <2>8
<1>7. g = [i \in 1 .. 3 * n |-> g[i]]
  BY <1>3
<1> HIDE DEF g
<1>8. Tuple(g) = g /\ Len(g) = 3 * n
  <2>1. PICK m \in Nat : m = 3 * n
    OBVIOUS
  <2>2. g = [i \in 1 .. m |-> g[i]]
    BY <1>7, <2>1, Zenon
  <2>3. Tuple(g) = g /\ Len(g) = m
    BY <2>2, TupleIsTheSequence
  <2>4. QED
    BY <2>1, <2>3
<1>9. g \in Seq(Byte)
  <2>1. PICK m \in Nat : m = 3 * n
    OBVIOUS
  <2>2. g \in [1 .. m -> Byte]
    BY <1>6, <1>7, <2>1
  <2>3. QED
    BY <2>2
<1>10. PICK img : img = render(cells, o)
  OBVIOUS
<1>11. img = [width |-> size, height |-> size, data |-> g]
  BY <1>4, <1>8, <1>10
<1>12. img.width = size /\ img.height = size /\ img.data = g
  BY <1>11
<1>13. IsImage(img)
  BY <1>1, <1>3, <1>8, <1>9, <1>11, <1>12 DEF IsImage
<1>14. Painted(img, size, cells, o)
  BY <1>5, <1>12, Zenon DEF Painted
<1>15. QED
  BY <1>10, <1>12, <1>13, <1>14

(* The pixel in the middle of cell v, as a reader of the picture samples   *)
(* it.                                                                     *)
Middle(o, v) == ((v - 1 + o.quiet_zone) * scale(o)) + (scale(o) \div 2)

(* The middle of a cell is inside the picture and in that cell.            *)
LEMMA InTheCell ==
  ASSUME NEW s \in Nat \ {0}, NEW n \in Nat, NEW q \in Nat, NEW v \in 1 .. n,
         NEW x, x = ((v - 1 + q) * s) + (s \div 2)
  PROVE  x \in 0 .. (n + 2 * q) * s - 1 /\ (x \div s) - q = v - 1
<1>1. PICK r \in 0 .. s - 1 : r = s \div 2
  OBVIOUS
<1>2. PICK k \in Nat : k = v - 1 + q /\ k + 1 <= n + 2 * q
  OBVIOUS
<1>3. PICK m \in Nat : m = n + 2 * q
  OBVIOUS
<1>4. PICK o \in Nat : o = s * k
  OBVIOUS
<1>5. x = s * k + r /\ x = o + r
  BY <1>1, <1>2, <1>4
<1>6. x \in Nat /\ x \div s = k
  BY <1>5, DivisionIs
<1>7. x \in 0 .. m * s - 1
  <2>1. s * (k + 1) <= s * m
    BY <1>2, <1>3
  <2>2. s * (k + 1) = o + s
    BY <1>4
  <2>3. m * s = s * m /\ s * m \in Nat
    OBVIOUS
  <2>4. QED
    BY <1>5, <1>6, <2>1, <2>2, <2>3
<1>8. QED
  BY <1>2, <1>3, <1>6, <1>7

(* The middle of a cell shows what is drawn there.                         *)
LEMMA CellSeen ==
  ASSUME NEW cells, NEW o, IsScene(cells, o),
         NEW row \in 1 .. Len(cells), NEW col \in 1 .. Len(cells),
         NEW img, img = render(cells, o)
  PROVE  get(img, Middle(o, col), Middle(o, row)) = Drawn(cells[row][col], o)
<1>1. PICK size \in Nat \ {0} : IsSize(size, cells, o)
  BY SizeIs DEF IsSize
<1>2. img.width = size /\ Painted(img, size, cells, o)
  BY <1>1, RenderedImage
<1>3. PICK s \in Nat \ {0} : s = scale(o)
  BY ScaleIs
<1>4. PICK n \in Nat : n = Len(cells)
  BY DEF IsScene
<1>5. PICK q \in Nat : q = o.quiet_zone
  BY DEF IsScene
<1>6. PICK x : x = ((col - 1 + q) * s) + (s \div 2)
  OBVIOUS
<1>7. PICK y : y = ((row - 1 + q) * s) + (s \div 2)
  OBVIOUS
<1>8. Middle(o, col) = x /\ Middle(o, row) = y
  BY <1>3, <1>5, <1>6, <1>7, Zenon DEF Middle
<1>9. size = (n + 2 * q) * s
  BY <1>1, <1>3, <1>4, <1>5, Zenon DEF IsSize
<1>10. x \in 0 .. size - 1 /\ (x \div s) - q = col - 1
  <2>1. col \in 1 .. n
    BY <1>4
  <2>2. x \in 0 .. (n + 2 * q) * s - 1 /\ (x \div s) - q = col - 1
    BY <1>6, <2>1, InTheCell
  <2>3. QED
    BY <1>9, <2>2, Zenon
<1>11. y \in 0 .. size - 1 /\ (y \div s) - q = row - 1
  <2>1. row \in 1 .. n
    BY <1>4
  <2>2. y \in 0 .. (n + 2 * q) * s - 1 /\ (y \div s) - q = row - 1
    BY <1>7, <2>1, InTheCell
  <2>3. QED
    BY <1>9, <2>2, Zenon
<1>12. PixelAt(cells, o, x, y) = Drawn(cells[row][col], o)
  <2>1. PICK a, b : a = (x \div s) - q /\ b = (y \div s) - q
    OBVIOUS
  <2>2. PixelAt(cells, o, x, y) =
          IF a \in 0 .. n - 1 /\ b \in 0 .. n - 1
          THEN Drawn(cells[b + 1][a + 1], o) ELSE o.background
    BY <1>3, <1>4, <1>5, <2>1, Zenon DEF PixelAt
  <2>3. a = col - 1 /\ b = row - 1
    BY <1>10, <1>11, <2>1
  <2>4. a \in 0 .. n - 1 /\ b \in 0 .. n - 1 /\ a + 1 = col /\ b + 1 = row
    BY <1>4, <2>3
  <2>5. QED
    BY <2>2, <2>4
<1>13. PICK rgb \in Colour : rgb = Drawn(cells[row][col], o)
  BY CellColour
<1>14. \A c \in 0 .. 2 : img.data[(y * size + x) * 3 + c + 1] = rgb[1 + c]
  <2>1. x \in 0 .. size - 1 /\ y \in 0 .. size - 1
    BY <1>10, <1>11
  <2>2. \A c \in 0 .. 2 : img.data[(y * size + x) * 3 + c + 1] = PixelAt(cells, o, x, y)[1 + c]
    BY <1>2, <2>1, Zenon DEF Painted
  <2>3. QED
    BY <1>12, <1>13, <2>2, Zenon
<1>15. PICK i \in Nat : i = (y * size + x) * 3
  <2>1. y \in Nat /\ x \in Nat
    BY <1>10, <1>11
  <2>2. QED
    BY <2>1
<1>16. img.data[i + 1] = rgb[1] /\ img.data[i + 2] = rgb[2] /\ img.data[i + 3] = rgb[3]
  <2>1. img.data[i + 0 + 1] = rgb[1 + 0]
    BY <1>14, <1>15
  <2>2. img.data[i + 1 + 1] = rgb[1 + 1]
    BY <1>14, <1>15
  <2>3. img.data[i + 2 + 1] = rgb[1 + 2]
    BY <1>14, <1>15
  <2>4. /\ i + 0 + 1 = i + 1 /\ i + 1 + 1 = i + 2 /\ i + 2 + 1 = i + 3
        /\ 1 + 0 = 1 /\ 1 + 1 = 2 /\ 1 + 2 = 3
    OBVIOUS
  <2>5. QED
    BY <2>1, <2>2, <2>3, <2>4, Zenon
<1>17. get(img, x, y) = <<rgb[1], rgb[2], rgb[3]>>
  BY <1>2, <1>15, <1>16, Zenon DEF get
<1>18. rgb = <<rgb[1], rgb[2], rgb[3]>>
  BY DEF Colour
<1>19. QED
  BY <1>8, <1>13, <1>17, <1>18

(* The luminance of a colour in its three parts.                           *)
IsLit(rgb, r, g, b) ==
  /\ rgb = <<r, g, b>>
  /\ luminance(rgb) = 299 * r + 587 * g + 114 * b

(* A colour has the luminance that layout.rs weighs.                       *)
LEMMA LuminanceIs ==
  ASSUME NEW rgb \in Colour
  PROVE  \E r \in 0 .. 255, g \in 0 .. 255, b \in 0 .. 255 :
           IsLit(rgb, r, g, b)
<1>1. rgb[1] \in 0 .. 255 /\ rgb[2] \in 0 .. 255 /\ rgb[3] \in 0 .. 255
  BY DEF Colour, Byte
<1>2. rgb = <<rgb[1], rgb[2], rgb[3]>>
  BY DEF Colour
<1>3. luminance(rgb) = 299 * rgb[1] + 587 * rgb[2] + 114 * rgb[3]
  BY Zenon DEF luminance
<1>4. PICK r \in 0 .. 255, g \in 0 .. 255, b \in 0 .. 255 : r = rgb[1] /\ g = rgb[2] /\ b = rgb[3]
  BY <1>1
<1>5. IsLit(rgb, r, g, b)
  BY <1>2, <1>3, <1>4, Zenon DEF IsLit
<1>6. QED
  BY <1>5

(* A black cell, drawn, is darker than the background.                     *)
LEMMA InkIsDarker ==
  ASSUME NEW cells, NEW o, IsScene(cells, o), contrast_ok(o)
  PROVE  luminance(Drawn(Black, o)) < luminance(o.background)
<1>1. PICK back \in Colour : back = o.background /\ back # Black
  BY DEF IsScene
<1>2. PICK r \in 0 .. 255, g \in 0 .. 255, b \in 0 .. 255 : IsLit(back, r, g, b)
  BY LuminanceIs
<1>3. CASE o.ink = None
  <2>1. Drawn(Black, o) = Black
    BY <1>3 DEF Drawn
  <2>2. luminance(Black) = 0
    BY DEF luminance, Black
  <2>3. r > 0 \/ g > 0 \/ b > 0
    BY <1>1, <1>2 DEF Black, IsLit
  <2>4. luminance(back) > 0
    BY <1>2, <2>3 DEF IsLit
  <2>5. QED
    BY <1>1, <2>1, <2>2, <2>4
<1>4. CASE o.ink # None
  <2>1. PICK ink \in Colour : ink = o.ink
    BY <1>4 DEF IsScene
  <2>2. Drawn(Black, o) = ink
    BY <1>4, <2>1 DEF Drawn
  <2>3. luminance(back) - luminance(ink) >= 450 * 255
    BY <1>1, <1>4, <2>1 DEF contrast_ok
  <2>4. PICK u \in 0 .. 255, v \in 0 .. 255, w \in 0 .. 255 : IsLit(ink, u, v, w)
    BY LuminanceIs
  <2>5. luminance(ink) \in Int /\ luminance(back) \in Int
    BY <1>2, <2>4 DEF IsLit
  <2>6. QED
    BY <1>1, <2>2, <2>3, <2>5
<1>5. QED
  BY <1>3, <1>4

-----------------------------------------------------------------------------
(* The frames that are kept in files.                                      *)

(* The PPM files of a picture, with or without a comment.                  *)
PpmFiles(img) ==
  {PpmHeader(img.width, img.height, comment) \o img.data : comment \in Comments}

(* What is kept of a frame between the steps.                              *)
PictureInv ==
  LET p == picture
      img == p.image
  IN /\ p = [scene |-> p.scene, image |-> img, format |-> p.format, file |-> p.file,
             sound |-> p.sound, loaded |-> p.loaded, read |-> p.read]
     /\ p.scene \in Scenes /\ img = render(p.scene.cells, p.scene.options)
     /\ p.format \in {"none", "png", "ppm"} /\ p.sound \in BOOLEAN /\ p.loaded \in BOOLEAN
     /\ p.format = "none" => ~p.loaded /\ p.sound
     /\ p.format = "png" =>
          IF p.sound THEN p.file \in PngFiles(img)
          ELSE \E file \in PngFiles(img), how \in Hows : p.file = Spoilt(file, how)
     /\ p.format = "ppm" =>
          IF p.sound THEN p.file \in PpmFiles(img)
          ELSE \E file \in PpmFiles(img) : p.file = Front(file)
     /\ p.loaded =>
          p.read = IF p.format = "png" THEN decode_png(p.file) ELSE read_ppm(p.file)

(* The picture that is kept is the rendering of a scene.                   *)
LEMMA PictureIsImage ==
  ASSUME PictureInv
  PROVE  IsScene(picture.scene.cells, picture.scene.options) /\ IsImage(picture.image)
<1>1. picture.scene \in Scenes /\ picture.image = render(picture.scene.cells, picture.scene.options)
  BY DEF PictureInv
<1>2. PICK cells, o : cells = picture.scene.cells /\ o = picture.scene.options
  OBVIOUS
<1>3. IsScene(cells, o)
  BY <1>1, <1>2, ScenesAre
<1>4. PICK size \in Nat \ {0} : IsSize(size, cells, o)
  BY <1>3, SizeIs DEF IsSize
<1>5. IsImage(render(cells, o))
  BY <1>3, <1>4, RenderedImage
<1>6. QED
  BY <1>1, <1>2, <1>3, <1>5

(* A frame that was drawn and not written yet satisfies the invariant.     *)
LEMMA PictureBegins ==
  PictureInit => PictureInv
<1>1. SUFFICES ASSUME NEW s \in Scenes, Draw(s) PROVE PictureInv
  BY DEF PictureInit
<1>2. picture = [scene |-> s, image |-> render(s.cells, s.options), format |-> "none", file |-> <<>>,
                 sound |-> TRUE, loaded |-> FALSE, read |-> None]
  BY <1>1, Zenon DEF Draw
<1>3. QED
  BY <1>2 DEF PictureInv

(* Writing, rewriting, spoiling, cutting and reading keep the invariant.   *)
LEMMA PictureStep ==
  PictureInv /\ [NextPicture]_picture => PictureInv'
<1>1. SUFFICES ASSUME PictureInv, [NextPicture]_picture PROVE PictureInv'
  OBVIOUS
<1>2. CASE WritePng
  <2>1. encode_png(picture.image) \in PngFiles(picture.image)
    BY DEF PngFiles
  <2>2. QED
    BY <1>1, <1>2, <2>1 DEF PictureInv, WritePng
<1>3. CASE WritePpm
  <2>1. write_ppm(picture.image) \in PpmFiles(picture.image)
    BY DEF PpmFiles, write_ppm, Comments
  <2>2. QED
    BY <1>1, <1>3, <2>1 DEF PictureInv, WritePpm
<1>4. CASE \E filter \in [1 .. picture.image.height -> 0 .. 4], alpha \in BOOLEAN :
             ResavePng(filter, alpha)
  <2>1. PICK filter \in [1 .. picture.image.height -> 0 .. 4], alpha \in BOOLEAN :
          ResavePng(filter, alpha)
    BY <1>4
  <2>2. Resaved(picture.image, filter, alpha) \in PngFiles(picture.image)
    BY DEF PngFiles
  <2>3. QED
    BY <1>1, <2>1, <2>2 DEF PictureInv, ResavePng
<1>5. CASE \E how \in Hows : SpoilPng(how)
  <2>1. PICK how \in Hows : SpoilPng(how)
    BY <1>5
  <2>2. QED
    BY <1>1, <2>1 DEF PictureInv, SpoilPng
<1>6. CASE ResavePpm
  <2>1. PpmHeader(picture.image.width, picture.image.height, <<32, Hash, 49, 32>>)
          \o picture.image.data \in PpmFiles(picture.image)
    BY DEF PpmFiles, Comments
  <2>2. QED
    BY <1>1, <1>6, <2>1 DEF PictureInv, ResavePpm
<1>7. CASE CutPpm
  BY <1>1, <1>7 DEF PictureInv, CutPpm
<1>8. CASE Read
  BY <1>1, <1>8 DEF PictureInv, Read
<1>9. CASE UNCHANGED picture
  BY <1>1, <1>9 DEF PictureInv
<1>10. QED
  BY <1>1, <1>2, <1>3, <1>4, <1>5, <1>6, <1>7, <1>8, <1>9 DEF NextPicture, Hows

(* A file that is sound reads as the picture, and one that is not as an    *)
(* error.                                                                  *)
LEMMA ReadIsRight ==
  ASSUME PictureInv, picture.loaded
  PROVE  picture.read = IF picture.sound THEN picture.image ELSE None
<1>1. PICK img : img = picture.image
  OBVIOUS
<1>2. IsImage(img)
  BY <1>1, PictureIsImage
<1>3. picture.format \in {"png", "ppm"} /\ picture.sound \in BOOLEAN
  BY DEF PictureInv
<1>4. CASE picture.format = "png"
  <2>1. picture.read = decode_png(picture.file)
    BY <1>4 DEF PictureInv
  <2>2. CASE picture.sound
    <3>1. picture.file \in PngFiles(img)
      BY <1>1, <1>4, <2>2 DEF PictureInv
    <3>2. decode_png(picture.file) = img
      BY <1>2, <3>1, PngSurvives
    <3>3. QED
      BY <1>1, <2>1, <2>2, <3>2
  <2>3. CASE ~picture.sound
    <3>1. PICK file \in PngFiles(img), how \in Hows : picture.file = Spoilt(file, how)
      BY <1>1, <1>4, <2>3 DEF PictureInv
    <3>2. decode_png(picture.file) = None
      BY <1>2, <3>1, PngRefused
    <3>3. QED
      BY <2>1, <2>3, <3>2
  <2>4. QED
    BY <1>3, <2>2, <2>3
<1>5. CASE picture.format = "ppm"
  <2>1. picture.read = read_ppm(picture.file)
    BY <1>5 DEF PictureInv
  <2>2. \A file \in PpmFiles(img) : read_ppm(file) = img /\ read_ppm(Front(file)) = None
    <3>1. SUFFICES ASSUME NEW comment \in Comments,
                          NEW file, file = PpmHeader(img.width, img.height, comment) \o img.data
                   PROVE  read_ppm(file) = img /\ read_ppm(Front(file)) = None
      BY DEF PpmFiles
    <3>2. QED
      BY <1>2, <3>1, PpmSurvives
  <2>3. CASE picture.sound
    <3>1. picture.file \in PpmFiles(img)
      BY <1>1, <1>5, <2>3 DEF PictureInv
    <3>2. QED
      BY <1>1, <2>1, <2>2, <2>3, <3>1
  <2>4. CASE ~picture.sound
    <3>1. PICK file \in PpmFiles(img) : picture.file = Front(file)
      BY <1>1, <1>5, <2>4 DEF PictureInv
    <3>2. QED
      BY <2>1, <2>2, <2>4, <3>1
  <2>5. QED
    BY <1>3, <2>3, <2>4
<1>6. QED
  BY <1>3, <1>4, <1>5

(* The invariant is all that the property needs: the file reads as the     *)
(* picture, the picture shows every cell in its middle, and ink is darker  *)
(* than its background.                                                    *)
LEMMA InvariantSuffices ==
  PictureInv => FramesSurviveFiles
<1>1. SUFFICES ASSUME PictureInv, picture # None, picture.loaded
               PROVE  FramesSurviveFiles
  BY DEF FramesSurviveFiles
<1>2. picture.read = IF picture.sound THEN picture.image ELSE None
  BY <1>1, ReadIsRight
<1>3. CASE ~picture.sound
  BY <1>2, <1>3 DEF FramesSurviveFiles
<1>4. CASE picture.sound
  <2> DEFINE o == picture.scene.options
             cells == picture.scene.cells
  <2>1. IsScene(cells, o)
    BY <1>1, PictureIsImage
  <2>2. picture.read = picture.image
    BY <1>2, <1>4
  <2>3. PICK img : img = render(cells, o)
    OBVIOUS
  <2>4. picture.read = img
    BY <1>1, <2>2, <2>3 DEF PictureInv
  <2> HIDE DEF o, cells
  <2>5. DOMAIN cells = 1 .. Len(cells)
    BY <2>1 DEF IsScene
  <2>6. ASSUME NEW row \in DOMAIN cells, NEW col \in DOMAIN cells
        PROVE  LET seen == get(picture.read, Middle(o, col), Middle(o, row))
               IN /\ seen = Drawn(cells[row][col], o)
                  /\ cells[row][col] = Black /\ contrast_ok(o) =>
                       luminance(seen) < luminance(o.background)
    <3>1. row \in 1 .. Len(cells) /\ col \in 1 .. Len(cells)
      BY <2>5, <2>6
    <3>2. get(img, Middle(o, col), Middle(o, row)) = Drawn(cells[row][col], o)
      BY <2>1, <2>3, <3>1, CellSeen
    <3>3. contrast_ok(o) => luminance(Drawn(Black, o)) < luminance(o.background)
      BY <2>1, InkIsDarker
    <3>4. QED
      BY <2>4, <3>2, <3>3
  <2>7. QED
    BY <1>4, <2>2, <2>6, Zenon DEF FramesSurviveFiles, Middle, o, cells
<1>5. QED
  <2>1. picture.sound \in BOOLEAN
    BY <1>1 DEF PictureInv
  <2>2. QED
    BY <1>3, <1>4, <2>1

(* A frame that render() of render.rs draws comes back from its file cell  *)
(* for cell, whether encode() of png.rs or write_ppm of ppm.rs wrote it    *)
(* or another program did, for every grid, scale and quiet zone, every     *)
(* filter on every row and any length of a stored block; and what is no    *)
(* file of a frame any more, because it was cut, compressed or changed     *)
(* into a kind that decode() does not support, is refused and never read   *)
(* as another picture.                                                     *)
THEOREM FilesKeepFrames ==
  PictureSpec => []FramesSurviveFiles
<1>1. PictureInit => PictureInv
  BY PictureBegins
<1>2. PictureInv /\ [NextPicture]_picture => PictureInv'
  BY PictureStep
<1>3. PictureInv => FramesSurviveFiles
  BY InvariantSuffices
<1>4. QED
  BY <1>1, <1>2, <1>3, PTL DEF PictureSpec
=============================================================================
