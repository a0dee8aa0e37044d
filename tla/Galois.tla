------------------------------- MODULE Galois -------------------------------
(***************************************************************************)
(* The finite field and the polynomials under the Reed-Solomon code        *)
(* (crates/pz-fec/src/gf.rs and poly.rs), for any field GF(2^FieldBits):   *)
(* the code has 8 bits and the polynomial 0x11D.  A polynomial is the      *)
(* sequence of its coefficients, the most significant first.               *)
(***************************************************************************)
EXTENDS Integers, SequencesExt, Bitwise, Eager

CONSTANTS FieldBits, PRIMITIVE_POLY

ORDER == 2 ^ FieldBits - 1
Field == 0 .. ORDER

GENERATOR == 2

ASSUME FieldAssumption ==
  /\ FieldBits \in Nat \ {0}
  /\ PRIMITIVE_POLY \in ORDER + 1 .. 2 * ORDER + 1

(* The generator's powers, up to twice the order, and their inverse.       *)
Power[i \in Nat] ==
  IF i = 0 THEN 1
  ELSE LET x == 2 * Power[i - 1]
       IN IF x > ORDER THEN x ^^ PRIMITIVE_POLY ELSE x

Exp == Tuple([i \in 1 .. 2 * ORDER |-> Power[(i - 1) % ORDER]])
exp(n) == Exp[n + 1]
log == Tuple([a \in 1 .. ORDER |-> CHOOSE i \in 0 .. ORDER - 1 : exp(i) = a])

(* Addition, which is subtraction too.                                     *)
Sums == Tuple([a \in 1 .. ORDER + 1 |->
                 Tuple([b \in 1 .. ORDER + 1 |-> (a - 1) ^^ (b - 1)])])
add(a, b) == Sums[a + 1][b + 1]

mul(a, b) == IF a = 0 \/ b = 0 THEN 0 ELSE exp(log[a] + log[b])
inv(a) == exp(ORDER - log[a])
div(a, b) == IF a = 0 THEN 0 ELSE exp((log[a] + ORDER - log[b]) % ORDER)
pow(a, n) == IF a = 0 THEN (IF n = 0 THEN 1 ELSE 0) ELSE exp((log[a] * n) % ORDER)

AddAll(s) == FoldLeft(add, 0, s)

----------------------------------------------------------------------------
(* The coefficient of x^e.                                                 *)
Coef(p, e) == IF e < Len(p) THEN p[Len(p) - e] ELSE 0

PolyAdd(p, q) ==
  LET n == Max({Len(p), Len(q)})
  IN Tuple([i \in 1 .. n |-> add(Coef(p, n - i), Coef(q, n - i))])

PolyScale(p, x) == Tuple([i \in DOMAIN p |-> mul(p[i], x)])

PolyMul(p, q) ==
  IF p = <<>> \/ q = <<>> THEN <<>>
  ELSE LET n == Len(p) + Len(q) - 1
       IN Tuple([i \in 1 .. n |->
                   AddAll([e \in 1 .. n - i + 1 |->
                             mul(Coef(p, e - 1), Coef(q, n - i + 1 - e))])])

(* Horner's method.                                                        *)
PolyEval(p, x) == FoldLeft(LAMBDA y, c : add(mul(y, x), c), 0, p)

trim_leading_zeros(p) ==
  SubSeq(p, Min({i \in DOMAIN p : p[i] # 0} \cup {Len(p) + 1}), Len(p))
============================================================================
