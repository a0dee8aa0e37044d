---------------------------- MODULE ReedSolomon ----------------------------
(***************************************************************************)
(* The systematic RS(N, K) code of crates/pz-fec/src/rs.rs: encoding, and  *)
(* decoding of errors and erasures with Forney syndromes, Berlekamp-Massey,*)
(* Chien search and Forney's algorithm.  Positions count from 0, as in the *)
(* code; symbol p of a word w is w[p + 1].                                 *)
(***************************************************************************)
EXTENDS Galois, BoundedDistance

CONSTANTS
  N, K,
  Words         (* [data, error, erasures]: what is sent, what is added on *)
                (* the way, and the positions the caller doubts            *)

(* ReedSolomon::new.                                                       *)
ASSUME CodeAssumption == 0 < K /\ K < N /\ N <= ORDER

Parity == N - K

alpha(i) == pow(GENERATOR, i)

(* The product of the (x - alpha^i), 0 <= i < Parity.                      *)
generator ==
  FoldLeft(LAMBDA g, i : PolyMul(g, <<1, alpha(i - 1)>>), <<1>>,
           [i \in 1 .. Parity |-> i])

(* Synthetic division of data * x^Parity by the generator.                 *)
encode(data) ==
  LET divide(out, i) ==
        Tuple([p \in 1 .. N |->
                 IF p \in i + 1 .. i + Parity
                 THEN add(out[p], mul(generator[p - i + 1], out[i]))
                 ELSE out[p]])
      divided == FoldLeft(divide, data \o [p \in 1 .. Parity |-> 0],
                          [i \in 1 .. K |-> i])
  IN data \o SubSeq(divided, K + 1, N)

(* With a zero in front, for the indexing of correct_errata.               *)
syndromes(code) == <<0>> \o [i \in 1 .. Parity |-> PolyEval(code, alpha(i - 1))]

IsZero(s) == \A i \in DOMAIN s : s[i] = 0

is_clean(code) == IsZero(syndromes(code))

----------------------------------------------------------------------------
(* Mutant: positions are counted from the wrong end.                       *)
Bug_forney_syndromes(synd, erase_pos) ==
  LET fold(f, p) == Tuple([j \in DOMAIN f |->
                             IF j = Len(f) THEN f[j]
                             ELSE add(mul(f[j], alpha(p)), f[j + 1])])
  IN FoldLeft(fold, Tail(synd), erase_pos)

(* Each erased position is folded into the syndromes.                      *)
forney_syndromes(synd, erase_pos) ==
  LET fold(f, p) == Tuple([j \in DOMAIN f |->
                             IF j = Len(f) THEN f[j]
                             ELSE add(mul(f[j], alpha(N - 1 - p)), f[j + 1])])
  IN FoldLeft(fold, Tail(synd), erase_pos)

(* Berlekamp-Massey over the syndromes the erasures leave.  (The locator   *)
(* is never longer than the syndromes read, so the code's checked indices  *)
(* do not fail.)                                                           *)
find_error_locator(synd, erase_count) ==
  LET step(loc, i) ==
        LET old == Append(loc.old, 0)
            delta == AddAll([j \in 1 .. Len(loc.err) |->
                               mul(loc.err[Len(loc.err) + 1 - j], synd[i + 1 - j])])
            longer == PolyScale(old, delta)
            shorter == PolyScale(loc.err, inv(delta))
        IN IF delta = 0 THEN [loc EXCEPT !.old = old]
           ELSE IF Len(old) > Len(loc.err)
                THEN [err |-> PolyAdd(longer, PolyScale(shorter, delta)),
                      old |-> shorter]
                ELSE [err |-> PolyAdd(loc.err, longer), old |-> old]
  IN trim_leading_zeros(FoldLeft(step, [err |-> <<1>>, old |-> <<1>>],
                                 [i \in 1 .. Parity - erase_count |-> i]).err)

(* Chien search: the roots of the reversed locator name positions.         *)
find_errors(err_loc) ==
  {N - 1 - i : i \in {j \in 0 .. N - 1 : PolyEval(Reverse(err_loc), alpha(j)) = 0}}

(* Forney's algorithm at the positions of both kinds.                      *)
correct_errata(code, synd, positions) ==
  LET x(p) == alpha(N - 1 - p)
      err_loc == FoldLeft(LAMBDA l, p : PolyMul(l, <<x(p), 1>>), <<1>>, positions)
      product == PolyMul(Reverse(synd), err_loc)
      err_eval == SubSeq(product, Max({1, Len(product) - Len(err_loc) + 1}),
                         Len(product))
      denom(p) ==
        FoldLeft(LAMBDA d, q : IF q = p THEN d
                               ELSE mul(d, add(1, mul(inv(x(p)), x(q)))),
                 1, positions)
      magnitude(p) ==
        IF p \notin ToSet(positions) THEN 0
        ELSE div(mul(x(p), PolyEval(err_eval, inv(x(p)))), denom(p))
  IN Tuple([p \in 1 .. N |-> add(code[p], magnitude(p - 1))])

----------------------------------------------------------------------------
Ok(code) == [verdict |-> "Ok", code |-> code]
TooManyErrors(code) == [verdict |-> "TooManyErrors", code |-> code]

(* decode_inner(), and what decode() makes of its error: the buffer is     *)
(* restored.  erase_pos holds no position twice.                           *)
decode_inner(code, erase_pos) ==
  LET erased == ToSet(erase_pos)
      blank == Tuple([p \in 1 .. N |-> IF p - 1 \in erased THEN 0 ELSE code[p]])
      synd == syndromes(blank)
      err_loc == find_error_locator(forney_syndromes(synd, erase_pos),
                                    Len(erase_pos))
      errs == Len(err_loc) - 1
      err_pos == find_errors(err_loc)
      all_pos == erase_pos \o SetToSeq(err_pos \ erased)
      fixed == correct_errata(blank, synd, all_pos)
  IN IF IsZero(synd) THEN Ok(blank)
     ELSE IF \/ 2 * errs + Len(erase_pos) > Parity
             \/ Cardinality(err_pos) # errs
             \/ Len(all_pos) > Parity
             \/ ~is_clean(fixed)
          THEN TooManyErrors(code)
          ELSE Ok(fixed)

(* Of a position given several times the first is kept.                    *)
Distinct(erasures) ==
  FoldLeft(LAMBDA s, p : IF p \in ToSet(s) THEN s ELSE Append(s, p), <<>>, erasures)

(* Mutant: errors are looked for as if there were no erasures to pay for.  *)
Bug_decode(code, erasures) ==
  IF Len(code) # N THEN [verdict |-> "WrongLength", code |-> code]
  ELSE IF decode_inner(code, <<>>).verdict = "Ok" THEN decode_inner(code, <<>>)
  ELSE decode_inner(code, Distinct(erasures))

decode(code, erasures) ==
  IF Len(code) # N THEN [verdict |-> "WrongLength", code |-> code]
  ELSE IF \E p \in ToSet(erasures) : p >= N
       THEN [verdict |-> "ErasureOutOfRange", code |-> code]
  ELSE IF Cardinality(ToSet(erasures)) > Parity THEN TooManyErrors(code)
  ELSE decode_inner(code, Distinct(erasures))

----------------------------------------------------------------------------
VARIABLE word   (* [data, received, erasures, verdict, code], or None      *)

(* The word arrives, damaged; a truncated one has an error of fewer        *)
(* symbols.                                                                *)
Receive(w) ==
  LET sent == encode(w.data)
      received == Tuple([p \in DOMAIN w.error |-> add(sent[p], w.error[p])])
  IN word = [data |-> w.data, received |-> received, erasures |-> w.erasures,
             verdict |-> "none", code |-> received]

CodeInit == \E w \in Words : Receive(w)

Decode ==
  /\ word.verdict = "none"
  /\ LET r == decode(word.code, word.erasures)
     IN word' = [word EXCEPT !.verdict = r.verdict, !.code = r.code]

----------------------------------------------------------------------------
Codewords == {encode(d) : d \in [1 .. K -> Field]}

(* Positions outside the erasures where two words differ.                  *)
Errors(a, b, erased) == {p \in 0 .. N - 1 \ erased : a[p + 1] # b[p + 1]}

(* Bounded-distance decoding: if some codeword is within 2e + f <= n - k   *)
(* of what was received, it is the only one, and it is what decode()       *)
(* returns; otherwise decode() reports TooManyErrors and leaves the buffer *)
(* as it was.  It never stops at a half-repaired word.  A call it cannot   *)
(* serve changes nothing either.                                           *)
DecodesWithinRadius ==
  word # None =>
  /\ word.verdict \in {"WrongLength", "ErasureOutOfRange"} =>
       word.code = word.received
  /\ word.verdict \in {"Ok", "TooManyErrors"} =>
    LET erased == ToSet(word.erasures)
        near == {c \in Codewords :
                   2 * Cardinality(Errors(c, word.received, erased))
                     + Cardinality(erased) <= Parity}
    IN /\ (word.verdict = "Ok") <=> near # {}
       /\ near \subseteq {word.code}
       /\ word.verdict # "Ok" => word.code = word.received

(* decode() keeps the contract frame decoding is proved with: what it      *)
(* returns is one of the results Corrected allows.                         *)
ImplementsCorrected ==
  word # None /\ word.verdict \in {"Ok", "TooManyErrors"} =>
    LET sent == encode(word.data)
        erased == ToSet(word.erasures)
        result == IF word.verdict # "Ok" THEN "error"
                  ELSE IF word.code = sent THEN "right" ELSE "wrong"
    IN result \in Corrected(Parity, Cardinality(erased),
                            Cardinality(Errors(word.received, sent, erased)))
============================================================================
