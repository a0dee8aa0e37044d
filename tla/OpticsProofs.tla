---------------------------- MODULE OpticsProofs ----------------------------
(***************************************************************************)
(* Proofs about what is read from the picture of a frame, for every frame, *)
(* every exposure and every set of covered cells, and about the profiles   *)
(* frames are made with, for every grid, mode and parity code.             *)
(***************************************************************************)
EXTENDS Optics, TLAPS, FiniteSetTheorems, SequenceTheorems, WellFoundedInduction

(* An evaluated sequence is the sequence.                                  *)
LEMMA TupleIsTheSequence ==
  ASSUME NEW n \in Nat, NEW f, f = [i \in 1 .. n |-> f[i]]
  PROVE  Tuple(f) = f /\ f \in Seq({f[i] : i \in 1 .. n}) /\ Len(f) = n
<1>1. f \in [1 .. n -> {f[i] : i \in 1 .. n}]
  OBVIOUS
<1>2. f \in Seq({f[i] : i \in 1 .. n}) /\ Len(f) = n
  BY <1>1
<1>3. QED
  BY <1>2 DEF Tuple

LEMMA SequencesHold ==
  ASSUME NEW S, NEW q \in Seq(S)
  PROVE  Len(q) \in Nat /\ DOMAIN q = 1 .. Len(q) /\ \A i \in 1 .. Len(q) : q[i] \in S
OBVIOUS

(* Among confidences there is a least one.                                 *)
LEMMA LeastIsLeast ==
  ASSUME NEW top \in Nat, NEW S \in SUBSET (0 .. top), S # {}
  PROVE  Least(S) \in S /\ \A s \in S : Least(S) <= s
<1> DEFINE W == 0 .. top
           F == {0 .. n : n \in S}
           R == StrictSubsetOrdering(W)
<1>1. F \subseteq FiniteSubsetsOf(W) /\ F # {}
  <2>1. ASSUME NEW n \in S PROVE 0 .. n \in SUBSET W /\ IsFiniteSet(0 .. n)
    BY FS_Interval
  <2>2. QED
    BY <2>1 DEF FiniteSubsetsOf
<1>2. IsWellFoundedOn(R, FiniteSubsetsOf(W))
  BY FS_StrictSubsetOrderingWellFounded
<1>3. \E x \in F : \A y \in F : ~(<<y, x>> \in R)
  <2> HIDE DEF F, R
  <2>1. QED
    BY <1>1, <1>2, WFMin
<1>4. PICK n \in S : \A m \in S : <<0 .. m, 0 .. n>> \notin R
  BY <1>3
<1>5. ASSUME NEW m \in S, m < n PROVE FALSE
  <2>1. 0 .. m \subseteq 0 .. n /\ n \in 0 .. n /\ n \notin 0 .. m
    BY <1>5
  <2>2. <<0 .. m, 0 .. n>> \in R
    BY <2>1 DEF StrictSubsetOrdering
  <2>3. QED
    BY <1>4, <2>2
<1>6. \E m \in S : \A s \in S : m <= s
  BY <1>5
<1>7. QED
  BY <1>6 DEF Least

(* A quotient is bounded as its dividend is.                               *)
LEMMA Quotients ==
  ASSUME NEW a \in Nat, NEW d \in Nat \ {0}, NEW b \in Nat
  PROVE  /\ a \div d \in Nat
         /\ a < b * d => a \div d < b
         /\ a >= b * d => a \div d >= b
<1> DEFINE q == a \div d
           r == a % d
<1>1. q \in Int /\ r \in 0 .. d - 1 /\ a = (d * q) + r
  BY SMT
<1> HIDE DEF q, r
<1>2. ASSUME q < 0 PROVE FALSE
  <2>1. d * (q + 1) <= 0
    BY <1>1, <1>2, SMT
  <2>2. d * (q + 1) = (d * q) + d
    BY <1>1, SMT
  <2>3. QED
    BY <1>1, <2>1, <2>2
<1>3. ASSUME a < b * d, q >= b PROVE FALSE
  <2>1. d * q >= d * b
    BY <1>1, <1>3, SMT
  <2>2. QED
    BY <1>1, <1>3, <2>1
<1>4. ASSUME a >= b * d, q < b PROVE FALSE
  <2>1. d * (q + 1) <= d * b
    BY <1>1, <1>4, SMT
  <2>2. d * (q + 1) = (d * q) + d
    BY <1>1, SMT
  <2>3. QED
    BY <1>1, <1>4, <2>1, <2>2
<1>5. QED
  BY <1>1, <1>2, <1>3, <1>4 DEF q

----------------------------------------------------------------------------
(* What a camera makes of a colour.                                        *)
Exposure == [gain : [Channels -> Nat], bias : [Channels -> Int]]
Colour == [Channels -> 0 .. 255]

LEMMA ExposedIs ==
  ASSUME NEW e, e.gain \in [Channels -> Nat], e.bias \in [Channels -> Int], NEW rgb \in Colour
  PROVE  /\ Exposed(e, rgb) \in Colour
         /\ \A ch \in Channels :
              Exposed(e, rgb)[ch]
                = Clamp(((rgb[ch] * e.gain[ch]) \div 8) + e.bias[ch], 0, 255)
<1> DEFINE f == [ch \in 1 .. 3 |-> Clamp(((rgb[ch] * e.gain[ch]) \div 8) + e.bias[ch], 0, 255)]
<1>1. ASSUME NEW ch \in 1 .. 3
      PROVE  f[ch] = Clamp(((rgb[ch] * e.gain[ch]) \div 8) + e.bias[ch], 0, 255) /\ f[ch] \in 0 .. 255
  <2>1. rgb[ch] \in 0 .. 255 /\ e.gain[ch] \in Nat /\ e.bias[ch] \in Int
    BY DEF Colour, Channels
  <2>2. \A x \in Int : Clamp(x, 0, 255) \in 0 .. 255
    BY DEF Clamp
  <2>3. rgb[ch] * e.gain[ch] \in Int
    BY <2>1, SMT
  <2>4. ((rgb[ch] * e.gain[ch]) \div 8) + e.bias[ch] \in Int
    BY <2>1, <2>3
  <2>5. QED
    BY <2>2, <2>4
<1>2. f = [ch \in 1 .. 3 |-> f[ch]]
  OBVIOUS
<1>3. Exposed(e, rgb) = Tuple(f)
  BY DEF Exposed, Channels
<1>4. f \in [1 .. 3 -> 0 .. 255]
  <2> HIDE DEF f
  <2>1. QED
    BY <1>1, <1>2
<1>5. Tuple(f) = f
  <2> HIDE DEF f
  <2>1. QED
    BY <1>2, TupleIsTheSequence
<1>6. QED
  <2>1. Exposed(e, rgb) = f
    BY <1>3, <1>5
  <2>2. \A ch \in Channels :
          f[ch] = Clamp(((rgb[ch] * e.gain[ch]) \div 8) + e.bias[ch], 0, 255)
    BY <1>1 DEF Channels
  <2> HIDE DEF f
  <2>3. QED
    BY <1>4, <2>1, <2>2 DEF Colour, Channels

(* On a channel every colour shows between black and white, and one that   *)
(* is dark or bright there as they do.                                     *)
LEMMA ShowsBetween ==
  ASSUME NEW e, e.gain \in [Channels -> Nat], e.bias \in [Channels -> Int],
         NEW rgb \in Colour, NEW ch \in Channels
  PROVE  /\ Dark(e)[ch] \in 0 .. 255 /\ Bright(e)[ch] \in 0 .. 255
         /\ Exposed(e, rgb)[ch] \in Dark(e)[ch] .. Bright(e)[ch]
         /\ rgb[ch] = 0 => Exposed(e, rgb)[ch] = Dark(e)[ch]
         /\ rgb[ch] = 255 => Exposed(e, rgb)[ch] = Bright(e)[ch]
<1> DEFINE g == e.gain[ch]
           b == e.bias[ch]
           lit(v) == Clamp(((v * g) \div 8) + b, 0, 255)
           r == rgb[ch]
<1>1. g \in Nat /\ b \in Int /\ r \in 0 .. 255
  BY DEF Colour
<1>2. <<0, 0, 0>> \in Colour /\ <<255, 255, 255>> \in Colour
  BY DEF Colour, Channels
<1>3. <<0, 0, 0>>[ch] = 0 /\ <<255, 255, 255>>[ch] = 255
  BY DEF Channels
<1>4. Dark(e)[ch] = lit(0) /\ Bright(e)[ch] = lit(255) /\ Exposed(e, rgb)[ch] = lit(r)
  <2>1. \A c \in Colour : Exposed(e, c)[ch] = lit(c[ch])
    BY ExposedIs
  <2>2. QED
    BY <1>2, <1>3, <2>1 DEF Dark, Bright
<1>5. Exposed(e, rgb)[ch] \in 0 .. 255 /\ Dark(e)[ch] \in 0 .. 255 /\ Bright(e)[ch] \in 0 .. 255
  BY <1>2, ExposedIs DEF Dark, Bright, Colour
<1> HIDE DEF g, b, r
<1>6. 0 <= r * g /\ r * g <= 255 * g /\ r * g \in Nat
  BY <1>1, SMT
<1>7. lit(0) <= lit(r) /\ lit(r) <= lit(255)
  BY <1>1, <1>6, SMT DEF Clamp
<1>8. QED
  BY <1>4, <1>5, <1>7 DEF r

----------------------------------------------------------------------------
(* A bit is 1 above the boundary; it is certain at the ends of the range   *)
(* and beyond, doubted near the boundary and on a collapsed channel.       *)
Confidence(off, span, room) ==
  IF span <= room THEN 0 ELSE Clamp((Abs(off) * 1000) \div span, 0, 1000)

LEMMA ConfidenceIs ==
  ASSUME NEW off \in Int, NEW span \in Int, NEW room \in Nat
  PROVE  LET c == Confidence(off, span, room)
         IN  /\ c \in 0 .. 1000
             /\ span <= room => c = 0
             /\ span > room /\ Abs(off) >= span => c = 1000
             /\ span > room /\ Abs(off) * 1000 < 280 * span => c < 280
<1> DEFINE a == Abs(off) * 1000
           raw == a \div span
<1>1. a \in Nat /\ Abs(off) \in Nat
  BY DEF Abs
<1>2. ASSUME span > room
      PROVE  /\ raw \in Nat
             /\ a < 280 * span => raw < 280
             /\ a >= 1000 * span => raw >= 1000
  <2>1. span \in Nat \ {0}
    BY <1>2
  <2> HIDE DEF a
  <2>2. QED
    BY <1>1, <2>1, Quotients
<1> HIDE DEF raw
<1>3. Confidence(off, span, room) = IF span <= room THEN 0 ELSE Clamp(raw, 0, 1000)
  BY DEF Confidence, raw
<1>4. QED
  BY <1>1, <1>2, <1>3 DEF Clamp

ChannelReading(lo, hi, value) == Decide(lo, hi, 16, value, 1)
LumaReading(lo, hi, value) == Decide(lo, hi, 4, value, 1000)

LEMMA ChannelDecided ==
  ASSUME NEW lo \in Int, NEW hi \in Int, NEW value \in Int,
         NEW off \in Int, off = (32 * value) - (lo + hi)
  PROVE  LET d == ChannelReading(lo, hi, value)
         IN  /\ d.bit \in 0 .. 1 /\ d.confidence \in 0 .. 1000
             /\ off > 0 => d.bit = 1
             /\ off <= 0 => d.bit = 0
             /\ hi - lo <= 32 => d.confidence = 0
             /\ hi - lo > 32 /\ Abs(off) >= hi - lo => d.confidence = 1000
             /\ hi - lo > 32 /\ Abs(off) * 1000 < 280 * (hi - lo) => d.confidence < 280
<1> DEFINE d == ChannelReading(lo, hi, value)
           x == (2 * 16 * value) - (lo + hi)
<1>1. x = off /\ 2 * 16 * 1 = 32
  OBVIOUS
<1>2. /\ d.bit = IF x > 0 THEN 1 ELSE 0
      /\ d.confidence = Confidence(x, hi - lo, 2 * 16 * 1)
  BY Zenon DEF ChannelReading, Decide, Confidence
<1> HIDE DEF x, d
<1>3. /\ d.bit = IF off > 0 THEN 1 ELSE 0
      /\ d.confidence = Confidence(off, hi - lo, 32)
  BY <1>1, <1>2
<1>4. /\ d.bit \in 0 .. 1 /\ d.confidence \in 0 .. 1000
      /\ off > 0 => d.bit = 1
      /\ off <= 0 => d.bit = 0
      /\ hi - lo <= 32 => d.confidence = 0
      /\ hi - lo > 32 /\ Abs(off) >= hi - lo => d.confidence = 1000
      /\ hi - lo > 32 /\ Abs(off) * 1000 < 280 * (hi - lo) => d.confidence < 280
  <2>1. PICK span \in Int : span = hi - lo
    OBVIOUS
  <2>2. PICK room \in Nat : room = 32
    OBVIOUS
  <2>3. /\ Confidence(off, span, room) \in 0 .. 1000
        /\ span <= room => Confidence(off, span, room) = 0
        /\ span > room /\ Abs(off) >= span => Confidence(off, span, room) = 1000
        /\ span > room /\ Abs(off) * 1000 < 280 * span => Confidence(off, span, room) < 280
    BY ConfidenceIs
  <2>4. d.confidence = Confidence(off, span, room)
    BY <1>3, <2>1, <2>2
  <2>5. QED
    BY <1>3, <2>1, <2>2, <2>3, <2>4
<1>5. QED
  BY <1>4 DEF d

(* The span of black and white within which a luma says nothing.          *)
LumaRoom == 8000

(* A reading, so far from the middle of such a span.                       *)
LumaSays(d, off, span) ==
  /\ d.bit \in 0 .. 1 /\ d.confidence \in 0 .. 1000
  /\ off > 0 => d.bit = 1
  /\ off <= 0 => d.bit = 0
  /\ span <= LumaRoom => d.confidence = 0
  /\ span > LumaRoom /\ Abs(off) >= span => d.confidence = 1000
  /\ span > LumaRoom /\ Abs(off) * 1000 < 280 * span => d.confidence < 280

LEMMA LumaDecided ==
  ASSUME NEW lo \in Int, NEW hi \in Int, NEW value \in Int,
         NEW off \in Int, off = (8 * value) - (lo + hi)
  PROVE  LumaSays(LumaReading(lo, hi, value), off, hi - lo)
<1> DEFINE d == LumaReading(lo, hi, value)
           x == (2 * 4 * value) - (lo + hi)
<1>1. x = off /\ 2 * 4 * 1000 = LumaRoom
  BY DEF LumaRoom
<1>2. /\ d.bit = IF x > 0 THEN 1 ELSE 0
      /\ d.confidence = Confidence(x, hi - lo, 2 * 4 * 1000)
  BY Zenon DEF LumaReading, Decide, Confidence
<1> HIDE DEF x, d
<1>3. /\ d.bit = IF off > 0 THEN 1 ELSE 0
      /\ d.confidence = Confidence(off, hi - lo, LumaRoom)
  BY <1>1, <1>2
<1>4. /\ d.bit \in 0 .. 1 /\ d.confidence \in 0 .. 1000
      /\ off > 0 => d.bit = 1
      /\ off <= 0 => d.bit = 0
      /\ hi - lo <= LumaRoom => d.confidence = 0
      /\ hi - lo > LumaRoom /\ Abs(off) >= hi - lo => d.confidence = 1000
      /\ hi - lo > LumaRoom /\ Abs(off) * 1000 < 280 * (hi - lo) => d.confidence < 280
  <2>1. PICK span \in Int : span = hi - lo
    OBVIOUS
  <2>2. PICK room \in Nat : room = LumaRoom
    BY DEF LumaRoom
  <2>3. /\ Confidence(off, span, room) \in 0 .. 1000
        /\ span <= room => Confidence(off, span, room) = 0
        /\ span > room /\ Abs(off) >= span => Confidence(off, span, room) = 1000
        /\ span > room /\ Abs(off) * 1000 < 280 * span => Confidence(off, span, room) < 280
    BY ConfidenceIs
  <2>4. d.confidence = Confidence(off, span, room)
    BY <1>3, <2>1, <2>2
  <2>5. QED
    BY <1>3, <2>1, <2>2, <2>3, <2>4
<1>5. QED
  BY <1>4 DEF d, LumaSays

(* Outside the scale, or at its ends, a reading is certain.                *)
LEMMA LumaAtTheEnds ==
  ASSUME NEW lo \in Int, NEW hi \in Int, NEW value \in Int, hi - lo > LumaRoom
  PROVE  /\ (8 * value) - (lo + hi) >= hi - lo =>
              LumaReading(lo, hi, value).bit = 1 /\ LumaReading(lo, hi, value).confidence = 1000
         /\ (lo + hi) - (8 * value) >= hi - lo =>
              LumaReading(lo, hi, value).bit = 0 /\ LumaReading(lo, hi, value).confidence = 1000
<1> DEFINE d == LumaReading(lo, hi, value)
           off == (8 * value) - (lo + hi)
<1>1. off \in Int
  OBVIOUS
<1>2. off = (8 * value) - (lo + hi)
  OBVIOUS
<1> HIDE DEF off
<1>3. /\ off > 0 => d.bit = 1
      /\ off <= 0 => d.bit = 0
      /\ hi - lo > LumaRoom /\ Abs(off) >= hi - lo => d.confidence = 1000
      /\ hi - lo > 0
  <2>1. LumaSays(d, off, hi - lo)
    BY <1>1, <1>2, LumaDecided, Zenon
  <2>2. hi - lo > 0
    BY DEF LumaRoom
  <2> HIDE DEF d
  <2>3. QED
    BY <2>1, <2>2 DEF LumaSays
<1> HIDE DEF d
<1>4. CASE (8 * value) - (lo + hi) >= hi - lo
  <2>1. off > 0 /\ Abs(off) >= hi - lo
    BY <1>1, <1>2, <1>3, <1>4 DEF Abs
  <2>2. d.bit = 1 /\ d.confidence = 1000
    BY <1>3, <2>1
  <2>3. ~((lo + hi) - (8 * value) >= hi - lo)
    BY <1>3, <1>4
  <2>4. QED
    BY <2>2, <2>3 DEF d
<1>5. CASE (lo + hi) - (8 * value) >= hi - lo
  <2>1. off <= 0 /\ Abs(off) >= hi - lo
    BY <1>1, <1>2, <1>3, <1>5 DEF Abs
  <2>2. d.bit = 0 /\ d.confidence = 1000
    BY <1>3, <2>1
  <2>3. ~((8 * value) - (lo + hi) >= hi - lo)
    BY <1>3, <1>5
  <2>4. QED
    BY <2>2, <2>3 DEF d
<1>6. QED
  BY <1>4, <1>5

LumaIsSome(d, span) ==
  /\ d.bit \in 0 .. 1 /\ d.confidence \in 0 .. 1000
  /\ span <= LumaRoom => d.confidence = 0

LEMMA LumaReadingIs ==
  ASSUME NEW lo \in Int, NEW hi \in Int, NEW value \in Int
  PROVE  LumaIsSome(LumaReading(lo, hi, value), hi - lo)
<1> DEFINE off == (8 * value) - (lo + hi)
<1>1. off \in Int
  OBVIOUS
<1>2. off = (8 * value) - (lo + hi)
  OBVIOUS
<1> HIDE DEF off
<1>3. LumaSays(LumaReading(lo, hi, value), off, hi - lo)
  BY <1>1, <1>2, LumaDecided, Zenon
<1>4. QED
  BY <1>3 DEF LumaSays, LumaIsSome

LEMMA ChannelReadings ==
  ASSUME NEW lo \in Int, NEW hi \in Int, NEW value \in Int
  PROVE  /\ ChannelReading(lo, hi, value).bit \in 0 .. 1
         /\ ChannelReading(lo, hi, value).confidence \in 0 .. 1000
<1>1. (32 * value) - (lo + hi) \in Int
  OBVIOUS
<1>2. PICK off \in Int : off = (32 * value) - (lo + hi)
  BY <1>1, Zenon
<1>3. Abs(off) \in Int
  BY DEF Abs
<1>4. QED
  BY <1>2, <1>3, ChannelDecided

LEMMA CollapsedChannel ==
  ASSUME NEW lo \in Int, NEW hi \in Int, NEW value \in Int, hi - lo <= 32
  PROVE  ChannelReading(lo, hi, value).confidence = 0
<1>1. (32 * value) - (lo + hi) \in Int
  OBVIOUS
<1>2. PICK off \in Int : off = (32 * value) - (lo + hi)
  BY <1>1, Zenon
<1>3. Abs(off) \in Int
  BY DEF Abs
<1>4. QED
  BY <1>2, <1>3, ChannelDecided

(* What one channel is measured by: four patches on each side, one of them *)
(* perhaps covered and showing the level `shade`.                          *)
Scale(lo, hi, dark, bright, shade) ==
  \/ lo = (12 * dark) + (4 * shade) /\ hi = 16 * bright
  \/ lo = 16 * dark /\ hi = (12 * bright) + (4 * shade)

(* In a clear exposure a channel that shows dark or bright is read so.     *)
LEMMA ChannelIsRead ==
  ASSUME NEW dark \in Int, NEW bright \in Int, NEW shade \in Int,
         NEW lo \in Int, NEW hi \in Int,
         bright - dark >= 20, shade \in dark .. bright, Scale(lo, hi, dark, bright, shade)
  PROVE  /\ ChannelReading(lo, hi, dark).bit = 0 /\ ChannelReading(lo, hi, dark).confidence = 1000
         /\ ChannelReading(lo, hi, bright).bit = 1
         /\ ChannelReading(lo, hi, bright).confidence = 1000
<1>1. hi - lo > 32
  BY DEF Scale
<1>2. LET off == (32 * dark) - (lo + hi)
      IN off \in Int /\ off <= 0 /\ Abs(off) >= hi - lo
  BY DEF Scale, Abs
<1>3. LET off == (32 * bright) - (lo + hi)
      IN off \in Int /\ off > 0 /\ Abs(off) >= hi - lo
  BY DEF Scale, Abs
<1>4. ChannelReading(lo, hi, dark).bit = 0 /\ ChannelReading(lo, hi, dark).confidence = 1000
  BY <1>1, <1>2, ChannelDecided
<1>5. ChannelReading(lo, hi, bright).bit = 1 /\ ChannelReading(lo, hi, bright).confidence = 1000
  BY <1>1, <1>3, ChannelDecided
<1>6. QED
  BY <1>4, <1>5

(* One that shows a middling level is doubted, if a covered patch shows    *)
(* that level too or none is covered.                                      *)
LEMMA MiddlingChannel ==
  ASSUME NEW dark \in Int, NEW bright \in Int, NEW shade \in Int, NEW x \in Int,
         NEW lo \in Int, NEW hi \in Int,
         bright - dark >= 20, shade \in dark .. bright, Scale(lo, hi, dark, bright, shade),
         x \in dark .. bright, 8 * Abs((2 * x) - (dark + bright)) <= bright - dark,
         shade = x \/ (lo = 16 * dark /\ hi = 16 * bright)
  PROVE  ChannelReading(lo, hi, x).confidence < 280
<1> DEFINE m == (2 * x) - (dark + bright)
           g == bright - dark
           off == (32 * x) - (lo + hi)
<1>1. hi - lo > 32
  BY DEF Scale
<1>2. m \in Int /\ g \in Int /\ 8 * m <= g /\ 8 * m >= -g /\ g >= 20
  BY DEF Abs
<1>3. Abs(off) * 1000 < 280 * (hi - lo)
  <2>1. CASE lo = 16 * dark /\ hi = 16 * bright
    BY <1>2, <2>1 DEF Abs
  <2>2. CASE shade = x
    BY <1>2, <2>2 DEF Scale, Abs
  <2>3. QED
    BY <2>1, <2>2
<1>4. QED
  BY <1>1, <1>3, ChannelDecided

----------------------------------------------------------------------------
(* What a camera sees of a cell that displays colour `code`.               *)
Seen(s, covered, code) ==
  Exposed(s.exposure, IF covered THEN Covered(s.smudge.paint, color_of(code))
                      ELSE color_of(code))

LEMMA ColoursAre ==
  ASSUME NEW code \in 0 .. 7
  PROVE  /\ color_of(code) \in Colour
         /\ \A ch \in Channels : color_of(code)[ch] = IF Has(code, ch) THEN 255 ELSE 0
BY DEF color_of, Colour, Channels

LEMMA CoversAre ==
  ASSUME NEW s \in Shots, NEW code \in 0 .. 7
  PROVE  LET c == Covered(s.smudge.paint, color_of(code))
         IN  /\ c \in Colour
             /\ s.smudge.paint.kind = "solid" => c = s.smudge.paint.rgb
             /\ s.smudge.paint.kind # "solid" =>
                  /\ s.smudge.paint.kind = "filter" /\ s.smudge.paint.channel \in Channels
                  /\ \A ch \in Channels :
                       c[ch] = IF Has(code, ch) # (ch = s.smudge.paint.channel)
                               THEN 255 ELSE 0
<1> DEFINE rgb == color_of(code)
           paint == s.smudge.paint
<1>1. rgb \in Colour /\ \A ch \in Channels : rgb[ch] = IF Has(code, ch) THEN 255 ELSE 0
  BY ColoursAre
<1>2. IF paint.kind = "solid" THEN paint.rgb \in [Channels -> 0 .. 255]
      ELSE paint.kind = "filter" /\ paint.channel \in Channels
  BY ShotAssumption
<1>3. \A ch \in Channels : Has(code, ch) \in BOOLEAN
  BY DEF Has
<1> HIDE DEF rgb, paint
<1>4. Covered(paint, rgb) = IF paint.kind = "solid" THEN paint.rgb
                            ELSE [rgb EXCEPT ![paint.channel] = 255 - @]
  BY DEF Covered
<1>5. CASE paint.kind = "solid"
  BY <1>2, <1>4, <1>5 DEF Colour, paint, rgb
<1>6. CASE paint.kind # "solid"
  <2>1. paint.kind = "filter" /\ paint.channel \in Channels
    BY <1>2, <1>6
  <2>2. Covered(paint, rgb) = [rgb EXCEPT ![paint.channel] = 255 - rgb[paint.channel]]
    BY <1>4, <1>6
  <2>3. Covered(paint, rgb) \in Colour
    BY <1>1, <2>1, <2>2 DEF Colour
  <2>4. ASSUME NEW ch \in Channels
        PROVE  Covered(paint, rgb)[ch]
                 = IF Has(code, ch) # (ch = paint.channel) THEN 255 ELSE 0
    <3>1. rgb[ch] = IF Has(code, ch) THEN 255 ELSE 0
      BY <1>1
    <3>2. CASE ch = paint.channel
      <4>1. Covered(paint, rgb)[ch] = 255 - rgb[ch]
        BY <1>1, <2>1, <2>2, <3>2 DEF Colour
      <4>2. QED
        BY <1>3, <3>1, <3>2, <4>1
    <3>3. CASE ch # paint.channel
      <4>1. Covered(paint, rgb)[ch] = rgb[ch]
        BY <1>1, <2>1, <2>2, <3>3 DEF Colour
      <4>2. QED
        BY <1>3, <3>1, <3>3, <4>1
    <3>4. QED
      BY <3>2, <3>3
  <2>5. QED
    BY <1>6, <2>1, <2>3, <2>4 DEF paint, rgb
<1>7. QED
  BY <1>5, <1>6

(* What is seen of a cell lies between dark and bright; of a free cell it  *)
(* is dark or bright, as its colour says, and so through a filter.         *)
LEMMA LightIs ==
  ASSUME NEW s \in Shots, NEW ch \in Channels, NEW c \in Colour
  PROVE  /\ Dark(s.exposure)[ch] \in 0 .. 255 /\ Bright(s.exposure)[ch] \in 0 .. 255
         /\ Exposed(s.exposure, c) \in Colour
         /\ Exposed(s.exposure, c)[ch] \in Dark(s.exposure)[ch] .. Bright(s.exposure)[ch]
         /\ c[ch] = 0 => Exposed(s.exposure, c)[ch] = Dark(s.exposure)[ch]
         /\ c[ch] = 255 => Exposed(s.exposure, c)[ch] = Bright(s.exposure)[ch]
<1> DEFINE e == s.exposure
<1>1. e.gain \in [Channels -> Nat] /\ e.bias \in [Channels -> Int]
  BY ShotAssumption
<1> HIDE DEF e
<1>2. QED
  BY <1>1, ExposedIs, ShowsBetween DEF e

LEMMA LevelsOfLight ==
  ASSUME NEW s \in Shots, NEW ch \in Channels
  PROVE  /\ Dark(s.exposure)[ch] \in 0 .. 255 /\ Bright(s.exposure)[ch] \in 0 .. 255
         /\ Dark(s.exposure)[ch] \in Int /\ Bright(s.exposure)[ch] \in Int
<1>1. <<0, 0, 0>> \in Colour
  BY DEF Colour, Channels
<1>2. Dark(s.exposure)[ch] \in 0 .. 255 /\ Bright(s.exposure)[ch] \in 0 .. 255
  BY <1>1, LightIs, ZenonT(60)
<1>3. QED
  BY <1>2

LEMMA FreeCellShows ==
  ASSUME NEW s \in Shots, NEW code \in 0 .. 7, NEW ch \in Channels
  PROVE  Seen(s, FALSE, code)[ch]
           = IF Has(code, ch) THEN Bright(s.exposure)[ch] ELSE Dark(s.exposure)[ch]
<1>1. Seen(s, FALSE, code) = Exposed(s.exposure, color_of(code))
  BY DEF Seen
<1>2. color_of(code) \in Colour /\ color_of(code)[ch] = IF Has(code, ch) THEN 255 ELSE 0
  BY ColoursAre
<1>3. PICK c \in Colour : c = color_of(code)
  BY <1>2
<1>4. /\ c[ch] = 0 => Exposed(s.exposure, c)[ch] = Dark(s.exposure)[ch]
      /\ c[ch] = 255 => Exposed(s.exposure, c)[ch] = Bright(s.exposure)[ch]
  BY LightIs
<1>5. QED
  BY <1>1, <1>2, <1>3, <1>4

LEMMA CoveredCellShows ==
  ASSUME NEW s \in Shots, NEW code \in 0 .. 7, NEW ch \in Channels
  PROVE  /\ s.smudge.paint.kind = "solid" =>
              Seen(s, TRUE, code)[ch] = Exposed(s.exposure, s.smudge.paint.rgb)[ch]
         /\ s.smudge.paint.kind # "solid" =>
              Seen(s, TRUE, code)[ch]
                = IF Has(code, ch) # (ch = s.smudge.paint.channel)
                  THEN Bright(s.exposure)[ch] ELSE Dark(s.exposure)[ch]
<1> DEFINE c == Covered(s.smudge.paint, color_of(code))
<1>1. Seen(s, TRUE, code) = Exposed(s.exposure, c)
  BY DEF Seen
<1>2. /\ c \in Colour
      /\ s.smudge.paint.kind = "solid" => c = s.smudge.paint.rgb
      /\ s.smudge.paint.kind # "solid" =>
           c[ch] = IF Has(code, ch) # (ch = s.smudge.paint.channel) THEN 255 ELSE 0
  BY CoversAre
<1> HIDE DEF c
<1>3. /\ c[ch] = 0 => Exposed(s.exposure, c)[ch] = Dark(s.exposure)[ch]
      /\ c[ch] = 255 => Exposed(s.exposure, c)[ch] = Bright(s.exposure)[ch]
  BY <1>2, LightIs
<1>4. QED
  BY <1>1, <1>2, <1>3

LEMMA SeenIsWithin ==
  ASSUME NEW s \in Shots, NEW code \in 0 .. 7, NEW ch \in Channels, NEW covered \in BOOLEAN
  PROVE  /\ Seen(s, covered, code) \in Colour
         /\ Seen(s, covered, code)[ch] \in Dark(s.exposure)[ch] .. Bright(s.exposure)[ch]
<1>1. PICK c \in Colour : Seen(s, covered, code) = Exposed(s.exposure, c)
  BY ColoursAre, CoversAre DEF Seen
<1>2. QED
  BY <1>1, LightIs

----------------------------------------------------------------------------
(* The cells of a frame: its patches, its header and its data.             *)
SentHeader(s) == unpack_bits(s.header, 1, HEADER_CELLS)
SentData(s) ==
  unpack_bits(s.symbols, bits_per_cell(s.mode), Len(layout(s.grid).data_cells))

LEMMA LayoutIs ==
  ASSUME NEW s \in Shots
  PROVE  LET l == layout(s.grid)
             N == Len(l.fixed)
         IN  /\ N \in Nat /\ DOMAIN l.fixed = 1 .. N
             /\ Len(l.data_cells) \in Nat
             /\ DOMAIN l.header_cells = 1 .. HEADER_CELLS
             /\ DOMAIN l.data_cells = 1 .. Len(l.data_cells)
             /\ \A i \in 1 .. HEADER_CELLS :
                  /\ l.header_cells[i] \in 0 .. N - 1
                  /\ l.fixed[l.header_cells[i] + 1] = None
                  /\ l.place[l.header_cells[i] + 1] = i - 1
             /\ \A i \in 1 .. Len(l.data_cells) :
                  /\ l.data_cells[i] \in 0 .. N - 1
                  /\ l.fixed[l.data_cells[i] + 1] = None
                  /\ l.place[l.data_cells[i] + 1] = HEADER_CELLS + i - 1
             /\ \A v \in 0 .. 7 :
                  /\ DOMAIN l.palette_cells[v + 1] = 1 .. 4 /\ None # v
                  /\ \A k \in 1 .. 4 :
                       /\ l.palette_cells[v + 1][k] \in 0 .. N - 1
                       /\ l.fixed[l.palette_cells[v + 1][k] + 1] = v
<1> DEFINE l == layout(s.grid)
           Cells == 0 .. Len(l.fixed) - 1
<1>1. s.grid \in 0 .. 4
  BY ShotAssumption
<1>2. /\ DOMAIN l.fixed = 1 .. Len(l.fixed) /\ Len(l.fixed) \in Nat
      /\ l.header_cells \in Seq(Cells) /\ Len(l.header_cells) = HEADER_CELLS
      /\ \A i \in 1 .. HEADER_CELLS :
           /\ l.fixed[l.header_cells[i] + 1] = None
           /\ l.place[l.header_cells[i] + 1] = i - 1
      /\ l.data_cells \in Seq(Cells)
      /\ \A i \in 1 .. Len(l.data_cells) :
           /\ l.fixed[l.data_cells[i] + 1] = None
           /\ l.place[l.data_cells[i] + 1] = HEADER_CELLS + i - 1
      /\ \A v \in 0 .. 7 :
           /\ l.palette_cells[v + 1] \in Seq(Cells) /\ Len(l.palette_cells[v + 1]) = 4
           /\ \A k \in 1 .. 4 : l.fixed[l.palette_cells[v + 1][k] + 1] = v
           /\ None # v
  BY <1>1, LayoutAssumption, Zenon
<1> HIDE DEF l, Cells
<1>3. /\ DOMAIN l.header_cells = 1 .. HEADER_CELLS
      /\ \A i \in 1 .. HEADER_CELLS : l.header_cells[i] \in Cells
  <2>1. /\ DOMAIN l.header_cells = 1 .. Len(l.header_cells)
        /\ \A i \in 1 .. Len(l.header_cells) : l.header_cells[i] \in Cells
    BY <1>2, SequencesHold, Zenon
  <2>2. QED
    BY <1>2, <2>1, Zenon
<1>4. /\ Len(l.data_cells) \in Nat /\ DOMAIN l.data_cells = 1 .. Len(l.data_cells)
      /\ \A i \in 1 .. Len(l.data_cells) : l.data_cells[i] \in Cells
  BY <1>2, SequencesHold, Zenon
<1>5. ASSUME NEW v \in 0 .. 7
      PROVE  /\ DOMAIN l.palette_cells[v + 1] = 1 .. 4
             /\ \A k \in 1 .. 4 : l.palette_cells[v + 1][k] \in Cells
  <2>1. /\ DOMAIN l.palette_cells[v + 1] = 1 .. Len(l.palette_cells[v + 1])
        /\ \A k \in 1 .. Len(l.palette_cells[v + 1]) : l.palette_cells[v + 1][k] \in Cells
    BY <1>2, SequencesHold, Zenon
  <2>2. Len(l.palette_cells[v + 1]) = 4
    BY <1>2, Zenon
  <2>3. QED
    BY <2>1, <2>2, Zenon
<1>6. QED
  BY <1>2, <1>3, <1>4, <1>5, Zenon DEF l, Cells

LEMMA FrameIs ==
  ASSUME NEW s \in Shots
  PROVE  LET l == layout(s.grid)
             N == Len(l.fixed)
         IN  /\ DOMAIN frame(s) = 1 .. N
             /\ \A v \in 0 .. 7 : \A k \in 1 .. 4 :
                  frame(s)[l.palette_cells[v + 1][k] + 1] = v
             /\ \A i \in 1 .. HEADER_CELLS :
                  frame(s)[l.header_cells[i] + 1] = modulate("Mono", SentHeader(s)[i])
             /\ \A i \in 1 .. Len(l.data_cells) :
                  frame(s)[l.data_cells[i] + 1] = modulate(s.mode, SentData(s)[i])
<1> DEFINE l == layout(s.grid)
           N == Len(l.fixed)
           Drawn(i) == CASE l.fixed[i] # None -> l.fixed[i]
                         [] l.fixed[i] = None /\ l.place[i] < HEADER_CELLS ->
                              modulate("Mono", SentHeader(s)[l.place[i] + 1])
                         [] OTHER -> modulate(s.mode, SentData(s)[l.place[i] + 1 - HEADER_CELLS])
           f == [i \in 1 .. N |-> Drawn(i)]
<1>1. /\ N \in Nat /\ DOMAIN l.fixed = 1 .. N
      /\ Len(l.data_cells) \in Nat
      /\ \A i \in 1 .. HEADER_CELLS :
           /\ l.header_cells[i] \in 0 .. N - 1
           /\ l.fixed[l.header_cells[i] + 1] = None
           /\ l.place[l.header_cells[i] + 1] = i - 1
      /\ \A i \in 1 .. Len(l.data_cells) :
           /\ l.data_cells[i] \in 0 .. N - 1
           /\ l.fixed[l.data_cells[i] + 1] = None
           /\ l.place[l.data_cells[i] + 1] = HEADER_CELLS + i - 1
      /\ \A v \in 0 .. 7 :
           /\ None # v
           /\ \A k \in 1 .. 4 :
                /\ l.palette_cells[v + 1][k] \in 0 .. N - 1
                /\ l.fixed[l.palette_cells[v + 1][k] + 1] = v
  BY LayoutIs, Zenon
<1>2. frame(s) = Tuple([i \in DOMAIN l.fixed |-> Drawn(i)])
  BY Zenon DEF frame, SentHeader, SentData
<1>3. frame(s) = f
  <2>1. frame(s) = Tuple(f)
    BY <1>1, <1>2, Zenon
  <2>2. f = [i \in 1 .. N |-> f[i]]
    BY Zenon
  <2> HIDE DEF f, N
  <2>3. QED
    BY <1>1, <2>1, <2>2, TupleIsTheSequence
<1>4. DOMAIN frame(s) = 1 .. N /\ \A i \in 1 .. N : frame(s)[i] = Drawn(i)
  BY <1>3, Zenon
<1>5. \A i \in 1 .. N :
        /\ l.fixed[i] # None => Drawn(i) = l.fixed[i]
        /\ l.fixed[i] = None /\ l.place[i] < HEADER_CELLS =>
             Drawn(i) = modulate("Mono", SentHeader(s)[l.place[i] + 1])
        /\ l.fixed[i] = None /\ ~(l.place[i] < HEADER_CELLS) =>
             Drawn(i) = modulate(s.mode, SentData(s)[l.place[i] + 1 - HEADER_CELLS])
  OBVIOUS
<1> HIDE DEF l, N, Drawn
<1>6. ASSUME NEW v \in 0 .. 7, NEW k \in 1 .. 4
      PROVE  frame(s)[l.palette_cells[v + 1][k] + 1] = v
  <2>0. l.palette_cells[v + 1][k] \in 0 .. N - 1 /\ N \in Nat
    BY <1>1, Zenon
  <2>1. PICK i \in 1 .. N : i = l.palette_cells[v + 1][k] + 1
    BY <2>0
  <2>2. l.fixed[i] = v /\ l.fixed[i] # None
    BY <1>1, <2>1, Zenon
  <2>3. frame(s)[i] = v
    BY <1>4, <1>5, <2>2, Zenon
  <2>4. QED
    BY <2>1, <2>3, Zenon
<1>7. ASSUME NEW j \in 1 .. HEADER_CELLS
      PROVE  frame(s)[l.header_cells[j] + 1] = modulate("Mono", SentHeader(s)[j])
  <2>0. l.header_cells[j] \in 0 .. N - 1 /\ N \in Nat
    BY <1>1, Zenon
  <2>1. PICK i \in 1 .. N : i = l.header_cells[j] + 1
    BY <2>0
  <2>2. l.fixed[i] = None /\ l.place[i] = j - 1
    BY <1>1, <2>1, Zenon
  <2>3. l.place[i] < HEADER_CELLS /\ l.place[i] + 1 = j
    BY <2>2 DEF HEADER_CELLS
  <2>4. frame(s)[i] = modulate("Mono", SentHeader(s)[l.place[i] + 1])
    BY <1>4, <1>5, <2>2, <2>3, Zenon
  <2>5. QED
    BY <2>1, <2>3, <2>4, Zenon
<1>8. ASSUME NEW j \in 1 .. Len(l.data_cells)
      PROVE  frame(s)[l.data_cells[j] + 1] = modulate(s.mode, SentData(s)[j])
  <2>0. l.data_cells[j] \in 0 .. N - 1 /\ N \in Nat
    BY <1>1, Zenon
  <2>1. PICK i \in 1 .. N : i = l.data_cells[j] + 1
    BY <2>0
  <2>2. l.fixed[i] = None /\ l.place[i] = HEADER_CELLS + j - 1
    BY <1>1, <2>1, Zenon
  <2>3. ~(l.place[i] < HEADER_CELLS) /\ l.place[i] + 1 - HEADER_CELLS = j
    <3>1. Len(l.data_cells) \in Nat
      BY <1>1, Zenon
    <3>2. j \in Nat /\ j > 0
      BY <3>1
    <3>3. QED
      BY <2>2, <3>2 DEF HEADER_CELLS
  <2>4. frame(s)[i] = modulate(s.mode, SentData(s)[l.place[i] + 1 - HEADER_CELLS])
    BY <1>4, <1>5, <2>2, <2>3, Zenon
  <2>5. QED
    BY <2>1, <2>3, <2>4, Zenon
<1>9. QED
  BY <1>4, <1>6, <1>7, <1>8, Zenon DEF l, N

(* A patch is covered whole or not at all.                                 *)
LEMMA PatchesAreCoveredWhole ==
  ASSUME NEW s \in Shots, NEW v \in 0 .. 7, NEW k \in 1 .. 4
  PROVE  layout(s.grid).palette_cells[v + 1][k] \in Smudged(s) <=> v \in s.smudge.patches
<1> DEFINE l == layout(s.grid)
           cell == l.palette_cells[v + 1][k]
<1>1. /\ \A i \in 1 .. HEADER_CELLS : l.fixed[l.header_cells[i] + 1] = None
      /\ \A i \in 1 .. Len(l.data_cells) : l.fixed[l.data_cells[i] + 1] = None
      /\ \A w \in 0 .. 7 :
           /\ DOMAIN l.palette_cells[w + 1] = 1 .. 4 /\ None # w
           /\ \A j \in 1 .. 4 : l.fixed[l.palette_cells[w + 1][j] + 1] = w
      /\ DOMAIN l.data_cells = 1 .. Len(l.data_cells)
  BY LayoutIs, ZenonT(60)
<1>2. /\ s.smudge.header \subseteq 1 .. HEADER_CELLS
      /\ s.smudge.data \subseteq DOMAIN l.data_cells
      /\ s.smudge.patches \subseteq 0 .. 7
  BY ShotAssumption, Zenon
<1>3. cell \in Smudged(s) <=>
        \/ \E i \in s.smudge.header : cell = l.header_cells[i]
        \/ \E i \in s.smudge.data : cell = l.data_cells[i]
        \/ \E w \in s.smudge.patches : \E j \in DOMAIN l.palette_cells[w + 1] :
              cell = l.palette_cells[w + 1][j]
  <2> HIDE DEF l, cell
  <2>1. Smudged(s) = {l.header_cells[i] : i \in s.smudge.header}
                       \cup {l.data_cells[i] : i \in s.smudge.data}
                       \cup UNION {Range(l.palette_cells[w + 1]) : w \in s.smudge.patches}
    BY Zenon DEF Smudged, l
  <2>2. \A w : cell \in Range(l.palette_cells[w + 1])
                 <=> \E j \in DOMAIN l.palette_cells[w + 1] : cell = l.palette_cells[w + 1][j]
    BY Zenon DEF Range
  <2>3. QED
    BY <2>1, <2>2, Zenon
<1>4. l.fixed[cell + 1] = v
  BY <1>1
<1> HIDE DEF l, cell
<1>5. ~ \E i \in s.smudge.header : cell = l.header_cells[i]
  BY <1>1, <1>2, <1>4, Zenon
<1>6. ~ \E i \in s.smudge.data : cell = l.data_cells[i]
  BY <1>1, <1>2, <1>4, ZenonT(60)
<1>7. ASSUME NEW w \in s.smudge.patches, NEW j \in DOMAIN l.palette_cells[w + 1],
             cell = l.palette_cells[w + 1][j]
      PROVE  w = v
  BY <1>1, <1>2, <1>4, <1>7, Zenon
<1>8. v \in s.smudge.patches =>
        k \in DOMAIN l.palette_cells[v + 1] /\ cell = l.palette_cells[v + 1][k]
  BY <1>1, Zenon DEF cell
<1>9. cell \in Smudged(s) <=> v \in s.smudge.patches
  BY <1>3, <1>5, <1>6, <1>7, <1>8, Zenon
<1>10. QED
  BY <1>9, Zenon DEF cell, l

(* Every cell of a picture is what is seen of the frame's cell.            *)
LEMMA PhotographIs ==
  ASSUME NEW s \in Shots, NEW i \in 0 .. Len(layout(s.grid).fixed) - 1
  PROVE  Photograph(s, frame(s))[i + 1] = Seen(s, i \in Smudged(s), frame(s)[i + 1])
<1> DEFINE N == Len(layout(s.grid).fixed)
           f == [j \in 1 .. N |-> Seen(s, j - 1 \in Smudged(s), frame(s)[j])]
<1>1. N \in Nat /\ DOMAIN frame(s) = 1 .. N
  BY LayoutIs, FrameIs, Zenon
<1>2. Photograph(s, frame(s)) = Tuple([j \in DOMAIN frame(s) |-> Seen(s, j - 1 \in Smudged(s), frame(s)[j])])
  BY DEF Photograph, Seen
<1>3. Photograph(s, frame(s)) = f
  <2>1. Photograph(s, frame(s)) = Tuple(f)
    BY <1>1, <1>2, Zenon
  <2>2. f = [j \in 1 .. N |-> f[j]]
    BY Zenon
  <2> HIDE DEF f, N
  <2>3. QED
    BY <1>1, <2>1, <2>2, TupleIsTheSequence
<1>4. i + 1 \in 1 .. N /\ (i + 1) - 1 = i
  BY <1>1
<1>5. QED
  BY <1>3, <1>4

----------------------------------------------------------------------------
(* The sum over the patches of one side of a channel.                      *)
Side(P, ch, on) ==
  LET part(v) == IF Has(v, ch) = on THEN P[v][ch] ELSE 0
  IN part(0) + part(1) + part(2) + part(3) + part(4) + part(5) + part(6) + part(7)

LEMMA LevelsAre ==
  ASSUME NEW c \in Colour
  PROVE  /\ c[1] \in 0 .. 255 /\ c[2] \in 0 .. 255 /\ c[3] \in 0 .. 255
         /\ c[1] \in Int /\ c[2] \in Int /\ c[3] \in Int
         /\ luma(c) \in Nat
<1>1. 1 \in Channels /\ 2 \in Channels /\ 3 \in Channels
  BY DEF Channels
<1>2. c[1] \in 0 .. 255 /\ c[2] \in 0 .. 255 /\ c[3] \in 0 .. 255
  BY <1>1, Zenon DEF Colour
<1>3. PICK x \in 0 .. 255, y \in 0 .. 255, z \in 0 .. 255 : x = c[1] /\ y = c[2] /\ z = c[3]
  BY <1>2, Zenon
<1>4. luma(c) = (299 * x) + (587 * y) + (114 * z)
  BY <1>3, ZenonT(60) DEF luma
<1>5. x \in Int /\ y \in Int /\ z \in Int /\ (299 * x) + (587 * y) + (114 * z) \in Nat
  OBVIOUS
<1>6. QED
  BY <1>2, <1>3, <1>4, <1>5, ZenonT(60)

LEMMA PatchColours ==
  ASSUME NEW P \in [0 .. 7 -> Colour]
  PROVE  /\ P[0] \in Colour /\ P[1] \in Colour /\ P[2] \in Colour /\ P[3] \in Colour
         /\ P[4] \in Colour /\ P[5] \in Colour /\ P[6] \in Colour /\ P[7] \in Colour
<1>1. /\ 0 \in 0 .. 7 /\ 1 \in 0 .. 7 /\ 2 \in 0 .. 7 /\ 3 \in 0 .. 7
      /\ 4 \in 0 .. 7 /\ 5 \in 0 .. 7 /\ 6 \in 0 .. 7 /\ 7 \in 0 .. 7
  OBVIOUS
<1>2. QED
  BY <1>1, Zenon

LEMMA SidesAre ==
  ASSUME NEW P \in [0 .. 7 -> Colour]
  PROVE  /\ Side(P, 1, FALSE) = P[0][1] + P[2][1] + P[4][1] + P[6][1]
         /\ Side(P, 1, TRUE) = P[1][1] + P[3][1] + P[5][1] + P[7][1]
         /\ Side(P, 2, FALSE) = P[0][2] + P[1][2] + P[4][2] + P[5][2]
         /\ Side(P, 2, TRUE) = P[2][2] + P[3][2] + P[6][2] + P[7][2]
         /\ Side(P, 3, FALSE) = P[0][3] + P[1][3] + P[2][3] + P[3][3]
         /\ Side(P, 3, TRUE) = P[4][3] + P[5][3] + P[6][3] + P[7][3]
<1>1. /\ P[0][1] \in Int /\ P[1][1] \in Int /\ P[2][1] \in Int /\ P[3][1] \in Int
      /\ P[4][1] \in Int /\ P[5][1] \in Int /\ P[6][1] \in Int /\ P[7][1] \in Int
      /\ P[0][2] \in Int /\ P[1][2] \in Int /\ P[2][2] \in Int /\ P[3][2] \in Int
      /\ P[4][2] \in Int /\ P[5][2] \in Int /\ P[6][2] \in Int /\ P[7][2] \in Int
      /\ P[0][3] \in Int /\ P[1][3] \in Int /\ P[2][3] \in Int /\ P[3][3] \in Int
      /\ P[4][3] \in Int /\ P[5][3] \in Int /\ P[6][3] \in Int /\ P[7][3] \in Int
  <2>1. \A c \in Colour : c[1] \in Int /\ c[2] \in Int /\ c[3] \in Int
    BY LevelsAre, Zenon
  <2>2. QED
    BY <2>1, PatchColours, Zenon
<1>2. /\ Has(0, 1) = FALSE /\ Has(1, 1) = TRUE /\ Has(2, 1) = FALSE /\ Has(3, 1) = TRUE
      /\ Has(4, 1) = FALSE /\ Has(5, 1) = TRUE /\ Has(6, 1) = FALSE /\ Has(7, 1) = TRUE
  BY DEF Has
<1>3. /\ Has(0, 2) = FALSE /\ Has(1, 2) = FALSE /\ Has(2, 2) = TRUE /\ Has(3, 2) = TRUE
      /\ Has(4, 2) = FALSE /\ Has(5, 2) = FALSE /\ Has(6, 2) = TRUE /\ Has(7, 2) = TRUE
  BY DEF Has
<1>4. /\ Has(0, 3) = FALSE /\ Has(1, 3) = FALSE /\ Has(2, 3) = FALSE /\ Has(3, 3) = FALSE
      /\ Has(4, 3) = TRUE /\ Has(5, 3) = TRUE /\ Has(6, 3) = TRUE /\ Has(7, 3) = TRUE
  BY DEF Has
<1>5. QED
  BY <1>1, <1>2, <1>3, <1>4 DEF Side

LEMMA CodesAre ==
  /\ 0 \in 0 .. 7 /\ 1 \in 0 .. 7 /\ 2 \in 0 .. 7 /\ 3 \in 0 .. 7
  /\ 4 \in 0 .. 7 /\ 5 \in 0 .. 7 /\ 6 \in 0 .. 7 /\ 7 \in 0 .. 7
  /\ Has(0, 1) = FALSE /\ Has(1, 1) = TRUE /\ Has(2, 1) = FALSE /\ Has(3, 1) = TRUE
  /\ Has(4, 1) = FALSE /\ Has(5, 1) = TRUE /\ Has(6, 1) = FALSE /\ Has(7, 1) = TRUE
  /\ Has(0, 2) = FALSE /\ Has(1, 2) = FALSE /\ Has(2, 2) = TRUE /\ Has(3, 2) = TRUE
  /\ Has(4, 2) = FALSE /\ Has(5, 2) = FALSE /\ Has(6, 2) = TRUE /\ Has(7, 2) = TRUE
  /\ Has(0, 3) = FALSE /\ Has(1, 3) = FALSE /\ Has(2, 3) = FALSE /\ Has(3, 3) = FALSE
  /\ Has(4, 3) = TRUE /\ Has(5, 3) = TRUE /\ Has(6, 3) = TRUE /\ Has(7, 3) = TRUE
BY DEF Has

(* With at most one patch covered, each side is four levels, one of the   *)
(* eight perhaps another.                                                  *)
LEMMA ScaleIs ==
  ASSUME NEW P \in [0 .. 7 -> Colour], NEW ch \in Channels, NEW w \in 0 .. 7,
         NEW dark \in Int, NEW bright \in Int, NEW shade \in Int,
         P[w][ch] = shade,
         \A v \in 0 .. 7 : v # w => P[v][ch] = IF Has(v, ch) THEN bright ELSE dark
  PROVE  Scale(4 * Side(P, ch, FALSE), 4 * Side(P, ch, TRUE), dark, bright, shade)
<1>1. w = 0 \/ w = 1 \/ w = 2 \/ w = 3 \/ w = 4 \/ w = 5 \/ w = 6 \/ w = 7
  OBVIOUS
<1>2. ch = 1 \/ ch = 2 \/ ch = 3
  BY DEF Channels
<1>3. CASE ch = 1
  <2>0. \A v \in 0 .. 7 :
          /\ w = v => P[v][1] = shade
          /\ w # v /\ Has(v, 1) => P[v][1] = bright
          /\ w # v /\ ~Has(v, 1) => P[v][1] = dark
    BY <1>3
  <2>1. PICK a \in Int, b \in Int, c \in Int, d \in Int,
             e \in Int, f \in Int, g \in Int, h \in Int :
          /\ a = P[0][1] /\ b = P[2][1] /\ c = P[4][1] /\ d = P[6][1]
          /\ e = P[1][1] /\ f = P[3][1] /\ g = P[5][1] /\ h = P[7][1]
    BY PatchColours, LevelsAre, ZenonT(60)
  <2>2. /\ (w = 0 => a = shade) /\ (w # 0 => a = dark)
        /\ (w = 2 => b = shade) /\ (w # 2 => b = dark)
        /\ (w = 4 => c = shade) /\ (w # 4 => c = dark)
        /\ (w = 6 => d = shade) /\ (w # 6 => d = dark)
        /\ (w = 1 => e = shade) /\ (w # 1 => e = bright)
        /\ (w = 3 => f = shade) /\ (w # 3 => f = bright)
        /\ (w = 5 => g = shade) /\ (w # 5 => g = bright)
        /\ (w = 7 => h = shade) /\ (w # 7 => h = bright)
    BY <2>0, <2>1, CodesAre, Zenon
  <2>3. Scale(4 * (a + b + c + d), 4 * (e + f + g + h), dark, bright, shade)
    BY <1>1, <2>2 DEF Scale
  <2>4. Side(P, ch, FALSE) = a + b + c + d /\ Side(P, ch, TRUE) = e + f + g + h
    BY <1>3, <2>1, SidesAre, Zenon
  <2>5. QED
    BY <2>3, <2>4, Zenon
<1>4. CASE ch = 2
  <2>0. \A v \in 0 .. 7 :
          /\ w = v => P[v][2] = shade
          /\ w # v /\ Has(v, 2) => P[v][2] = bright
          /\ w # v /\ ~Has(v, 2) => P[v][2] = dark
    BY <1>4
  <2>1. PICK a \in Int, b \in Int, c \in Int, d \in Int,
             e \in Int, f \in Int, g \in Int, h \in Int :
          /\ a = P[0][2] /\ b = P[1][2] /\ c = P[4][2] /\ d = P[5][2]
          /\ e = P[2][2] /\ f = P[3][2] /\ g = P[6][2] /\ h = P[7][2]
    BY PatchColours, LevelsAre, Zenon
  <2>2. /\ (w = 0 => a = shade) /\ (w # 0 => a = dark)
        /\ (w = 1 => b = shade) /\ (w # 1 => b = dark)
        /\ (w = 4 => c = shade) /\ (w # 4 => c = dark)
        /\ (w = 5 => d = shade) /\ (w # 5 => d = dark)
        /\ (w = 2 => e = shade) /\ (w # 2 => e = bright)
        /\ (w = 3 => f = shade) /\ (w # 3 => f = bright)
        /\ (w = 6 => g = shade) /\ (w # 6 => g = bright)
        /\ (w = 7 => h = shade) /\ (w # 7 => h = bright)
    BY <2>0, <2>1, CodesAre, Zenon
  <2>3. Scale(4 * (a + b + c + d), 4 * (e + f + g + h), dark, bright, shade)
    BY <1>1, <2>2 DEF Scale
  <2>4. Side(P, ch, FALSE) = a + b + c + d /\ Side(P, ch, TRUE) = e + f + g + h
    BY <1>4, <2>1, SidesAre, Zenon
  <2>5. QED
    BY <2>3, <2>4, Zenon
<1>5. CASE ch = 3
  <2>0. \A v \in 0 .. 7 :
          /\ w = v => P[v][3] = shade
          /\ w # v /\ Has(v, 3) => P[v][3] = bright
          /\ w # v /\ ~Has(v, 3) => P[v][3] = dark
    BY <1>5
  <2>1. PICK a \in Int, b \in Int, c \in Int, d \in Int,
             e \in Int, f \in Int, g \in Int, h \in Int :
          /\ a = P[0][3] /\ b = P[1][3] /\ c = P[2][3] /\ d = P[3][3]
          /\ e = P[4][3] /\ f = P[5][3] /\ g = P[6][3] /\ h = P[7][3]
    BY PatchColours, LevelsAre, ZenonT(60)
  <2>2. /\ (w = 0 => a = shade) /\ (w # 0 => a = dark)
        /\ (w = 1 => b = shade) /\ (w # 1 => b = dark)
        /\ (w = 2 => c = shade) /\ (w # 2 => c = dark)
        /\ (w = 3 => d = shade) /\ (w # 3 => d = dark)
        /\ (w = 4 => e = shade) /\ (w # 4 => e = bright)
        /\ (w = 5 => f = shade) /\ (w # 5 => f = bright)
        /\ (w = 6 => g = shade) /\ (w # 6 => g = bright)
        /\ (w = 7 => h = shade) /\ (w # 7 => h = bright)
    BY <2>0, <2>1, CodesAre, Zenon
  <2>3. Scale(4 * (a + b + c + d), 4 * (e + f + g + h), dark, bright, shade)
    BY <1>1, <2>2 DEF Scale
  <2>4. Side(P, ch, FALSE) = a + b + c + d /\ Side(P, ch, TRUE) = e + f + g + h
    BY <1>5, <2>1, SidesAre, Zenon
  <2>5. QED
    BY <2>3, <2>4, Zenon
<1>6. QED
  BY <1>2, <1>3, <1>4, <1>5

(* Whatever the patches show, a channel has no more room than its levels.  *)
LEMMA ScaleIsWithin ==
  ASSUME NEW P \in [0 .. 7 -> Colour], NEW ch \in Channels,
         NEW dark \in Int, NEW bright \in Int,
         \A v \in 0 .. 7 : P[v][ch] \in dark .. bright
  PROVE  /\ Side(P, ch, FALSE) \in 4 * dark .. 4 * bright
         /\ Side(P, ch, TRUE) \in 4 * dark .. 4 * bright
<1>1. \A x, y, z, t \in dark .. bright : x + y + z + t \in 4 * dark .. 4 * bright
  OBVIOUS
<1>2. ch = 1 \/ ch = 2 \/ ch = 3
  BY DEF Channels
<1>3. CASE ch = 1
  <2>1. \A v \in 0 .. 7 : P[v][1] \in dark .. bright
    BY <1>3
  <2>2. /\ P[0][1] \in dark .. bright /\ P[1][1] \in dark .. bright
        /\ P[2][1] \in dark .. bright /\ P[3][1] \in dark .. bright
        /\ P[4][1] \in dark .. bright /\ P[5][1] \in dark .. bright
        /\ P[6][1] \in dark .. bright /\ P[7][1] \in dark .. bright
    BY <2>1, CodesAre, Zenon
  <2>3. /\ P[0][1] + P[2][1] + P[4][1] + P[6][1] \in 4 * dark .. 4 * bright
        /\ P[1][1] + P[3][1] + P[5][1] + P[7][1] \in 4 * dark .. 4 * bright
    BY <1>1, <2>2, Zenon
  <2>4. Side(P, 1, FALSE) = P[0][1] + P[2][1] + P[4][1] + P[6][1] /\ Side(P, 1, TRUE) = P[1][1] + P[3][1] + P[5][1] + P[7][1]
    BY SidesAre, Zenon
  <2>5. QED
    BY <1>3, <2>3, <2>4
<1>4. CASE ch = 2
  <2>1. \A v \in 0 .. 7 : P[v][2] \in dark .. bright
    BY <1>4
  <2>2. /\ P[0][2] \in dark .. bright /\ P[1][2] \in dark .. bright
        /\ P[2][2] \in dark .. bright /\ P[3][2] \in dark .. bright
        /\ P[4][2] \in dark .. bright /\ P[5][2] \in dark .. bright
        /\ P[6][2] \in dark .. bright /\ P[7][2] \in dark .. bright
    BY <2>1, CodesAre, Zenon
  <2>3. /\ P[0][2] + P[1][2] + P[4][2] + P[5][2] \in 4 * dark .. 4 * bright
        /\ P[2][2] + P[3][2] + P[6][2] + P[7][2] \in 4 * dark .. 4 * bright
    BY <1>1, <2>2, Zenon
  <2>4. Side(P, 2, FALSE) = P[0][2] + P[1][2] + P[4][2] + P[5][2] /\ Side(P, 2, TRUE) = P[2][2] + P[3][2] + P[6][2] + P[7][2]
    BY SidesAre, Zenon
  <2>5. QED
    BY <1>4, <2>3, <2>4
<1>5. CASE ch = 3
  <2>1. \A v \in 0 .. 7 : P[v][3] \in dark .. bright
    BY <1>5
  <2>2. /\ P[0][3] \in dark .. bright /\ P[1][3] \in dark .. bright
        /\ P[2][3] \in dark .. bright /\ P[3][3] \in dark .. bright
        /\ P[4][3] \in dark .. bright /\ P[5][3] \in dark .. bright
        /\ P[6][3] \in dark .. bright /\ P[7][3] \in dark .. bright
    BY <2>1, CodesAre, Zenon
  <2>3. /\ P[0][3] + P[1][3] + P[2][3] + P[3][3] \in 4 * dark .. 4 * bright
        /\ P[4][3] + P[5][3] + P[6][3] + P[7][3] \in 4 * dark .. 4 * bright
    BY <1>1, <2>2, Zenon
  <2>4. Side(P, 3, FALSE) = P[0][3] + P[1][3] + P[2][3] + P[3][3] /\ Side(P, 3, TRUE) = P[4][3] + P[5][3] + P[6][3] + P[7][3]
    BY SidesAre, Zenon
  <2>5. QED
    BY <1>5, <2>3, <2>4
<1>6. QED
  BY <1>2, <1>3, <1>4, <1>5

----------------------------------------------------------------------------
(* The patches of a picture, and what the calibration makes of them.       *)
Patches(s) == [v \in 0 .. 7 |-> Seen(s, v \in s.smudge.patches, v)]
Picture(s) == Photograph(s, frame(s))
Cal(s) == from_patches(layout(s.grid), Picture(s))

LEMMA PatchesAre ==
  ASSUME NEW s \in Shots
  PROVE  /\ Patches(s) \in [0 .. 7 -> Colour]
         /\ \A v \in 0 .. 7 : \A k \in 1 .. 4 :
              Picture(s)[layout(s.grid).palette_cells[v + 1][k] + 1] = Patches(s)[v]
<1>1. ASSUME NEW v \in 0 .. 7
      PROVE  Patches(s)[v] = Seen(s, v \in s.smudge.patches, v) /\ Patches(s)[v] \in Colour
  <2>1. Patches(s)[v] = Seen(s, v \in s.smudge.patches, v)
    BY DEF Patches
  <2>2. PICK c \in Colour : Patches(s)[v] = Exposed(s.exposure, c)
    BY <2>1, ColoursAre, CoversAre DEF Seen
  <2>3. 1 \in Channels
    BY DEF Channels
  <2>4. QED
    BY <2>1, <2>2, <2>3, LightIs
<1>2. Patches(s) \in [0 .. 7 -> Colour]
  BY <1>1 DEF Patches
<1>3. ASSUME NEW v \in 0 .. 7, NEW k \in 1 .. 4
      PROVE  Picture(s)[layout(s.grid).palette_cells[v + 1][k] + 1] = Patches(s)[v]
  <2> DEFINE cell == layout(s.grid).palette_cells[v + 1][k]
  <2>1. cell \in 0 .. Len(layout(s.grid).fixed) - 1
    BY LayoutIs, Zenon
  <2>2. frame(s)[cell + 1] = v
    BY FrameIs, Zenon
  <2>3. (cell \in Smudged(s)) = (v \in s.smudge.patches)
    BY PatchesAreCoveredWhole
  <2> HIDE DEF cell
  <2>4. Picture(s)[cell + 1] = Seen(s, cell \in Smudged(s), frame(s)[cell + 1])
    BY <2>1, PhotographIs, Zenon DEF Picture
  <2>5. QED
    BY <1>1, <2>2, <2>3, <2>4 DEF cell
<1>4. QED
  BY <1>2, <1>3

LEMMA PatchIs ==
  ASSUME NEW s \in Shots, NEW v \in 0 .. 7
  PROVE  /\ v \in s.smudge.patches => Patches(s)[v] = Seen(s, TRUE, v)
         /\ v \notin s.smudge.patches => Patches(s)[v] = Seen(s, FALSE, v)
<1>1. Patches(s)[v] = Seen(s, v \in s.smudge.patches, v)
  BY DEF Patches
<1>2. QED
  BY <1>1 DEF Seen

LEMMA CalIs ==
  ASSUME NEW s \in Shots
  PROVE  /\ \A ch \in Channels :
              /\ Cal(s).low[ch] = 4 * Side(Patches(s), ch, FALSE)
              /\ Cal(s).high[ch] = 4 * Side(Patches(s), ch, TRUE)
         /\ Cal(s).luma_low = 4 * luma(Patches(s)[0])
         /\ Cal(s).luma_high = 4 * luma(Patches(s)[7])
<1> DEFINE l == layout(s.grid)
           P == Patches(s)
           seen == Picture(s)
<1>1. P \in [0 .. 7 -> Colour]
  BY PatchesAre
<1>2. \A v \in 0 .. 7 : \A k \in 1 .. 4 : seen[l.palette_cells[v + 1][k] + 1] = P[v]
  BY PatchesAre
<1> HIDE DEF l, P, seen
<1> DEFINE cell(v, k) == seen[l.palette_cells[v + 1][k] + 1]
           level(v, ch) == cell(v, 1)[ch] + cell(v, 2)[ch] + cell(v, 3)[ch] + cell(v, 4)[ch]
           part(v, ch, on) == IF Has(v, ch) = on THEN level(v, ch) ELSE 0
           sum(ch, on) == part(0, ch, on) + part(1, ch, on) + part(2, ch, on) + part(3, ch, on)
                            + part(4, ch, on) + part(5, ch, on) + part(6, ch, on) + part(7, ch, on)
           light(v) == luma(cell(v, 1)) + luma(cell(v, 2)) + luma(cell(v, 3)) + luma(cell(v, 4))
           cal == from_patches(l, seen)
<1>3. /\ cal.low = Tuple([ch \in Channels |-> sum(ch, FALSE)])
      /\ cal.high = Tuple([ch \in Channels |-> sum(ch, TRUE)])
      /\ cal.luma_low = light(BLACK) /\ cal.luma_high = light(WHITE)
  BY DEF from_patches
<1>4. ASSUME NEW v \in 0 .. 7, NEW ch \in Channels
      PROVE  level(v, ch) = 4 * P[v][ch] /\ P[v][ch] \in 0 .. 255
  <2>1. P[v][ch] \in 0 .. 255
    BY <1>1 DEF Colour
  <2>2. cell(v, 1) = P[v] /\ cell(v, 2) = P[v] /\ cell(v, 3) = P[v] /\ cell(v, 4) = P[v]
    BY <1>2
  <2>3. QED
    BY <2>1, <2>2
<1>5. ASSUME NEW ch \in Channels, NEW on \in BOOLEAN
      PROVE  sum(ch, on) = 4 * Side(P, ch, on)
  <2> DEFINE side(v) == IF Has(v, ch) = on THEN P[v][ch] ELSE 0
  <2>1. ASSUME NEW v \in 0 .. 7 PROVE part(v, ch, on) = 4 * side(v) /\ side(v) \in Int
    <3>1. level(v, ch) = 4 * P[v][ch] /\ P[v][ch] \in 0 .. 255
      BY <1>4
    <3> HIDE DEF level
    <3>2. QED
      BY <3>1
  <2>2. Side(P, ch, on) = side(0) + side(1) + side(2) + side(3) + side(4) + side(5) + side(6) + side(7)
    BY DEF Side
  <2> HIDE DEF part, side
  <2>3. /\ 0 \in 0 .. 7 /\ 1 \in 0 .. 7 /\ 2 \in 0 .. 7 /\ 3 \in 0 .. 7
        /\ 4 \in 0 .. 7 /\ 5 \in 0 .. 7 /\ 6 \in 0 .. 7 /\ 7 \in 0 .. 7
    OBVIOUS
  <2>4. /\ part(0, ch, on) = 4 * side(0) /\ part(1, ch, on) = 4 * side(1)
        /\ part(2, ch, on) = 4 * side(2) /\ part(3, ch, on) = 4 * side(3)
        /\ part(4, ch, on) = 4 * side(4) /\ part(5, ch, on) = 4 * side(5)
        /\ part(6, ch, on) = 4 * side(6) /\ part(7, ch, on) = 4 * side(7)
        /\ side(0) \in Int /\ side(1) \in Int /\ side(2) \in Int /\ side(3) \in Int
        /\ side(4) \in Int /\ side(5) \in Int /\ side(6) \in Int /\ side(7) \in Int
    BY <2>1, <2>3, Zenon
  <2>5. QED
    BY <2>2, <2>4
<1>6. ASSUME NEW on \in BOOLEAN
      PROVE  \A ch \in Channels : Tuple([c \in Channels |-> sum(c, on)])[ch] = sum(ch, on)
  <2> HIDE DEF sum
  <2> DEFINE f == [c \in 1 .. 3 |-> sum(c, on)]
  <2>1. f = [c \in 1 .. 3 |-> f[c]]
    BY Zenon
  <2>2. \A ch \in 1 .. 3 : f[ch] = sum(ch, on)
    BY Zenon
  <2> HIDE DEF f
  <2>3. Tuple(f) = f
    BY <2>1, TupleIsTheSequence
  <2>4. QED
    BY <2>2, <2>3, Zenon DEF f, Channels
<1>7. luma(P[0]) \in Nat /\ luma(P[7]) \in Nat
  BY <1>1, PatchColours, LevelsAre, Zenon
<1>8. light(BLACK) = 4 * luma(P[0]) /\ light(WHITE) = 4 * luma(P[7])
  <2>0. /\ 0 \in 0 .. 7 /\ 7 \in 0 .. 7
        /\ 1 \in 1 .. 4 /\ 2 \in 1 .. 4 /\ 3 \in 1 .. 4 /\ 4 \in 1 .. 4
    OBVIOUS
  <2>1. /\ cell(0, 1) = P[0] /\ cell(0, 2) = P[0] /\ cell(0, 3) = P[0] /\ cell(0, 4) = P[0]
        /\ cell(7, 1) = P[7] /\ cell(7, 2) = P[7] /\ cell(7, 3) = P[7] /\ cell(7, 4) = P[7]
    BY <1>2, <2>0, Zenon
  <2> HIDE DEF cell
  <2>2. QED
    BY <1>7, <2>1 DEF BLACK, WHITE
<1> HIDE DEF sum, light, cal
<1>9. QED
  BY <1>3, <1>5, <1>6, <1>8 DEF cal, Cal, l, P, seen

(* With one patch covered or none, the levels a channel is measured by.    *)
LEMMA ChannelScale ==
  ASSUME NEW s \in Shots, Cardinality(s.smudge.patches) <= 1, NEW ch \in Channels
  PROVE  LET dark == Dark(s.exposure)[ch]
             bright == Bright(s.exposure)[ch]
             lo == Cal(s).low[ch]
             hi == Cal(s).high[ch]
         IN  /\ lo \in Int /\ hi \in Int
             /\ \E shade \in dark .. bright :
                  /\ Scale(lo, hi, dark, bright, shade)
                  /\ s.smudge.paint.kind = "solid" =>
                       \/ shade = Exposed(s.exposure, s.smudge.paint.rgb)[ch]
                       \/ lo = 16 * dark /\ hi = 16 * bright
<1> DEFINE dark == Dark(s.exposure)[ch]
           bright == Bright(s.exposure)[ch]
           lo == Cal(s).low[ch]
           hi == Cal(s).high[ch]
           P == Patches(s)
           W == s.smudge.patches
<1>1. \E w \in 0 .. 7 : W \subseteq {w}
  <2>1. W \subseteq 0 .. 7
    BY ShotAssumption, Zenon
  <2>2. IsFiniteSet(0 .. 7) /\ IsFiniteSet(W)
    <3>1. 0 \in Int /\ 7 \in Int
      OBVIOUS
    <3>2. QED
      BY <2>1, <3>1, FS_Interval, FS_Subset
  <2>3. Cardinality(W) = 0 \/ Cardinality(W) = 1
    <3>1. Cardinality(W) \in Nat
      BY <2>2, FS_CardinalityType
    <3>2. QED
      BY <3>1
  <2>4. CASE Cardinality(W) = 0
    BY <2>2, <2>4, FS_EmptySet
  <2>5. CASE Cardinality(W) = 1
    <3>1. PICK x : W = {x}
      BY <2>2, <2>5, FS_Singleton
    <3>2. QED
      BY <2>1, <3>1
  <2>6. QED
    BY <2>3, <2>4, <2>5
<1>2. PICK w \in 0 .. 7 : W \subseteq {w}
  BY <1>1
<1>3. dark \in Int /\ bright \in Int /\ P[w][ch] \in dark .. bright
  <2>1. PICK c \in Colour : P[w] = Exposed(s.exposure, c)
    BY PatchIs, ColoursAre, CoversAre DEF Seen
  <2>2. Exposed(s.exposure, c)[ch] \in Dark(s.exposure)[ch] .. Bright(s.exposure)[ch]
    BY LightIs, ZenonT(60)
  <2>3. dark \in Int /\ bright \in Int
    BY LevelsOfLight, Zenon
  <2>4. QED
    BY <2>1, <2>2, <2>3, Zenon
<1>4. ASSUME NEW v \in 0 .. 7, v \notin W
      PROVE  P[v][ch] = IF Has(v, ch) THEN bright ELSE dark
  <2>1. P[v] = Seen(s, FALSE, v)
    BY <1>4, PatchIs
  <2>2. QED
    BY <2>1, FreeCellShows
<1>5. s.smudge.paint.kind = "solid" /\ w \in W =>
        P[w][ch] = Exposed(s.exposure, s.smudge.paint.rgb)[ch]
  <2>1. w \in W => P[w] = Seen(s, TRUE, w)
    BY PatchIs
  <2>2. s.smudge.paint.kind = "solid" =>
          Seen(s, TRUE, w)[ch] = Exposed(s.exposure, s.smudge.paint.rgb)[ch]
    BY CoveredCellShows, Zenon
  <2>3. QED
    BY <2>1, <2>2
<1>6. lo = 4 * Side(P, ch, FALSE) /\ hi = 4 * Side(P, ch, TRUE)
  BY CalIs, Zenon
<1>7. P \in [0 .. 7 -> Colour]
  BY PatchesAre
<1> HIDE DEF dark, bright, lo, hi, P, W
<1>8. Scale(lo, hi, dark, bright, P[w][ch])
  <2>1. \A v \in 0 .. 7 : v # w => P[v][ch] = IF Has(v, ch) THEN bright ELSE dark
    BY <1>2, <1>4
  <2>2. PICK shade \in Int : shade = P[w][ch]
    BY <1>3
  <2>3. Scale(4 * Side(P, ch, FALSE), 4 * Side(P, ch, TRUE), dark, bright, shade)
    BY <1>3, <1>7, <2>1, <2>2, ScaleIs
  <2>4. QED
    BY <1>6, <2>2, <2>3
<1>9. lo \in Int /\ hi \in Int
  BY <1>3, <1>8 DEF Scale
<1>10. w \notin W => lo = 16 * dark /\ hi = 16 * bright
  <2>1. w \notin W => P[w][ch] \in {dark, bright}
    BY <1>4
  <2>2. w \notin W => \A v \in 0 .. 7 : P[v][ch] = IF Has(v, ch) THEN bright ELSE dark
    BY <1>2, <1>4
  <2>3. w \notin W => Scale(4 * Side(P, ch, FALSE), 4 * Side(P, ch, TRUE), dark, bright, dark)
    <3>1. ASSUME w \notin W
          PROVE  P[0][ch] = dark /\ 0 \in 0 .. 7
      <4>1. Has(0, ch) = FALSE
        BY DEF Has, Channels
      <4>2. QED
        BY <2>2, <3>1, <4>1, CodesAre
    <3>2. PICK z \in 0 .. 7 : z = 0
      BY CodesAre
    <3>3. QED
      BY <1>3, <1>7, <2>2, <3>1, <3>2, ScaleIs
  <2>4. w \notin W => Scale(4 * Side(P, ch, FALSE), 4 * Side(P, ch, TRUE), dark, bright, bright)
    <3>1. ASSUME w \notin W
          PROVE  P[7][ch] = bright /\ 7 \in 0 .. 7
      <4>1. Has(7, ch) = TRUE
        BY DEF Has, Channels
      <4>2. QED
        BY <2>2, <3>1, <4>1, CodesAre
    <3>2. PICK z \in 0 .. 7 : z = 7
      BY CodesAre
    <3>3. QED
      BY <1>3, <1>7, <2>2, <3>1, <3>2, ScaleIs
  <2>5. w \notin W => Scale(lo, hi, dark, bright, dark) /\ Scale(lo, hi, dark, bright, bright)
    BY <1>6, <2>3, <2>4
  <2>6. QED
    BY <1>3, <1>9, <2>5 DEF Scale
<1>11. QED
  BY <1>3, <1>5, <1>8, <1>9, <1>10 DEF dark, bright, lo, hi, P, W

----------------------------------------------------------------------------
(* The place of a colour among the four of Rgb4, from 1, or 0.             *)
Word(code) == SelectInSeq(RGB4_CODEWORDS, LAMBDA w : w = code)
CodeWords == {0, 3, 5, 6}

LEMMA WordIs ==
  ASSUME NEW code \in 0 .. 7
  PROVE  /\ code \in CodeWords => Word(code) \in 1 .. 4 /\ RGB4_CODEWORDS[Word(code)] = code
         /\ code \notin CodeWords => Word(code) = 0
<1> DEFINE I == {i \in 1 .. Len(RGB4_CODEWORDS) : RGB4_CODEWORDS[i] = code}
<1>1. Word(code) = IF I # {} THEN Min(I) ELSE 0
  BY DEF Word, SelectInSeq
<1>2. /\ Len(RGB4_CODEWORDS) = 4
      /\ RGB4_CODEWORDS[1] = 0 /\ RGB4_CODEWORDS[2] = 3
      /\ RGB4_CODEWORDS[3] = 5 /\ RGB4_CODEWORDS[4] = 6
  BY DEF RGB4_CODEWORDS
<1>3. \A i : i \in I <=> (i = 1 /\ code = 0) \/ (i = 2 /\ code = 3)
                           \/ (i = 3 /\ code = 5) \/ (i = 4 /\ code = 6)
  BY <1>2
<1> HIDE DEF I
<1>4. ASSUME NEW i \in 1 .. 4, i \in I PROVE Min(I) = i
  <2>1. I = {i}
    BY <1>3, <1>4
  <2>2. QED
    BY <2>1 DEF Min
<1>5. code \in CodeWords => \E i \in 1 .. 4 : i \in I /\ RGB4_CODEWORDS[i] = code
  BY <1>2, <1>3 DEF CodeWords
<1>6. code \notin CodeWords => I = {}
  BY <1>3 DEF CodeWords
<1>7. QED
  BY <1>1, <1>4, <1>5, <1>6

(* What is made of the three bits of a cell in a colour mode.              *)
ReadAs(cal, rgb, code, conf) ==
  \A ch \in Channels :
    /\ channel_bit(cal, ch, rgb[ch]).bit = IF Has(code, ch) THEN 1 ELSE 0
    /\ channel_bit(cal, ch, rgb[ch]).confidence = conf[ch]

ColourModes == {"Rgb4", "Rgb8"}
Confidences == [Channels -> 0 .. 1000]

ReadingOf(mode, code, conf, read) ==
  /\ mode = "Rgb8" => read.value = code
  /\ mode = "Rgb4" /\ code \in CodeWords => read.value = Word(code) - 1
  /\ mode = "Rgb4" /\ code \notin CodeWords => read.confidence = 0
  /\ read.value \in 0 .. 7 /\ read.confidence \in 0 .. 1000
  /\ \A ch \in Channels : read.confidence <= conf[ch]
  /\ (mode = "Rgb8" \/ code \in CodeWords) /\ (\A ch \in Channels : conf[ch] = 1000)
       => read.confidence = 1000

LEMMA ColourReading ==
  ASSUME NEW cal, NEW rgb, NEW mode \in ColourModes, NEW code \in 0 .. 7,
         NEW conf \in Confidences, ReadAs(cal, rgb, code, conf),
         NEW read, read = demodulate(cal, mode, rgb)
  PROVE  ReadingOf(mode, code, conf, read)
<1> USE DEF ColourModes, Confidences
<1> DEFINE f == [ch \in 1 .. 3 |-> channel_bit(cal, ch, rgb[ch])]
           b == Tuple([ch \in Channels |-> channel_bit(cal, ch, rgb[ch])])
           sum == b[1].bit + (2 * b[2].bit) + (4 * b[3].bit)
           C == {b[ch].confidence : ch \in Channels}
           word == SelectInSeq(RGB4_CODEWORDS, LAMBDA w : w = sum)
<1>1. read = CASE mode = "Rgb8" -> [value |-> sum, confidence |-> Least(C)]
               [] mode = "Rgb4" /\ word > 0 -> [value |-> word - 1, confidence |-> Least(C)]
               [] OTHER -> [value |-> 0, confidence |-> 0]
  BY DEF demodulate
<1>2. \A ch \in Channels : b[ch] = channel_bit(cal, ch, rgb[ch])
  <2>1. f = [ch \in 1 .. 3 |-> f[ch]] /\ \A ch \in Channels : f[ch] = channel_bit(cal, ch, rgb[ch])
    BY ZenonT(60) DEF Channels
  <2>2. b = Tuple(f)
    BY Zenon DEF Channels
  <2> HIDE DEF f, b
  <2>3. Tuple(f) = f
    BY <2>1, TupleIsTheSequence
  <2>4. QED
    BY <2>1, <2>2, <2>3, Zenon
<1> HIDE DEF b, f
<1>3. \A ch \in Channels : b[ch].bit = IF Has(code, ch) THEN 1 ELSE 0
  BY <1>2 DEF ReadAs
<1>4. \A ch \in Channels : b[ch].confidence = conf[ch]
  BY <1>2 DEF ReadAs
<1>5. sum = code
  <2>1. 1 \in Channels /\ 2 \in Channels /\ 3 \in Channels
    BY DEF Channels
  <2>2. b[1].bit = IF Has(code, 1) THEN 1 ELSE 0
    BY <1>3, <2>1, Zenon
  <2>3. b[2].bit = IF Has(code, 2) THEN 1 ELSE 0
    BY <1>3, <2>1, Zenon
  <2>4. b[3].bit = IF Has(code, 3) THEN 1 ELSE 0
    BY <1>3, <2>1, Zenon
  <2>5. code = 0 \/ code = 1 \/ code = 2 \/ code = 3 \/ code = 4 \/ code = 5 \/ code = 6 \/ code = 7
    OBVIOUS
  <2>6. QED
    BY <2>2, <2>3, <2>4, <2>5, CodesAre
<1>6. word = Word(code)
  <2> HIDE DEF sum
  <2>1. QED
    BY <1>5 DEF Word, SelectInSeq
<1>7. C = {conf[ch] : ch \in Channels} /\ C # {}
  BY <1>4 DEF Channels
<1>8. Least(C) \in C /\ \A c \in C : Least(C) <= c
  <2>1. PICK top \in Nat : top = 1000
    OBVIOUS
  <2>2. \A ch \in Channels : conf[ch] \in 0 .. top
    BY <2>1
  <2> HIDE DEF C
  <2>3. C \in SUBSET (0 .. top)
    BY <1>7, <2>2
  <2>4. QED
    BY <1>7, <2>3, LeastIsLeast, ZenonT(60)
<1>9. /\ Least(C) \in 0 .. 1000
      /\ \A ch \in Channels : Least(C) <= conf[ch]
      /\ (\A ch \in Channels : conf[ch] = 1000) => Least(C) = 1000
  <2> HIDE DEF C
  <2>1. QED
    BY <1>7, <1>8
<1>10. \A ch \in Channels : conf[ch] \in 0 .. 1000
  OBVIOUS
<1> HIDE DEF sum, word, C
<1>11. CASE mode = "Rgb8"
  <2>1. read.value = code /\ read.confidence = Least(C)
    BY <1>1, <1>5, <1>11
  <2>2. QED
    BY <1>9, <1>11, <2>1 DEF ReadingOf
<1>12. CASE mode = "Rgb4" /\ code \in CodeWords
  <2>1. Word(code) \in 1 .. 4
    BY <1>12, WordIs
  <2>2. read.value = Word(code) - 1 /\ read.confidence = Least(C)
    BY <1>1, <1>6, <1>12, <2>1
  <2>3. read.value \in 0 .. 7
    BY <2>1, <2>2
  <2>4. QED
    BY <1>9, <1>12, <2>2, <2>3 DEF ReadingOf
<1>13. CASE mode = "Rgb4" /\ code \notin CodeWords
  <2>1. Word(code) = 0
    BY <1>13, WordIs
  <2>2. read.value = 0 /\ read.confidence = 0
    BY <1>1, <1>6, <1>13, <2>1
  <2>3. \A ch \in Channels : 0 <= conf[ch]
    BY <1>10
  <2>4. \A ch \in Channels : read.confidence <= conf[ch]
    BY <2>2, <2>3
  <2>5. mode # "Rgb8"
    BY <1>13
  <2>6. QED
    BY <1>13, <2>2, <2>4, <2>5 DEF ReadingOf
<1>14. QED
  BY <1>11, <1>12, <1>13

(* A cell in a colour mode, whatever it shows, has a value and is no more  *)
(* certain than any of its channels.                                       *)
Measured(cal) == \A ch \in Channels : cal.low[ch] \in Int /\ cal.high[ch] \in Int

LEMMA AnyColourIsRead ==
  ASSUME NEW cal, NEW mode \in ColourModes, NEW rgb \in Colour,
         NEW read, read = demodulate(cal, mode, rgb), Measured(cal)
  PROVE  /\ read.value \in 0 .. 7 /\ read.confidence \in 0 .. 1000
         /\ \A ch \in Channels : read.confidence <= channel_bit(cal, ch, rgb[ch]).confidence
<1> DEFINE d(ch) == channel_bit(cal, ch, rgb[ch])
           conf == [ch \in Channels |-> d(ch).confidence]
<1>1. ASSUME NEW ch \in Channels
      PROVE  d(ch).bit \in 0 .. 1 /\ d(ch).confidence \in 0 .. 1000
  <2>1. PICK lo \in Int, hi \in Int : lo = cal.low[ch] /\ hi = cal.high[ch]
    BY DEF Measured
  <2>2. PICK value \in Int : value = rgb[ch]
    <3>1. rgb[ch] \in 0 .. 255
      BY DEF Colour
    <3>2. rgb[ch] \in Int
      BY <3>1
    <3>3. QED
      BY <3>2
  <2>4. /\ ChannelReading(lo, hi, value).bit \in 0 .. 1
        /\ ChannelReading(lo, hi, value).confidence \in 0 .. 1000
    BY ChannelReadings
  <2>5. d(ch) = ChannelReading(lo, hi, value)
    BY <2>1, <2>2, Zenon DEF channel_bit, ChannelReading
  <2>6. QED
    BY <2>4, <2>5, ZenonT(60)
<1> HIDE DEF d
<1>2. \E code \in 0 .. 7 : \A ch \in Channels : d(ch).bit = IF Has(code, ch) THEN 1 ELSE 0
  <2>1. PICK x \in 0 .. 1, y \in 0 .. 1, z \in 0 .. 1 : x = d(1).bit /\ y = d(2).bit /\ z = d(3).bit
    BY <1>1 DEF Channels
  <2>2. PICK code \in 0 .. 7 : code = x + (2 * y) + (4 * z)
    OBVIOUS
  <2>3. /\ x = IF Has(code, 1) THEN 1 ELSE 0
        /\ y = IF Has(code, 2) THEN 1 ELSE 0
        /\ z = IF Has(code, 3) THEN 1 ELSE 0
    <3>1. code = 0 \/ code = 1 \/ code = 2 \/ code = 3 \/ code = 4 \/ code = 5 \/ code = 6 \/ code = 7
      OBVIOUS
    <3>2. QED
      BY <2>2, <3>1, CodesAre
  <2>4. QED
    BY <2>1, <2>3 DEF Channels
<1>3. PICK code \in 0 .. 7 : \A ch \in Channels : d(ch).bit = IF Has(code, ch) THEN 1 ELSE 0
  BY <1>2
<1>4. conf \in Confidences /\ \A ch \in Channels : conf[ch] = d(ch).confidence
  BY <1>1 DEF Confidences
<1> HIDE DEF conf
<1>5. ReadAs(cal, rgb, code, conf)
  BY <1>3, <1>4, Zenon DEF d, ReadAs
<1>6. /\ read.value \in 0 .. 7 /\ read.confidence \in 0 .. 1000
      /\ \A ch \in Channels : read.confidence <= conf[ch]
  <2>1. ReadingOf(mode, code, conf, read)
    BY <1>4, <1>5, ColourReading, Zenon
  <2>2. QED
    BY <2>1 DEF ReadingOf
<1>7. QED
  BY <1>4, <1>6 DEF d

(* What a cell of a colour shows, on each channel.                         *)
Shows(s, rgb, code) ==
  \A ch \in Channels :
    rgb[ch] = IF Has(code, ch) THEN Bright(s.exposure)[ch] ELSE Dark(s.exposure)[ch]

(* A cell that shows dark or bright on each channel of a clear exposure is *)
(* the colour it shows, and one in Rgb4 that shows none of the four        *)
(* colours is doubted.                                                     *)
LEMMA ExtremesAreRead ==
  ASSUME NEW s \in Shots, NEW mode \in ColourModes, NEW rgb, NEW code \in 0 .. 7,
         NEW read, read = demodulate(Cal(s), mode, rgb),
         Clear(s.exposure, mode), Cardinality(s.smudge.patches) <= 1, Shows(s, rgb, code)
  PROVE  /\ mode = "Rgb8" => read.value = code /\ read.confidence = 1000
         /\ mode = "Rgb4" /\ code \in CodeWords =>
              read.value = Word(code) - 1 /\ read.confidence = 1000
         /\ mode = "Rgb4" /\ code \notin CodeWords => read.confidence = 0
<1> DEFINE cal == Cal(s)
           conf == [ch \in Channels |-> 1000]
<1>1. ASSUME NEW ch \in Channels
      PROVE  /\ channel_bit(cal, ch, rgb[ch]).bit = IF Has(code, ch) THEN 1 ELSE 0
             /\ channel_bit(cal, ch, rgb[ch]).confidence = 1000
  <2>1. PICK dark \in Int, bright \in Int :
          dark = Dark(s.exposure)[ch] /\ bright = Bright(s.exposure)[ch]
    <3>1. Dark(s.exposure)[ch] \in Int /\ Bright(s.exposure)[ch] \in Int
      BY LevelsOfLight
    <3>2. QED
      BY <3>1
  <2>2. PICK lo \in Int, hi \in Int : lo = cal.low[ch] /\ hi = cal.high[ch]
    BY ChannelScale
  <2>3. bright - dark >= 20
    BY <2>1 DEF Clear, Gap, ColourModes
  <2>4. PICK shade \in dark .. bright : Scale(lo, hi, dark, bright, shade)
    BY <2>1, <2>2, ChannelScale
  <2>5. /\ ChannelReading(lo, hi, dark).bit = 0 /\ ChannelReading(lo, hi, dark).confidence = 1000
        /\ ChannelReading(lo, hi, bright).bit = 1 /\ ChannelReading(lo, hi, bright).confidence = 1000
    BY <2>3, <2>4, ChannelIsRead
  <2>6. channel_bit(cal, ch, rgb[ch]) = ChannelReading(lo, hi, rgb[ch])
    BY <2>2, Zenon DEF channel_bit, ChannelReading
  <2>7. rgb[ch] = IF Has(code, ch) THEN bright ELSE dark
    BY <2>1 DEF Shows
  <2>8. QED
    BY <2>5, <2>6, <2>7
<1>2. conf \in Confidences /\ \A ch \in Channels : conf[ch] = 1000
  BY DEF Confidences
<1> HIDE DEF cal, conf
<1>3. ReadAs(cal, rgb, code, conf)
  BY <1>1, <1>2 DEF ReadAs
<1>4. read = demodulate(cal, mode, rgb)
  BY DEF cal
<1>5. /\ mode = "Rgb8" => read.value = code
      /\ mode = "Rgb4" /\ code \in CodeWords => read.value = Word(code) - 1
      /\ mode = "Rgb4" /\ code \notin CodeWords => read.confidence = 0
      /\ (mode = "Rgb8" \/ code \in CodeWords) /\ (\A ch \in Channels : conf[ch] = 1000)
           => read.confidence = 1000
  <2>1. ReadingOf(mode, code, conf, read)
    BY <1>2, <1>3, <1>4, ColourReading, Zenon
  <2>2. QED
    BY <2>1 DEF ReadingOf
<1>6. QED
  BY <1>2, <1>5

(* A solid colour from about the middle is doubted.                        *)
LEMMA MiddlingIsDoubted ==
  ASSUME NEW s \in Shots, NEW mode \in ColourModes,
         Clear(s.exposure, mode), Cardinality(s.smudge.patches) <= 1,
         s.smudge.paint.kind = "solid", Middling(s.exposure, s.smudge.paint.rgb)
  PROVE  demodulate(Cal(s), mode, Exposed(s.exposure, s.smudge.paint.rgb)).confidence < 280
<1> DEFINE cal == Cal(s)
           rgb == Exposed(s.exposure, s.smudge.paint.rgb)
           ch == 1
<1>0. ch \in Channels
  BY DEF Channels
<1>1. PICK c \in Colour : c = s.smudge.paint.rgb
  BY ShotAssumption DEF Colour
<1>2. rgb \in Colour
  BY <1>0, <1>1, LightIs
<1>3. PICK dark \in Int, bright \in Int :
        dark = Dark(s.exposure)[ch] /\ bright = Bright(s.exposure)[ch]
  <2>1. Dark(s.exposure)[ch] \in Int /\ Bright(s.exposure)[ch] \in Int
    BY <1>0, LevelsOfLight, Zenon
  <2>2. QED
    BY <2>1
<1>4. PICK x \in dark .. bright : x = rgb[ch]
  BY <1>0, <1>1, <1>3, LightIs
<1>5. Measured(cal)
  BY ChannelScale DEF Measured
<1>6. PICK lo \in Int, hi \in Int : lo = cal.low[ch] /\ hi = cal.high[ch]
  BY <1>0, <1>5 DEF Measured
<1>7. bright - dark >= 20
  BY <1>0, <1>3 DEF Clear, Gap, ColourModes
<1>8. PICK shade \in dark .. bright :
        /\ Scale(lo, hi, dark, bright, shade)
        /\ shade = x \/ (lo = 16 * dark /\ hi = 16 * bright)
  <2>1. \E shade \in dark .. bright :
          /\ Scale(lo, hi, dark, bright, shade)
          /\ s.smudge.paint.kind = "solid" =>
               \/ shade = Exposed(s.exposure, s.smudge.paint.rgb)[ch]
               \/ lo = 16 * dark /\ hi = 16 * bright
    BY <1>0, <1>3, <1>6, ChannelScale
  <2>2. QED
    BY <1>4, <2>1
<1>9. 8 * Abs((2 * x) - (dark + bright)) <= bright - dark
  BY <1>0, <1>3, <1>4 DEF Middling, Gap
<1>10. ChannelReading(lo, hi, x).confidence < 280
  <2>1. shade \in Int /\ x \in Int
    OBVIOUS
  <2>2. QED
    BY <1>7, <1>8, <1>9, <2>1, MiddlingChannel
<1>11. channel_bit(cal, ch, rgb[ch]).confidence < 280
  BY <1>4, <1>6, <1>10, Zenon DEF channel_bit, ChannelReading
<1> HIDE DEF cal, rgb
<1>12. PICK read : read = demodulate(cal, mode, rgb)
  OBVIOUS
<1>13. /\ read.confidence \in 0 .. 1000
       /\ \A k \in Channels : read.confidence <= channel_bit(cal, k, rgb[k]).confidence
  BY <1>2, <1>5, <1>12, AnyColourIsRead
<1>14. channel_bit(cal, ch, rgb[ch]).confidence \in Int
  <2>1. x \in Int
    OBVIOUS
  <2>2. ChannelReading(lo, hi, x).confidence \in 0 .. 1000
    BY <2>1, ChannelReadings
  <2>3. channel_bit(cal, ch, rgb[ch]) = ChannelReading(lo, hi, x)
    BY <1>4, <1>6, Zenon DEF channel_bit, ChannelReading, cal, rgb
  <2>4. QED
    BY <2>2, <2>3
<1>15. read.confidence < 280
  BY <1>0, <1>11, <1>13, <1>14
<1>16. QED
  BY <1>12, <1>15 DEF cal, rgb

----------------------------------------------------------------------------
(* A cell of the header, or of a mono frame: its luma lies between that of *)
(* the black and the white patch.                                          *)
LEMMA LumaReadings ==
  ASSUME NEW cal, NEW rgb \in Colour, NEW read, NEW lo \in Int, NEW hi \in Int,
         read = demodulate(cal, "Mono", rgb), lo = cal.luma_low, hi = cal.luma_high
  PROVE  /\ read.value = LumaReading(lo, hi, luma(rgb)).bit
         /\ read.confidence = LumaReading(lo, hi, luma(rgb)).confidence
         /\ read.value \in 0 .. 1 /\ read.confidence \in 0 .. 1000
         /\ hi - lo <= LumaRoom => read.confidence = 0
<1>1. PICK value \in Int : value = luma(rgb)
  <2>1. luma(rgb) \in Nat
    BY LevelsAre, Zenon
  <2>2. luma(rgb) \in Int
    BY <2>1
  <2>3. QED
    BY <2>2
<1>2. luma_bit(cal, rgb) = LumaReading(lo, hi, value)
  BY <1>1, ZenonT(60) DEF luma_bit, LumaReading
<1>3. read.value = LumaReading(lo, hi, value).bit
        /\ read.confidence = LumaReading(lo, hi, value).confidence
  BY <1>2 DEF demodulate
<1>4. LumaIsSome(LumaReading(lo, hi, value), hi - lo)
  BY LumaReadingIs, Zenon
<1>5. QED
  BY <1>1, <1>3, <1>4 DEF LumaIsSome

(* Black and white, and what covers a cell, as numbers.                    *)
LEMMA LumaIs ==
  ASSUME NEW c \in Colour
  PROVE  luma(c) = (299 * c[1]) + (587 * c[2]) + (114 * c[3])
BY DEF luma

LEMMA ExtremesOfLight ==
  ASSUME NEW s \in Shots
  PROVE  /\ Dark(s.exposure) \in Colour /\ Bright(s.exposure) \in Colour
         /\ Seen(s, FALSE, BLACK) = Dark(s.exposure)
         /\ Seen(s, FALSE, WHITE) = Bright(s.exposure)
<1>1. color_of(0) = <<0, 0, 0>> /\ color_of(7) = <<255, 255, 255>>
  BY CodesAre, Zenon DEF color_of
<1>2. color_of(0) \in Colour /\ color_of(7) \in Colour /\ 1 \in Channels
  BY ColoursAre, CodesAre DEF Channels
<1>3. /\ Seen(s, FALSE, BLACK) = Exposed(s.exposure, color_of(0))
      /\ Seen(s, FALSE, WHITE) = Exposed(s.exposure, color_of(7))
  BY DEF Seen, BLACK, WHITE
<1>4. /\ Exposed(s.exposure, color_of(0)) = Dark(s.exposure)
      /\ Exposed(s.exposure, color_of(7)) = Bright(s.exposure)
  BY <1>1, Zenon DEF Dark, Bright
<1>5. /\ Exposed(s.exposure, color_of(0)) \in Colour
      /\ Exposed(s.exposure, color_of(7)) \in Colour
  BY <1>2, LightIs, Zenon
<1>6. QED
  BY <1>3, <1>4, <1>5, Zenon

LEMMA LumaScale ==
  ASSUME NEW s \in Shots, s.smudge.patches \cap {BLACK, WHITE} = {}
  PROVE  /\ Cal(s).luma_low = 4 * luma(Dark(s.exposure))
         /\ Cal(s).luma_high = 4 * luma(Bright(s.exposure))
<1>1. 0 \notin s.smudge.patches /\ 7 \notin s.smudge.patches
  BY DEF BLACK, WHITE
<1>2. Patches(s)[0] = Seen(s, FALSE, 0) /\ Patches(s)[7] = Seen(s, FALSE, 7)
  BY <1>1, CodesAre, PatchIs, Zenon
<1>3. QED
  BY <1>2, CalIs, ExtremesOfLight, Zenon DEF BLACK, WHITE

LEMMA LumaIsRead ==
  ASSUME NEW s \in Shots, Clear(s.exposure, "Mono"), s.smudge.patches \cap {BLACK, WHITE} = {}
  PROVE  /\ demodulate(Cal(s), "Mono", Dark(s.exposure)).value = 0
         /\ demodulate(Cal(s), "Mono", Dark(s.exposure)).confidence = 1000
         /\ demodulate(Cal(s), "Mono", Bright(s.exposure)).value = 1
         /\ demodulate(Cal(s), "Mono", Bright(s.exposure)).confidence = 1000
<1>1. PICK dark \in Colour, bright \in Colour :
        dark = Dark(s.exposure) /\ bright = Bright(s.exposure)
  BY ExtremesOfLight
<1>2. luma(dark) \in Nat /\ luma(bright) \in Nat
  BY LevelsAre
<1>3. PICK d \in Int, b \in Int : d = luma(dark) /\ b = luma(bright)
  BY <1>2
<1>4. b - d >= 20000
  BY <1>1, <1>3 DEF Clear
<1>5. PICK lo \in Int, hi \in Int : lo = 4 * d /\ hi = 4 * b
  OBVIOUS
<1>6. lo = Cal(s).luma_low /\ hi = Cal(s).luma_high
  BY <1>1, <1>3, <1>5, LumaScale
<1>7. PICK read, seen : /\ read = demodulate(Cal(s), "Mono", dark)
                        /\ seen = demodulate(Cal(s), "Mono", bright)
  OBVIOUS
<1>8. read.value = 0 /\ read.confidence = 1000
  <2>1. (lo + hi) - (8 * d) >= hi - lo /\ hi - lo > LumaRoom
    BY <1>4, <1>5 DEF LumaRoom
  <2>2. LumaReading(lo, hi, d).bit = 0 /\ LumaReading(lo, hi, d).confidence = 1000
    BY <2>1, LumaAtTheEnds
  <2>3. /\ read.value = LumaReading(lo, hi, luma(dark)).bit
        /\ read.confidence = LumaReading(lo, hi, luma(dark)).confidence
    BY <1>6, <1>7, LumaReadings
  <2>4. QED
    BY <1>3, <2>2, <2>3
<1>9. seen.value = 1 /\ seen.confidence = 1000
  <2>1. (8 * b) - (lo + hi) >= hi - lo /\ hi - lo > LumaRoom
    BY <1>4, <1>5 DEF LumaRoom
  <2>2. LumaReading(lo, hi, b).bit = 1 /\ LumaReading(lo, hi, b).confidence = 1000
    BY <2>1, LumaAtTheEnds
  <2>3. /\ seen.value = LumaReading(lo, hi, luma(bright)).bit
        /\ seen.confidence = LumaReading(lo, hi, luma(bright)).confidence
    BY <1>6, <1>7, LumaReadings
  <2>4. QED
    BY <1>3, <2>2, <2>3
<1>10. QED
  BY <1>1, <1>7, <1>8, <1>9

LEMMA MiddlingLumaIsDoubted ==
  ASSUME NEW s \in Shots, Clear(s.exposure, "Mono"), s.smudge.patches \cap {BLACK, WHITE} = {},
         s.smudge.paint.kind = "solid", Middling(s.exposure, s.smudge.paint.rgb)
  PROVE  demodulate(Cal(s), "Mono", Exposed(s.exposure, s.smudge.paint.rgb)).confidence < 280
<1> DEFINE dark == Dark(s.exposure)
           bright == Bright(s.exposure)
           rgb == Exposed(s.exposure, s.smudge.paint.rgb)
<1>1. dark \in Colour /\ bright \in Colour /\ rgb \in Colour
  <2>1. s.smudge.paint.rgb \in Colour /\ 1 \in Channels
    <3>1. s.smudge.paint.rgb \in Colour
      BY ShotAssumption, ZenonT(60) DEF Colour
    <3>2. QED
      BY <3>1 DEF Channels
  <2>2. QED
    BY <2>1, LightIs, ExtremesOfLight, Zenon
<1>2. ASSUME NEW ch \in Channels
      PROVE  8 * Abs((2 * rgb[ch]) - (dark[ch] + bright[ch])) <= bright[ch] - dark[ch]
  BY DEF Middling, Gap
<1>3. luma(bright) - luma(dark) >= 20000
  BY DEF Clear
<1>4. PICK lo, hi : lo = Cal(s).luma_low /\ hi = Cal(s).luma_high
  OBVIOUS
<1>5. lo = 4 * luma(dark) /\ hi = 4 * luma(bright)
  BY <1>4, LumaScale
<1> HIDE DEF dark, bright, rgb
<1>6. /\ luma(dark) = (299 * dark[1]) + (587 * dark[2]) + (114 * dark[3])
      /\ luma(bright) = (299 * bright[1]) + (587 * bright[2]) + (114 * bright[3])
      /\ luma(rgb) = (299 * rgb[1]) + (587 * rgb[2]) + (114 * rgb[3])
  BY <1>1, LumaIs
<1>7. PICK d1 \in Int, d2 \in Int, d3 \in Int : d1 = dark[1] /\ d2 = dark[2] /\ d3 = dark[3]
  BY <1>1, LevelsAre, Zenon
<1>8. PICK b1 \in Int, b2 \in Int, b3 \in Int : b1 = bright[1] /\ b2 = bright[2] /\ b3 = bright[3]
  BY <1>1, LevelsAre, Zenon
<1>9. PICK x1 \in Int, x2 \in Int, x3 \in Int : x1 = rgb[1] /\ x2 = rgb[2] /\ x3 = rgb[3]
  BY <1>1, LevelsAre, Zenon
<1>10. PICK d \in Int, b \in Int, x \in Int : d = luma(dark) /\ b = luma(bright) /\ x = luma(rgb)
  <2>1. luma(dark) \in Int /\ luma(bright) \in Int /\ luma(rgb) \in Int
    BY <1>1, LevelsAre
  <2>2. QED
    BY <2>1
<1>11. /\ 8 * Abs((2 * x1) - (d1 + b1)) <= b1 - d1
       /\ 8 * Abs((2 * x2) - (d2 + b2)) <= b2 - d2
       /\ 8 * Abs((2 * x3) - (d3 + b3)) <= b3 - d3
  <2>1. 1 \in Channels /\ 2 \in Channels /\ 3 \in Channels
    BY DEF Channels
  <2>2. QED
    BY <1>2, <1>7, <1>8, <1>9, <2>1
<1>12. /\ d = (299 * d1) + (587 * d2) + (114 * d3)
       /\ b = (299 * b1) + (587 * b2) + (114 * b3)
       /\ x = (299 * x1) + (587 * x2) + (114 * x3)
  BY <1>6, <1>7, <1>8, <1>9, <1>10
<1>13. PICK off \in Int : off = (8 * x) - ((4 * d) + (4 * b))
  <2>1. (8 * x) - ((4 * d) + (4 * b)) \in Int
    OBVIOUS
  <2>2. QED
    BY <2>1, Zenon
<1>14. 8 * Abs(off) <= 4 * (b - d)
  <2>2. /\ 8 * ((2 * x1) - (d1 + b1)) <= b1 - d1 /\ 8 * ((d1 + b1) - (2 * x1)) <= b1 - d1
        /\ 8 * ((2 * x2) - (d2 + b2)) <= b2 - d2 /\ 8 * ((d2 + b2) - (2 * x2)) <= b2 - d2
        /\ 8 * ((2 * x3) - (d3 + b3)) <= b3 - d3 /\ 8 * ((d3 + b3) - (2 * x3)) <= b3 - d3
    BY <1>11 DEF Abs
  <2>3. 8 * off <= 4 * (b - d) /\ 8 * (-off) <= 4 * (b - d)
    BY <1>12, <1>13, <2>2
  <2>4. QED
    BY <2>3 DEF Abs
<1>15. b - d >= 20000
  BY <1>3, <1>10
<1>16. PICK low \in Int, high \in Int : low = 4 * d /\ high = 4 * b
  OBVIOUS
<1>17. low = Cal(s).luma_low /\ high = Cal(s).luma_high
  BY <1>4, <1>5, <1>10, <1>16
<1>18. LumaReading(low, high, x).confidence < 280
  <2>1. off = (8 * x) - (low + high) /\ high - low > LumaRoom
    BY <1>13, <1>15, <1>16 DEF LumaRoom
  <2>2. Abs(off) * 1000 < 280 * (high - low)
    BY <1>14, <1>15, <1>16 DEF Abs
  <2>3. LumaSays(LumaReading(low, high, x), off, high - low)
    BY <2>1, LumaDecided, Zenon
  <2>4. QED
    BY <2>1, <2>2, <2>3 DEF LumaSays
<1>19. PICK read : read = demodulate(Cal(s), "Mono", rgb)
  OBVIOUS
<1>20. read.confidence = LumaReading(low, high, luma(rgb)).confidence
  BY <1>1, <1>17, <1>19, LumaReadings
<1>21. QED
  BY <1>10, <1>18, <1>19, <1>20 DEF rgb

----------------------------------------------------------------------------
(* Bits.  Digit k of a number, the lowest first; and the sum that makes    *)
(* one value of a stream that is cut anew.                                 *)
Digit(x, k) == (x \div Power2[k]) % 2
Piece(values, from, to, i) ==
  LET bit(b) == IF b > to THEN 0
                ELSE Bit(values, from, (to * (i - 1)) + b - 1) * Power2[to - b + 1]
  IN bit(1) + bit(2) + bit(3) + bit(4) + bit(5) + bit(6) + bit(7) + bit(8)

LEMMA RecutIs ==
  ASSUME NEW values, NEW from, NEW to, NEW count \in Nat
  PROVE  /\ \A i \in 1 .. count : Recut(values, from, to, count)[i] = Piece(values, from, to, i)
         /\ DOMAIN Recut(values, from, to, count) = 1 .. count
<1> DEFINE f == [i \in 1 .. count |-> Piece(values, from, to, i)]
<1>1. Recut(values, from, to, count) = Tuple(f)
  BY Zenon DEF Recut, Piece
<1>2. f = [i \in 1 .. count |-> f[i]]
  BY Zenon
<1>3. DOMAIN f = 1 .. count /\ \A i \in 1 .. count : f[i] = Piece(values, from, to, i)
  BY Zenon
<1> HIDE DEF f
<1>4. Tuple(f) = f
  BY <1>2, TupleIsTheSequence
<1>5. QED
  BY <1>1, <1>3, <1>4, Zenon

LEMMA Powers ==
  /\ Power2[1] = 1 /\ Power2[2] = 2 /\ Power2[3] = 4 /\ Power2[4] = 8
  /\ Power2[5] = 16 /\ Power2[6] = 32 /\ Power2[7] = 64 /\ Power2[8] = 128
BY DEF Power2

LEMMA DigitIs ==
  ASSUME NEW x \in Nat, NEW k \in 1 .. 8
  PROVE  Digit(x, k) \in 0 .. 1
<1>1. k = 1 \/ k = 2 \/ k = 3 \/ k = 4 \/ k = 5 \/ k = 6 \/ k = 7 \/ k = 8
  OBVIOUS
<1>2. PICK p \in Nat \ {0} : p = Power2[k]
  BY <1>1, Powers
<1>3. PICK q \in Nat : q = x \div p
  BY Quotients
<1>4. Digit(x, k) = q % 2
  BY <1>2, <1>3 DEF Digit
<1>5. q % 2 \in 0 .. 1
  OBVIOUS
<1>6. QED
  BY <1>4, <1>5

(* A byte is the sum of its digits; a value of at most three bits has the  *)
(* digits it was made of.                                                  *)
LEMMA ByteIs ==
  ASSUME NEW x \in 0 .. 255
  PROVE  x = (Digit(x, 8) * 128) + (Digit(x, 7) * 64) + (Digit(x, 6) * 32) + (Digit(x, 5) * 16)
               + (Digit(x, 4) * 8) + (Digit(x, 3) * 4) + (Digit(x, 2) * 2) + Digit(x, 1)
<1>1. /\ Digit(x, 1) = x % 2 /\ Digit(x, 2) = (x \div 2) % 2
      /\ Digit(x, 3) = (x \div 4) % 2 /\ Digit(x, 4) = (x \div 8) % 2
      /\ Digit(x, 5) = (x \div 16) % 2 /\ Digit(x, 6) = (x \div 32) % 2
      /\ Digit(x, 7) = (x \div 64) % 2 /\ Digit(x, 8) = (x \div 128) % 2
  BY Powers DEF Digit
<1>2. PICK a \in 0 .. 127, b \in 0 .. 63, c \in 0 .. 31, d \in 0 .. 15,
           e \in 0 .. 7, f \in 0 .. 3, g \in 0 .. 1 :
        /\ a = x \div 2 /\ b = x \div 4 /\ c = x \div 8 /\ d = x \div 16
        /\ e = x \div 32 /\ f = x \div 64 /\ g = x \div 128
  <2>1. /\ x \div 2 \in 0 .. 127 /\ x \div 4 \in 0 .. 63 /\ x \div 8 \in 0 .. 31
        /\ x \div 16 \in 0 .. 15 /\ x \div 32 \in 0 .. 7 /\ x \div 64 \in 0 .. 3
        /\ x \div 128 \in 0 .. 1
    OBVIOUS
  <2>2. QED
    BY <2>1, Zenon
<1>3. /\ x = (2 * a) + (x % 2) /\ a = (2 * b) + (a % 2) /\ b = (2 * c) + (b % 2)
      /\ c = (2 * d) + (c % 2)
  BY <1>2
<1>4. /\ d = (2 * e) + (d % 2) /\ e = (2 * f) + (e % 2) /\ f = (2 * g) + (f % 2)
      /\ g = g % 2
  BY <1>2
<1>5. /\ Digit(x, 1) = x % 2 /\ Digit(x, 2) = a % 2 /\ Digit(x, 3) = b % 2
      /\ Digit(x, 4) = c % 2 /\ Digit(x, 5) = d % 2 /\ Digit(x, 6) = e % 2
      /\ Digit(x, 7) = f % 2 /\ Digit(x, 8) = g % 2
  BY <1>1, <1>2, Zenon
<1>6. QED
  BY <1>3, <1>4, <1>5

LEMMA SmallValues ==
  ASSUME NEW a \in 0 .. 1, NEW b \in 0 .. 1, NEW c \in 0 .. 1
  PROVE  /\ Digit(c, 1) = c
         /\ Digit((2 * b) + c, 1) = c /\ Digit((2 * b) + c, 2) = b
         /\ Digit((4 * a) + (2 * b) + c, 1) = c
         /\ Digit((4 * a) + (2 * b) + c, 2) = b
         /\ Digit((4 * a) + (2 * b) + c, 3) = a
BY Powers DEF Digit

(* Bit `pos` of a stream is a digit of one of its values.                  *)
Widths == {1, 2, 3, 8}

LEMMA Places ==
  ASSUME NEW width \in Widths, NEW i \in Nat, NEW b \in 1 .. width
  PROVE  /\ ((width * i) + b - 1) \div width = i
         /\ ((width * i) + b - 1) % width = b - 1
<1>1. width = 1 \/ width = 2 \/ width = 3 \/ width = 8
  BY DEF Widths
<1>2. CASE width = 1
  BY <1>2
<1>3. CASE width = 2
  BY <1>3
<1>4. CASE width = 3
  BY <1>4
<1>5. CASE width = 8
  BY <1>5
<1>6. QED
  BY <1>1, <1>2, <1>3, <1>4, <1>5

LEMMA PlaceIs ==
  ASSUME NEW width \in Widths, NEW pos \in Nat
  PROVE  \E i \in Nat, b \in 1 .. width :
           pos = (width * i) + b - 1 /\ pos \div width = i /\ pos % width = b - 1
<1>1. width = 1 \/ width = 2 \/ width = 3 \/ width = 8
  BY DEF Widths
<1>2. pos \div width \in Nat /\ pos % width \in 0 .. width - 1
        /\ pos = (width * (pos \div width)) + (pos % width)
  <2>1. CASE width = 1
    BY <2>1
  <2>2. CASE width = 2
    BY <2>2
  <2>3. CASE width = 3
    BY <2>3
  <2>4. CASE width = 8
    BY <2>4
  <2>5. QED
    BY <1>1, <2>1, <2>2, <2>3, <2>4
<1>3. PICK i \in Nat, r \in 0 .. width - 1 : i = pos \div width /\ r = pos % width
  BY <1>2
<1>4. PICK b \in 1 .. width : b = r + 1
  BY <1>1
<1>5. PICK m \in Int : m = width * i
  BY <1>1
<1>6. pos = m + r
  BY <1>2, <1>3, <1>5
<1>7. pos = m + b - 1 /\ r = b - 1
  BY <1>4, <1>6
<1>8. QED
  BY <1>3, <1>5, <1>7

LEMMA BitIs ==
  ASSUME NEW width \in Widths, NEW values \in Seq(Nat), NEW i \in 0 .. Len(values) - 1,
         NEW b \in 1 .. width
  PROVE  /\ Bit(values, width, (width * i) + b - 1) = Digit(values[i + 1], width - (b - 1))
         /\ Bit(values, width, (width * i) + b - 1) \in 0 .. 1
<1> DEFINE pos == (width * i) + b - 1
<1>1. i \in Nat /\ width \in 1 .. 8 /\ Len(values) \in Nat
  BY DEF Widths
<1>2. pos \div width = i /\ pos % width = b - 1
  BY <1>1, Places
<1>3. ~(pos >= Len(values) * width)
  <2>1. width = 1 \/ width = 2 \/ width = 3 \/ width = 8
    BY DEF Widths
  <2>2. QED
    BY <1>1, <2>1
<1> HIDE DEF pos
<1>4. Bit(values, width, pos) = Digit(values[i + 1], width - (b - 1))
  BY <1>2, <1>3, Zenon DEF Bit, Digit
<1>5. values[i + 1] \in Nat /\ width - (b - 1) \in 1 .. 8
  BY <1>1
<1>6. Digit(values[i + 1], width - (b - 1)) \in 0 .. 1
  BY <1>5, DigitIs
<1>7. QED
  BY <1>4, <1>6 DEF pos

LEMMA AnyBit ==
  ASSUME NEW bytes \in Seq(Nat), NEW pos \in Nat
  PROVE  Bit(bytes, 8, pos) \in 0 .. 1
<1>1. CASE pos >= Len(bytes) * 8
  BY <1>1 DEF Bit
<1>2. CASE ~(pos >= Len(bytes) * 8)
  <2>1. 8 \in Widths
    BY DEF Widths
  <2>2. PICK i \in Nat, b \in 1 .. 8 : pos = (8 * i) + b - 1
    BY <2>1, PlaceIs
  <2>3. Len(bytes) \in Nat
    OBVIOUS
  <2>4. i \in 0 .. Len(bytes) - 1
    BY <1>2, <2>2, <2>3
  <2>5. QED
    BY <2>1, <2>2, <2>4, BitIs
<1>3. QED
  BY <1>1, <1>2

(* A value cut from bytes has the digits of its place in the stream.       *)
Cut(bytes, w, v, j) ==
  \A b \in 1 .. w : \A pos \in Nat :
    pos = (w * (j - 1)) + b - 1 => Digit(v, w - (b - 1)) = Bit(bytes, 8, pos)

LEMMA UnpackedIs ==
  ASSUME NEW bytes \in Seq(Nat), NEW w \in 1 .. 3, NEW n \in Nat, NEW j \in 1 .. n
  PROVE  /\ unpack_bits(bytes, w, n)[j] \in 0 .. Power2[w + 1] - 1
         /\ Cut(bytes, w, unpack_bits(bytes, w, n)[j], j)
<1> DEFINE v == unpack_bits(bytes, w, n)[j]
<1>0. PICK i \in Nat : j = i + 1 /\ j - 1 = i
  <2>1. j - 1 \in Nat /\ j = (j - 1) + 1
    OBVIOUS
  <2>2. QED
    BY <2>1, Zenon
<1>1. v = Piece(bytes, 8, w, i + 1)
  <2>1. i + 1 \in 1 .. n
    BY <1>0
  <2>2. QED
    BY <1>0, <2>1, RecutIs, Zenon DEF unpack_bits
<1> HIDE DEF v, Cut
<1>2. CASE w = 1
  <2>1. PICK x \in 0 .. 1 : x = Bit(bytes, 8, i)
    BY AnyBit
  <2>2. v = x
    BY <1>1, <1>2, <2>1, Powers DEF Piece
  <2>3. Digit(v, 1) = x
    BY <2>2, SmallValues
  <2>4. v \in 0 .. Power2[w + 1] - 1
    BY <1>2, <2>2, Powers
  <2>5. \A b \in 1 .. w : Digit(v, w - (b - 1)) = Bit(bytes, 8, (w * i) + b - 1)
    BY <1>2, <2>1, <2>3
  <2>6. QED
    BY <1>0, <2>4, <2>5 DEF v, Cut
<1>3. CASE w = 2
  <2>1. 2 * i \in Nat /\ (2 * i) + 1 \in Nat
    OBVIOUS
  <2>2. PICK x \in 0 .. 1, y \in 0 .. 1 :
          x = Bit(bytes, 8, 2 * i) /\ y = Bit(bytes, 8, (2 * i) + 1)
    BY <2>1, AnyBit
  <2>3. v = (2 * x) + y
    <3>1. /\ (w * ((i + 1) - 1)) + 1 - 1 = 2 * i
          /\ (w * ((i + 1) - 1)) + 2 - 1 = (2 * i) + 1
      BY <1>3
    <3>2. v = (Bit(bytes, 8, (w * ((i + 1) - 1)) + 1 - 1) * Power2[2])
                + (Bit(bytes, 8, (w * ((i + 1) - 1)) + 2 - 1) * Power2[1]) + 0 + 0 + 0 + 0 + 0 + 0
      BY <1>1, <1>3 DEF Piece
    <3>3. /\ Bit(bytes, 8, (w * ((i + 1) - 1)) + 1 - 1) = x
          /\ Bit(bytes, 8, (w * ((i + 1) - 1)) + 2 - 1) = y
      BY <2>2, <3>1, Zenon
    <3>4. v = (x * 2) + (y * 1) + 0 + 0 + 0 + 0 + 0 + 0
      BY <3>2, <3>3, Powers, Zenon
    <3>5. QED
      BY <3>4
  <2>4. Digit(v, 2) = x /\ Digit(v, 1) = y
    BY <2>3, SmallValues
  <2>5. v \in 0 .. Power2[w + 1] - 1
    BY <1>3, <2>3, Powers
  <2>6. ASSUME NEW b \in 1 .. w PROVE Digit(v, w - (b - 1)) = Bit(bytes, 8, (w * i) + b - 1)
    <3>1. (b = 1 \/ b = 2) /\ w * i = 2 * i
      BY <1>3
    <3>2. b = 1 => w - (b - 1) = 2 /\ (w * i) + b - 1 = 2 * i
      BY <1>3, <3>1
    <3>3. b = 2 => w - (b - 1) = 1 /\ (w * i) + b - 1 = (2 * i) + 1
      BY <1>3, <3>1
    <3>4. QED
      BY <2>2, <2>4, <3>1, <3>2, <3>3, Zenon
  <2>7. QED
    BY <1>0, <2>5, <2>6 DEF v, Cut
<1>4. CASE w = 3
  <2>1. 3 * i \in Nat /\ (3 * i) + 1 \in Nat /\ (3 * i) + 2 \in Nat
    OBVIOUS
  <2>2. PICK x \in 0 .. 1, y \in 0 .. 1, z \in 0 .. 1 :
          /\ x = Bit(bytes, 8, 3 * i) /\ y = Bit(bytes, 8, (3 * i) + 1)
          /\ z = Bit(bytes, 8, (3 * i) + 2)
    BY <2>1, AnyBit
  <2>3. v = (4 * x) + (2 * y) + z
    <3>1. /\ (w * ((i + 1) - 1)) + 1 - 1 = 3 * i
          /\ (w * ((i + 1) - 1)) + 2 - 1 = (3 * i) + 1
          /\ (w * ((i + 1) - 1)) + 3 - 1 = (3 * i) + 2
      BY <1>4
    <3>2. v = (Bit(bytes, 8, (w * ((i + 1) - 1)) + 1 - 1) * Power2[3])
                + (Bit(bytes, 8, (w * ((i + 1) - 1)) + 2 - 1) * Power2[2])
                + (Bit(bytes, 8, (w * ((i + 1) - 1)) + 3 - 1) * Power2[1]) + 0 + 0 + 0 + 0 + 0
      BY <1>1, <1>4 DEF Piece
    <3>3. /\ Bit(bytes, 8, (w * ((i + 1) - 1)) + 1 - 1) = x
          /\ Bit(bytes, 8, (w * ((i + 1) - 1)) + 2 - 1) = y
          /\ Bit(bytes, 8, (w * ((i + 1) - 1)) + 3 - 1) = z
      BY <2>2, <3>1, Zenon
    <3>4. v = (x * 4) + (y * 2) + (z * 1) + 0 + 0 + 0 + 0 + 0
      BY <3>2, <3>3, Powers, Zenon
    <3>5. QED
      BY <3>4
  <2>4. Digit(v, 3) = x /\ Digit(v, 2) = y /\ Digit(v, 1) = z
    BY <2>3, SmallValues
  <2>5. v \in 0 .. Power2[w + 1] - 1
    BY <1>4, <2>3, Powers
  <2>6. ASSUME NEW b \in 1 .. w PROVE Digit(v, w - (b - 1)) = Bit(bytes, 8, (w * i) + b - 1)
    <3>1. (b = 1 \/ b = 2 \/ b = 3) /\ w * i = 3 * i
      BY <1>4
    <3>2. b = 1 => w - (b - 1) = 3 /\ (w * i) + b - 1 = 3 * i
      BY <1>4, <3>1
    <3>3. b = 2 => w - (b - 1) = 2 /\ (w * i) + b - 1 = (3 * i) + 1
      BY <1>4, <3>1
    <3>4. b = 3 => w - (b - 1) = 1 /\ (w * i) + b - 1 = (3 * i) + 2
      BY <1>4, <3>1
    <3>5. QED
      BY <2>2, <2>4, <3>1, <3>2, <3>3, <3>4, Zenon
  <2>7. QED
    BY <1>0, <2>5, <2>6 DEF v, Cut
<1>5. QED
  BY <1>2, <1>3, <1>4

LEMMA BytesAreNumbers ==
  ASSUME NEW bytes \in Seq(0 .. 255)
  PROVE  bytes \in Seq(Nat)
<1>1. 0 .. 255 \subseteq Nat
  OBVIOUS
<1>2. QED
  BY <1>1, SeqMonotonic

(* A byte whose cells are read as they were sent is read as it was sent.   *)
LEMMA PackedIs ==
  ASSUME NEW bytes \in Seq(0 .. 255), NEW w \in 1 .. 3, NEW n \in Nat, NEW values \in Seq(Nat),
         Len(values) = n, NEW k \in Nat, NEW s \in 1 .. k, s <= Len(bytes), 8 * s <= w * n,
         \A c \in (8 * (s - 1)) \div w .. ((8 * s) - 1) \div w :
           values[c + 1] = unpack_bits(bytes, w, n)[c + 1]
  PROVE  pack_bits(values, w, k)[s] = bytes[s]
<1>1. /\ bytes \in Seq(Nat) /\ Len(bytes) \in Nat /\ w \in Widths
      /\ \A i \in 1 .. Len(bytes) : bytes[i] \in 0 .. 255
  <2>1. w \in Widths
    BY DEF Widths
  <2>2. Len(bytes) \in Nat /\ \A i \in 1 .. Len(bytes) : bytes[i] \in 0 .. 255
    BY SequencesHold, Zenon
  <2>3. bytes \in Seq(Nat)
    BY BytesAreNumbers
  <2>4. QED
    BY <2>1, <2>2, <2>3
<1>2. ASSUME NEW b \in 1 .. 8
      PROVE  Bit(values, w, (8 * (s - 1)) + b - 1) = Digit(bytes[s], 8 - (b - 1))
  <2>1. PICK pos \in Nat : pos = (8 * (s - 1)) + b - 1
    OBVIOUS
  <2>2. PICK c \in Nat, d \in 1 .. w : pos = (w * c) + d - 1 /\ pos \div w = c
    BY <1>1, PlaceIs
  <2>3. c < n /\ c \in (8 * (s - 1)) \div w .. ((8 * s) - 1) \div w
    <3>1. w = 1 \/ w = 2 \/ w = 3
      OBVIOUS
    <3>2. pos \in 8 * (s - 1) .. (8 * s) - 1 /\ pos < w * n
      BY <2>1
    <3>3. CASE w = 1
      BY <2>2, <3>2, <3>3
    <3>4. CASE w = 2
      BY <2>2, <3>2, <3>4
    <3>5. CASE w = 3
      BY <2>2, <3>2, <3>5
    <3>6. QED
      BY <3>1, <3>3, <3>4, <3>5
  <2>4. c \in 0 .. Len(values) - 1
    BY <2>3
  <2>5. Bit(values, w, pos) = Digit(values[c + 1], w - (d - 1))
    BY <1>1, <2>2, <2>4, BitIs
  <2>6. values[c + 1] = unpack_bits(bytes, w, n)[c + 1]
    BY <2>3
  <2>7. Digit(unpack_bits(bytes, w, n)[c + 1], w - (d - 1)) = Bit(bytes, 8, pos)
    <3>1. PICK j \in 1 .. n : j = c + 1
      BY <2>3
    <3>2. pos = (w * (j - 1)) + d - 1
      BY <2>2, <3>1
    <3>3. Cut(bytes, w, unpack_bits(bytes, w, n)[j], j)
      BY <1>1, <3>1, UnpackedIs
    <3>4. Digit(unpack_bits(bytes, w, n)[j], w - (d - 1)) = Bit(bytes, 8, pos)
      BY <3>2, <3>3, Zenon DEF Cut
    <3>5. QED
      BY <3>1, <3>4
  <2>8. Bit(bytes, 8, pos) = Digit(bytes[s], 8 - (b - 1))
    <3>1. PICK i \in 0 .. Len(bytes) - 1 : i = s - 1
      BY <1>1
    <3>2. 8 \in Widths
      BY DEF Widths
    <3>3. PICK e \in Widths : e = 8
      BY <3>2
    <3>4. Bit(bytes, e, (e * i) + b - 1) = Digit(bytes[i + 1], e - (b - 1))
      BY <1>1, <3>1, <3>3, BitIs
    <3>5. i + 1 = s
      BY <3>1
    <3>6. QED
      BY <2>1, <3>1, <3>3, <3>4, <3>5
  <2>9. QED
    BY <2>1, <2>5, <2>6, <2>7, <2>8
<1>3. pack_bits(values, w, k)[s] = Piece(values, w, 8, s)
  BY RecutIs DEF pack_bits
<1>4. bytes[s] \in 0 .. 255
  BY <1>1
<1>5. PICK x \in 0 .. 255 : x = bytes[s]
  BY <1>4
<1> DEFINE bit(b) == Bit(values, w, (8 * (s - 1)) + b - 1)
<1> DEFINE term(b) == IF b > 8 THEN 0 ELSE bit(b) * Power2[8 - b + 1]
<1>6. Piece(values, w, 8, s)
        = (bit(1) * 128) + (bit(2) * 64) + (bit(3) * 32) + (bit(4) * 16)
            + (bit(5) * 8) + (bit(6) * 4) + (bit(7) * 2) + (bit(8) * 1)
  <2>1. Piece(values, w, 8, s)
          = term(1) + term(2) + term(3) + term(4) + term(5) + term(6) + term(7) + term(8)
    BY Zenon DEF Piece
  <2> HIDE DEF bit
  <2>2. \A b \in 1 .. 8 : term(b) = bit(b) * Power2[9 - b]
    <3>1. ASSUME NEW b \in 1 .. 8 PROVE ~(b > 8) /\ (8 - b) + 1 = 9 - b
      OBVIOUS
    <3>2. QED
      BY <3>1, Zenon
  <2>3. /\ 9 - 1 = 8 /\ 9 - 2 = 7 /\ 9 - 3 = 6 /\ 9 - 4 = 5
        /\ 9 - 5 = 4 /\ 9 - 6 = 3 /\ 9 - 7 = 2 /\ 9 - 8 = 1
        /\ 1 \in 1 .. 8 /\ 2 \in 1 .. 8 /\ 3 \in 1 .. 8 /\ 4 \in 1 .. 8
        /\ 5 \in 1 .. 8 /\ 6 \in 1 .. 8 /\ 7 \in 1 .. 8 /\ 8 \in 1 .. 8
    OBVIOUS
  <2> HIDE DEF term
  <2>4. /\ term(1) = bit(1) * Power2[8] /\ term(2) = bit(2) * Power2[7]
        /\ term(3) = bit(3) * Power2[6] /\ term(4) = bit(4) * Power2[5]
        /\ term(5) = bit(5) * Power2[4] /\ term(6) = bit(6) * Power2[3]
        /\ term(7) = bit(7) * Power2[2] /\ term(8) = bit(8) * Power2[1]
    BY <2>2, <2>3, Zenon
  <2>5. /\ term(1) = bit(1) * 128 /\ term(2) = bit(2) * 64 /\ term(3) = bit(3) * 32
        /\ term(4) = bit(4) * 16 /\ term(5) = bit(5) * 8 /\ term(6) = bit(6) * 4
        /\ term(7) = bit(7) * 2 /\ term(8) = bit(8) * 1
    BY <2>4, Powers, Zenon
  <2>6. QED
    BY <2>1, <2>5, Zenon
<1> HIDE DEF bit, term
<1>7. /\ bit(1) = Digit(x, 8) /\ bit(2) = Digit(x, 7) /\ bit(3) = Digit(x, 6)
      /\ bit(4) = Digit(x, 5) /\ bit(5) = Digit(x, 4) /\ bit(6) = Digit(x, 3)
      /\ bit(7) = Digit(x, 2) /\ bit(8) = Digit(x, 1)
  BY <1>2, <1>5 DEF bit
<1>8. \A j \in 1 .. 8 : Digit(x, j) \in 0 .. 1
  <2>1. x \in Nat
    OBVIOUS
  <2>2. QED
    BY <2>1, DigitIs
<1>9. x = (bit(1) * 128) + (bit(2) * 64) + (bit(3) * 32) + (bit(4) * 16)
            + (bit(5) * 8) + (bit(6) * 4) + (bit(7) * 2) + (bit(8) * 1)
  <2>1. x = (Digit(x, 8) * 128) + (Digit(x, 7) * 64) + (Digit(x, 6) * 32) + (Digit(x, 5) * 16)
              + (Digit(x, 4) * 8) + (Digit(x, 3) * 4) + (Digit(x, 2) * 2) + Digit(x, 1)
    BY ByteIs, Zenon
  <2>2. Digit(x, 1) * 1 = Digit(x, 1)
    BY <1>8
  <2>3. QED
    BY <1>7, <2>1, <2>2, Zenon
<1>10. QED
  BY <1>3, <1>5, <1>6, <1>9

----------------------------------------------------------------------------
(* A value and its colour.                                                 *)
LEMMA WidthIs ==
  ASSUME NEW s \in Shots
  PROVE  /\ bits_per_cell(s.mode) \in 1 .. 3
         /\ s.mode = "Mono" => bits_per_cell(s.mode) = 1
         /\ s.mode = "Rgb4" => bits_per_cell(s.mode) = 2
         /\ s.mode = "Rgb8" => bits_per_cell(s.mode) = 3
         /\ s.mode = "Mono" \/ s.mode \in ColourModes
<1>1. s.mode \in Modes
  BY ShotAssumption, Zenon
<1>2. s.mode = "Mono" \/ s.mode = "Rgb4" \/ s.mode = "Rgb8"
  BY <1>1 DEF Modes
<1>3. QED
  BY <1>2 DEF bits_per_cell, ColourModes

LEMMA MonoColours ==
  ASSUME NEW v \in 0 .. 1
  PROVE  /\ modulate("Mono", v) = IF v = 1 THEN WHITE ELSE BLACK
         /\ modulate("Mono", v) \in 0 .. 7
BY DEF modulate, WHITE, BLACK

LEMMA Rgb8Colours ==
  ASSUME NEW v \in 0 .. 7
  PROVE  modulate("Rgb8", v) = v
BY DEF modulate

LEMMA Rgb4Colours ==
  ASSUME NEW v \in 0 .. 3, NEW code, code = modulate("Rgb4", v)
  PROVE  code \in 0 .. 7 /\ code \in CodeWords /\ Word(code) - 1 = v
<1>1. v = 0 \/ v = 1 \/ v = 2 \/ v = 3
  OBVIOUS
<1>2. code = RGB4_CODEWORDS[v + 1]
  <2>1. code = RGB4_CODEWORDS[(v % 4) + 1]
    BY DEF modulate
  <2>2. v % 4 = v
    OBVIOUS
  <2>3. QED
    BY <2>1, <2>2, Zenon
<1>3. /\ RGB4_CODEWORDS[1] = 0 /\ RGB4_CODEWORDS[2] = 3
      /\ RGB4_CODEWORDS[3] = 5 /\ RGB4_CODEWORDS[4] = 6
  BY DEF RGB4_CODEWORDS
<1>4. code \in 0 .. 7 /\ code \in CodeWords
  BY <1>1, <1>2, <1>3 DEF CodeWords
<1>5. Word(code) \in 1 .. 4 /\ RGB4_CODEWORDS[Word(code)] = code
  BY <1>4, WordIs
<1>6. PICK j \in 1 .. 4 : j = Word(code)
  BY <1>5, Zenon
<1>7. RGB4_CODEWORDS[j] = code
  BY <1>5, <1>6, Zenon
<1>8. j = 1 \/ j = 2 \/ j = 3 \/ j = 4
  OBVIOUS
<1>9. j = v + 1
  BY <1>1, <1>2, <1>3, <1>7, <1>8
<1>10. QED
  BY <1>4, <1>6, <1>9

(* What is sent in a cell, what it shows and what is read there.           *)
DataCell(s, i) == layout(s.grid).data_cells[i]
HeaderCell(s, i) == layout(s.grid).header_cells[i]
DataCells(s) == 1 .. Len(layout(s.grid).data_cells)
DataCode(s, i) == modulate(s.mode, SentData(s)[i])
HeaderCode(s, i) == modulate("Mono", SentHeader(s)[i])
ReadData(s, i) == demodulate(Cal(s), s.mode, Picture(s)[DataCell(s, i) + 1])
ReadHeader(s, i) == demodulate(Cal(s), "Mono", Picture(s)[HeaderCell(s, i) + 1])

LEMMA SentDataIs ==
  ASSUME NEW s \in Shots, NEW i \in DataCells(s)
  PROVE  /\ SentData(s)[i] \in 0 .. Power2[bits_per_cell(s.mode) + 1] - 1
         /\ DataCode(s, i) \in 0 .. 7
         /\ s.mode = "Rgb4" => DataCode(s, i) \in CodeWords /\ Word(DataCode(s, i)) - 1 = SentData(s)[i]
         /\ s.mode = "Rgb8" => DataCode(s, i) = SentData(s)[i]
         /\ s.mode = "Mono" => /\ SentData(s)[i] \in 0 .. 1
                               /\ DataCode(s, i) = IF SentData(s)[i] = 1 THEN WHITE ELSE BLACK
<1>1. PICK w \in 1 .. 3 : w = bits_per_cell(s.mode)
  BY WidthIs
<1>2. PICK n \in Nat : n = Len(layout(s.grid).data_cells) /\ i \in 1 .. n
  BY LayoutIs, Zenon DEF DataCells
<1>3. s.symbols \in Seq(Nat)
  BY ShotAssumption, BytesAreNumbers
<1>4. PICK v : v = SentData(s)[i]
  OBVIOUS
<1>5. v \in 0 .. Power2[w + 1] - 1
  <2>1. unpack_bits(s.symbols, w, n)[i] \in 0 .. Power2[w + 1] - 1
    BY <1>2, <1>3, UnpackedIs
  <2>2. QED
    BY <1>1, <1>2, <1>4, <2>1, Zenon DEF SentData
<1>6. DataCode(s, i) = modulate(s.mode, v)
  BY <1>4, Zenon DEF DataCode
<1>7. CASE s.mode = "Mono"
  <2>1. w = 1
    BY <1>1, <1>7, WidthIs
  <2>2. v \in 0 .. 1
    BY <1>5, <2>1, Powers
  <2>3. modulate("Mono", v) = (IF v = 1 THEN WHITE ELSE BLACK) /\ modulate("Mono", v) \in 0 .. 7
    BY <2>2, MonoColours
  <2>4. QED
    BY <1>1, <1>4, <1>5, <1>6, <1>7, <2>2, <2>3
<1>8. CASE s.mode = "Rgb4"
  <2>1. w = 2
    BY <1>1, <1>8, WidthIs
  <2>2. v \in 0 .. 3
    BY <1>5, <2>1, Powers
  <2>3. PICK code : code = modulate("Rgb4", v)
    OBVIOUS
  <2>4. code \in 0 .. 7 /\ code \in CodeWords /\ Word(code) - 1 = v
    BY <2>2, <2>3, Rgb4Colours
  <2>5. QED
    BY <1>1, <1>4, <1>5, <1>6, <1>8, <2>3, <2>4
<1>9. CASE s.mode = "Rgb8"
  <2>1. w = 3
    BY <1>1, <1>9, WidthIs
  <2>2. v \in 0 .. 7
    BY <1>5, <2>1, Powers
  <2>3. modulate("Rgb8", v) = v
    BY <2>2, Rgb8Colours
  <2>4. QED
    BY <1>1, <1>4, <1>5, <1>6, <1>9, <2>2, <2>3
<1>10. QED
  BY <1>7, <1>8, <1>9, WidthIs DEF ColourModes

LEMMA SentHeaderIs ==
  ASSUME NEW s \in Shots, NEW i \in 1 .. HEADER_CELLS
  PROVE  /\ SentHeader(s)[i] \in 0 .. 1 /\ HeaderCode(s, i) \in 0 .. 7
         /\ HeaderCode(s, i) = IF SentHeader(s)[i] = 1 THEN WHITE ELSE BLACK
<1>1. PICK w \in 1 .. 3 : w = 1
  OBVIOUS
<1>2. PICK n \in Nat : n = HEADER_CELLS
  BY DEF HEADER_CELLS
<1>3. s.header \in Seq(Nat)
  BY ShotAssumption, BytesAreNumbers
<1>4. unpack_bits(s.header, w, n)[i] \in 0 .. Power2[w + 1] - 1
  BY <1>2, <1>3, UnpackedIs
<1>5. SentHeader(s)[i] = unpack_bits(s.header, w, n)[i]
  BY <1>1, <1>2, Zenon DEF SentHeader
<1>6. PICK v \in 0 .. 1 : v = SentHeader(s)[i]
  BY <1>1, <1>4, <1>5, Powers
<1>7. modulate("Mono", v) = (IF v = 1 THEN WHITE ELSE BLACK) /\ modulate("Mono", v) \in 0 .. 7
  BY MonoColours
<1>8. QED
  BY <1>6, <1>7 DEF HeaderCode

LEMMA DataCellShows ==
  ASSUME NEW s \in Shots, NEW i \in DataCells(s)
  PROVE  /\ DataCell(s, i) \in Smudged(s) =>
              Picture(s)[DataCell(s, i) + 1] = Seen(s, TRUE, DataCode(s, i))
         /\ DataCell(s, i) \notin Smudged(s) =>
              Picture(s)[DataCell(s, i) + 1] = Seen(s, FALSE, DataCode(s, i))
<1>1. DataCell(s, i) \in 0 .. Len(layout(s.grid).fixed) - 1
  BY LayoutIs, Zenon DEF DataCell, DataCells
<1>2. Picture(s)[DataCell(s, i) + 1]
        = Seen(s, DataCell(s, i) \in Smudged(s), frame(s)[DataCell(s, i) + 1])
  BY <1>1, PhotographIs, Zenon DEF Picture
<1>3. frame(s)[DataCell(s, i) + 1] = DataCode(s, i)
  BY FrameIs, Zenon DEF DataCell, DataCells, DataCode
<1>4. QED
  BY <1>2, <1>3 DEF Seen

LEMMA HeaderCellShows ==
  ASSUME NEW s \in Shots, NEW i \in 1 .. HEADER_CELLS
  PROVE  /\ HeaderCell(s, i) \in Smudged(s) =>
              Picture(s)[HeaderCell(s, i) + 1] = Seen(s, TRUE, HeaderCode(s, i))
         /\ HeaderCell(s, i) \notin Smudged(s) =>
              Picture(s)[HeaderCell(s, i) + 1] = Seen(s, FALSE, HeaderCode(s, i))
<1>1. HeaderCell(s, i) \in 0 .. Len(layout(s.grid).fixed) - 1
  BY LayoutIs, Zenon DEF HeaderCell
<1>2. Picture(s)[HeaderCell(s, i) + 1]
        = Seen(s, HeaderCell(s, i) \in Smudged(s), frame(s)[HeaderCell(s, i) + 1])
  BY <1>1, PhotographIs, Zenon DEF Picture
<1>3. frame(s)[HeaderCell(s, i) + 1] = HeaderCode(s, i)
  BY FrameIs, Zenon DEF HeaderCell, HeaderCode
<1>4. QED
  BY <1>2, <1>3 DEF Seen

(* Whatever covers the patches, what is measured are numbers, as far apart *)
(* as the exposure leaves black and white.                                 *)
LEMMA CalIsMeasured ==
  ASSUME NEW s \in Shots
  PROVE  /\ Measured(Cal(s))
         /\ \A ch \in Channels : Cal(s).high[ch] - Cal(s).low[ch] <= 16 * Gap(s.exposure, ch)
         /\ Cal(s).luma_low \in Int /\ Cal(s).luma_high \in Int
         /\ (\A ch \in Channels : Gap(s.exposure, ch) <= 1) =>
              Cal(s).luma_high - Cal(s).luma_low <= LumaRoom
<1> DEFINE P == Patches(s)
<1>1. P \in [0 .. 7 -> Colour]
  BY PatchesAre
<1>2. ASSUME NEW v \in 0 .. 7, NEW ch \in Channels
      PROVE  P[v][ch] \in Dark(s.exposure)[ch] .. Bright(s.exposure)[ch]
  BY PatchIs, SeenIsWithin
<1>3. ASSUME NEW ch \in Channels
      PROVE  /\ Cal(s).low[ch] \in Int /\ Cal(s).high[ch] \in Int
             /\ Cal(s).high[ch] - Cal(s).low[ch] <= 16 * Gap(s.exposure, ch)
  <2>1. PICK dark \in Int, bright \in Int :
          dark = Dark(s.exposure)[ch] /\ bright = Bright(s.exposure)[ch]
    <3>1. Dark(s.exposure)[ch] \in Int /\ Bright(s.exposure)[ch] \in Int
      BY LevelsOfLight
    <3>2. QED
      BY <3>1
  <2> HIDE DEF P
  <2>2. \A v \in 0 .. 7 : P[v][ch] \in dark .. bright
    BY <1>2, <2>1
  <2>3. /\ Side(P, ch, FALSE) \in 4 * dark .. 4 * bright
        /\ Side(P, ch, TRUE) \in 4 * dark .. 4 * bright
    BY <1>1, <2>2, ScaleIsWithin
  <2>4. Cal(s).low[ch] = 4 * Side(P, ch, FALSE) /\ Cal(s).high[ch] = 4 * Side(P, ch, TRUE)
    BY CalIs, Zenon DEF P
  <2>5. Gap(s.exposure, ch) = bright - dark
    BY <2>1 DEF Gap
  <2>6. PICK x \in Int, y \in Int : x = Side(P, ch, FALSE) /\ y = Side(P, ch, TRUE)
    <3>1. PICK x, y : x = Side(P, ch, FALSE) /\ y = Side(P, ch, TRUE)
      OBVIOUS
    <3>2. x \in 4 * dark .. 4 * bright /\ y \in 4 * dark .. 4 * bright
      BY <2>3, <3>1, Zenon
    <3>3. x \in Int /\ y \in Int
      BY <3>2
    <3>4. QED
      BY <3>1, <3>3, Zenon
  <2>7. x >= 4 * dark /\ y <= 4 * bright
    <3>1. x \in 4 * dark .. 4 * bright /\ y \in 4 * dark .. 4 * bright
      BY <2>3, <2>6, Zenon
    <3>2. QED
      BY <3>1
  <2>8. (4 * y) - (4 * x) <= 16 * (bright - dark)
    BY <2>7
  <2>9. Cal(s).low[ch] = 4 * x /\ Cal(s).high[ch] = 4 * y
    BY <2>4, <2>6, Zenon
  <2>10. QED
    BY <2>5, <2>8, <2>9
<1>4. luma(P[0]) \in Nat /\ luma(P[7]) \in Nat /\ P[0] \in Colour /\ P[7] \in Colour
  BY <1>1, PatchColours, LevelsAre, Zenon
<1>5. Cal(s).luma_low = 4 * luma(P[0]) /\ Cal(s).luma_high = 4 * luma(P[7])
  BY CalIs, Zenon
<1>6. ASSUME \A ch \in Channels : Gap(s.exposure, ch) <= 1
      PROVE  luma(P[7]) - luma(P[0]) <= 2000
  <2>1. ASSUME NEW ch \in Channels
        PROVE  P[7][ch] - P[0][ch] <= 1
    <3>1. /\ P[0][ch] \in Dark(s.exposure)[ch] .. Bright(s.exposure)[ch]
          /\ P[7][ch] \in Dark(s.exposure)[ch] .. Bright(s.exposure)[ch]
      BY <1>2, CodesAre
    <3>2. Dark(s.exposure)[ch] \in Int /\ Bright(s.exposure)[ch] \in Int
      BY LevelsOfLight
    <3>3. Bright(s.exposure)[ch] - Dark(s.exposure)[ch] <= 1
      BY <1>6 DEF Gap
    <3>4. QED
      BY <3>1, <3>2, <3>3
  <2> HIDE DEF P
  <2>2. PICK a \in Int, b \in Int, c \in Int : a = P[7][1] /\ b = P[7][2] /\ c = P[7][3]
    BY <1>4, LevelsAre, Zenon
  <2>3. PICK d \in Int, e \in Int, f \in Int : d = P[0][1] /\ e = P[0][2] /\ f = P[0][3]
    BY <1>4, LevelsAre, Zenon
  <2>4. a - d <= 1 /\ b - e <= 1 /\ c - f <= 1
    BY <2>1, <2>2, <2>3 DEF Channels
  <2>5. /\ luma(P[7]) = (299 * a) + (587 * b) + (114 * c)
        /\ luma(P[0]) = (299 * d) + (587 * e) + (114 * f)
    <3>1. /\ luma(P[7]) = (299 * P[7][1]) + (587 * P[7][2]) + (114 * P[7][3])
          /\ luma(P[0]) = (299 * P[0][1]) + (587 * P[0][2]) + (114 * P[0][3])
      BY <1>4, LumaIs
    <3>2. QED
      BY <2>2, <2>3, <3>1, ZenonT(60)
  <2>6. QED
    BY <2>4, <2>5
<1> HIDE DEF P
<1>7. QED
  <2>1. Cal(s).luma_low \in Int /\ Cal(s).luma_high \in Int
    BY <1>4, <1>5
  <2>2. (\A ch \in Channels : Gap(s.exposure, ch) <= 1) =>
          Cal(s).luma_high - Cal(s).luma_low <= LumaRoom
    BY <1>4, <1>5, <1>6 DEF LumaRoom
  <2>3. QED
    BY <1>3, <2>1, <2>2 DEF Measured

(* Whatever a cell shows, a number is read there with some confidence.     *)
LEMMA PicturesAreColours ==
  ASSUME NEW s \in Shots
  PROVE  /\ \A i \in DataCells(s) : Picture(s)[DataCell(s, i) + 1] \in Colour
         /\ \A i \in 1 .. HEADER_CELLS : Picture(s)[HeaderCell(s, i) + 1] \in Colour
<1>1. 1 \in Channels
  BY DEF Channels
<1>2. \A code \in 0 .. 7 : Seen(s, TRUE, code) \in Colour /\ Seen(s, FALSE, code) \in Colour
  BY <1>1, SeenIsWithin
<1>3. ASSUME NEW i \in DataCells(s) PROVE Picture(s)[DataCell(s, i) + 1] \in Colour
  <2>1. DataCode(s, i) \in 0 .. 7
    BY SentDataIs
  <2>2. QED
    BY <1>2, <2>1, DataCellShows, Zenon
<1>4. ASSUME NEW i \in 1 .. HEADER_CELLS PROVE Picture(s)[HeaderCell(s, i) + 1] \in Colour
  <2>1. HeaderCode(s, i) \in 0 .. 7
    BY SentHeaderIs
  <2>2. QED
    BY <1>2, <2>1, HeaderCellShows, Zenon
<1>5. QED
  BY <1>3, <1>4

LEMMA LumaCellReads ==
  ASSUME NEW s \in Shots, NEW rgb \in Colour, NEW read, read = demodulate(Cal(s), "Mono", rgb)
  PROVE  /\ read.value \in 0 .. 7 /\ read.confidence \in 0 .. 1000
         /\ (\A ch \in Channels : Gap(s.exposure, ch) <= 1) => read.confidence = 0
<1>0. PICK cal : cal = Cal(s)
  OBVIOUS
<1>1. PICK lo \in Int, hi \in Int : lo = cal.luma_low /\ hi = cal.luma_high
  BY <1>0, CalIsMeasured
<1>2. /\ read.value = LumaReading(lo, hi, luma(rgb)).bit
      /\ read.value \in 0 .. 1 /\ read.confidence \in 0 .. 1000
      /\ hi - lo <= LumaRoom => read.confidence = 0
  BY <1>0, <1>1, LumaReadings
<1>3. (\A ch \in Channels : Gap(s.exposure, ch) <= 1) => hi - lo <= LumaRoom
  BY <1>0, <1>1, CalIsMeasured
<1>4. QED
  BY <1>2, <1>3

LEMMA ColourCellReads ==
  ASSUME NEW s \in Shots, NEW mode \in ColourModes, NEW rgb \in Colour,
         NEW read, read = demodulate(Cal(s), mode, rgb)
  PROVE  /\ read.value \in 0 .. 7 /\ read.confidence \in 0 .. 1000
         /\ (\E ch \in Channels : Gap(s.exposure, ch) <= 1) => read.confidence = 0
<1>1. Measured(Cal(s))
  BY CalIsMeasured
<1>2. /\ read.value \in 0 .. 7 /\ read.confidence \in 0 .. 1000
      /\ \A ch \in Channels : read.confidence <= channel_bit(Cal(s), ch, rgb[ch]).confidence
  BY <1>1, AnyColourIsRead
<1>3. ASSUME NEW ch \in Channels, Gap(s.exposure, ch) <= 1
      PROVE  channel_bit(Cal(s), ch, rgb[ch]).confidence = 0
  <2>1. PICK lo \in Int, hi \in Int : lo = Cal(s).low[ch] /\ hi = Cal(s).high[ch]
    BY <1>1 DEF Measured
  <2>2. Gap(s.exposure, ch) \in Int
    BY LevelsOfLight DEF Gap
  <2>3. hi - lo <= 32
    BY <1>3, <2>1, <2>2, CalIsMeasured
  <2>4. PICK value \in Int : value = rgb[ch]
    <3>1. rgb[ch] \in 0 .. 255
      BY DEF Colour
    <3>2. rgb[ch] \in Int
      BY <3>1
    <3>3. QED
      BY <3>2
  <2>5. ChannelReading(lo, hi, value).confidence = 0
    BY <2>3, CollapsedChannel
  <2>6. QED
    BY <2>1, <2>4, <2>5, Zenon DEF channel_bit, ChannelReading
<1>4. ASSUME NEW ch \in Channels, Gap(s.exposure, ch) <= 1 PROVE read.confidence = 0
  <2>1. read.confidence <= channel_bit(Cal(s), ch, rgb[ch]).confidence
    BY <1>2, Zenon
  <2>2. channel_bit(Cal(s), ch, rgb[ch]).confidence = 0
    BY <1>3, <1>4, Zenon
  <2>3. read.confidence <= 0
    BY <2>1, <2>2, Zenon
  <2>4. QED
    BY <1>2, <2>3
<1>5. QED
  BY <1>2, <1>4, Zenon

LEMMA CellsAreReadings ==
  ASSUME NEW s \in Shots
  PROVE  /\ \A i \in DataCells(s) :
              /\ ReadData(s, i).value \in 0 .. 7 /\ ReadData(s, i).confidence \in 0 .. 1000
              /\ Crushed(s.exposure, s.mode) => ReadData(s, i).confidence = 0
         /\ \A i \in 1 .. HEADER_CELLS :
              ReadHeader(s, i).value \in 0 .. 7 /\ ReadHeader(s, i).confidence \in 0 .. 1000
<1>1. ASSUME NEW i \in DataCells(s)
      PROVE  /\ ReadData(s, i).value \in 0 .. 7 /\ ReadData(s, i).confidence \in 0 .. 1000
             /\ Crushed(s.exposure, s.mode) => ReadData(s, i).confidence = 0
  <2>1. PICK rgb \in Colour : rgb = Picture(s)[DataCell(s, i) + 1]
    BY PicturesAreColours
  <2>2. PICK read : read = demodulate(Cal(s), s.mode, rgb)
    OBVIOUS
  <2>3. read = ReadData(s, i)
    BY <2>1, <2>2 DEF ReadData
  <2>4. CASE s.mode = "Mono"
    <3>1. /\ read.value \in 0 .. 7 /\ read.confidence \in 0 .. 1000
          /\ (\A ch \in Channels : Gap(s.exposure, ch) <= 1) => read.confidence = 0
      BY <2>2, <2>4, LumaCellReads
    <3>2. QED
      BY <2>3, <2>4, <3>1 DEF Crushed
  <2>5. CASE s.mode \in ColourModes
    <3>1. /\ read.value \in 0 .. 7 /\ read.confidence \in 0 .. 1000
          /\ (\E ch \in Channels : Gap(s.exposure, ch) <= 1) => read.confidence = 0
      BY <2>2, <2>5, ColourCellReads
    <3>2. s.mode # "Mono"
      BY <2>5 DEF ColourModes
    <3>3. QED
      BY <2>3, <3>1, <3>2 DEF Crushed
  <2>6. QED
    BY <2>4, <2>5, WidthIs
<1>2. ASSUME NEW i \in 1 .. HEADER_CELLS
      PROVE  ReadHeader(s, i).value \in 0 .. 7 /\ ReadHeader(s, i).confidence \in 0 .. 1000
  <2>1. PICK rgb \in Colour : rgb = Picture(s)[HeaderCell(s, i) + 1]
    BY PicturesAreColours
  <2>2. PICK read : read = demodulate(Cal(s), "Mono", rgb)
    OBVIOUS
  <2>3. read = ReadHeader(s, i)
    BY <2>1, <2>2 DEF ReadHeader
  <2>4. read.value \in 0 .. 7 /\ read.confidence \in 0 .. 1000
    BY <2>2, LumaCellReads
  <2>5. QED
    BY <2>3, <2>4
<1>3. QED
  BY <1>1, <1>2

----------------------------------------------------------------------------
(* A free cell is read as it was sent, and without doubt.                  *)
Kept(s, mode) ==
  IF mode = "Mono" THEN s.smudge.patches \cap {BLACK, WHITE} = {}
  ELSE Cardinality(s.smudge.patches) <= 1

IsRead(read, v) == read.value = v /\ read.confidence = 1000

LEMMA FreeLuma ==
  ASSUME NEW s \in Shots, Clear(s.exposure, "Mono"), Kept(s, "Mono")
  PROVE  /\ IsRead(demodulate(Cal(s), "Mono", Seen(s, FALSE, BLACK)), 0)
         /\ IsRead(demodulate(Cal(s), "Mono", Seen(s, FALSE, WHITE)), 1)
<1>1. s.smudge.patches \cap {BLACK, WHITE} = {}
  BY DEF Kept
<1>2. /\ IsRead(demodulate(Cal(s), "Mono", Dark(s.exposure)), 0)
      /\ IsRead(demodulate(Cal(s), "Mono", Bright(s.exposure)), 1)
  BY <1>1, LumaIsRead DEF IsRead
<1>3. Seen(s, FALSE, BLACK) = Dark(s.exposure) /\ Seen(s, FALSE, WHITE) = Bright(s.exposure)
  BY ExtremesOfLight
<1>4. QED
  BY <1>2, <1>3, Zenon

LEMMA FreeDataIsRead ==
  ASSUME NEW s \in Shots, NEW i \in DataCells(s), DataCell(s, i) \notin Smudged(s),
         Clear(s.exposure, s.mode), Kept(s, s.mode)
  PROVE  ReadData(s, i).value = SentData(s)[i] /\ ReadData(s, i).confidence = 1000
<1>1. PICK code, read : code = DataCode(s, i) /\ read = ReadData(s, i)
  OBVIOUS
<1>2. read = demodulate(Cal(s), s.mode, Seen(s, FALSE, code))
  BY <1>1, DataCellShows, Zenon DEF ReadData
<1>3. CASE s.mode = "Mono"
  <2>1. PICK v \in 0 .. 1 : v = SentData(s)[i]
    BY <1>3, SentDataIs
  <2>2. code = IF v = 1 THEN WHITE ELSE BLACK
    BY <1>1, <1>3, <2>1, SentDataIs
  <2>3. /\ Clear(s.exposure, "Mono") /\ Kept(s, "Mono")
        /\ read = demodulate(Cal(s), "Mono", Seen(s, FALSE, code))
    BY <1>2, <1>3
  <2>4. /\ IsRead(demodulate(Cal(s), "Mono", Seen(s, FALSE, BLACK)), 0)
        /\ IsRead(demodulate(Cal(s), "Mono", Seen(s, FALSE, WHITE)), 1)
    BY <2>3, FreeLuma, Zenon
  <2>5. CASE v = 0
    <3>1. code = BLACK
      BY <2>2, <2>5
    <3>2. IsRead(read, 0)
      BY <2>3, <2>4, <3>1, Zenon
    <3>3. QED
      BY <1>1, <2>1, <2>5, <3>2 DEF IsRead
  <2>6. CASE v = 1
    <3>1. code = WHITE
      BY <2>2, <2>6
    <3>2. IsRead(read, 1)
      BY <2>3, <2>4, <3>1, Zenon
    <3>3. QED
      BY <1>1, <2>1, <2>6, <3>2 DEF IsRead
  <2>7. QED
    BY <2>5, <2>6
<1>4. CASE s.mode \in ColourModes
  <2>1. code \in 0 .. 7
    BY <1>1, SentDataIs
  <2>2. PICK mode \in ColourModes : mode = s.mode
    BY <1>4
  <2>3. Cardinality(s.smudge.patches) <= 1 /\ Clear(s.exposure, mode)
    BY <1>4, <2>2 DEF Kept, ColourModes
  <2>4. PICK rgb : rgb = Seen(s, FALSE, code)
    OBVIOUS
  <2>5. Shows(s, rgb, code)
    BY <2>1, <2>4, FreeCellShows DEF Shows
  <2>6. read = demodulate(Cal(s), mode, rgb)
    BY <1>2, <2>2, <2>4
  <2>7. /\ mode = "Rgb8" => read.value = code /\ read.confidence = 1000
        /\ mode = "Rgb4" /\ code \in CodeWords =>
             read.value = Word(code) - 1 /\ read.confidence = 1000
    BY <2>1, <2>3, <2>5, <2>6, ExtremesAreRead
  <2>8. /\ mode = "Rgb4" => code \in CodeWords /\ Word(code) - 1 = SentData(s)[i]
        /\ mode = "Rgb8" => code = SentData(s)[i]
    BY <1>1, <2>2, SentDataIs
  <2>9. mode = "Rgb4" \/ mode = "Rgb8"
    BY DEF ColourModes
  <2>10. QED
    BY <1>1, <2>7, <2>8, <2>9
<1>5. QED
  BY <1>3, <1>4, WidthIs

LEMMA FreeHeaderCellIsRead ==
  ASSUME NEW s \in Shots, NEW i \in 1 .. HEADER_CELLS, HeaderCell(s, i) \notin Smudged(s),
         Clear(s.exposure, "Mono"), Kept(s, "Mono")
  PROVE  ReadHeader(s, i).value = SentHeader(s)[i] /\ ReadHeader(s, i).confidence = 1000
<1>1. PICK code, read : code = HeaderCode(s, i) /\ read = ReadHeader(s, i)
  OBVIOUS
<1>2. read = demodulate(Cal(s), "Mono", Seen(s, FALSE, code))
  BY <1>1, HeaderCellShows, Zenon DEF ReadHeader
<1>3. PICK v \in 0 .. 1 : v = SentHeader(s)[i]
  BY SentHeaderIs
<1>4. code = IF v = 1 THEN WHITE ELSE BLACK
  BY <1>1, <1>3, SentHeaderIs
<1>5. /\ IsRead(demodulate(Cal(s), "Mono", Seen(s, FALSE, BLACK)), 0)
      /\ IsRead(demodulate(Cal(s), "Mono", Seen(s, FALSE, WHITE)), 1)
  BY FreeLuma, Zenon
<1>6. CASE v = 0
  <2>1. code = BLACK
    BY <1>4, <1>6
  <2>2. IsRead(read, 0)
    BY <1>2, <1>5, <2>1, Zenon
  <2>3. QED
    BY <1>1, <1>3, <1>6, <2>2 DEF IsRead
<1>7. CASE v = 1
  <2>1. code = WHITE
    BY <1>4, <1>7
  <2>2. IsRead(read, 1)
    BY <1>2, <1>5, <2>1, Zenon
  <2>3. QED
    BY <1>1, <1>3, <1>7, <2>2 DEF IsRead
<1>8. QED
  BY <1>6, <1>7

(* A covered cell is doubted, unless its cover shows a colour of the mode. *)
(* Through a filter one channel changes sides, and no two colours of Rgb4  *)
(* differ in one channel.                                                  *)
LEMMA FilteredWords ==
  ASSUME NEW code \in CodeWords, NEW f \in Channels
  PROVE  \E other \in 0 .. 7 :
           /\ other \notin CodeWords
           /\ \A ch \in Channels : Has(other, ch) <=> (Has(code, ch) # (ch = f))
<1>1. code = 0 \/ code = 3 \/ code = 5 \/ code = 6
  BY DEF CodeWords
<1>2. f = 1 \/ f = 2 \/ f = 3
  BY DEF Channels
<1>3. \A x, y \in 0 .. 7 :
        /\ x \notin CodeWords
        /\ Has(x, 1) <=> (Has(y, 1) # (1 = f))
        /\ Has(x, 2) <=> (Has(y, 2) # (2 = f))
        /\ Has(x, 3) <=> (Has(y, 3) # (3 = f))
        /\ code = y
        => \E other \in 0 .. 7 :
             /\ other \notin CodeWords
             /\ \A ch \in Channels : Has(other, ch) <=> (Has(code, ch) # (ch = f))
  BY DEF Channels
<1>4. 1 \notin CodeWords /\ 2 \notin CodeWords /\ 4 \notin CodeWords /\ 7 \notin CodeWords
  BY DEF CodeWords
<1>5. CASE code = 0
  <2>1. CASE f = 1
    BY <1>3, <1>4, <1>5, <2>1, CodesAre
  <2>2. CASE f = 2
    BY <1>3, <1>4, <1>5, <2>2, CodesAre
  <2>3. CASE f = 3
    BY <1>3, <1>4, <1>5, <2>3, CodesAre
  <2>4. QED
    BY <1>2, <2>1, <2>2, <2>3
<1>6. CASE code = 3
  <2>1. CASE f = 1
    BY <1>3, <1>4, <1>6, <2>1, CodesAre
  <2>2. CASE f = 2
    BY <1>3, <1>4, <1>6, <2>2, CodesAre
  <2>3. CASE f = 3
    BY <1>3, <1>4, <1>6, <2>3, CodesAre
  <2>4. QED
    BY <1>2, <2>1, <2>2, <2>3
<1>7. CASE code = 5
  <2>1. CASE f = 1
    BY <1>3, <1>4, <1>7, <2>1, CodesAre
  <2>2. CASE f = 2
    BY <1>3, <1>4, <1>7, <2>2, CodesAre
  <2>3. CASE f = 3
    BY <1>3, <1>4, <1>7, <2>3, CodesAre
  <2>4. QED
    BY <1>2, <2>1, <2>2, <2>3
<1>8. CASE code = 6
  <2>1. CASE f = 1
    BY <1>3, <1>4, <1>8, <2>1, CodesAre
  <2>2. CASE f = 2
    BY <1>3, <1>4, <1>8, <2>2, CodesAre
  <2>3. CASE f = 3
    BY <1>3, <1>4, <1>8, <2>3, CodesAre
  <2>4. QED
    BY <1>2, <2>1, <2>2, <2>3
<1>9. QED
  BY <1>1, <1>5, <1>6, <1>7, <1>8

LEMMA CoverIsDoubted ==
  ASSUME NEW s \in Shots, NEW i \in DataCells(s), DataCell(s, i) \in Smudged(s),
         Clear(s.exposure, s.mode), Kept(s, s.mode),
         \/ s.smudge.paint.kind = "solid" /\ Middling(s.exposure, s.smudge.paint.rgb)
         \/ s.smudge.paint.kind # "solid" /\ s.mode = "Rgb4"
  PROVE  ReadData(s, i).confidence < 280
<1>1. PICK code \in 0 .. 7 : code = DataCode(s, i)
  BY SentDataIs
<1>2. ReadData(s, i) = demodulate(Cal(s), s.mode, Seen(s, TRUE, code))
  BY <1>1, DataCellShows, Zenon DEF ReadData
<1>3. CASE s.smudge.paint.kind = "solid" /\ Middling(s.exposure, s.smudge.paint.rgb)
  <2>1. Seen(s, TRUE, code) = Exposed(s.exposure, s.smudge.paint.rgb)
    BY <1>3, CoversAre DEF Seen
  <2>2. CASE s.mode = "Mono"
    <3>1. Clear(s.exposure, "Mono") /\ s.smudge.patches \cap {BLACK, WHITE} = {}
      BY <2>2 DEF Kept
    <3>2. demodulate(Cal(s), "Mono", Exposed(s.exposure, s.smudge.paint.rgb)).confidence < 280
      BY <1>3, <3>1, MiddlingLumaIsDoubted
    <3>3. QED
      BY <1>2, <2>1, <2>2, <3>2
  <2>3. CASE s.mode \in ColourModes
    <3>1. PICK mode \in ColourModes : mode = s.mode
      BY <2>3
    <3>2. Clear(s.exposure, mode) /\ Cardinality(s.smudge.patches) <= 1
      BY <3>1 DEF Kept, ColourModes
    <3>3. demodulate(Cal(s), mode, Exposed(s.exposure, s.smudge.paint.rgb)).confidence < 280
      BY <1>3, <3>2, MiddlingIsDoubted
    <3>4. QED
      BY <1>2, <2>1, <3>1, <3>3
  <2>4. QED
    BY <2>2, <2>3, WidthIs
<1>4. CASE s.smudge.paint.kind # "solid" /\ s.mode = "Rgb4"
  <2>1. PICK mode \in ColourModes : mode = s.mode /\ mode = "Rgb4"
    BY <1>4 DEF ColourModes
  <2>2. Clear(s.exposure, mode) /\ Cardinality(s.smudge.patches) <= 1
    BY <2>1 DEF Kept
  <2>3. PICK f \in Channels : f = s.smudge.paint.channel
    BY <1>1, <1>4, CoversAre
  <2>4. code \in CodeWords
    BY <1>1, <1>4, SentDataIs
  <2>5. PICK other \in 0 .. 7 :
          /\ other \notin CodeWords
          /\ \A ch \in Channels : Has(other, ch) <=> (Has(code, ch) # (ch = f))
    BY <2>4, FilteredWords
  <2>6. PICK rgb : rgb = Seen(s, TRUE, code)
    OBVIOUS
  <2>7. Shows(s, rgb, other)
    <3>1. SUFFICES ASSUME NEW ch \in Channels
                   PROVE  rgb[ch] = IF Has(other, ch) THEN Bright(s.exposure)[ch]
                                    ELSE Dark(s.exposure)[ch]
      BY Zenon DEF Shows
    <3>2. rgb[ch] = IF Has(code, ch) # (ch = s.smudge.paint.channel)
                    THEN Bright(s.exposure)[ch] ELSE Dark(s.exposure)[ch]
      BY <1>4, <2>6, CoveredCellShows, ZenonT(60)
    <3>3. Has(other, ch) <=> (Has(code, ch) # (ch = s.smudge.paint.channel))
      BY <2>3, <2>5, ZenonT(60)
    <3>4. QED
      BY <3>2, <3>3, Zenon
  <2>8. PICK read : read = demodulate(Cal(s), mode, rgb)
    OBVIOUS
  <2>9. /\ mode = "Rgb8" => read.value = other /\ read.confidence = 1000
        /\ mode = "Rgb4" /\ other \notin CodeWords => read.confidence = 0
    BY <2>2, <2>5, <2>7, <2>8, ExtremesAreRead
  <2>10. read.confidence = 0
    BY <2>1, <2>5, <2>9
  <2>11. read = ReadData(s, i)
    BY <1>2, <2>1, <2>6, <2>8, Zenon
  <2>12. QED
    BY <2>10, <2>11
<1>5. QED
  BY <1>3, <1>4

----------------------------------------------------------------------------
(* Symbols.                                                                *)
Symbols(s) == 1 .. Len(s.symbols)
Held(s, k) ==
  (8 * (k - 1)) \div bits_per_cell(s.mode) .. ((8 * k) - 1) \div bits_per_cell(s.mode)
CellTrust(s, c) == ReadData(s, c + 1).confidence
Readings(s) == [c \in DataCells(s) |-> ReadData(s, c)]
Values(s) == [c \in DataCells(s) |-> ReadData(s, c).value]
SymbolsRead(s) == pack_bits(Values(s), bits_per_cell(s.mode), Len(s.symbols))
Trust(s) == symbol_confidence(Readings(s), bits_per_cell(s.mode), Len(s.symbols))
Data(s) == DataReading(Cal(s), layout(s.grid), s.mode, Picture(s), Len(s.symbols))

Same(bytes, values, w, n, k) ==
  \A c \in (8 * (k - 1)) \div w .. ((8 * k) - 1) \div w :
    values[c + 1] = unpack_bits(bytes, w, n)[c + 1]

LEMMA PackedBack ==
  ASSUME NEW bytes \in Seq(0 .. 255), NEW w \in Int, NEW n \in Nat, NEW values \in Seq(Nat),
         NEW m \in Nat, NEW k \in Int, w \in 1 .. 3, Len(values) = n, k \in 1 .. m,
         k <= Len(bytes), 8 * k <= w * n, Same(bytes, values, w, n, k)
  PROVE  pack_bits(values, w, m)[k] = bytes[k]
<1>1. \A c \in (8 * (k - 1)) \div w .. ((8 * k) - 1) \div w :
        values[c + 1] = unpack_bits(bytes, w, n)[c + 1]
  BY Zenon DEF Same
<1>2. QED
  BY <1>1, PackedIs, ZenonT(60)

LEMMA SymbolsFit ==
  ASSUME NEW s \in Shots
  PROVE  /\ s.symbols \in Seq(0 .. 255) /\ DOMAIN s.symbols = 1 .. Len(s.symbols)
         /\ Len(s.symbols) \in Nat /\ Len(layout(s.grid).data_cells) \in Nat
         /\ 8 * Len(s.symbols) <= bits_per_cell(s.mode) * Len(layout(s.grid).data_cells)
<1>1. /\ s.symbols \in Seq(0 .. 255)
      /\ 8 * Len(s.symbols) <= bits_per_cell(s.mode) * Len(layout(s.grid).data_cells)
  BY ShotAssumption, Zenon
<1>2. Len(s.symbols) \in Nat /\ DOMAIN s.symbols = 1 .. Len(s.symbols)
  BY <1>1
<1>3. Len(layout(s.grid).data_cells) \in Nat
  BY LayoutIs, Zenon
<1>4. QED
  BY <1>1, <1>2, <1>3

(* The cells that hold a symbol are cells of the frame.                    *)
LEMMA HeldCells ==
  ASSUME NEW w \in Int, NEW n \in Nat, NEW m \in Nat, NEW k \in Int,
         w \in 1 .. 3, 8 * m <= w * n, k \in 1 .. m
  PROVE  /\ (8 * (k - 1)) \div w \in 0 .. n - 1
         /\ (8 * (k - 1)) \div w <= ((8 * k) - 1) \div w
         /\ \A c \in (8 * (k - 1)) \div w .. ((8 * k) - 1) \div w : c \in Nat /\ c + 1 \in 1 .. n
<1>1. CASE w = 1
  BY <1>1
<1>2. CASE w = 2
  BY <1>2
<1>3. CASE w = 3
  BY <1>3
<1>4. QED
  BY <1>1, <1>2, <1>3

LEMMA HeldAreCells ==
  ASSUME NEW s \in Shots, NEW k \in Symbols(s)
  PROVE  /\ Held(s, k) # {}
         /\ \A c \in Held(s, k) : c \in Nat /\ c + 1 \in DataCells(s)
<1>1. PICK w \in Int, n \in Nat, m \in Nat :
        /\ w = bits_per_cell(s.mode) /\ n = Len(layout(s.grid).data_cells)
        /\ m = Len(s.symbols) /\ w \in 1 .. 3
  BY WidthIs, SymbolsFit
<1>2. 8 * m <= w * n /\ k \in 1 .. m /\ k \in Int
  BY <1>1, SymbolsFit DEF Symbols
<1>3. /\ (8 * (k - 1)) \div w \in 0 .. n - 1
      /\ (8 * (k - 1)) \div w <= ((8 * k) - 1) \div w
      /\ \A c \in (8 * (k - 1)) \div w .. ((8 * k) - 1) \div w : c \in Nat /\ c + 1 \in 1 .. n
  BY <1>1, <1>2, HeldCells
<1>4. Held(s, k) = (8 * (k - 1)) \div w .. ((8 * k) - 1) \div w
  BY <1>1, Zenon DEF Held
<1>5. DataCells(s) = 1 .. n
  BY <1>1, Zenon DEF DataCells
<1>6. ((8 * k) - 1) \div w \in Int
  BY <1>1, <1>2
<1>7. (8 * (k - 1)) \div w \in (8 * (k - 1)) \div w .. ((8 * k) - 1) \div w
  BY <1>3, <1>6
<1>8. QED
  BY <1>3, <1>4, <1>5, <1>7, Zenon

LEMMA DataIs ==
  ASSUME NEW s \in Shots
  PROVE  Data(s) = [symbols |-> SymbolsRead(s), confidence |-> Trust(s)]
<1> DEFINE l == layout(s.grid)
           read == [c \in DOMAIN l.data_cells |->
                      demodulate(Cal(s), s.mode, Picture(s)[l.data_cells[c] + 1])]
           shown == Tuple(read)
<1>1. PICK n \in Nat : n = Len(l.data_cells)
  BY LayoutIs, Zenon
<1>2. DOMAIN l.data_cells = 1 .. n /\ DataCells(s) = 1 .. n
  BY <1>1, LayoutIs DEF DataCells
<1>3. read = Readings(s)
  BY <1>2, Zenon DEF Readings, ReadData, DataCell
<1>4. read = [i \in 1 .. n |-> read[i]] /\ DOMAIN read = 1 .. n
  BY <1>2
<1> HIDE DEF read
<1>5. shown = Readings(s)
  BY <1>3, <1>4, TupleIsTheSequence, Zenon
<1>6. [c \in DOMAIN shown |-> shown[c].value] = Values(s)
  BY <1>5 DEF Readings, Values
<1>7. Tuple(Values(s)) = Values(s)
  <2>1. Values(s) = [i \in 1 .. n |-> Values(s)[i]]
    BY <1>2 DEF Values
  <2>2. QED
    BY <2>1, TupleIsTheSequence, Zenon
<1>8. Data(s) =
        [symbols |-> pack_bits(Tuple([c \in DOMAIN shown |-> shown[c].value]),
                               bits_per_cell(s.mode), Len(s.symbols)),
         confidence |-> symbol_confidence(shown, bits_per_cell(s.mode), Len(s.symbols))]
  BY Zenon DEF Data, DataReading, read
<1> HIDE DEF shown
<1>9. QED
  BY <1>5, <1>6, <1>7, <1>8, Zenon DEF SymbolsRead, Trust

LEMMA ConfidenceOfSymbol ==
  ASSUME NEW s \in Shots, NEW k \in Symbols(s)
  PROVE  /\ (\A c \in Held(s, k) : CellTrust(s, c) = 1000)
              => Trust(s)[k] = 1000
         /\ \A c \in Held(s, k) : Trust(s)[k] <= CellTrust(s, c)
         /\ Trust(s)[k] \in 0 .. 1000
<1> DEFINE least(j) == Least({1000} \cup {Readings(s)[c + 1].confidence :
                         c \in (8 * (j - 1)) \div bits_per_cell(s.mode)
                               .. ((8 * j) - 1) \div bits_per_cell(s.mode)})
           seen == {Readings(s)[c + 1].confidence : c \in Held(s, k)}
           leasts == [j \in 1 .. Len(s.symbols) |-> least(j)]
<1>1. Trust(s)[k] = Least({1000} \cup seen)
  <2>1. least(k) = Least({1000} \cup seen)
    BY Zenon DEF Held
  <2>2. symbol_confidence(Readings(s), bits_per_cell(s.mode), Len(s.symbols)) = Tuple(leasts)
    BY Zenon DEF symbol_confidence
  <2>3. leasts[k] = least(k) /\ leasts = [j \in 1 .. Len(s.symbols) |-> leasts[j]]
    BY DEF Symbols
  <2> HIDE DEF leasts, least, seen
  <2>4. Tuple(leasts) = leasts
    BY <2>3, SymbolsFit, TupleIsTheSequence, Zenon
  <2>5. QED
    BY <2>1, <2>2, <2>3, <2>4, ZenonT(60) DEF Trust
<1>2. ASSUME NEW c \in Held(s, k)
      PROVE  /\ Readings(s)[c + 1].confidence = CellTrust(s, c)
             /\ CellTrust(s, c) \in 0 .. 1000
  <2>1. c + 1 \in DataCells(s)
    BY HeldAreCells, Zenon
  <2>2. PICK i \in DataCells(s) : i = c + 1
    BY <2>1, Zenon
  <2>3. Readings(s)[c + 1].confidence = CellTrust(s, c)
    BY <2>1, Zenon DEF Readings, CellTrust
  <2>4. CellTrust(s, c) = ReadData(s, i).confidence
    BY <2>2, Zenon DEF CellTrust
  <2>5. ReadData(s, i).confidence \in 0 .. 1000
    BY CellsAreReadings
  <2>6. QED
    BY <2>3, <2>4, <2>5
<1>3. seen \subseteq 0 .. 1000 /\ \A c \in Held(s, k) : CellTrust(s, c) \in seen
  BY <1>2
<1>4. \A x \in seen : \E c \in Held(s, k) : x = CellTrust(s, c)
  <2>1. ASSUME NEW x \in seen PROVE \E c \in Held(s, k) : x = CellTrust(s, c)
    <3>1. PICK c \in Held(s, k) : x = Readings(s)[c + 1].confidence
      BY <2>1
    <3>2. x = CellTrust(s, c)
      BY <1>2, <3>1, ZenonT(60)
    <3>3. QED
      BY <3>2
  <2>2. QED
    BY <2>1
<1> HIDE DEF seen
<1>5. PICK top \in Nat : top = 1000
  OBVIOUS
<1>6. PICK S : S = {1000} \cup seen
  OBVIOUS
<1>7. S \in SUBSET (0 .. top) /\ S # {} /\ 1000 \in S /\ \A x \in seen : x \in S
  BY <1>3, <1>5, <1>6
<1>8. Least(S) \in S /\ \A x \in S : Least(S) <= x
  BY <1>7, LeastIsLeast, Zenon
<1>9. Trust(s)[k] = Least(S)
  BY <1>1, <1>6, Zenon
<1>10. Trust(s)[k] \in 0 .. 1000
  <2>1. PICK m \in S : m = Least(S)
    BY <1>8, Zenon
  <2>2. m \in 0 .. 1000
    BY <1>5, <1>7
  <2>3. QED
    BY <1>9, <2>1, <2>2
<1>11. ASSUME NEW c \in Held(s, k) PROVE Trust(s)[k] <= CellTrust(s, c)
  <2>1. CellTrust(s, c) \in S
    BY <1>3, <1>7, ZenonT(60)
  <2>2. QED
    BY <1>8, <1>9, <2>1
<1>12. ASSUME \A c \in Held(s, k) : CellTrust(s, c) = 1000
       PROVE  Trust(s)[k] = 1000
  <2>1. \A x \in S : x = 1000
    BY <1>4, <1>6, <1>12
  <2>2. QED
    BY <1>8, <1>9, <2>1
<1>13. QED
  BY <1>10, <1>11, <1>12, ZenonT(60)

(* What a symbol is read from, when all its cells are free, when one of    *)
(* them is covered, and when a channel is lost.                            *)
Free(s, k) == \A c \in Held(s, k) : DataCell(s, c + 1) \notin Smudged(s)

LEMMA SymbolIsRead ==
  ASSUME NEW s \in Shots, NEW k \in Symbols(s),
         Clear(s.exposure, s.mode), Kept(s, s.mode), Free(s, k)
  PROVE  SymbolsRead(s)[k] = s.symbols[k] /\ Trust(s)[k] = 1000
<1>1. ASSUME NEW c \in Held(s, k)
      PROVE  Values(s)[c + 1] = SentData(s)[c + 1] /\ CellTrust(s, c) = 1000
  <2>1. c + 1 \in DataCells(s)
    BY HeldAreCells, Zenon
  <2>2. Values(s)[c + 1] = ReadData(s, c + 1).value
    BY <2>1, Zenon DEF Values
  <2>3. PICK i \in DataCells(s) : i = c + 1
    BY <2>1, Zenon
  <2>4. DataCell(s, i) \notin Smudged(s)
    BY <2>3, Zenon DEF Free
  <2>5. ReadData(s, i).value = SentData(s)[i] /\ ReadData(s, i).confidence = 1000
    BY <2>4, FreeDataIsRead
  <2>6. QED
    BY <2>2, <2>3, <2>5, ZenonT(60) DEF CellTrust
<1>2. PICK w \in 1 .. 3, n \in Nat : w = bits_per_cell(s.mode) /\ n = Len(layout(s.grid).data_cells)
  BY WidthIs, SymbolsFit
<1>3. PICK m \in Nat : m = Len(s.symbols)
  BY SymbolsFit, Zenon
<1>4. PICK v : v = Values(s)
  OBVIOUS
<1>10. PICK bytes \in Seq(0 .. 255) : bytes = s.symbols
  BY SymbolsFit, Zenon
<1>5. v \in Seq(Nat) /\ Len(v) = n
  <2>1. \A i \in 1 .. n : v[i] \in 0 .. 7
    BY <1>2, <1>4, CellsAreReadings, SMTT(40) DEF Values, DataCells
  <2>2. v = [i \in 1 .. n |-> v[i]]
    BY <1>2, <1>4 DEF Values, DataCells
  <2>3. \A i \in 1 .. n : v[i] \in Nat
    BY <2>1
  <2>4. v \in [1 .. n -> Nat]
    BY <2>2, <2>3, Zenon
  <2>5. QED
    BY <2>4
<1>6. \A c \in (8 * (k - 1)) \div w .. ((8 * k) - 1) \div w :
        v[c + 1] = unpack_bits(bytes, w, n)[c + 1]
  <2>1. Held(s, k) = (8 * (k - 1)) \div w .. ((8 * k) - 1) \div w
    BY <1>2, Zenon DEF Held
  <2>2. SentData(s) = unpack_bits(bytes, w, n)
    BY <1>2, <1>10, Zenon DEF SentData
  <2>3. ASSUME NEW c \in Held(s, k) PROVE v[c + 1] = unpack_bits(bytes, w, n)[c + 1]
    <3>1. Values(s)[c + 1] = SentData(s)[c + 1]
      BY <1>1
    <3>2. QED
      BY <1>4, <2>2, <3>1
  <2>4. QED
    BY <2>1, <2>3, Zenon
<1>7. k \in 1 .. m /\ k <= Len(bytes) /\ 8 * k <= w * n
  <2>1. 8 * m <= w * n /\ m = Len(bytes)
    BY <1>2, <1>3, <1>10, SymbolsFit
  <2>2. k \in 1 .. m
    BY <1>3 DEF Symbols
  <2>3. w * n \in Int
    OBVIOUS
  <2>4. QED
    BY <2>1, <2>2, <2>3
<1>8. pack_bits(v, w, m)[k] = bytes[k]
  <2>1. Same(bytes, v, w, n, k)
    BY <1>6, Zenon DEF Same
  <2>2. QED
    BY <1>5, <1>7, <2>1, PackedBack
<1>9. SymbolsRead(s)[k] = s.symbols[k]
  BY <1>2, <1>3, <1>4, <1>8, <1>10, Zenon DEF SymbolsRead
<1>11. QED
  BY <1>1, <1>9, ConfidenceOfSymbol

LEMMA LessThanLess ==
  ASSUME NEW x \in Int, NEW y \in Int, NEW z \in Int, x <= y, y < z
  PROVE  x < z
OBVIOUS

LEMMA DoubtSpreads ==
  ASSUME NEW s \in Shots, NEW k \in Symbols(s), NEW c \in Held(s, k), CellTrust(s, c) < 280
  PROVE  Trust(s)[k] < 280
<1>1. Trust(s)[k] <= CellTrust(s, c) /\ Trust(s)[k] \in 0 .. 1000
  BY ConfidenceOfSymbol
<1>2. CellTrust(s, c) \in 0 .. 1000
  <2>1. PICK i \in DataCells(s) : i = c + 1
    BY HeldAreCells, Zenon
  <2>2. CellTrust(s, c) = ReadData(s, i).confidence
    BY <2>1, Zenon DEF CellTrust
  <2>3. QED
    BY <2>2, CellsAreReadings
<1>3. Trust(s)[k] \in Int /\ 280 \in Int
  BY <1>1
<1>4. CellTrust(s, c) \in Int
  BY <1>2
<1>5. QED
  BY <1>1, <1>3, <1>4, LessThanLess, Zenon

LEMMA SymbolIsDoubted ==
  ASSUME NEW s \in Shots, NEW k \in Symbols(s), NEW c \in Held(s, k),
         DataCell(s, c + 1) \in Smudged(s), Clear(s.exposure, s.mode), Kept(s, s.mode),
         \/ s.smudge.paint.kind = "solid" /\ Middling(s.exposure, s.smudge.paint.rgb)
         \/ s.smudge.paint.kind # "solid" /\ s.mode = "Rgb4"
  PROVE  Trust(s)[k] < 280
<1>1. PICK i \in DataCells(s) : i = c + 1
  BY HeldAreCells, Zenon
<1>2. DataCell(s, i) \in Smudged(s)
  BY <1>1, Zenon
<1>3. ReadData(s, i).confidence < 280
  BY <1>2, CoverIsDoubted
<1>5. CellTrust(s, c) = ReadData(s, i).confidence
  BY <1>1, Zenon DEF CellTrust
<1>6. CellTrust(s, c) < 280
  BY <1>3, <1>5, Zenon
<1>7. QED
  BY <1>6, DoubtSpreads, Zenon

LEMMA LostSymbolIsDoubted ==
  ASSUME NEW s \in Shots, NEW k \in Symbols(s), Crushed(s.exposure, s.mode)
  PROVE  Trust(s)[k] = 0
<1>1. PICK c \in Held(s, k) : c + 1 \in DataCells(s)
  BY HeldAreCells
<1>2. PICK i \in DataCells(s) : i = c + 1
  BY <1>1, Zenon
<1>3. ReadData(s, i).confidence = 0
  BY CellsAreReadings
<1>4. Trust(s)[k] <= CellTrust(s, c) /\ Trust(s)[k] \in 0 .. 1000
  BY ConfidenceOfSymbol
<1>5. CellTrust(s, c) = ReadData(s, i).confidence
  BY <1>2, Zenon DEF CellTrust
<1>6. QED
  BY <1>3, <1>4, <1>5

----------------------------------------------------------------------------
(* The header.                                                             *)
HeaderReadings(s) == [i \in 1 .. HEADER_CELLS |-> ReadHeader(s, i)]
HeaderValues(s) == [i \in 1 .. HEADER_CELLS |-> ReadHeader(s, i).value]
HeaderBytes(s) == pack_bits(HeaderValues(s), 1, 32)
DoubtedBytes(s) ==
  {b \in 1 .. 32 : \E i \in (8 * b) - 7 .. 8 * b :
                     HeaderReadings(s)[i].confidence < ERASURE_THRESHOLD}
Header(s) == HeaderReading(Cal(s), layout(s.grid), Picture(s))

LEMMA HeaderIs ==
  ASSUME NEW s \in Shots
  PROVE  Header(s) = [bytes |-> HeaderBytes(s),
                      erasures |-> IF Cardinality(DoubtedBytes(s)) > 16 THEN {}
                                   ELSE DoubtedBytes(s)]
<1> DEFINE l == layout(s.grid)
           read == [i \in 1 .. HEADER_CELLS |->
                      demodulate(Cal(s), "Mono", Picture(s)[l.header_cells[i] + 1])]
           shown == Tuple(read)
           doubted == {b \in 1 .. 32 : \E i \in (8 * b) - 7 .. 8 * b :
                         shown[i].confidence < ERASURE_THRESHOLD}
<1>1. read = HeaderReadings(s)
  BY Zenon DEF HeaderReadings, ReadHeader, HeaderCell
<1>2. PICK n \in Nat : n = HEADER_CELLS
  BY DEF HEADER_CELLS
<1>3. read = [i \in 1 .. n |-> read[i]]
  BY <1>2
<1> HIDE DEF read
<1>4. shown = HeaderReadings(s)
  BY <1>1, <1>3, TupleIsTheSequence, Zenon
<1>5. [i \in DOMAIN shown |-> shown[i].value] = HeaderValues(s)
  BY <1>4 DEF HeaderReadings, HeaderValues
<1>6. Tuple(HeaderValues(s)) = HeaderValues(s)
  <2>1. HeaderValues(s) = [i \in 1 .. n |-> HeaderValues(s)[i]]
    BY <1>2 DEF HeaderValues
  <2>2. QED
    BY <2>1, TupleIsTheSequence, Zenon
<1>7. Header(s) =
        [bytes |-> pack_bits(Tuple([i \in DOMAIN shown |-> shown[i].value]), 1, 32),
         erasures |-> IF Cardinality(doubted) > 16 THEN {} ELSE doubted]
  BY Zenon DEF Header, HeaderReading, read
<1> HIDE DEF shown
<1>8. doubted = DoubtedBytes(s)
  <2>1. ASSUME NEW h, h = shown
        PROVE  doubted = {b \in 1 .. 32 : \E i \in (8 * b) - 7 .. 8 * b :
                            h[i].confidence < ERASURE_THRESHOLD}
    BY <2>1
  <2>2. QED
    BY <1>4, <2>1, Zenon DEF DoubtedBytes
<1> HIDE DEF doubted
<1>9. QED
  BY <1>5, <1>6, <1>7, <1>8, Zenon DEF HeaderBytes

LEMMA HeaderByteIsRead ==
  ASSUME NEW s \in Shots, NEW b \in 1 .. 32, Clear(s.exposure, "Mono"), Kept(s, "Mono"),
         \A i \in (8 * b) - 7 .. 8 * b : HeaderCell(s, i) \notin Smudged(s)
  PROVE  HeaderBytes(s)[b] = s.header[b] /\ b \notin DoubtedBytes(s)
<1>1. ASSUME NEW i \in (8 * b) - 7 .. 8 * b
      PROVE  /\ HeaderReadings(s)[i].confidence = 1000
             /\ HeaderValues(s)[i] = SentHeader(s)[i]
  <2>1. PICK j \in 1 .. HEADER_CELLS : j = i
    BY DEF HEADER_CELLS
  <2>2. HeaderCell(s, j) \notin Smudged(s)
    BY <2>1
  <2>3. ReadHeader(s, j).value = SentHeader(s)[j] /\ ReadHeader(s, j).confidence = 1000
    BY <2>2, FreeHeaderCellIsRead
  <2>4. HeaderReadings(s)[j] = ReadHeader(s, j) /\ HeaderValues(s)[j] = ReadHeader(s, j).value
    BY Zenon DEF HeaderReadings, HeaderValues
  <2>5. QED
    BY <2>1, <2>3, <2>4
<1>2. b \notin DoubtedBytes(s)
  <2>1. SUFFICES ASSUME b \in DoubtedBytes(s) PROVE FALSE
    OBVIOUS
  <2>2. PICK i \in (8 * b) - 7 .. 8 * b : HeaderReadings(s)[i].confidence < ERASURE_THRESHOLD
    BY <2>1 DEF DoubtedBytes
  <2>3. 1000 < ERASURE_THRESHOLD
    BY <1>1, <2>2
  <2>4. QED
    BY <2>3, ThresholdAssumption
<1>3. PICK w \in Int, n \in Nat, m \in Nat, k \in Int :
        w = 1 /\ n = HEADER_CELLS /\ m = 32 /\ k = b
  BY DEF HEADER_CELLS
<1>4. PICK bytes \in Seq(0 .. 255) : bytes = s.header
  BY ShotAssumption, Zenon
<1>5. Len(bytes) = 32
  BY <1>4, ShotAssumption, Zenon
<1>6. PICK v : v = HeaderValues(s)
  OBVIOUS
<1>7. v \in Seq(Nat) /\ Len(v) = n
  <2>1. \A i \in 1 .. n : v[i] \in 0 .. 7
    BY <1>3, <1>6, CellsAreReadings DEF HeaderValues
  <2>2. v = [i \in 1 .. n |-> v[i]]
    BY <1>3, <1>6 DEF HeaderValues
  <2>3. \A i \in 1 .. n : v[i] \in Nat
    BY <2>1
  <2>4. v \in [1 .. n -> Nat]
    BY <2>2, <2>3, Zenon
  <2>5. QED
    BY <2>4
<1>8. Same(bytes, v, w, n, k)
  <2>1. ASSUME NEW c \in (8 * (k - 1)) \div w .. ((8 * k) - 1) \div w
        PROVE  v[c + 1] = unpack_bits(bytes, w, n)[c + 1]
    <3>1. c + 1 \in (8 * b) - 7 .. 8 * b
      BY <1>3, <2>1
    <3>2. HeaderValues(s)[c + 1] = SentHeader(s)[c + 1]
      BY <1>1, <3>1, ZenonT(60)
    <3>3. SentHeader(s) = unpack_bits(bytes, w, n)
      BY <1>3, <1>4, Zenon DEF SentHeader
    <3>4. QED
      BY <1>6, <3>2, <3>3
  <2>2. QED
    BY <2>1, Zenon DEF Same
<1>9. /\ w \in 1 .. 3 /\ k \in 1 .. m /\ k <= Len(bytes) /\ 8 * k <= w * n
  BY <1>3, <1>5 DEF HEADER_CELLS
<1>10. pack_bits(v, w, m)[k] = bytes[k]
  BY <1>7, <1>8, <1>9, PackedBack
<1>11. HeaderBytes(s)[b] = s.header[b]
  BY <1>3, <1>4, <1>6, <1>10, Zenon DEF HeaderBytes
<1>12. QED
  BY <1>2, <1>11

----------------------------------------------------------------------------
(* What is on display, seen and read belongs to the shot.                  *)
ShotInv ==
  /\ shot = None => cells = None /\ colors = None /\ reading = None
  /\ shot # None => shot \in Shots
  /\ cells # None => shot # None /\ cells = frame(shot)
  /\ colors # None => cells # None /\ colors = Picture(shot)
  /\ reading # None => colors # None /\ reading = [header |-> Header(shot), data |-> Data(shot)]

LEMMA ShotInvHolds == OpticsSpec => []ShotInv
<1>1. OpticsInit => ShotInv
  BY DEF OpticsInit, ShotInv
<1>2. ASSUME ShotInv, [OpticsNext]_OpticsVars PROVE ShotInv'
  <2>1. ASSUME NEW p \in Profiles, Plan(p) PROVE ShotInv'
    BY <1>2, <2>1 DEF ShotInv, Plan, Picture, Header, Data, Cal
  <2>2. ASSUME NEW s \in Shots, Display(s) PROVE ShotInv'
    <3>1. s # None
      BY ShotAssumption
    <3>2. /\ shot' = s /\ cells' = frame(s) /\ colors' = None /\ reading' = None
      BY <1>2, <2>2 DEF ShotInv, Display
    <3>3. QED
      BY <3>1, <3>2 DEF ShotInv
  <2>3. CASE Capture
    <3>1. /\ cells # None /\ shot' = shot /\ cells' = cells /\ reading' = reading
          /\ colors' = Photograph(shot, cells) /\ colors = None
      BY <2>3 DEF Capture
    <3>2. shot # None /\ shot \in Shots /\ cells = frame(shot) /\ reading' = None
      BY <1>2, <3>1 DEF ShotInv
    <3>3. colors' = Picture(shot)
      BY <3>1, <3>2, Zenon DEF Picture
    <3>4. Picture(shot)' = Picture(shot) /\ frame(shot)' = frame(shot)
      BY <3>1 DEF Picture
    <3>5. QED
      BY <3>1, <3>2, <3>3, <3>4 DEF ShotInv
  <2>4. CASE ReadShot
    <3>1. /\ colors # None /\ shot' = shot /\ cells' = cells /\ colors' = colors
      BY <2>4 DEF ReadShot
    <3>2. /\ shot # None /\ shot \in Shots /\ cells # None /\ cells = frame(shot)
          /\ colors = Picture(shot)
      BY <1>2, <3>1 DEF ShotInv
    <3>3. reading' = [header |-> Header(shot), data |-> Data(shot)]
      BY <2>4, <3>2, Zenon DEF ReadShot, Header, Data, Cal
    <3>4. /\ Picture(shot)' = Picture(shot) /\ frame(shot)' = frame(shot)
          /\ Header(shot)' = Header(shot) /\ Data(shot)' = Data(shot)
      BY <3>1 DEF Picture, Header, Data, Cal
    <3>5. QED
      BY <3>1, <3>2, <3>3, <3>4 DEF ShotInv
  <2>5. CASE UNCHANGED OpticsVars
    BY <1>2, <2>5 DEF ShotInv, OpticsVars, Picture, Header, Data, Cal
  <2>6. QED
    BY <1>2, <2>1, <2>2, <2>3, <2>4, <2>5 DEF OpticsNext
<1>3. QED
  BY <1>1, <1>2, PTL DEF OpticsSpec

(* The properties of a reading are those of the shot it was made from.     *)
LEMMA ReadingIs ==
  ASSUME ShotInv, reading # None
  PROVE  \E s \in Shots :
           /\ s = shot
           /\ reading.data.symbols = SymbolsRead(s) /\ reading.data.confidence = Trust(s)
           /\ reading.header.bytes = HeaderBytes(s)
           /\ reading.header.erasures = IF Cardinality(DoubtedBytes(s)) > 16 THEN {}
                                        ELSE DoubtedBytes(s)
           /\ \A mode : ScaleKept(mode) <=> Kept(s, mode)
           /\ \A k : Holding(k) = {DataCell(s, c + 1) : c \in Held(s, k)}
           /\ \A b : HeaderHolding(b) = {HeaderCell(s, i) : i \in (8 * b) - 7 .. 8 * b}
<1>1. PICK s \in Shots : s = shot /\ reading = [header |-> Header(s), data |-> Data(s)]
  BY DEF ShotInv
<1>2. reading.header = Header(s) /\ reading.data = Data(s)
  BY <1>1
<1>3. Data(s) = [symbols |-> SymbolsRead(s), confidence |-> Trust(s)]
  BY DataIs
<1>4. Header(s) = [bytes |-> HeaderBytes(s),
                   erasures |-> IF Cardinality(DoubtedBytes(s)) > 16 THEN {}
                                ELSE DoubtedBytes(s)]
  BY HeaderIs
<1>5. \A mode : ScaleKept(mode) <=> Kept(s, mode)
  BY <1>1 DEF ScaleKept, Kept
<1>6. \A k : Holding(k) = {DataCell(s, c + 1) : c \in Held(s, k)}
  BY <1>1, Zenon DEF Holding, Held, DataCell
<1>7. \A b : HeaderHolding(b) = {HeaderCell(s, i) : i \in (8 * b) - 7 .. 8 * b}
  BY <1>1, Zenon DEF HeaderHolding, HeaderCell
<1>8. /\ reading.data.symbols = SymbolsRead(s) /\ reading.data.confidence = Trust(s)
      /\ reading.header.bytes = HeaderBytes(s)
      /\ reading.header.erasures = IF Cardinality(DoubtedBytes(s)) > 16 THEN {}
                                   ELSE DoubtedBytes(s)
  BY <1>2, <1>3, <1>4
<1>9. QED
  BY <1>1, <1>5, <1>6, <1>7, <1>8, Zenon

LEMMA ShotsAreReadable ==
  ASSUME ShotInv, reading # None
  PROVE  FreeSymbolsAreRead /\ MisreadingsAreCovers /\ FreeHeaderIsRead /\ LostChannelsAreDoubted
<1>1. PICK s \in Shots :
        /\ s = shot
        /\ reading.data.symbols = SymbolsRead(s) /\ reading.data.confidence = Trust(s)
        /\ reading.header.bytes = HeaderBytes(s)
        /\ reading.header.erasures = IF Cardinality(DoubtedBytes(s)) > 16 THEN {}
                                     ELSE DoubtedBytes(s)
        /\ \A mode : ScaleKept(mode) <=> Kept(s, mode)
        /\ \A k : Holding(k) = {DataCell(s, c + 1) : c \in Held(s, k)}
        /\ \A b : HeaderHolding(b) = {HeaderCell(s, i) : i \in (8 * b) - 7 .. 8 * b}
  BY ReadingIs
<1>2. DOMAIN shot.symbols = Symbols(s) /\ DOMAIN shot.header = 1 .. 32
  <2>1. s.header \in Seq(0 .. 255) /\ Len(s.header) = 32
    BY ShotAssumption, Zenon
  <2>2. DOMAIN s.header = 1 .. 32
    BY <2>1
  <2>3. QED
    BY <1>1, <2>2, SymbolsFit DEF Symbols
<1>3. \A k : Doubted(k) <=> Trust(s)[k] < ERASURE_THRESHOLD
  BY <1>1, Zenon DEF Doubted
<1>4. ERASURE_THRESHOLD \in 280 .. 1000
  BY ThresholdAssumption
<1>5. ASSUME Clear(shot.exposure, shot.mode), ScaleKept(shot.mode)
      PROVE  Clear(s.exposure, s.mode) /\ Kept(s, s.mode)
  BY <1>1, <1>5, Zenon
<1>6. ASSUME NEW k \in Symbols(s), Clear(s.exposure, s.mode), Kept(s, s.mode),
             Holding(k) \cap Smudged(shot) = {}
      PROVE  SymbolsRead(s)[k] = shot.symbols[k] /\ Trust(s)[k] = 1000
  <2>1. ASSUME NEW c \in Held(s, k) PROVE DataCell(s, c + 1) \notin Smudged(s)
    <3>1. DataCell(s, c + 1) \in Holding(k)
      BY <1>1
    <3>2. QED
      BY <1>1, <1>6, <3>1
  <2>2. SymbolsRead(s)[k] = s.symbols[k] /\ Trust(s)[k] = 1000
    <3>1. Free(s, k)
      BY <2>1, Zenon DEF Free
    <3>2. Clear(s.exposure, s.mode) /\ Kept(s, s.mode)
      BY <1>6
    <3>3. QED
      BY <3>1, <3>2, SymbolIsRead
  <2>3. QED
    BY <1>1, <2>2, Zenon
<1>7. ASSUME NEW k, Trust(s)[k] = 1000 PROVE ~Doubted(k)
  <2>1. ~(1000 < ERASURE_THRESHOLD)
    BY <1>4
  <2>2. QED
    BY <1>3, <1>7, <2>1, ZenonT(60)
<1>8. ASSUME NEW k, NEW x \in Int, x = Trust(s)[k], x < 280 PROVE Doubted(k)
  <2>1. x < ERASURE_THRESHOLD
    BY <1>4, <1>8
  <2>2. QED
    BY <1>3, <1>8, <2>1, Zenon
<1>9. FreeSymbolsAreRead
  <2>1. SUFFICES ASSUME Clear(shot.exposure, shot.mode), ScaleKept(shot.mode),
                        NEW k \in DOMAIN shot.symbols, Holding(k) \cap Smudged(shot) = {}
                 PROVE  reading.data.symbols[k] = shot.symbols[k] /\ ~Doubted(k)
    BY Zenon DEF FreeSymbolsAreRead
  <2>2. k \in Symbols(s)
    BY <1>2, Zenon
  <2>3. SymbolsRead(s)[k] = shot.symbols[k] /\ Trust(s)[k] = 1000
    <3>1. Clear(s.exposure, s.mode) /\ Kept(s, s.mode)
      BY <1>5, <2>1, Zenon
    <3>2. Holding(k) \cap Smudged(shot) = {}
      BY <2>1
    <3>3. QED
      BY <1>6, <2>2, <3>1, <3>2
  <2>4. QED
    BY <1>1, <1>7, <2>3, ZenonT(60)
<1>10. MisreadingsAreCovers
  <2>1. SUFFICES ASSUME Clear(shot.exposure, shot.mode), ScaleKept(shot.mode),
                        NEW k \in DOMAIN shot.symbols,
                        reading.data.symbols[k] # shot.symbols[k], ~Doubted(k)
                 PROVE  /\ Holding(k) \cap Smudged(shot) # {}
                        /\ IF shot.smudge.paint.kind = "filter" THEN shot.mode # "Rgb4"
                           ELSE Extreme(shot.exposure, shot.smudge.paint.rgb)
    BY Zenon DEF MisreadingsAreCovers
  <2>2. k \in Symbols(s) /\ Clear(s.exposure, s.mode) /\ Kept(s, s.mode)
    BY <1>2, <1>5, <2>1, Zenon
  <2>3. Holding(k) \cap Smudged(shot) # {}
    <3>1. SUFFICES ASSUME Holding(k) \cap Smudged(shot) = {} PROVE FALSE
      OBVIOUS
    <3>2. SymbolsRead(s)[k] = shot.symbols[k]
      BY <1>6, <2>2, <3>1
    <3>3. QED
      BY <1>1, <2>1, <3>2, Zenon
  <2>4. PICK cell : cell \in Holding(k) /\ cell \in Smudged(shot)
    BY <2>3
  <2>5. PICK c \in Held(s, k) : DataCell(s, c + 1) \in Smudged(s)
    BY <1>1, <2>4
  <2>6. ~ \/ s.smudge.paint.kind = "solid" /\ Middling(s.exposure, s.smudge.paint.rgb)
          \/ s.smudge.paint.kind # "solid" /\ s.mode = "Rgb4"
    <3>1. SUFFICES ASSUME \/ /\ s.smudge.paint.kind = "solid"
                             /\ Middling(s.exposure, s.smudge.paint.rgb)
                          \/ s.smudge.paint.kind # "solid" /\ s.mode = "Rgb4"
                   PROVE  FALSE
      BY Zenon
    <3>2. Trust(s)[k] < 280
      BY <2>2, <2>5, <3>1, SymbolIsDoubted, Zenon
    <3>3. PICK x \in 0 .. 1000 : x = Trust(s)[k]
      BY <2>2, ConfidenceOfSymbol
    <3>4. x < 280
      BY <3>2, <3>3, Zenon
    <3>5. QED
      BY <1>8, <2>1, <3>3, <3>4
  <2>7. /\ s.smudge.paint.kind = "solid" \/ s.smudge.paint.kind = "filter"
        /\ s.smudge.paint.kind = "solid" =>
             Extreme(s.exposure, s.smudge.paint.rgb) \/ Middling(s.exposure, s.smudge.paint.rgb)
    BY ShotAssumption, PaintAssumption, Zenon
  <2>8. QED
    BY <1>1, <2>3, <2>6, <2>7
<1>11. FreeHeaderIsRead
  <2>1. SUFFICES ASSUME Clear(shot.exposure, "Mono"), ScaleKept("Mono"),
                        NEW b \in DOMAIN shot.header, HeaderHolding(b) \cap Smudged(shot) = {}
                 PROVE  /\ reading.header.bytes[b] = shot.header[b]
                        /\ b \notin reading.header.erasures
    BY Zenon DEF FreeHeaderIsRead
  <2>2. b \in 1 .. 32 /\ Clear(s.exposure, "Mono") /\ Kept(s, "Mono")
    BY <1>1, <1>2, <2>1, Zenon
  <2>3. ASSUME NEW i \in (8 * b) - 7 .. 8 * b PROVE HeaderCell(s, i) \notin Smudged(s)
    <3>1. HeaderCell(s, i) \in HeaderHolding(b)
      BY <1>1
    <3>2. QED
      BY <1>1, <2>1, <3>1
  <2>4. HeaderBytes(s)[b] = s.header[b] /\ b \notin DoubtedBytes(s)
    BY <2>2, <2>3, HeaderByteIsRead, Zenon
  <2>5. b \notin reading.header.erasures
    BY <1>1, <2>4
  <2>6. QED
    BY <1>1, <2>4, <2>5, Zenon
<1>12. LostChannelsAreDoubted
  <2>1. SUFFICES ASSUME Crushed(shot.exposure, shot.mode), NEW k \in DOMAIN shot.symbols
                 PROVE  Doubted(k)
    BY Zenon DEF LostChannelsAreDoubted
  <2>2. k \in Symbols(s) /\ Crushed(s.exposure, s.mode)
    BY <1>1, <1>2, <2>1, Zenon
  <2>3. Trust(s)[k] = 0
    BY <2>2, LostSymbolIsDoubted, Zenon
  <2>4. QED
    BY <1>8, <2>3
<1>13. QED
  BY <1>9, <1>10, <1>11, <1>12

(* What the picture of a frame is read as, for every frame of the five     *)
(* layouts, every exposure and every set of covered cells: damage stays    *)
(* where it is, and is either seen or a confident reading of what covers   *)
(* the cells; an exposure that has lost a channel is seen.                 *)
(* decoder.rs: decode_sampled(); color.rs; layout.rs.                      *)
THEOREM PicturesAreReadable == OpticsSpec => []FramesAreReadable
<1>1. ShotInv => FramesAreReadable
  BY ShotsAreReadable, Zenon DEF FramesAreReadable
<1>2. QED
  BY <1>1, ShotInvHolds, PTL

-----------------------------------------------------------------------------

(* The sides of the grids, and the cells they leave for data.              *)
Room(g, n, free) ==
  \/ g = 0 /\ n = 33 /\ free = 511
  \/ g = 1 /\ n = 49 /\ free = 1791
  \/ g = 2 /\ n = 65 /\ free = 3583
  \/ g = 3 /\ n = 81 /\ free = 5887
  \/ g = 4 /\ n = 97 /\ free = 8703

(* Every grid of the wire format has its side, its room for data and all of*)
(* its header cells.                                                       *)
LEMMA LayoutSizes ==
  ASSUME NEW g \in 0 .. 4
  PROVE  /\ Room(g, layout(g).n, Len(layout(g).data_cells))
         /\ Len(layout(g).header_cells) = HEADER_CELLS
<1> DEFINE f == [i \in 1 .. 5 |-> Layout(ALL[i])]
<1>1. Layouts = Tuple(f)
  BY DEF Layouts, ALL
<1>2. f = [i \in 1 .. 5 |-> f[i]] /\ \A i \in 1 .. 5 : f[i] = Layout(ALL[i])
  BY Zenon
<1> HIDE DEF f
<1>3. Tuple(f) = f
  BY <1>2, TupleIsTheSequence
<1>4. g + 1 \in 1 .. 5
  OBVIOUS
<1>5. layout(g) = Layout(ALL[g + 1])
  BY <1>1, <1>2, <1>3, <1>4, Zenon DEF layout
<1>6. Layout(ALL[g + 1]).n = ALL[g + 1]
  BY Zenon DEF Layout
<1>7. layout(g).n = ALL[g + 1]
  BY <1>5, <1>6, Zenon
<1>8. PICK n : n = layout(g).n
  OBVIOUS
<1>9. /\ Len(layout(g).header_cells) = HEADER_CELLS
      /\ Len(layout(g).data_cells) = (n * n) - 256 - (2 * (n - 16)) - 32 - HEADER_CELLS
  BY <1>8, LayoutAssumption, Zenon
<1>10. PICK free : free = Len(layout(g).data_cells)
  OBVIOUS
<1>11. free = (n * n) - 256 - (2 * (n - 16)) - 32 - 256
  BY <1>9, <1>10 DEF HEADER_CELLS
<1>12. n = ALL[g + 1]
  BY <1>7, <1>8, Zenon
<1>13. Room(g, n, free)
  BY <1>11, <1>12 DEF Room, ALL
<1>14. QED
  BY <1>8, <1>9, <1>10, <1>13, Zenon

(* What a division of naturals leaves.                                     *)
LEMMA Division ==
  ASSUME NEW t \in Nat, NEW b \in Nat \ {0}
  PROVE  /\ t \div b \in Nat
         /\ b * (t \div b) <= t /\ t < b * (t \div b) + b
OBVIOUS

(* FrameProfile::new() spreads any number of symbols, from 17 up, over the *)
(* fewest blocks of at most 255: none is shorter than 17 symbols, and fewer*)
(* symbols are left over than there are blocks.                            *)
LEMMA BlocksAreEven ==
  ASSUME NEW total \in Nat, total >= 17
  PROVE  LET b == blocks(total)
             n == total \div b
         IN  /\ b \in Nat \ {0} /\ n \in 17 .. 255
             /\ b * n <= total /\ total - (b * n) < b
             /\ (b - 1) * 255 < total
<1> DEFINE b == (total + 254) \div 255
           n == total \div b
<1>1. b \in Nat /\ 255 * b <= total + 254 /\ total + 254 < 255 * b + 255
  OBVIOUS
<1>2. b >= 1 /\ b <= total + 1
  BY <1>1
<1>3. blocks(total) = b
  BY <1>2 DEF blocks, Clamp
<1> HIDE DEF b
<1>4. n \in Nat /\ b * n <= total /\ total < b * n + b
  BY <1>1, <1>2, Division
<1> HIDE DEF n
<1>5. total <= 255 * b /\ 17 * b <= total
  <2>1. total <= 255 * b
    BY <1>1
  <2>2. CASE b = 1
    BY <2>1, <2>2
  <2>3. CASE b >= 2
    BY <1>1, <2>3
  <2>4. QED
    BY <1>1, <1>2, <2>1, <2>2, <2>3
<1>6. n <= 255
  <2>1. SUFFICES ASSUME n >= 256 PROVE FALSE
    BY <1>4
  <2>2. b * n >= b * 256
    BY <1>1, <1>2, <1>4, <2>1
  <2>3. QED
    BY <1>1, <1>2, <1>4, <1>5, <2>2
<1>7. n >= 17
  <2>1. SUFFICES ASSUME n + 1 <= 17 PROVE FALSE
    BY <1>4
  <2>2. b * (n + 1) <= b * 17
    BY <1>1, <1>2, <1>4, <2>1
  <2>3. b * (n + 1) = b * n + b
    BY <1>1, <1>4
  <2>4. QED
    BY <1>1, <1>4, <1>5, <2>2, <2>3
<1>8. (b - 1) * 255 < total
  BY <1>1
<1>9. QED
  BY <1>1, <1>2, <1>3, <1>4, <1>6, <1>7, <1>8 DEF n

(* The parity symbols of a block of n symbols, by the parity code.         *)
Parity(n, code) == Clamp(((n * PARITY_RATIOS[code + 1]) + 50) \div 100, 2, n - 1)

(* Every parity code leaves at least six symbols of the block for data, and*)
(* a higher one spends more symbols on parity, for every size of a block.  *)
LEMMA ParityGrows ==
  ASSUME NEW n \in 17 .. 255, NEW code \in 0 .. 7
  PROVE  /\ Parity(n, code) \in 2 .. n - 6
         /\ code > 0 => Parity(n, code) > Parity(n, code - 1)
<1> DEFINE raw(ratio) == ((n * ratio) + 50) \div 100
<1>1. \A i \in 0 .. 7 : Parity(n, i) = Clamp(raw(PARITY_RATIOS[i + 1]), 2, n - 1)
  BY Zenon DEF Parity
<1>2. /\ PARITY_RATIOS[1] = 10 /\ PARITY_RATIOS[2] = 16 /\ PARITY_RATIOS[3] = 22
      /\ PARITY_RATIOS[4] = 28 /\ PARITY_RATIOS[5] = 34 /\ PARITY_RATIOS[6] = 40
      /\ PARITY_RATIOS[7] = 50 /\ PARITY_RATIOS[8] = 60
  BY DEF PARITY_RATIOS
<1>3. /\ 2 <= raw(10) /\ raw(10) < raw(16) /\ raw(16) < raw(22) /\ raw(22) < raw(28)
      /\ raw(28) < raw(34) /\ raw(34) < raw(40) /\ raw(40) < raw(50)
      /\ raw(50) < raw(60) /\ raw(60) <= n - 6
      /\ \A ratio \in {10, 16, 22, 28, 34, 40, 50, 60} : raw(ratio) \in Int
  OBVIOUS
<1> HIDE DEF raw
<1>4. /\ Parity(n, 0) = raw(10) /\ Parity(n, 1) = raw(16) /\ Parity(n, 2) = raw(22)
      /\ Parity(n, 3) = raw(28) /\ Parity(n, 4) = raw(34) /\ Parity(n, 5) = raw(40)
      /\ Parity(n, 6) = raw(50) /\ Parity(n, 7) = raw(60)
  BY <1>1, <1>2, <1>3 DEF Clamp
<1>5. code = 0 \/ code = 1 \/ code = 2 \/ code = 3 \/ code = 4 \/ code = 5 \/ code = 6 \/ code = 7
  OBVIOUS
<1>6. QED
  BY <1>3, <1>4, <1>5

(* The symbols of a frame, from the cells of its grid and the bits of a cell.*)
LEMMA SymbolsTotal ==
  ASSUME NEW g \in 0 .. 4, NEW mode \in Modes
  PROVE  \E free, width \in Nat :
           /\ Room(g, layout(g).n, free) /\ width \in 1 .. 3
           /\ width = bits_per_cell(mode)
           /\ symbols_total(g, mode) = (free * width) \div 8
<1>1. PICK free : free = Len(layout(g).data_cells)
  OBVIOUS
<1>2. Room(g, layout(g).n, free)
  BY <1>1, LayoutSizes, Zenon
<1>3. free \in Nat
  BY <1>2 DEF Room
<1>4. PICK width \in 1 .. 3 : width = bits_per_cell(mode)
  BY DEF Modes, bits_per_cell
<1>5. width \in Nat
  OBVIOUS
<1>6. symbols_total(g, mode) = (free * width) \div 8
  BY <1>1, <1>4, Zenon DEF symbols_total
<1>7. QED
  BY <1>2, <1>3, <1>4, <1>5, <1>6, Zenon

(* Every grid and mode carries enough symbols for one block.               *)
LEMMA SymbolsAreMany ==
  ASSUME NEW g \in 0 .. 4, NEW mode \in Modes
  PROVE  symbols_total(g, mode) \in Nat /\ symbols_total(g, mode) >= 17
<1>1. PICK free, width \in Nat : /\ Room(g, layout(g).n, free) /\ width \in 1 .. 3
                               /\ symbols_total(g, mode) = (free * width) \div 8
  BY SymbolsTotal, Zenon
<1>2. free \in Nat /\ free >= 511
  BY <1>1 DEF Room
<1>3. free * width >= 511 /\ free * width \in Nat
  BY <1>1, <1>2
<1>4. QED
  BY <1>1, <1>3

(* A profile of b blocks of n symbols, k of them for data.                 *)
Coded(b, n, k) == [blocks |-> b, block_n |-> n, block_k |-> k, frame_payload |-> b * k]
BlockCount(g, mode) == blocks(symbols_total(g, mode))
BlockSize(g, mode) == symbols_total(g, mode) \div BlockCount(g, mode)

(* FrameProfile::new() refuses the reserved parity codes and nothing else: no*)
(* grid and mode is too small for any of the eight others.                 *)
LEMMA ProfileIs ==
  ASSUME NEW g \in 0 .. 4, NEW mode \in Modes, NEW code \in Nat
  PROVE  LET b == BlockCount(g, mode)
             n == BlockSize(g, mode)
         IN FrameProfile(g, mode, code)
              = IF code >= 8 THEN None ELSE Coded(b, n, n - Parity(n, code))
<1>1. PICK b, n : b = BlockCount(g, mode) /\ n = BlockSize(g, mode)
  OBVIOUS
<1>2. b \in Nat \ {0} /\ n \in 17 .. 255
  BY <1>1, SymbolsAreMany, BlocksAreEven DEF BlockCount, BlockSize
<1>3. CASE code >= 8
  <2>1. code + 1 \notin DOMAIN PARITY_RATIOS
    BY <1>3 DEF PARITY_RATIOS
  <2>2. FrameProfile(g, mode, code) = None
    BY <2>1, Zenon DEF FrameProfile
  <2>3. QED
    BY <1>3, <2>2, Zenon
<1>4. CASE ~(code >= 8)
  <2>1. code \in 0 .. 7 /\ code + 1 \in DOMAIN PARITY_RATIOS
    BY <1>4 DEF PARITY_RATIOS
  <2>2. PICK k : k = n - Parity(n, code)
    OBVIOUS
  <2>3. FrameProfile(g, mode, code)
          = IF n < 8 \/ b * k <= FRAME_CRC_BYTES THEN None ELSE Coded(b, n, k)
    BY <1>1, <2>1, <2>2, Zenon
    DEF FrameProfile, BlockCount, BlockSize, Parity, Coded
  <2>4. k \in 6 .. n
    <3>1. Parity(n, code) \in 2 .. n - 6
      BY <1>2, <2>1, ParityGrows, Zenon
    <3>2. QED
      BY <1>2, <2>2, <3>1
  <2>5. ~(n < 8)
    BY <1>2
  <2>6. ~(b * k <= FRAME_CRC_BYTES)
    <3>1. b * k >= k
      BY <1>2, <2>4
    <3>2. b * k \in Int
      BY <1>2, <2>4
    <3>3. QED
      BY <2>4, <3>1, <3>2 DEF FRAME_CRC_BYTES
  <2>7. QED
    BY <1>1, <1>4, <2>2, <2>3, <2>5, <2>6, Zenon
<1>5. QED
  BY <1>3, <1>4

(* The numbers FrameProfile::new() goes through.                           *)
Planned(g, mode, code, total, b, n, parity) ==
  /\ total = symbols_total(g, mode) /\ b = blocks(total)
  /\ n = total \div b /\ parity = Parity(n, code)

(* A profile from those numbers.                                           *)
LEMMA PlannedAs ==
  ASSUME NEW g \in 0 .. 4, NEW mode \in Modes, NEW code \in 0 .. 7,
         NEW total, NEW b, NEW n, NEW parity, Planned(g, mode, code, total, b, n, parity)
  PROVE  FrameProfile(g, mode, code) = Coded(b, n, n - parity)
<1>1. code \in Nat /\ ~(code >= 8)
  OBVIOUS
<1>2. QED
  BY <1>1, ProfileIs, Zenon DEF BlockCount, BlockSize, Planned

(* The profiles of the presets, in numbers: from the default one down.     *)
LEMMA NamedProfiles ==
  /\ FrameProfile(1, "Rgb8", 3) = Coded(3, 223, 161)
  /\ FrameProfile(0, "Mono", 5) = Coded(1, 63, 38)
  /\ FrameProfile(4, "Mono", 3) = Coded(5, 217, 156)
  /\ FrameProfile(4, "Rgb8", 1) = Coded(13, 251, 211)
  /\ FrameProfile(2, "Rgb4", 3) = Coded(4, 223, 161)
<1>1. FrameProfile(1, "Rgb8", 3) = Coded(3, 223, 161)
  <2>1. PICK g \in 0 .. 4, mode \in Modes, code \in 0 .. 7,
             total \in Nat, b \in Nat, n \in Nat, parity \in Nat :
          /\ g = 1 /\ mode = "Rgb8" /\ code = 3
          /\ total = 671 /\ b = 3 /\ n = 223 /\ parity = 62
    BY DEF Modes
  <2>2. total = symbols_total(g, mode)
    BY <2>1, SymbolsTotal DEF Room, bits_per_cell
  <2>3. b = blocks(total) /\ n = total \div b
    BY <2>1 DEF blocks, Clamp
  <2>4. parity = Parity(n, code)
    BY <2>1 DEF Parity, Clamp, PARITY_RATIOS
  <2>5. Planned(g, mode, code, total, b, n, parity)
    BY <2>2, <2>3, <2>4, Zenon DEF Planned
  <2>6. FrameProfile(g, mode, code) = Coded(b, n, n - parity)
    BY <2>5, PlannedAs
  <2>7. QED
    BY <2>1, <2>6
<1>2. FrameProfile(0, "Mono", 5) = Coded(1, 63, 38)
  <2>1. PICK g \in 0 .. 4, mode \in Modes, code \in 0 .. 7,
             total \in Nat, b \in Nat, n \in Nat, parity \in Nat :
          /\ g = 0 /\ mode = "Mono" /\ code = 5
          /\ total = 63 /\ b = 1 /\ n = 63 /\ parity = 25
    BY DEF Modes
  <2>2. total = symbols_total(g, mode)
    BY <2>1, SymbolsTotal DEF Room, bits_per_cell
  <2>3. b = blocks(total) /\ n = total \div b
    BY <2>1 DEF blocks, Clamp
  <2>4. parity = Parity(n, code)
    BY <2>1 DEF Parity, Clamp, PARITY_RATIOS
  <2>5. Planned(g, mode, code, total, b, n, parity)
    BY <2>2, <2>3, <2>4, Zenon DEF Planned
  <2>6. FrameProfile(g, mode, code) = Coded(b, n, n - parity)
    BY <2>5, PlannedAs
  <2>7. QED
    BY <2>1, <2>6
<1>3. FrameProfile(4, "Mono", 3) = Coded(5, 217, 156)
  <2>1. PICK g \in 0 .. 4, mode \in Modes, code \in 0 .. 7,
             total \in Nat, b \in Nat, n \in Nat, parity \in Nat :
          /\ g = 4 /\ mode = "Mono" /\ code = 3
          /\ total = 1087 /\ b = 5 /\ n = 217 /\ parity = 61
    BY DEF Modes
  <2>2. total = symbols_total(g, mode)
    BY <2>1, SymbolsTotal DEF Room, bits_per_cell
  <2>3. b = blocks(total) /\ n = total \div b
    BY <2>1 DEF blocks, Clamp
  <2>4. parity = Parity(n, code)
    BY <2>1 DEF Parity, Clamp, PARITY_RATIOS
  <2>5. Planned(g, mode, code, total, b, n, parity)
    BY <2>2, <2>3, <2>4, Zenon DEF Planned
  <2>6. FrameProfile(g, mode, code) = Coded(b, n, n - parity)
    BY <2>5, PlannedAs
  <2>7. QED
    BY <2>1, <2>6
<1>4. FrameProfile(4, "Rgb8", 1) = Coded(13, 251, 211)
  <2>1. PICK g \in 0 .. 4, mode \in Modes, code \in 0 .. 7,
             total \in Nat, b \in Nat, n \in Nat, parity \in Nat :
          /\ g = 4 /\ mode = "Rgb8" /\ code = 1
          /\ total = 3263 /\ b = 13 /\ n = 251 /\ parity = 40
    BY DEF Modes
  <2>2. total = symbols_total(g, mode)
    BY <2>1, SymbolsTotal DEF Room, bits_per_cell
  <2>3. b = blocks(total) /\ n = total \div b
    BY <2>1 DEF blocks, Clamp
  <2>4. parity = Parity(n, code)
    BY <2>1 DEF Parity, Clamp, PARITY_RATIOS
  <2>5. Planned(g, mode, code, total, b, n, parity)
    BY <2>2, <2>3, <2>4, Zenon DEF Planned
  <2>6. FrameProfile(g, mode, code) = Coded(b, n, n - parity)
    BY <2>5, PlannedAs
  <2>7. QED
    BY <2>1, <2>6
<1>5. FrameProfile(2, "Rgb4", 3) = Coded(4, 223, 161)
  <2>1. PICK g \in 0 .. 4, mode \in Modes, code \in 0 .. 7,
             total \in Nat, b \in Nat, n \in Nat, parity \in Nat :
          /\ g = 2 /\ mode = "Rgb4" /\ code = 3
          /\ total = 895 /\ b = 4 /\ n = 223 /\ parity = 62
    BY DEF Modes
  <2>2. total = symbols_total(g, mode)
    BY <2>1, SymbolsTotal DEF Room, bits_per_cell
  <2>3. b = blocks(total) /\ n = total \div b
    BY <2>1 DEF blocks, Clamp
  <2>4. parity = Parity(n, code)
    BY <2>1 DEF Parity, Clamp, PARITY_RATIOS
  <2>5. Planned(g, mode, code, total, b, n, parity)
    BY <2>2, <2>3, <2>4, Zenon DEF Planned
  <2>6. FrameProfile(g, mode, code) = Coded(b, n, n - parity)
    BY <2>5, PlannedAs
  <2>7. QED
    BY <2>1, <2>6
<1>6. QED
  BY <1>1, <1>2, <1>3, <1>4, <1>5

(* The function patterns of a frame.                                       *)
Parts == {"finder", "ruler", "patch"}
Covers(part, n, r, c) ==
  CASE part = "finder" -> InFinder(n, r, c)
    [] part = "ruler" -> OnRuler(n, r, c)
    [] part = "patch" -> InPatch(n, r, c)

(* No cell belongs to two function patterns, whatever the size of the grid.*)
LEMMA PartsAreApart ==
  ASSUME NEW n \in {33, 49, 65, 81, 97}, NEW r \in 0 .. n - 1, NEW c \in 0 .. n - 1
  PROVE  Cardinality({part \in Parts : Covers(part, n, r, c)}) <= 1
<1> DEFINE S == {part \in Parts : Covers(part, n, r, c)}
<1>1. /\ Covers("finder", n, r, c) <=> InFinder(n, r, c)
      /\ Covers("ruler", n, r, c) <=> OnRuler(n, r, c)
      /\ Covers("patch", n, r, c) <=> InPatch(n, r, c)
  BY DEF Covers
<1>2. PICK column \in Int : column = PatchColumn(n)
  BY DEF PatchColumn
<1>3. /\ InPatch(n, r, c) <=> r < 4 /\ c >= column /\ c <= column + 7
      /\ column >= 8 /\ column + 7 < n - 8
  BY <1>2 DEF InPatch, PatchColumn
<1>4. /\ ~(InFinder(n, r, c) /\ OnRuler(n, r, c))
      /\ ~(InFinder(n, r, c) /\ InPatch(n, r, c))
      /\ ~(OnRuler(n, r, c) /\ InPatch(n, r, c))
  BY <1>3 DEF InFinder, InCorner, OnRuler
<1>5. \A x, y \in S : x = y
  BY <1>1, <1>4 DEF Parts
<1> HIDE DEF S
<1>6. CASE S = {}
  BY <1>6, FS_EmptySet DEF S
<1>7. CASE S # {}
  <2>1. PICK x : S = {x}
    BY <1>5, <1>7
  <2>2. Cardinality(S) = 1
    BY <2>1, FS_Singleton
  <2>3. QED
    BY <2>2 DEF S
<1>8. QED
  BY <1>6, <1>7

(* What a profile promises, whatever the grid, mode and code.              *)
Promises(g, mode, code, p) ==
  /\ p # None
  /\ p.block_n \in 8 .. 255 /\ p.block_k \in 1 .. p.block_n - 2
  /\ coded_symbols(p) <= symbols_total(g, mode)
  /\ symbols_total(g, mode) - coded_symbols(p) < p.blocks
  /\ (p.blocks - 1) * 255 < symbols_total(g, mode)
  /\ droplet_size(p) > 0
  /\ code > 0 =>
       LET less == FrameProfile(g, mode, code - 1)
       IN /\ p.block_n - p.block_k > less.block_n - less.block_k
          /\ droplet_size(p) < droplet_size(less)

(* FrameProfile::new() keeps these promises.                               *)
LEMMA ProfileIsSound ==
  ASSUME NEW g \in 0 .. 4, NEW mode \in Modes, NEW code \in 0 .. 7,
         NEW p, p = FrameProfile(g, mode, code)
  PROVE  Promises(g, mode, code, p)
<1>1. PICK total \in Nat : total = symbols_total(g, mode) /\ total >= 17
  BY SymbolsAreMany
<1>2. PICK b, n : b = blocks(total) /\ n = total \div b
  OBVIOUS
<1>3. /\ b \in Nat \ {0} /\ n \in 17 .. 255
      /\ b * n <= total /\ total - (b * n) < b
      /\ (b - 1) * 255 < total
  BY <1>1, <1>2, BlocksAreEven
<1>4. PICK parity : parity = Parity(n, code)
  OBVIOUS
<1>5. parity \in 2 .. n - 6
  BY <1>3, <1>4, ParityGrows, Zenon
<1>6. PICK k \in 6 .. n - 2 : k = n - parity
  BY <1>3, <1>5
<1>7. p = Coded(b, n, k)
  <2>1. Planned(g, mode, code, total, b, n, parity)
    BY <1>1, <1>2, <1>4, Zenon DEF Planned
  <2>2. p = Coded(b, n, n - parity)
    BY <2>1, PlannedAs
  <2>3. QED
    BY <1>6, <2>2, Zenon
<1>8. /\ p.blocks = b /\ p.block_n = n /\ p.block_k = k /\ p.frame_payload = b * k
  BY <1>7 DEF Coded
<1>9. b * k \in Nat /\ b * k >= 6
  BY <1>3, <1>6
<1>10. p # None
  <2>1. p \in [blocks : Nat, block_n : Nat, block_k : Nat, frame_payload : Nat]
    BY <1>3, <1>6, <1>7, <1>9 DEF Coded
  <2>2. QED
    BY <2>1, ProfileAssumption
<1>11. ASSUME code > 0
       PROVE  LET less == FrameProfile(g, mode, code - 1)
              IN /\ p.block_n - p.block_k > less.block_n - less.block_k
                 /\ droplet_size(p) < droplet_size(less)
  <2>1. PICK fewer : fewer = Parity(n, code - 1)
    OBVIOUS
  <2>2. PICK before \in 0 .. 7 : before = code - 1
    BY <1>11
  <2>3. fewer \in 2 .. n - 6 /\ parity > fewer
    <3>1. fewer = Parity(n, before)
      BY <2>1, <2>2, Zenon
    <3>2. fewer \in 2 .. n - 6
      BY <1>3, <3>1, ParityGrows, Zenon
    <3>3. parity > fewer
      BY <1>3, <1>4, <1>11, <2>1, ParityGrows, Zenon
    <3>4. QED
      BY <3>2, <3>3
  <2>4. PICK more \in 6 .. n - 2 : more = n - fewer
    BY <1>3, <2>3
  <2>5. PICK less : less = FrameProfile(g, mode, before)
    OBVIOUS
  <2>6. less = Coded(b, n, more)
    <3>1. fewer = Parity(n, before)
      BY <2>1, <2>2, Zenon
    <3>2. Planned(g, mode, before, total, b, n, fewer)
      BY <1>1, <1>2, <3>1, Zenon DEF Planned
    <3>3. less = Coded(b, n, n - fewer)
      BY <2>5, <3>2, PlannedAs
    <3>4. QED
      BY <2>4, <3>3, Zenon
  <2>7. less.block_n = n /\ less.block_k = more /\ less.frame_payload = b * more
    BY <2>6, Zenon DEF Coded
  <2>8. k < more
    BY <1>3, <1>5, <1>6, <2>3, <2>4
  <2>9. b * k < b * more /\ b * more \in Nat
    BY <1>3, <1>6, <2>4, <2>8
  <2>10. p.block_n - p.block_k > less.block_n - less.block_k
    BY <1>3, <1>6, <1>8, <2>4, <2>7, <2>8
  <2>11. droplet_size(p) < droplet_size(less)
    BY <1>8, <1>9, <2>7, <2>9 DEF droplet_size, FRAME_CRC_BYTES
  <2>12. less = FrameProfile(g, mode, code - 1)
    BY <2>2, <2>5, Zenon
  <2>13. QED
    BY <2>10, <2>11, <2>12, Zenon
<1>12. /\ p.block_n \in 8 .. 255 /\ p.block_k \in 1 .. p.block_n - 2
  BY <1>3, <1>6, <1>8
<1>13. /\ coded_symbols(p) <= symbols_total(g, mode)
       /\ symbols_total(g, mode) - coded_symbols(p) < p.blocks
       /\ (p.blocks - 1) * 255 < symbols_total(g, mode)
  <2>1. coded_symbols(p) = b * n
    BY <1>8, Zenon DEF coded_symbols
  <2>2. QED
    BY <1>1, <1>3, <1>8, <2>1
<1>14. droplet_size(p) > 0
  BY <1>8, <1>9 DEF droplet_size, FRAME_CRC_BYTES
<1>15. QED
  BY <1>10, <1>11, <1>12, <1>13, <1>14, Zenon DEF Promises

(* The profile of a preset, and the parity symbols of its blocks.          *)
PresetOf(name) ==
  LET q == Presets[name]
  IN FrameProfile(q.grid, q.mode, q.parity_code)
Overhead(p) == p.block_n - p.block_k

(* The presets are those profiles.                                         *)
LEMMA PresetsAre ==
  /\ PresetOf("default") = Coded(3, 223, 161)
  /\ PresetOf("robust") = Coded(1, 63, 38)
  /\ PresetOf("mono") = Coded(5, 217, 156)
  /\ PresetOf("fast") = Coded(13, 251, 211)
  /\ PresetOf("resilient") = Coded(4, 223, 161)
<1>1. /\ Presets["default"] = [grid |-> 1, mode |-> "Rgb8", parity_code |-> 3]
      /\ Presets["robust"] = [grid |-> 0, mode |-> "Mono", parity_code |-> 5]
      /\ Presets["mono"] = [grid |-> 4, mode |-> "Mono", parity_code |-> 3]
      /\ Presets["fast"] = [grid |-> 4, mode |-> "Rgb8", parity_code |-> 1]
      /\ Presets["resilient"] = [grid |-> 2, mode |-> "Rgb4", parity_code |-> 3]
  BY DEF Presets
<1>2. QED
  BY <1>1, NamedProfiles DEF PresetOf

(* "fast" carries the most, and "robust" has the largest share of parity.  *)
LEMMA PresetsCompare ==
  ASSUME NEW name \in DOMAIN Presets
  PROVE  /\ droplet_size(PresetOf(name)) <= droplet_size(PresetOf("fast"))
         /\ Overhead(PresetOf(name)) * PresetOf("robust").block_n
              <= Overhead(PresetOf("robust")) * PresetOf(name).block_n
<1>1. \/ name = "default"
      \/ name = "robust"
      \/ name = "mono"
      \/ name = "fast"
      \/ name = "resilient"
  BY DEF Presets
<1>2. PICK p : p = PresetOf(name)
  OBVIOUS
<1>3. /\ droplet_size(PresetOf("fast")) = 2739
      /\ Overhead(PresetOf("robust")) = 25 /\ PresetOf("robust").block_n = 63
  BY PresetsAre DEF droplet_size, Overhead, Coded, FRAME_CRC_BYTES
<1>4. CASE name = "default"
  <2>1. p = Coded(3, 223, 161)
    BY <1>2, <1>4, PresetsAre
  <2>2. droplet_size(p) = 479 /\ Overhead(p) = 62 /\ p.block_n = 223
    BY <2>1 DEF droplet_size, Overhead, Coded, FRAME_CRC_BYTES
  <2>3. QED
    BY <1>2, <1>3, <2>2
<1>5. CASE name = "robust"
  <2>1. p = Coded(1, 63, 38)
    BY <1>2, <1>5, PresetsAre
  <2>2. droplet_size(p) = 34 /\ Overhead(p) = 25 /\ p.block_n = 63
    BY <2>1 DEF droplet_size, Overhead, Coded, FRAME_CRC_BYTES
  <2>3. QED
    BY <1>2, <1>3, <2>2
<1>6. CASE name = "mono"
  <2>1. p = Coded(5, 217, 156)
    BY <1>2, <1>6, PresetsAre
  <2>2. droplet_size(p) = 776 /\ Overhead(p) = 61 /\ p.block_n = 217
    BY <2>1 DEF droplet_size, Overhead, Coded, FRAME_CRC_BYTES
  <2>3. QED
    BY <1>2, <1>3, <2>2
<1>7. CASE name = "fast"
  <2>1. p = Coded(13, 251, 211)
    BY <1>2, <1>7, PresetsAre
  <2>2. droplet_size(p) = 2739 /\ Overhead(p) = 40 /\ p.block_n = 251
    BY <2>1 DEF droplet_size, Overhead, Coded, FRAME_CRC_BYTES
  <2>3. QED
    BY <1>2, <1>3, <2>2
<1>8. CASE name = "resilient"
  <2>1. p = Coded(4, 223, 161)
    BY <1>2, <1>8, PresetsAre
  <2>2. droplet_size(p) = 640 /\ Overhead(p) = 62 /\ p.block_n = 223
    BY <2>1 DEF droplet_size, Overhead, Coded, FRAME_CRC_BYTES
  <2>3. QED
    BY <1>2, <1>3, <2>2
<1>9. QED
  BY <1>1, <1>4, <1>5, <1>6, <1>7, <1>8, Zenon

(* The patterns of a grid of n by n cells share no cell.                   *)
Apart(n) ==
  \A r, c \in 0 .. n - 1 : Cardinality({part \in Parts : Covers(part, n, r, c)}) <= 1

(* A plan that is the preset "fast" or "robust" has what its name says.    *)
Leads(q, p) ==
  /\ q = Presets.fast =>
       \A name \in DOMAIN Presets : droplet_size(PresetOf(name)) <= droplet_size(p)
  /\ q = Presets.robust =>
       \A name \in DOMAIN Presets :
         Overhead(PresetOf(name)) * p.block_n <= Overhead(p) * PresetOf(name).block_n

(* The plan on display is what FrameProfile::new() makes of a request.     *)
PlanMade ==
  plan # None =>
    \E q \in Profiles :
      plan = [request |-> q, profile |-> FrameProfile(q.grid, q.mode, q.parity_code)]

(* No step shows any other plan.                                           *)
LEMMA PlanIsMade == OpticsSpec => []PlanMade
<1>1. OpticsInit => PlanMade
  BY DEF OpticsInit, PlanMade
<1>2. PlanMade /\ [OpticsNext]_OpticsVars => PlanMade'
  BY DEF PlanMade, OpticsNext, Plan, Display, Capture, ReadShot, OpticsVars
<1>3. QED
  BY <1>1, <1>2, PTL DEF OpticsSpec

(* For every grid, mode and parity code that a sender can ask for, reserved*)
(* ones included: FrameProfile::new() answers None for the reserved codes  *)
(* alone; otherwise its blocks have 8 to 255 symbols, at least two of them *)
(* parity and at least one data, there are as few blocks as can be, no whole*)
(* symbol per block is left over, a droplet has at least a byte, and a higher*)
(* code buys more parity at the price of a smaller droplet. The patterns of*)
(* layout.rs share no cell, the header is complete, and among the presets of*)
(* encoder.rs "fast" carries the most and "robust" the largest share of    *)
(* parity.                                                                 *)
THEOREM ProfilesStaySound == OpticsSpec => []ProfilesAreSound
<1>1. ASSUME PlanMade, plan # None PROVE ProfilesAreSound
  <2>1. PICK q \in Profiles :
          plan = [request |-> q, profile |-> FrameProfile(q.grid, q.mode, q.parity_code)]
    BY <1>1 DEF PlanMade
  <2>2. /\ q.grid \in 0 .. 4 /\ q.mode \in Modes /\ q.parity_code \in Nat
        /\ q = [grid |-> q.grid, mode |-> q.mode, parity_code |-> q.parity_code]
    BY ProfileAssumption
  <2>3. PICK g \in 0 .. 4, mode \in Modes, code \in Nat :
          g = q.grid /\ mode = q.mode /\ code = q.parity_code
    BY <2>2
  <2>4. PICK p : p = FrameProfile(g, mode, code)
    OBVIOUS
  <2>5. plan.request = q /\ plan.profile = p
    BY <2>1, <2>3, <2>4
  <2>6. PICK n : n = layout(g).n
    OBVIOUS
  <2>7. ASSUME NEW r \in 0 .. n - 1, NEW c \in 0 .. n - 1
        PROVE  Cardinality({part \in Parts : Covers(part, n, r, c)}) <= 1
    <3>1. n \in {33, 49, 65, 81, 97}
      <4>1. PICK free : Room(g, n, free)
        BY <2>6, LayoutSizes, Zenon
      <4>2. QED
        BY <4>1 DEF Room
    <3>2. QED
      BY <3>1, PartsAreApart, Zenon
  <2>8. Len(layout(g).header_cells) = HEADER_CELLS
    BY LayoutSizes, Zenon
  <2>9. code >= 8 => p = None
    BY <2>4, ProfileIs, Zenon
  <2>10. ASSUME ~(code >= 8) PROVE code \in 0 .. 7
    BY <2>10
  <2>11. ASSUME ~(code >= 8) PROVE Promises(g, mode, code, p)
    BY <2>4, <2>10, <2>11, ProfileIsSound
  <2>12. q = Presets.fast => p = PresetOf("fast")
    BY <2>3, <2>4, Zenon DEF PresetOf
  <2>13. q = Presets.robust => p = PresetOf("robust")
    BY <2>3, <2>4, Zenon DEF PresetOf
  <2>14. q = Presets.fast =>
         \A name \in DOMAIN Presets : droplet_size(PresetOf(name)) <= droplet_size(p)
    BY <2>12, PresetsCompare, Zenon
  <2>15. q = Presets.robust =>
         \A name \in DOMAIN Presets :
           Overhead(PresetOf(name)) * p.block_n <= Overhead(p) * PresetOf(name).block_n
    BY <2>13, PresetsCompare, Zenon
  <2>16. /\ plan.request.grid = g /\ plan.request.mode = mode
         /\ plan.request.parity_code = code
    BY <2>3, <2>5, Zenon
  <2>17. Apart(layout(plan.request.grid).n)
    BY <2>6, <2>7, <2>16, Zenon DEF Apart
  <2>18. Len(layout(plan.request.grid).header_cells) = HEADER_CELLS
    BY <2>8, <2>16, Zenon
  <2>19. Leads(plan.request, plan.profile)
    BY <2>5, <2>14, <2>15, Zenon DEF Leads
  <2>20. CASE code >= 8
    <3>1. plan.request.parity_code >= 8 /\ plan.profile = None
      BY <2>5, <2>9, <2>16, <2>20, Zenon
    <3>2. QED
      BY <2>17, <2>18, <3>1, Zenon DEF ProfilesAreSound, Apart, Parts, Covers
  <2>21. CASE ~(code >= 8)
    <3>1. Promises(plan.request.grid, plan.request.mode, plan.request.parity_code, plan.profile)
      BY <2>5, <2>11, <2>16, <2>21, Zenon
    <3>2. ~(plan.request.parity_code >= 8)
      BY <2>16, <2>21, Zenon
    <3>3. QED
      BY <2>17, <2>18, <2>19, <3>1, <3>2, Zenon
      DEF ProfilesAreSound, Apart, Parts, Covers, Leads, PresetOf, Overhead, Promises
  <2>22. QED
    BY <2>20, <2>21, Zenon
<1>2. PlanMade => ProfilesAreSound
  <2>1. plan = None => ProfilesAreSound
    BY Zenon DEF ProfilesAreSound
  <2>2. QED
    BY <1>1, <2>1
<1>3. QED
  BY <1>2, PlanIsMade, PTL
=============================================================================
