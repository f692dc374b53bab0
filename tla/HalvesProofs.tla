---------------------------- MODULE HalvesProofs ----------------------------
(***************************************************************************)
(* A 128-bit integer survives its way through XDR, whatever the width of a *)
(* word: TLC can only look at small ones.                                  *)
(***************************************************************************)
EXTENDS Halves, TLAPS

\* Division with remainder, rounding down.
LEMMA Divides ==
  ASSUME NEW v \in Int
  PROVE  /\ v \div Word \in Int
         /\ v % Word \in U64
         /\ v = (v \div Word) * Word + (v % Word)
BY WidthAssumption DEF U64, Unsigned

\* A product of word sizes orders as its factors do.
LEMMA Ordered ==
  ASSUME NEW a \in Int, NEW b \in Int, a < b
  PROVE  a * Word + Word <= b * Word
<1>1. (b - a - 1) * Word >= 0
  BY WidthAssumption
<1>2. (b - a - 1) * Word = b * Word - a * Word - Word
  BY WidthAssumption
<1> QED
  BY <1>1, <1>2, WidthAssumption

\* The quotient of a number between two multiples of a word lies between them.
LEMMA QuotientBounds ==
  ASSUME NEW v \in Int, NEW a \in Int, NEW b \in Int, a * Word <= v, v < b * Word
  PROVE  v \div Word \in a..b - 1
<1> DEFINE q == v \div Word
           r == v % Word
<1>1. q \in Int /\ r \in 0..Word - 1 /\ v = (q * Word) + r
  BY Divides DEF U64, Unsigned
<1>2. a * Word \in Int /\ b * Word \in Int /\ q * Word \in Int
  BY <1>1, WidthAssumption
<1> HIDE DEF q, r
<1>3. ~(q < a)
  BY <1>1, <1>2, Ordered, WidthAssumption
<1>4. ~(b <= q)
  <2>1. CASE b = q
    BY <1>1, <1>2, <2>1
  <2>2. CASE b < q
    BY <1>1, <1>2, <2>2, Ordered, WidthAssumption
  <2> QED
    BY <1>1, <2>1, <2>2
<1> QED
  BY <1>1, <1>3, <1>4 DEF q

\* Half of the 128-bit range is half a word of words.
LEMMA HalfRange == (Word * Word) \div 2 = (Word \div 2) * Word
<1> DEFINE h == Word \div 2
<1>1. h \in Nat /\ Word = 2 * h
  BY WidthAssumption DEF Even
<1> HIDE DEF h
<1>2. Word * Word = 2 * (h * Word) /\ h * Word \in Nat
  BY <1>1
<1>3. (2 * (h * Word)) \div 2 = h * Word
  BY <1>2
<1> QED
  BY <1>2, <1>3 DEF h

\* Writing an integer in two halves and putting them together again gives it back.
THEOREM HalvesRecombine ==
  ASSUME NEW v \in Int
  PROVE  FromParts(ToParts(v)) = v
BY Divides DEF FromParts, ToParts, UpperHalf, LowerHalf

\* The halves of a 128-bit integer fit the fields they are cast to: u64 twice,
\* or i64 and u64.
THEOREM HalvesFit ==
  /\ \A v \in U128 : ToParts(v) \in [hi : U64, lo : U64]
  /\ \A v \in I128 : ToParts(v) \in [hi : I64, lo : U64]
<1>1. ASSUME NEW v \in U128 PROVE ToParts(v) \in [hi : U64, lo : U64]
  <2>1. v \in Int /\ 0 * Word <= v /\ v < Word * Word
    BY WidthAssumption DEF U128, Unsigned
  <2>2. v \div Word \in 0..Word - 1
    BY <2>1, QuotientBounds, WidthAssumption
  <2> QED
    BY <2>1, <2>2, Divides DEF ToParts, UpperHalf, LowerHalf, U64, Unsigned
<1>2. ASSUME NEW v \in I128 PROVE ToParts(v) \in [hi : I64, lo : U64]
  <2> DEFINE h == Word \div 2
  <2>1. h \in Int /\ v \in Int
    BY WidthAssumption DEF I128, Signed
  <2>2. (-h) * Word <= v /\ v < h * Word
    <3>1. -(h * Word) <= v /\ v < h * Word
      BY <2>1, HalfRange, WidthAssumption DEF I128, Signed
    <3>2. (-h) * Word = -(h * Word)
      BY <2>1, WidthAssumption
    <3> QED
      BY <3>1, <3>2
  <2>3. v \div Word \in -h..h - 1
    <3> HIDE DEF h
    <3> QED
      BY <2>1, <2>2, QuotientBounds
  <2> QED
    BY <2>1, <2>3, Divides DEF ToParts, UpperHalf, LowerHalf, I64, Signed
<1> QED
  BY <1>1, <1>2

\* A quotient and a remainder are those of the number they make.
LEMMA Separated ==
  ASSUME NEW hi \in Int, NEW lo \in U64
  PROVE  (hi * Word + lo) \div Word = hi /\ (hi * Word + lo) % Word = lo
<1> DEFINE v == hi * Word + lo
           a == hi * Word
<1>1. a \in Int /\ lo \in Int /\ 0 <= lo /\ lo < Word /\ Word \in Int
  BY WidthAssumption DEF U64, Unsigned
<1>2. (hi + 1) * Word = a + Word
  BY WidthAssumption
<1>3. v = a + lo
  OBVIOUS
<1> HIDE DEF v, a
<1>4. v \in Int /\ a <= v /\ v < (hi + 1) * Word
  BY <1>1, <1>2, <1>3
<1>5. v \div Word = hi
  <2>1. hi * Word <= v
    BY <1>4 DEF a
  <2>2. v \div Word \in hi..(hi + 1) - 1
    BY <1>4, <2>1, QuotientBounds
  <2> QED
    BY <2>2
<1>6. v % Word \in Int /\ v = a + (v % Word)
  BY <1>4, <1>5, Divides DEF a, U64, Unsigned
<1>7. v % Word = lo
  BY <1>1, <1>3, <1>6
<1> QED
  BY <1>5, <1>7 DEF v

\* Every two halves are those of one 128-bit integer: read as an integer and
\* split again, they are what they were, sign included.
THEOREM HalvesSeparate ==
  /\ \A p \in [hi : U64, lo : U64] : FromParts(p) \in U128 /\ ToParts(FromParts(p)) = p
  /\ \A p \in [hi : I64, lo : U64] : FromParts(p) \in I128 /\ ToParts(FromParts(p)) = p
<1>1. \A p : p.hi \in Int /\ p.lo \in U64 /\ p = [hi |-> p.hi, lo |-> p.lo] =>
               ToParts(FromParts(p)) = p
  BY Separated DEF ToParts, FromParts, UpperHalf, LowerHalf
<1>2. ASSUME NEW p \in [hi : U64, lo : U64] PROVE FromParts(p) \in U128
  <2> DEFINE a == p.hi * Word
             WW == Word * Word
  <2>1. p.hi \in Int /\ 0 <= p.hi /\ p.hi < Word /\ p.lo \in 0..Word - 1
    BY WidthAssumption DEF U64, Unsigned
  <2>2. a + Word <= WW
    BY <2>1, Ordered, WidthAssumption
  <2>3. a \in Int /\ 0 <= a /\ WW \in Int
    BY <2>1, WidthAssumption
  <2> HIDE DEF a, WW
  <2>4. a + p.lo \in 0..WW - 1
    BY <2>1, <2>2, <2>3, WidthAssumption
  <2> QED
    BY <2>4 DEF FromParts, U128, Unsigned, a, WW
<1>3. ASSUME NEW p \in [hi : I64, lo : U64] PROVE FromParts(p) \in I128
  <2> DEFINE h == Word \div 2
             a == p.hi * Word
             b == h * Word
  <2>1. h \in Int /\ p.hi \in Int /\ -h <= p.hi /\ p.hi < h /\ p.lo \in 0..Word - 1
    BY WidthAssumption DEF U64, I64, Unsigned, Signed
  <2>2. a + Word <= b
    BY <2>1, Ordered
  <2>3. (-h) * Word <= a
    <3>1. CASE -h = p.hi
      BY <2>1, <3>1, WidthAssumption
    <3>2. CASE -h < p.hi
      <4>1. (-h) * Word + Word <= p.hi * Word /\ -h \in Int
        BY <2>1, <3>2, Ordered
      <4>2. (-h) * Word \in Int /\ p.hi * Word \in Int
        BY <2>1, <4>1, WidthAssumption
      <4> QED
        BY <4>1, <4>2, WidthAssumption
    <3> QED
      BY <2>1, <3>1, <3>2
  <2>4. (-h) * Word = -b
    BY <2>1, WidthAssumption
  <2>5. a \in Int /\ b \in Int
    BY <2>1, WidthAssumption
  <2>6. I128 = -b..b - 1
    BY HalfRange DEF I128, Signed
  <2> HIDE DEF h, a, b
  <2>7. a + p.lo \in -b..b - 1
    BY <2>1, <2>2, <2>3, <2>4, <2>5, WidthAssumption
  <2> QED
    BY <2>6, <2>7 DEF FromParts, a
<1>4. \A p \in [hi : U64, lo : U64] : p.hi \in Int /\ p.lo \in U64 /\ p = [hi |-> p.hi, lo |-> p.lo]
  BY WidthAssumption DEF U64, Unsigned
<1>5. \A p \in [hi : I64, lo : U64] : p.hi \in Int /\ p.lo \in U64 /\ p = [hi |-> p.hi, lo |-> p.lo]
  BY WidthAssumption DEF U64, I64, Unsigned, Signed
<1> QED
  BY <1>1, <1>2, <1>3, <1>4, <1>5
=============================================================================
