------------------------------- MODULE Halves -------------------------------
(***************************************************************************)
(* The integers of scval.rs: the ranges of its types, the readers that     *)
(* take a JSON number or a numeral, and the two halves a 128-bit integer   *)
(* has in XDR.  The widths are parameters: 2^8, 2^32 and 2^64 in the code. *)
(***************************************************************************)
EXTENDS Integers

CONSTANTS
  Byte,  \* 2^8
  Half,  \* 2^32
  Word   \* 2^64

Even(n) == n % 2 = 0

ASSUME WidthAssumption ==
  /\ Byte \in Nat \ {0} /\ Half \in Nat \ {0} /\ Word \in Nat \ {0}
  /\ Even(Half) /\ Even(Word)
  /\ Byte <= Half /\ Half <= Word

Unsigned(size) == 0..size - 1
Signed(size) == -(size \div 2)..(size \div 2) - 1

U8   == Unsigned(Byte)
U32  == Unsigned(Half)
I32  == Signed(Half)
U64  == Unsigned(Word)
I64  == Signed(Word)
U128 == Unsigned(Word * Word)
I128 == Signed(Word * Word)

\* A shift by 64 rounds down, for negative numbers too; a mask or a cast to an
\* unsigned type keeps the residue.
UpperHalf(v) == v \div Word
LowerHalf(v) == v % Word

\* A plausible slip: the quotient is rounded towards zero.
ToParts_Truncating(v) ==
  [hi |-> IF v < 0 THEN -((-v) \div Word) ELSE v \div Word, lo |-> v % Word]

\* u128_to_parts, i128_to_parts.
ToParts(v) == [hi |-> UpperHalf(v), lo |-> LowerHalf(v)]

\* u128_from_parts, i128_from_parts: the halves do not overlap, or is plus.
FromParts(p) == p.hi * Word + p.lo
=============================================================================
