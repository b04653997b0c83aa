------------------------------- MODULE Words -------------------------------
(***************************************************************************)
(* Machine words at scale: a byte has two bits, so i8, i16, i32 and i64    *)
(* have 2, 4, 8 and 16 bits, a shift count is taken modulo those, and a    *)
(* v128 is a sequence of 16 bytes, lowest first, which splits into 16, 8,  *)
(* 4 or 2 lanes.  A width is a number of bytes.  f32 and f64 are words of  *)
(* 4 and 8 bytes: a sign, 4 or 5 bits of exponent and a fraction.          *)
(***************************************************************************)
EXTENDS Integers, SequencesExt, Bitwise

Mod(w)  == 4 ^ w
Bits(w) == 2 * w
Wrap(x, w)   == x % Mod(w)
Signed(x, w) == IF 2 * x >= Mod(w) THEN x - Mod(w) ELSE x
\* A word of width w seen as one of width v, the sign extended.
SignExtend(x, w, v) == Wrap(Signed(Wrap(x, w), w), v)
Ones(w) == Mod(w) - 1
AsBit(b) == IF b THEN 1 ELSE 0
SignBit(x, w) == 2 * x >= Mod(w)
SmallestSigned(w) == -(Mod(w) \div 2)
LargestSigned(w)  == Mod(w) \div 2 - 1

Complement(x, w) == Ones(w) - x
Negate(x, w) == Wrap(-x, w)
\* The product is taken in two halves to stay within TLC's integers.
Times(x, y, w) == IF w <= 4 THEN Wrap(x * y, w)
                  ELSE Wrap((x % 256) * y + 256 * (((x \div 256) * y) % 256), w)
ShiftL(x, n, w) == Wrap(Times(x, 2 ^ n, 8), w)
ShiftR(x, n)    == x \div 2 ^ n
ShiftRS(x, n, w) == Wrap(Signed(x, w) \div 2 ^ n, w)
RotateL(x, n, w) == ShiftL(x, n, w) + ShiftR(x, Bits(w) - n)
RotateR(x, n, w) == RotateL(x, (Bits(w) - n) % Bits(w), w)
\* C's division, towards zero.
Quotient(a, b) == LET q == (IF a < 0 THEN -a ELSE a) \div (IF b < 0 THEN -b ELSE b) IN
                  IF (a < 0) = (b < 0) THEN q ELSE -q
Remainder(a, b) == a - b * Quotient(a, b)

BitAt(x, i) == (x \div 2 ^ i) % 2
SetBits(x, w) == {i \in 0..(Bits(w) - 1) : BitAt(x, i) = 1}
HighestBit(x, w) == CHOOSE i \in SetBits(x, w) : \A j \in SetBits(x, w) : j <= i
LowestBit(x, w)  == CHOOSE i \in SetBits(x, w) : \A j \in SetBits(x, w) : i <= j
LeadingZeros(x, w)  == IF x = 0 THEN Bits(w) ELSE Bits(w) - 1 - HighestBit(x, w)
TrailingZeros(x, w) == IF x = 0 THEN Bits(w) ELSE LowestBit(x, w)
PopCount(x, w) == FoldFunctionOnSet(+, 0, [i \in 0..(Bits(w) - 1) |-> BitAt(x, i)], 0..(Bits(w) - 1))

Clamp(x, lo, hi) == IF x < lo THEN lo ELSE IF x > hi THEN hi ELSE x
SaturateS(x, w) == Wrap(Clamp(x, SmallestSigned(w), LargestSigned(w)), w)
SaturateU(x, w) == Clamp(x, 0, Ones(w))

-----------------------------------------------------------------------------
(* Bytes and lanes.                                                        *)

ToBytes(x, w) == [i \in 1..w |-> (x \div 4 ^ (i - 1)) % 4]
FromBytes(b)  == FoldRight(LAMBDA d, x : 4 * x + d, b, 0)
NumLanes(w) == 16 \div w
Lanes(v, w) == [i \in 1..NumLanes(w) |-> FromBytes(SubSeq(v, (i - 1) * w + 1, i * w))]
FromLanes(ls, w) == [k \in 1..16 |-> (ls[(k - 1) \div w + 1] \div 4 ^ ((k - 1) % w)) % 4]
Splat(x, w) == FromLanes([i \in 1..NumLanes(w) |-> x], w)
ZeroVector == [i \in 1..16 |-> 0]
LaneMask(b, w) == IF b THEN Ones(w) ELSE 0

MapLanes(F(_), v, w) == LET a == Lanes(v, w) IN
                        FromLanes([i \in DOMAIN a |-> F(a[i])], w)
ZipLanes(F(_, _), v, u, w) == LET a == Lanes(v, w) b == Lanes(u, w) IN
                              FromLanes([i \in DOMAIN a |-> F(a[i], b[i])], w)

LowHalf(v)  == SubSeq(v, 1, 8)
HighHalf(v) == SubSeq(v, 9, 16)
Low64(v)  == FromBytes(LowHalf(v))
High64(v) == FromBytes(HighHalf(v))
Vector(lo, hi) == ToBytes(lo, 8) \o ToBytes(hi, 8)
\* Half of the lanes, each widened from w to 2 * w.
WidenLanes(half, w, signed) ==
  LET a == [i \in 1..(8 \div w) |-> FromBytes(SubSeq(half, (i - 1) * w + 1, i * w))] IN
  FromLanes([i \in DOMAIN a |-> IF signed THEN SignExtend(a[i], w, 2 * w) ELSE a[i]], 2 * w)

-----------------------------------------------------------------------------
(* Floating point numbers: the order and the sign are modelled, arithmetic *)
(* is a function of the operation and of its operands in order.            *)

ExponentBits(w) == IF w = 4 THEN 4 ELSE 5
FractionBits(w) == Bits(w) - 1 - ExponentBits(w)
ExponentMask(w) == (2 ^ ExponentBits(w) - 1) * 2 ^ FractionBits(w)
Magnitude(x, w) == Wrap(2 * x, w) \div 2
IsNaN(x, w)  == Magnitude(x, w) > ExponentMask(w)
IsFinite(x, w) == Magnitude(x, w) < ExponentMask(w)
Ordinal(x, w) == IF SignBit(x, w) THEN -Magnitude(x, w) ELSE Magnitude(x, w)
FloatLt(x, y, w) == ~IsNaN(x, w) /\ ~IsNaN(y, w) /\ Ordinal(x, w) < Ordinal(y, w)
FloatEq(x, y, w) == ~IsNaN(x, w) /\ ~IsNaN(y, w) /\ Ordinal(x, w) = Ordinal(y, w)
FloatLe(x, y, w) == FloatLt(x, y, w) \/ FloatEq(x, y, w)

FloatNames == <<"ceil", "floor", "trunc", "nearest", "sqrt", "add", "sub", "mul", "div",
                "convert_s", "convert_u", "demote", "promote", "trunc_s", "trunc_u">>
NameIndex(o) == CHOOSE i \in DOMAIN FloatNames : FloatNames[i] = o
\* An arbitrary function that tells operations and operand positions apart.
FloatMix(o, x, y, w) == Wrap(37 * NameIndex(o) + 5 * x + 11 * y + 3, w)
=============================================================================
