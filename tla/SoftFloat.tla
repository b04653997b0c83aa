----------------------------- MODULE SoftFloat -----------------------------
(***************************************************************************)
(* softfloat.hpp: the floating point operations both back ends call.       *)
(* Rounding, minima, comparisons and conversions to integers work on the   *)
(* bits as the code does; sums, products, quotients, roots and conversions *)
(* between formats are the Berkeley library's and stay arbitrary functions *)
(* of their operands.                                                      *)
(*                                                                         *)
(* arith stands for ForceArithmetic: results that are NaN are quiet.       *)
(***************************************************************************)
EXTENDS Words

Trapped == -1   \* the value of an operation that throws

Bias(w) == 2 ^ (ExponentBits(w) - 1) - 1
Exponent(x, w) == Magnitude(x, w) \div 2 ^ FractionBits(w)
SignMask(w) == Mod(w) \div 2
One(w) == Bias(w) * 2 ^ FractionBits(w)
MinusOne(w) == SignMask(w) + One(w)
QuietBit(w) == 2 ^ (FractionBits(w) - 1)
propagate_nan(arith, x, w) == IF arith THEN x | QuietBit(w) ELSE x

\* Multiples of the format's smallest step below 1 (external: f32_eq, f32_lt,
\* f32_le compare these; f32_to_i32_r_minMag and the others truncate them).
Significand(x, w) == (Magnitude(x, w) % 2 ^ FractionBits(w))
                       + (IF Exponent(x, w) = 0 THEN 0 ELSE 2 ^ FractionBits(w))
Scale(x, w) == (IF Exponent(x, w) = 0 THEN 1 ELSE Exponent(x, w)) - Bias(w) - FractionBits(w)
WithSign(negative, m) == IF negative THEN -m ELSE m
Shifted(m, s) == IF s >= 0 THEN m * 2 ^ s ELSE m \div 2 ^ (-s)
WholePart(x, w) == WithSign(SignBit(x, w), Shifted(Significand(x, w), Scale(x, w)))
IsWhole(x, w) == Scale(x, w) >= 0 \/ Significand(x, w) % 2 ^ (-Scale(x, w)) = 0

\* A whole number as a float, exact for the ones rounding produces.
Normalized(m, e, w) == (e + Bias(w)) * 2 ^ FractionBits(w) + (m - 2 ^ e) * 2 ^ (FractionBits(w) - e)
WholeFloat(n, w) ==
  LET m == IF n < 0 THEN -n ELSE n IN
  (IF n < 0 THEN SignMask(w) ELSE 0) + (IF m = 0 THEN 0 ELSE Normalized(m, HighestBit(m, 8), w))

\* External: adding and subtracting inv_float_eps rounds half to even.
RoundHalf(m, rest, unit) == IF 2 * rest > unit \/ (2 * rest = unit /\ m % 2 = 1) THEN m + 1 ELSE m
RoundAt(m, s) == IF s >= 0 THEN m * 2 ^ s ELSE RoundHalf(Shifted(m, s), m % 2 ^ (-s), 2 ^ (-s))
RoundEven(x, w) == WithSign(SignBit(x, w), RoundAt(Significand(x, w), Scale(x, w)))

-----------------------------------------------------------------------------
f_min(arith, x, y, w) ==
  IF IsNaN(x, w) THEN propagate_nan(arith, x, w)
  ELSE IF IsNaN(y, w) THEN propagate_nan(arith, y, w)
  ELSE IF SignBit(x, w) # SignBit(y, w) THEN (IF SignBit(x, w) THEN x ELSE y)
  ELSE IF FloatLt(x, y, w) THEN x ELSE y

f_max(arith, x, y, w) ==
  IF IsNaN(x, w) THEN propagate_nan(arith, x, w)
  ELSE IF IsNaN(y, w) THEN propagate_nan(arith, y, w)
  ELSE IF SignBit(x, w) # SignBit(y, w) THEN (IF SignBit(x, w) THEN y ELSE x)
  ELSE IF FloatLt(x, y, w) THEN y ELSE x

f_copysign(x, y, w) == Magnitude(x, w) + (IF SignBit(y, w) THEN SignMask(w) ELSE 0)
f_abs(x, w) == Magnitude(x, w)
f_neg(x, w) == Magnitude(x, w) + (IF SignBit(x, w) THEN 0 ELSE SignMask(w))

\* The fraction bits below the binary point of an exponent e of 0 or more.
BelowPoint(e, w) == 2 ^ (FractionBits(w) - e) - 1
ClearBits(x, m, w) == x - (x & m)

f32_ceil(arith, x) ==
  LET e == Exponent(x, 4) - Bias(4)
      m == BelowPoint(e, 4) IN
  IF arith /\ IsNaN(x, 4) THEN propagate_nan(arith, x, 4)
  ELSE IF e >= FractionBits(4) THEN x
  ELSE IF e >= 0 THEN IF (x & m) = 0 THEN x
                      ELSE ClearBits(IF SignBit(x, 4) THEN x ELSE x + m, m, 4)
  ELSE IF SignBit(x, 4) THEN SignMask(4)
  ELSE IF Wrap(2 * x, 4) # 0 THEN One(4) ELSE x

\* Mutant: rounds towards zero below zero.
f32_floor_TowardsZero(arith, x) ==
  LET e == Exponent(x, 4) - Bias(4)
      m == BelowPoint(e, 4) IN
  IF arith /\ IsNaN(x, 4) THEN propagate_nan(arith, x, 4)
  ELSE IF e >= FractionBits(4) THEN x
  ELSE IF e >= 0 THEN IF (x & m) = 0 THEN x ELSE ClearBits(x, m, 4)
  ELSE IF ~SignBit(x, 4) THEN 0
  ELSE IF Wrap(2 * x, 4) # 0 THEN MinusOne(4) ELSE x

f32_floor(arith, x) ==
  LET e == Exponent(x, 4) - Bias(4)
      m == BelowPoint(e, 4) IN
  IF arith /\ IsNaN(x, 4) THEN propagate_nan(arith, x, 4)
  ELSE IF e >= FractionBits(4) THEN x
  ELSE IF e >= 0 THEN IF (x & m) = 0 THEN x
                      ELSE ClearBits(IF SignBit(x, 4) THEN x + m ELSE x, m, 4)
  ELSE IF ~SignBit(x, 4) THEN 0
  ELSE IF Wrap(2 * x, 4) # 0 THEN MinusOne(4) ELSE x

\* f64: a neighbouring whole number, then one more or one less.
NoLess(n, x) == IF FloatLt(WholeFloat(n, 8), x, 8) THEN n + 1 ELSE n
NoMore(n, x) == IF FloatLt(x, WholeFloat(n, 8), 8) THEN n - 1 ELSE n
f64_ceil(arith, x) ==
  LET e == Exponent(x, 8) IN
  IF arith /\ IsNaN(x, 8) THEN propagate_nan(arith, x, 8)
  ELSE IF e >= Bias(8) + FractionBits(8) \/ Magnitude(x, 8) = 0 THEN x
  ELSE IF e <= Bias(8) - 1 THEN IF SignBit(x, 8) THEN SignMask(8) ELSE One(8)
  ELSE WholeFloat(NoLess(RoundEven(x, 8), x), 8)

f64_floor(arith, x) ==
  LET e == Exponent(x, 8) IN
  IF arith /\ IsNaN(x, 8) THEN propagate_nan(arith, x, 8)
  ELSE IF e >= Bias(8) + FractionBits(8) \/ Magnitude(x, 8) = 0 THEN x
  ELSE IF e <= Bias(8) - 1 THEN IF SignBit(x, 8) THEN MinusOne(8) ELSE 0
  ELSE WholeFloat(NoMore(RoundEven(x, 8), x), 8)

f_trunc(arith, x, w) ==
  LET e == Exponent(x, w) - Bias(w)
      m == IF e < 0 THEN SignMask(w) - 1 ELSE BelowPoint(e, w) IN
  IF arith /\ IsNaN(x, w) THEN propagate_nan(arith, x, w)
  ELSE IF e >= FractionBits(w) THEN x ELSE ClearBits(x, m, w)

WithZeroOf(x, n, w) == IF n = 0 THEN (IF SignBit(x, w) THEN SignMask(w) ELSE 0) ELSE WholeFloat(n, w)
f_nearest(arith, x, w) ==
  IF arith /\ IsNaN(x, w) THEN propagate_nan(arith, x, w)
  ELSE IF Exponent(x, w) >= Bias(w) + FractionBits(w) THEN x
  ELSE WithZeroOf(x, RoundEven(x, w), w)

f_gt(x, y, w) == ~IsNaN(x, w) /\ ~IsNaN(y, w) /\ ~FloatLe(x, y, w)
f_ge(x, y, w) == ~IsNaN(x, w) /\ ~IsNaN(y, w) /\ ~FloatLt(x, y, w)

F32Compare(o, x, y) == CASE o = "eq" -> FloatEq(x, y, 4) [] o = "ne" -> ~FloatEq(x, y, 4)
                         [] o = "lt" -> FloatLt(x, y, 4) [] o = "le" -> FloatLe(x, y, 4)
                         [] o = "gt" -> f_gt(x, y, 4)    [] o = "ge" -> f_ge(x, y, 4)
F64Compare(o, x, y) == CASE o = "eq" -> FloatEq(x, y, 8) [] o = "ne" -> ~FloatEq(x, y, 8)
                         [] o = "lt" -> FloatLt(x, y, 8) [] o = "le" -> FloatLe(x, y, 8)
                         [] o = "gt" -> f_gt(x, y, 8)    [] o = "ge" -> f_ge(x, y, 8)

F32(arith, o, x, y) ==
  CASE o = "min" -> f_min(arith, x, y, 4)   [] o = "max" -> f_max(arith, x, y, 4)
    [] o = "copysign" -> f_copysign(x, y, 4) [] o = "abs" -> f_abs(x, 4)
    [] o = "neg" -> f_neg(x, 4)              [] o = "ceil" -> f32_ceil(arith, x)
    [] o = "floor" -> f32_floor(arith, x)    [] o = "trunc" -> f_trunc(arith, x, 4)
    [] o = "nearest" -> f_nearest(arith, x, 4)
    [] OTHER -> FloatMix(o, x, y, 4)
F64(arith, o, x, y) ==
  CASE o = "min" -> f_min(arith, x, y, 8)   [] o = "max" -> f_max(arith, x, y, 8)
    [] o = "copysign" -> f_copysign(x, y, 8) [] o = "abs" -> f_abs(x, 8)
    [] o = "neg" -> f_neg(x, 8)              [] o = "ceil" -> f64_ceil(arith, x)
    [] o = "floor" -> f64_floor(arith, x)    [] o = "trunc" -> f_trunc(arith, x, 8)
    [] o = "nearest" -> f_nearest(arith, x, 8)
    [] OTHER -> FloatMix(o, x, y, 8)

-----------------------------------------------------------------------------
(* Conversions.  Bounds are powers of two, exact in both formats where     *)
(* they are finite; past the largest finite value only infinity is left.   *)

PowerOf2(n, w) == IF n > Bias(w) THEN ExponentMask(w) ELSE (n + Bias(w)) * 2 ^ FractionBits(w)
MinusPower(n, w) == SignMask(w) + PowerOf2(n, w)
BelowMinusPower(x, n, w) == IF n > Bias(w) THEN x = MinusPower(n, w) ELSE FloatLt(x, MinusPower(n, w), w)
\* Below -2^n by a whole one: a bound only f64 has.
MinusPowerLessOne(n, w) == SignMask(w) + WholeFloat(2 ^ n + 1, w)

TooLargeS(x, w, v) == f_ge(x, PowerOf2(Bits(v) - 1, w), w) \/ BelowMinusPower(x, Bits(v) - 1, w)
TooLargeU(x, w, v) == f_ge(x, PowerOf2(Bits(v), w), w) \/ FloatLe(x, MinusOne(w), w)

\* trunc_i32s and the others: a float of width w to an integer of width v.
TruncInt(x, w, v, out) == IF out \/ IsNaN(x, w) THEN Trapped ELSE Wrap(WholePart(x, w), v)
f64_trunc_i32s(fixed, x) ==
  TruncInt(x, 8, 4, f_ge(x, PowerOf2(7, 8), 8)
                      \/ IF fixed THEN FloatLe(x, MinusPowerLessOne(7, 8), 8)
                         ELSE FloatLt(x, MinusPower(7, 8), 8))
TruncTo(fixed, o, x, w, v) ==
  CASE o = "trunc_u" -> TruncInt(x, w, v, TooLargeU(x, w, v))
    [] o = "trunc_s" -> IF w = 8 /\ v = 4 THEN f64_trunc_i32s(fixed, x)
                        ELSE TruncInt(x, w, v, TooLargeS(x, w, v))

TruncSatS(x, w, v) ==
  IF IsNaN(x, w) THEN 0
  ELSE IF f_ge(x, PowerOf2(Bits(v) - 1, w), w) THEN LargestSigned(v)
  ELSE IF BelowMinusPower(x, Bits(v) - 1, w) THEN Wrap(SmallestSigned(v), v)
  ELSE Wrap(WholePart(x, w), v)

TruncSatU(x, w, v) ==
  IF IsNaN(x, w) THEN 0
  ELSE IF f_ge(x, PowerOf2(Bits(v), w), w) THEN Ones(v)
  ELSE IF FloatLe(x, MinusOne(w), w) THEN 0
  ELSE Wrap(WholePart(x, w), v)
TruncSat(o, x, w, v) == IF o = "trunc_sat_s" THEN TruncSatS(x, w, v) ELSE TruncSatU(x, w, v)

\* Conversions from integers and between formats: the operand's type counts.
ConvertFloat(o, x, w, v) == FloatMix(o, IF o = "convert_s" THEN SignExtend(x, w, 8) ELSE x, w, v)

-----------------------------------------------------------------------------
(* Vectors: apply_f32x4 and apply_f64x2, results that are NaN always quiet. *)

F32x4Relop(o, a, b) ==
  ZipLanes(LAMBDA x, y : LaneMask(CASE o = "gt" -> FloatLt(y, x, 4) [] o = "ge" -> FloatLe(y, x, 4)
                                    [] OTHER -> F32Compare(o, x, y), 4), a, b, 4)
F32x4(o, a, b) ==
  ZipLanes(LAMBDA x, y : CASE o = "pmin" -> IF FloatLt(y, x, 4) THEN y ELSE x
                           [] o = "pmax" -> IF FloatLt(x, y, 4) THEN y ELSE x
                           [] OTHER -> F32(TRUE, o, x, y), a, b, 4)
F64x2Relop(o, a, b) ==
  ZipLanes(LAMBDA x, y : LaneMask(CASE o = "gt" -> FloatLt(y, x, 8) [] o = "ge" -> FloatLe(y, x, 8)
                                    [] OTHER -> F64Compare(o, x, y), 8), a, b, 8)
F64x2(o, a, b) ==
  ZipLanes(LAMBDA x, y : CASE o = "pmin" -> IF FloatLt(y, x, 8) THEN y ELSE x
                           [] o = "pmax" -> IF FloatLt(x, y, 8) THEN y ELSE x
                           [] OTHER -> F64(TRUE, o, x, y), a, b, 8)

\* apply_f64x2_zero and apply_f32x4_low
ConvertF32x4(o, a) ==
  LET Low(F(_)) == FromLanes(<<F(Lanes(a, 4)[1]), F(Lanes(a, 4)[2])>>, 8)
      Zero(F(_)) == FromLanes(<<F(Lanes(a, 8)[1]), F(Lanes(a, 8)[2]), 0, 0>>, 4) IN
  CASE o = "trunc_sat_f32x4_s" -> MapLanes(LAMBDA x : TruncSatS(x, 4, 4), a, 4)
    [] o = "trunc_sat_f32x4_u" -> MapLanes(LAMBDA x : TruncSatU(x, 4, 4), a, 4)
    [] o = "convert_i32x4_s" -> MapLanes(LAMBDA x : ConvertFloat("convert_s", x, 4, 4), a, 4)
    [] o = "convert_i32x4_u" -> MapLanes(LAMBDA x : ConvertFloat("convert_u", x, 4, 4), a, 4)
    [] o = "trunc_sat_f64x2_s_zero" -> Zero(LAMBDA x : TruncSatS(x, 8, 4))
    [] o = "trunc_sat_f64x2_u_zero" -> Zero(LAMBDA x : TruncSatU(x, 8, 4))
    [] o = "convert_low_i32x4_s" -> Low(LAMBDA x : ConvertFloat("convert_s", x, 4, 8))
    [] o = "convert_low_i32x4_u" -> Low(LAMBDA x : ConvertFloat("convert_u", x, 4, 8))
    [] o = "demote_f64x2_zero" -> Zero(LAMBDA x : ConvertFloat("demote", x, 8, 4))
    [] o = "promote_low_f32x4" -> Low(LAMBDA x : ConvertFloat("promote", x, 4, 8))
=============================================================================
