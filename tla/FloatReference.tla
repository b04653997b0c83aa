--------------------------- MODULE FloatReference ---------------------------
(***************************************************************************)
(* What the floating point opcodes softfloat.hpp implements on bits have   *)
(* to compute, in whole numbers.  The opcode just compiled is tried on     *)
(* every f32, on f64 at every Stride, with the operand before it as the    *)
(* second one.                                                             *)
(***************************************************************************)
EXTENDS Backends

CONSTANT Stride
ASSUME StrideAssumption == Stride \in Nat \ {0}

Values(t) == IF t = "f32" THEN 0..Ones(4) ELSE {x * Stride : x \in 0..(Ones(8) \div Stride)}

\* Every float from the exponent of 2 ^ FractionBits on is whole.
AlwaysWhole(x, w) == Scale(x, w) >= 0
RoundedDown(x, w) == WholePart(x, w) - AsBit(SignBit(x, w) /\ ~IsWhole(x, w))
RoundedUp(x, w)   == WholePart(x, w) + AsBit(~SignBit(x, w) /\ ~IsWhole(x, w))
\* Of the two neighbours the nearer, of two as near the even one.
Distance(x, n, w) == LET unit == 2 ^ (-Scale(x, w))
                         d == (IF SignBit(x, w) THEN -Significand(x, w) ELSE Significand(x, w)) - n * unit IN
                     IF d < 0 THEN -d ELSE d
RoundedNear(x, w) ==
  CHOOSE n \in {RoundedDown(x, w), RoundedUp(x, w)} :
    \A m \in {RoundedDown(x, w), RoundedUp(x, w)} :
      Distance(x, n, w) < Distance(x, m, w) \/ n = m \/ (Distance(x, n, w) = Distance(x, m, w) /\ n % 2 = 0)
Rounded(o, x, w) == CASE o = "floor" -> RoundedDown(x, w) [] o = "ceil" -> RoundedUp(x, w)
                      [] o = "trunc" -> WholePart(x, w)   [] o = "nearest" -> RoundedNear(x, w)
\* The sign of the operand stays, of a zero too.
RoundsTo(o, x, r, w) ==
  IF IsNaN(x, w) THEN IsNaN(r, w)
  ELSE IF AlwaysWhole(x, w) THEN r = x
  ELSE IsWhole(r, w) /\ WholePart(r, w) = Rounded(o, x, w) /\ SignBit(r, w) = SignBit(x, w)

\* Minus zero is below zero.
FloatKey(x, w) == 2 * Ordinal(x, w) - AsBit(SignBit(x, w))
ChoosesTo(o, x, y, r, w) ==
  IF IsNaN(x, w) \/ IsNaN(y, w) THEN IsNaN(r, w)
  ELSE /\ r \in {x, y}
       /\ \A z \in {x, y} : IF o = "min" THEN FloatKey(r, w) <= FloatKey(z, w) ELSE FloatKey(r, w) >= FloatKey(z, w)

\* Conversions to an integer of width v: those that trap do so exactly when
\* those that saturate would.
LowestInt(o, v)  == IF o \in {"trunc_s", "trunc_sat_s"} THEN SmallestSigned(v) ELSE 0
HighestInt(o, v) == IF o \in {"trunc_s", "trunc_sat_s"} THEN LargestSigned(v) ELSE Ones(v)
\* Infinity is past every integer.
TruncatesTo(o, x, res, w, v) ==
  LET n == IF IsFinite(x, w) THEN WholePart(x, w) ELSE IF SignBit(x, w) THEN -Mod(9) ELSE Mod(9)
      within == Clamp(n, LowestInt(o, v), HighestInt(o, v)) IN
  IF o \in {"trunc_s", "trunc_u"} /\ (IsNaN(x, w) \/ within # n) THEN res.trap
  ELSE ~res.trap /\ res.val = <<IF IsNaN(x, w) THEN 0 ELSE Wrap(within, v)>>

ResultMatches(sig, x, y, res) ==
  LET o == sig.op[2]
      w == Width(Last(sig.pops)) IN
  CASE Len(sig.op) = 3 -> TruncatesTo(o, x, res, w, Width(sig.push))
    [] o \in {"min", "max"} -> ChoosesTo(o, x, y, res.val[1], w)
    [] OTHER -> RoundsTo(o, x, res.val[1], w)
Matches(sig, x, y) ==
  ResultMatches(sig, x, y, Perform(sig, IF Len(sig.pops) = 1 THEN <<x>> ELSE <<y, x>>, NewStore))

HasReference(sig) ==
  \/ sig.op[1] \in {"f32", "f64"} /\ sig.op[2] \in {"floor", "ceil", "trunc", "nearest", "min", "max"}
  \/ sig.op[2] \in {"trunc_s", "trunc_u", "trunc_sat_s", "trunc_sat_u"}

\* Rounding, minima and conversions to integers give the number they are
\* named for on every operand: the bit manipulation of softfloat.hpp at each
\* boundary of its exponents, signed zeros, infinities and NaNs.  As every
\* first operand is tried, one of the bodies that differ in it will do.
FloatsMatchReference ==
  LET i == Len(src)
      sig == src[i].arg
      first == src[i - Len(sig.pops)]
      second == src[i - 1] IN
  i > 1 /\ src[i].op = "plain" /\ HasReference(sig) /\ first.op = "const" /\ first.arg[2] = 1 /\ second.op = "const" =>
    \A x \in Values(Last(sig.pops)) : Matches(sig, x, Literal[second.arg[1]][second.arg[2]])
=============================================================================
