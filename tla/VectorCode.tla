----------------------------- MODULE VectorCode -----------------------------
(***************************************************************************)
(* The listings machine_code_writer emits for v128.  A vector occupies two *)
(* slots, the lower half at rsp.  Shifts by a number of bits, masks and    *)
(* lookup tables are at the scale of Words.                                *)
(***************************************************************************)
EXTENDS ScalarCode

xmm0 == X("xmm0")
xmm1 == X("xmm1")
xmm2 == X("xmm2")
xmm3 == X("xmm3")
Vec(i, w, s, s1, d) == I5(i, w, s, s1, d, <<>>)
VecOp(i, w, s, s1, d, imm) == I5(i, w, s, s1, d, imm)
Vec1(i, w, s, d) == I3(i, w, s, d)
LanesOp(o, w, s, s1, d) == VecOp("vplanes", w, s, s1, d, <<o>>)
ShiftOp(o, w, n, s1, d) == VecOp("vpshift", w, n, s1, d, <<o>>)
HighBytes(s, d) == I5("vpsrldq", 16, s, None, d, <<8>>)
Extend(signed, w, s, d) == Vec1(IF signed THEN "vpmovsx" ELSE "vpmovzx", w, s, d)
PermuteD(sel, s, d) == I5("vpshufd", 4, s, None, d, sel)

LoadTop(x)  == MoveVector(Stk(0), x)
StoreTop(x) == MoveVector(x, Stk(0))
DropVector  == MoveSlots("addrsp", 2)
TakeTop(x)  == <<LoadTop(x), DropVector>>
emit_const_zero(x) == Vec("vpxor", 1, x, x, x)
emit_const_ones(x) == Vec("vpcmpeq", 1, x, x, x)

-----------------------------------------------------------------------------
(* The templates: the second operand is on top.                            *)

emit_v128_unop(i, w) == <<Vec1(i, w, Stk(0), xmm0), StoreTop(xmm0)>>
\* Mutant: the operands of an operation that is not commutative change places.
emit_v128_binop_Swapped(ins) == TakeTop(xmm0) \o <<[ins EXCEPT !.s = Stk(0), !.s1 = xmm0, !.d = xmm0], StoreTop(xmm0)>>
emit_v128_binop(ins) ==
  TakeTop(xmm0) \o <<LoadTop(xmm1), [ins EXCEPT !.s = xmm0, !.s1 = xmm1, !.d = xmm0], StoreTop(xmm0)>>
emit_v128_binop_r(ins) ==
  TakeTop(xmm0) \o <<[ins EXCEPT !.s = Stk(0), !.s1 = xmm0, !.d = xmm0], StoreTop(xmm0)>>
Unplaced(i, w, imm) == I5(i, w, None, None, None, imm)

emit_v128_irelop_cmp(i, w, switch_params, flip_result) ==
  TakeTop(xmm0)
    \o (IF switch_params THEN <<Vec(i, w, Stk(0), xmm0, xmm0)>> ELSE <<LoadTop(xmm1), Vec(i, w, xmm0, xmm1, xmm0)>>)
    \o (IF flip_result THEN <<emit_const_ones(xmm1), Vec("vpxor", 1, xmm1, xmm0, xmm0)>> ELSE <<>>)
    \o <<StoreTop(xmm0)>>
\* !(op(a, b) = b): max gives greater than, min less than.
emit_v128_irelop_minmax(o, w, flip_result) ==
  TakeTop(xmm0) \o <<LanesOp(o, w, Stk(0), xmm0, xmm1), Vec("vpcmpeq", w, xmm0, xmm1, xmm0)>>
    \o (IF flip_result THEN <<>> ELSE <<emit_const_zero(xmm1), Vec("vpcmpeq", 1, xmm1, xmm0, xmm0)>>)
    \o <<StoreTop(xmm0)>>
emit_v128_compare(o, w) ==
  CASE o = "eq" -> emit_v128_irelop_cmp("vpcmpeq", w, TRUE, FALSE)
    [] o = "ne" -> emit_v128_irelop_cmp("vpcmpeq", w, TRUE, TRUE)
    [] o = "lt_s" -> emit_v128_irelop_cmp("vpcmpgt", w, TRUE, FALSE)
    [] o = "gt_s" -> emit_v128_irelop_cmp("vpcmpgt", w, FALSE, FALSE)
    [] o = "le_s" -> emit_v128_irelop_cmp("vpcmpgt", w, FALSE, TRUE)
    [] o = "ge_s" -> emit_v128_irelop_cmp("vpcmpgt", w, TRUE, TRUE)
    [] o = "lt_u" -> emit_v128_irelop_minmax("min_u", w, FALSE)
    [] o = "gt_u" -> emit_v128_irelop_minmax("max_u", w, FALSE)
    [] o = "le_u" -> emit_v128_irelop_minmax("max_u", w, TRUE)
    [] o = "ge_u" -> emit_v128_irelop_minmax("min_u", w, TRUE)

emit_i8x16_compare(o) == emit_v128_compare(o, 1)
emit_i16x8_compare(o) == emit_v128_compare(o, 2)
emit_i32x4_compare(o) == emit_v128_compare(o, 4)
emit_i64x2_compare(o) == emit_v128_compare(o, 8)

ShiftCount(w) == <<emit_pop("rax"), alu("and", 4, N(Bits(w) - 1), rax)>>
ToXmm(r, x) == Vec1("vmovd", 4, r, x)
emit_v128_shiftop(o, w) ==
  ShiftCount(w) \o <<LoadTop(xmm0), ToXmm(rax, xmm1), ShiftOp(o, w, xmm1, xmm0, xmm0), StoreTop(xmm0)>>

emit_v128_unop_softfloat(sig) ==
  KeepingContext(<<mov(8, Stk(2), rdi), mov(8, Stk(3), rsi), CallFunction(sig, 8)>>)
    \o <<mov(8, rax, Stk(0)), mov(8, rdx, Stk(1))>>
emit_v128_binop_softfloat(sig) ==
  KeepingContext(<<mov(8, Stk(2), rdx), mov(8, Stk(3), rcx), mov(8, Stk(4), rdi), mov(8, Stk(5), rsi),
                   CallFunction(sig, 8)>>)
    \o <<DropVector, mov(8, rax, Stk(0)), mov(8, rdx, Stk(1))>>

-----------------------------------------------------------------------------
(* Memory and lanes.                                                       *)

VectorLoadInstruction(o, at) ==
  CASE o = "load" -> Vec1("vmov", 16, at, xmm0)
    [] o = "load8x8_s" -> Extend(TRUE, 1, at, xmm0)  [] o = "load8x8_u" -> Extend(FALSE, 1, at, xmm0)
    [] o = "load16x4_s" -> Extend(TRUE, 2, at, xmm0) [] o = "load16x4_u" -> Extend(FALSE, 2, at, xmm0)
    [] o = "load32x2_s" -> Extend(TRUE, 4, at, xmm0) [] o = "load32x2_u" -> Extend(FALSE, 4, at, xmm0)
    [] o \in {"load32_zero", "load64_zero"} -> Vec1("vmovd", NarrowWidth(o), at, xmm0)
    [] OTHER -> Vec1("vpbroadcast", NarrowWidth(o), at, xmm0)
emit_v128_loadop(o, n) == LET a == emit_pop_address(n, "rax", "rcx") IN
                          a.ins \o <<VectorLoadInstruction(o, a.at), emit_push_v128("xmm0")>>
AtRax == Lin(<<"rax">>, 0)
emit_v128_store(n) == TakeTop(xmm0) \o RawPopAddress(n) \o <<MoveVector(xmm0, AtRax)>>
emit_v128_load_laneop(o, n, l) ==
  <<emit_pop_v128("xmm0")>> \o RawPopAddress(n)
    \o <<VecOp("vpinsr", NarrowWidth(o), AtRax, xmm0, xmm0, <<l>>), MoveSlots("subrsp", 2), StoreTop(xmm0)>>
emit_v128_store_laneop(o, n, l) ==
  TakeTop(xmm0) \o RawPopAddress(n) \o <<VecOp("vpextr", NarrowWidth(o), xmm0, None, AtRax, <<l>>)>>

\* A control byte with its sign set gives zero: lanes of the first operand
\* are complemented for the second, and all of them again for the first.
emit_i8x16_shuffle(ls) ==
  LET control == [i \in 1..16 |-> IF ls[i] < 16 THEN 255 - ls[i] ELSE ls[i]]
      inverted == [i \in 1..16 |-> 255 - control[i]] IN
  <<I5("vcontrol", 16, None, None, xmm2, control), LoadTop(xmm0), Vec("vpshufb", 1, xmm2, xmm0, xmm1),
    I5("vcontrol", 16, None, None, xmm2, inverted), DropVector, LoadTop(xmm0),
    Vec("vpshufb", 1, xmm2, xmm0, xmm0), Vec("vpor", 1, xmm1, xmm0, xmm0), StoreTop(xmm0)>>

emit_v128_extract_laneop(o, w, l) ==
  TakeTop(xmm0) \o <<VecOp("vpextr", w, xmm0, None, rax, <<l>>)>>
    \o (IF o = "extract_lane_s" THEN <<movsx(w, 4, rax, rax)>> ELSE <<>>) \o <<emit_push("rax")>>
emit_v128_replace_laneop(w, l) ==
  <<emit_pop("rax"), LoadTop(xmm0), VecOp("vpinsr", w, rax, xmm0, xmm0, <<l>>), StoreTop(xmm0)>>
\* The slot of the operand becomes the upper half.
emit_v128_splatop(w) == <<Vec1("vpbroadcast", w, Stk(0), xmm0), MoveSlots("subrsp", 1), StoreTop(xmm0)>>

-----------------------------------------------------------------------------
(* Logic and arithmetic.                                                   *)

BoolResult(cc) == <<Clear(rax), I3("vptest", 16, xmm0, xmm0), setcc(cc, rax), emit_push("rax")>>
emit_v128_logical(o) ==
  CASE o = "not" -> <<LoadTop(xmm0), emit_const_ones(xmm1), Vec("vpxor", 1, xmm1, xmm0, xmm0), StoreTop(xmm0)>>
    [] o = "and" -> emit_v128_binop_r(Unplaced("vpand", 1, <<>>))
    [] o = "andnot" -> emit_v128_binop_r(Unplaced("vpandn", 1, <<>>))
    [] o = "or" -> emit_v128_binop_r(Unplaced("vpor", 1, <<>>))
    [] o = "xor" -> emit_v128_binop_r(Unplaced("vpxor", 1, <<>>))
    [] o = "bitselect" ->
         <<LoadTop(xmm2), MoveVector(Stk(2), xmm1), MoveSlots("addrsp", 4), LoadTop(xmm0),
           Vec("vpand", 1, xmm0, xmm2, xmm0), Vec("vpandn", 1, xmm1, xmm2, xmm1), Vec("vpor", 1, xmm0, xmm1, xmm0),
           StoreTop(xmm0)>>
    [] o = "any_true" -> TakeTop(xmm0) \o BoolResult("ne")

emit_v128_neg(w) == <<emit_const_zero(xmm0), LanesOp("sub", w, Stk(0), xmm0, xmm0), StoreTop(xmm0)>>
emit_v128_all_true(w) ==
  <<emit_const_zero(xmm0), Vec("vpcmpeq", w, Stk(0), xmm0, xmm0), DropVector>> \o BoolResult("eq")
MoveMask(w) == I3("vmovmsk", w, xmm0, rax)
emit_v128_bitmask(w) == TakeTop(xmm0) \o <<MoveMask(w), emit_push("rax")>>
emit_v128_extend_high(w, signed) == <<LoadTop(xmm0), HighBytes(xmm0, xmm0), Extend(signed, w, xmm0, xmm0), StoreTop(xmm0)>>
emit_v128_extend(o, w) ==
  CASE o = "extend_low_s" -> emit_v128_unop("vpmovsx", w) [] o = "extend_low_u" -> emit_v128_unop("vpmovzx", w)
    [] o = "extend_high_s" -> emit_v128_extend_high(w, TRUE) [] o = "extend_high_u" -> emit_v128_extend_high(w, FALSE)
\* w is the width of the source's lanes.
emit_v128_extadd(o, w) ==
  LET signed == o = "extadd_pairwise_s" IN
  <<LoadTop(xmm0), HighBytes(xmm0, xmm1), Extend(signed, w, xmm0, xmm0), Extend(signed, w, xmm1, xmm1),
    Vec("vphadd", 2 * w, xmm1, xmm0, xmm0), StoreTop(xmm0)>>

\* Addition, subtraction, minimum, maximum, averages and products.
CommutativeLanes == {"add", "add_sat_s", "add_sat_u", "mul", "min_s", "min_u", "max_s", "max_u", "avgr_u"}
emit_v128_lanes(o, w) == IF o \in CommutativeLanes THEN emit_v128_binop_r(Unplaced("vplanes", w, <<o>>))
                         ELSE emit_v128_binop(Unplaced("vplanes", w, <<o>>))

\* Half a byte, its mask and a table of the bits set in it.
NibbleBits == Bits(1) \div 2
popcnt4 == <<0, 1, 1, 2, 1, 2, 2, 3, 1, 2, 2, 3, 2, 3, 3, 4>>
emit_i8x16_popcnt ==
  <<LoadTop(xmm0), I5("vcontrol", 16, None, None, xmm3, popcnt4), mov(1, N(2 ^ NibbleBits - 1), rax), ToXmm(rax, xmm2),
    Vec1("vpbroadcast", 1, xmm2, xmm2), ShiftOp("shr_u", 8, N(NibbleBits), xmm0, xmm1),
    Vec("vpand", 1, xmm2, xmm0, xmm0), Vec("vpand", 1, xmm2, xmm1, xmm1), Vec("vpshufb", 1, xmm0, xmm3, xmm0),
    Vec("vpshufb", 1, xmm1, xmm3, xmm1), LanesOp("add", 1, xmm0, xmm1, xmm0), StoreTop(xmm0)>>
\* There are no shifts of bytes: words are shifted and the bits that cross
\* from one byte into the other are masked.
ByteShiftCount == <<emit_pop("rax"), LoadTop(xmm0), alu("and", 4, N(Bits(1) - 1), rax), ToXmm(rax, xmm2)>>
emit_i8x16_shift(o) ==
  ByteShiftCount \o
  (CASE o = "shl" ->
          <<emit_const_ones(xmm1), ShiftOp("shl", 4, xmm2, xmm1, xmm1), Vec1("vpbroadcast", 1, xmm1, xmm1),
            ShiftOp("shl", 2, xmm2, xmm0, xmm0), Vec("vpand", 1, xmm0, xmm1, xmm0)>>
     [] o = "shr_s" ->
          <<emit_const_ones(xmm3), ShiftOp("shl", 2, N(Bits(1)), xmm3, xmm3), ShiftOp("shl", 2, N(Bits(1)), xmm0, xmm1),
            ShiftOp("shr_s", 2, N(Bits(1)), xmm1, xmm1), ShiftOp("shl", 2, xmm2, xmm3, xmm3),
            Vec("vpandn", 1, xmm1, xmm3, xmm1), Vec("vpand", 1, xmm3, xmm0, xmm0), Vec("vpor", 1, xmm1, xmm0, xmm0),
            ShiftOp("shr_s", 2, xmm2, xmm0, xmm0)>>
     [] o = "shr_u" ->
          <<emit_const_ones(xmm1), ShiftOp("shl", 2, N(Bits(1)), xmm1, xmm1), ShiftOp("shr_u", 2, xmm2, xmm1, xmm1),
            Vec1("vpbroadcast", 1, xmm1, xmm1), ShiftOp("shr_u", 2, xmm2, xmm0, xmm0),
            Vec("vpandn", 1, xmm0, xmm1, xmm0)>>)
  \o <<StoreTop(xmm0)>>

\* The one overflow, of the smallest number squared, is inverted.
emit_i16x8_q15mulr_sat_s ==
  TakeTop(xmm0)
    \o <<Vec("vpmulhrs", 2, Stk(0), xmm0, xmm0), emit_const_ones(xmm1), ShiftOp("shl", 2, N(Bits(2) - 1), xmm1, xmm1),
         Vec("vpcmpeq", 2, xmm1, xmm0, xmm1), Vec("vpxor", 1, xmm1, xmm0, xmm0), StoreTop(xmm0)>>
emit_i16x8_bitmask ==
  <<emit_const_zero(xmm0), Vec("vpcmpgt", 2, Stk(0), xmm0, xmm1), Vec("vpackss", 2, xmm0, xmm1, xmm0), DropVector,
    MoveMask(1), emit_push("rax")>>
IsHighMul(o)   == o \in {"extmul_high_s", "extmul_high_u"}
IsSignedMul(o) == o \in {"extmul_low_s", "extmul_high_s"}
emit_i16x8_extmul(o) ==
  LET e(s, d) == Extend(IsSignedMul(o), 1, s, d)
      high(x) == <<LoadTop(x), HighBytes(x, x), e(x, x)>> IN
  (IF IsHighMul(o) THEN high(xmm1) \o <<DropVector>> \o high(xmm0)
   ELSE <<e(Stk(0), xmm1), DropVector, e(Stk(0), xmm0)>>)
    \o <<LanesOp("mul", 2, xmm0, xmm1, xmm0), StoreTop(xmm0)>>
\* The upper products from their two halves.
emit_i32x4_extmul(o) ==
  TakeTop(xmm0) \o <<LoadTop(xmm1)>>
    \o (IF IsHighMul(o)
        THEN <<LanesOp("mul", 2, xmm0, xmm1, xmm2), Vec(IF IsSignedMul(o) THEN "vpmulh" ELSE "vpmulhu", 2, xmm0, xmm1, xmm0),
               Vec("vpunpckh", 2, xmm0, xmm2, xmm0)>>
        ELSE <<Extend(IsSignedMul(o), 2, xmm0, xmm0), Extend(IsSignedMul(o), 2, xmm1, xmm1),
               LanesOp("mul", 4, xmm0, xmm1, xmm0)>>)
    \o <<StoreTop(xmm0)>>
emit_i64x2_extmul(o) ==
  LET sel == IF IsHighMul(o) THEN <<2, 0, 3, 0>> ELSE <<0, 0, 1, 0>> IN
  <<PermuteD(sel, Stk(0), xmm0), DropVector, PermuteD(sel, Stk(0), xmm1),
    Vec(IF IsSignedMul(o) THEN "vpmuldq" ELSE "vpmuludq", 4, xmm0, xmm1, xmm0), StoreTop(xmm0)>>
emit_i64x2_abs ==
  <<LoadTop(xmm0), emit_const_zero(xmm1), Vec("vpcmpgt", 8, xmm0, xmm1, xmm1), Vec("vpxor", 1, xmm0, xmm1, xmm0),
    LanesOp("sub", 8, xmm1, xmm0, xmm0), StoreTop(xmm0)>>
\* (x >> n) | ((0 > x) << (64 - n))
emit_i64x2_shr_s ==
  ShiftCount(8)
    \o <<mov(4, N(Bits(8)), rcx), alu("sub", 4, rax, rcx), LoadTop(xmm0), ToXmm(rax, xmm1), ToXmm(rcx, xmm3),
         emit_const_zero(xmm2), Vec("vpcmpgt", 8, xmm0, xmm2, xmm2), ShiftOp("shl", 8, xmm3, xmm2, xmm2),
         ShiftOp("shr_u", 8, xmm1, xmm0, xmm0), Vec("vpor", 1, xmm0, xmm2, xmm0), StoreTop(xmm0)>>
\* The product of the lower halves and, above it, the sum of the mixed ones.
emit_i64x2_mul ==
  TakeTop(xmm0)
    \o <<LoadTop(xmm1), Vec("vpmuludq", 4, xmm0, xmm1, xmm2), PermuteD(<<1, 0, 3, 2>>, xmm0, xmm0),
         LanesOp("mul", 4, xmm0, xmm1, xmm0), Vec("vphadd", 4, xmm0, xmm0, xmm0), emit_const_zero(xmm1),
         Vec("vpunpckl", 4, xmm0, xmm1, xmm0), LanesOp("add", 8, xmm0, xmm2, xmm0), StoreTop(xmm0)>>

\* Operations that every integer shape has.
emit_v128_common(o, w) ==
  CASE o = "abs" -> emit_v128_unop("vpabs", w) [] o = "neg" -> emit_v128_neg(w)
    [] o = "all_true" -> emit_v128_all_true(w) [] o = "bitmask" -> emit_v128_bitmask(w)
    [] o \in Shifting -> emit_v128_shiftop(o, w)
    [] o \in {"extend_low_s", "extend_high_s", "extend_low_u", "extend_high_u"} -> emit_v128_extend(o, w \div 2)
    [] o \in {"extadd_pairwise_s", "extadd_pairwise_u"} -> emit_v128_extadd(o, w \div 2)
    [] o = "narrow_s" -> emit_v128_binop(Unplaced("vpackss", 2 * w, <<>>))
    [] o = "narrow_u" -> emit_v128_binop(Unplaced("vpackus", 2 * w, <<>>))
    [] o = "splat" -> emit_v128_splatop(w)
    [] OTHER -> emit_v128_lanes(o, w)
emit_i8x16(o) == CASE o \in Compares -> emit_i8x16_compare(o) [] o = "popcnt" -> emit_i8x16_popcnt 
                   [] o \in Shifting -> emit_i8x16_shift(o) [] OTHER -> emit_v128_common(o, 1)
ExtMulNames == {"extmul_low_s", "extmul_high_s", "extmul_low_u", "extmul_high_u"}
emit_i16x8(o) == CASE o \in Compares -> emit_i16x8_compare(o)
                   [] o = "q15mulr_sat_s" -> emit_i16x8_q15mulr_sat_s [] o = "bitmask" -> emit_i16x8_bitmask
                   [] o \in ExtMulNames -> emit_i16x8_extmul(o) [] OTHER -> emit_v128_common(o, 2)
emit_i32x4(o) == CASE o \in Compares -> emit_i32x4_compare(o)
                   [] o = "dot_s" -> emit_v128_binop_r(Unplaced("vpmadd", 2, <<>>))
                   [] o \in ExtMulNames -> emit_i32x4_extmul(o) [] OTHER -> emit_v128_common(o, 4)
emit_i64x2(o) == CASE o \in Compares -> emit_i64x2_compare(o)
                   [] o = "abs" -> emit_i64x2_abs [] o = "shr_s" -> emit_i64x2_shr_s [] o = "mul" -> emit_i64x2_mul
                   [] o \in ExtMulNames -> emit_i64x2_extmul(o) [] OTHER -> emit_v128_common(o, 8)
\* Comparisons, arithmetic and conversions of floats are calls.
emit_float_compare(sig) == emit_v128_binop_softfloat(sig)
SoftfloatLanes(sig) == IF Len(sig.pops) = 1 THEN emit_v128_unop_softfloat(sig) ELSE emit_v128_binop_softfloat(sig)
emit_f32x4(sig) == SoftfloatLanes(sig)
emit_f64x2(sig) == SoftfloatLanes(sig)
emit_v128_conversion(sig) == emit_v128_unop_softfloat(sig)

VectorListing(sig) ==
  LET s == sig.op[1]
      o == sig.op[2]
      w == LaneWidth(s) IN
  CASE o \in LoadNamesAll -> emit_v128_loadop(o, sig.imm[1])
    [] o \in StoreNamesAll -> emit_v128_store(sig.imm[1])
    [] o \in LoadLaneNames -> emit_v128_load_laneop(o, sig.imm[1], sig.imm[2])
    [] o \in StoreLaneNames -> emit_v128_store_laneop(o, sig.imm[1], sig.imm[2])
    [] s = "v128" -> emit_v128_logical(o)
    [] o = "shuffle" -> emit_i8x16_shuffle(sig.imm)
    [] o \in {"extract_lane", "extract_lane_s", "extract_lane_u"} -> emit_v128_extract_laneop(o, w, sig.imm[1])
    [] o = "replace_lane" -> emit_v128_replace_laneop(w, sig.imm[1])
    [] o \in VectorConversionNames -> emit_v128_conversion(sig)
    [] s \in {"f32x4", "f64x2"} /\ o = "splat" -> emit_v128_splatop(w)
    [] s \in {"f32x4", "f64x2"} /\ o \in Compares -> emit_float_compare(sig)
    [] s = "f32x4" -> emit_f32x4(sig) [] s = "f64x2" -> emit_f64x2(sig)
    [] s = "i8x16" -> emit_i8x16(o) [] s = "i16x8" -> emit_i16x8(o)
    [] s = "i32x4" -> emit_i32x4(o) [] s = "i64x2" -> emit_i64x2(o)
=============================================================================
