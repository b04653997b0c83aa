---------------------------- MODULE InterpretOps ----------------------------
(***************************************************************************)
(* What interpret_visitor does for the opcodes of OpcodeTypes, at the      *)
(* scale of Words: the value it pushes and the memory it leaves, or that   *)
(* it stops with an exception or a fault.  Arguments are in the order they *)
(* are popped.                                                             *)
(***************************************************************************)
EXTENDS SoftFloat

CONSTANTS
  eosio_fp,       \* module::eosio_fp: NaNs stay signalling, old bounds
  PageBytes,      \* bytes of a page of linear memory
  MaxPages        \* pages the memory may grow to

ASSUME MemoryAssumption == eosio_fp \in BOOLEAN /\ PageBytes \in Nat \ {0} /\ MaxPages \in Nat

Width(t) == CASE t \in {"i32", "f32"} -> 4 [] t \in {"i64", "f64"} -> 8 [] t = "v128" -> 16
LaneWidth(s) == CASE s = "i8x16" -> 1 [] s = "i16x8" -> 2
                  [] s \in {"i32x4", "f32x4"} -> 4 [] s \in {"i64x2", "f64x2"} -> 8

-----------------------------------------------------------------------------
(* Memory.  The address space past the memory faults (pop_memop_addr).     *)

InBounds(mem, a, n) == a + n <= Len(mem)
ReadBytes(mem, a, n) == SubSeq(mem, a + 1, a + n)
WriteBytes(mem, a, b) == [i \in DOMAIN mem |-> IF i - a \in DOMAIN b THEN b[i - a] ELSE mem[i]]

NarrowWidth(o) == CASE o \in {"load8_s", "load8_u", "store8", "load8_splat", "load8_lane", "store8_lane"} -> 1
                    [] o \in {"load16_s", "load16_u", "store16", "load16_splat", "load16_lane",
                              "store16_lane"} -> 2
                    [] o \in {"load32_s", "load32_u", "store32", "load32_splat", "load32_zero",
                              "load32_lane", "store32_lane"} -> 4
                    [] o \in {"load8x8_s", "load8x8_u", "load16x4_s", "load16x4_u", "load32x2_s",
                              "load32x2_u", "load64_splat", "load64_zero", "load64_lane",
                              "store64_lane"} -> 8
AccessWidth(t, o) == IF o \in {"load", "store"} THEN Width(t) ELSE NarrowWidth(o)

LoadScalar(t, o, b) ==
  IF o \in {"load8_s", "load16_s", "load32_s"} THEN SignExtend(FromBytes(b), Len(b), Width(t))
  ELSE FromBytes(b)
LoadVector(o, b) ==
  CASE o = "load" -> b
    [] o = "load8x8_s" -> WidenLanes(b, 1, TRUE)  [] o = "load8x8_u" -> WidenLanes(b, 1, FALSE)
    [] o = "load16x4_s" -> WidenLanes(b, 2, TRUE) [] o = "load16x4_u" -> WidenLanes(b, 2, FALSE)
    [] o = "load32x2_s" -> WidenLanes(b, 4, TRUE) [] o = "load32x2_u" -> WidenLanes(b, 4, FALSE)
    [] o \in {"load8_splat", "load16_splat", "load32_splat", "load64_splat"} -> Splat(FromBytes(b), Len(b))
    [] o \in {"load32_zero", "load64_zero"} -> b \o [i \in 1..(16 - Len(b)) |-> 0]
SetLane(v, w, l, x) == FromLanes([Lanes(v, w) EXCEPT ![l + 1] = x], w)
StoredBytes(t, o, x) == IF t = "v128" THEN x ELSE ToBytes(x, AccessWidth(t, o))

\* current_linear_memory and grow_linear_memory.  The operand is signed: a
\* negative one frees the last pages.
Pages(mem) == Len(mem) \div PageBytes
CanGrow(mem, n) == LET pages == Signed(n, 4) IN
                   IF pages < 0 THEN Pages(mem) + pages >= 0 ELSE Pages(mem) + pages <= MaxPages
Grow(mem, n) == LET pages == Signed(n, 4) IN
                CASE ~CanGrow(mem, n) -> mem
                  [] pages < 0 -> SubSeq(mem, 1, (Pages(mem) + pages) * PageBytes)
                  [] OTHER -> mem \o [i \in 1..(pages * PageBytes) |-> 0]

\* memory.fill, memory.copy and table.copy: the whole range is checked, then
\* the operands on the stack move one element at a time, from the side that
\* an overlap allows.
Fill(seq, d, x, n) == FoldLeft(LAMBDA v, i : [v EXCEPT ![d + i] = x], seq, [i \in 1..n |-> i])
Copy(seq, d, s, n) ==
  LET order == [i \in 1..n |-> IF d <= s THEN i ELSE n + 1 - i] IN
  FoldLeft(LAMBDA v, i : [v EXCEPT ![d + i] = v[s + i]], seq, order)

-----------------------------------------------------------------------------
(* Integers.                                                               *)

Relop(o, x, y, w) ==
  CASE o = "eq" -> x = y [] o = "ne" -> x # y
    [] o = "lt_u" -> x < y [] o = "gt_u" -> x > y [] o = "le_u" -> x <= y [] o = "ge_u" -> x >= y
    [] o = "lt_s" -> Signed(x, w) < Signed(y, w) [] o = "gt_s" -> Signed(x, w) > Signed(y, w)
    [] o = "le_s" -> Signed(x, w) <= Signed(y, w) [] o = "ge_s" -> Signed(x, w) >= Signed(y, w)
I32Compare(o, x, y) == AsBit(IF o = "eqz" THEN x = 0 ELSE Relop(o, x, y, 4))
I64Compare(o, x, y) == AsBit(IF o = "eqz" THEN x = 0 ELSE Relop(o, x, y, 8))

IntUnop(o, x, w) == CASE o = "clz" -> LeadingZeros(x, w) [] o = "ctz" -> TrailingZeros(x, w)
                      [] o = "popcnt" -> PopCount(x, w)
DivTraps(o, x, y, w) ==
  y = 0 \/ (o = "div_s" /\ Signed(x, w) = SmallestSigned(w) /\ Signed(y, w) = -1)
IntBinop(o, x, y, w) ==
  CASE o = "add" -> Wrap(x + y, w) [] o = "sub" -> Wrap(x - y, w) [] o = "mul" -> Times(x, y, w)
    [] o = "div_s" -> Wrap(Quotient(Signed(x, w), Signed(y, w)), w)
    [] o = "div_u" -> x \div y
    [] o = "rem_s" -> IF Signed(y, w) = -1 THEN 0 ELSE Wrap(Remainder(Signed(x, w), Signed(y, w)), w)
    [] o = "rem_u" -> x % y
    [] o = "and" -> x & y [] o = "or" -> x | y [] o = "xor" -> x ^^ y
    [] o = "shl" -> ShiftL(x, y % Bits(w), w)
    [] o = "shr_s" -> ShiftRS(x, y % Bits(w), w) [] o = "shr_u" -> ShiftR(x, y % Bits(w))
    [] o = "rotl" -> RotateL(x, y % Bits(w), w) [] o = "rotr" -> RotateR(x, y % Bits(w), w)
Divisions == {"div_s", "div_u", "rem_s", "rem_u"}
I32Numeric(o, x, y) == IF o \in {"clz", "ctz", "popcnt"} THEN IntUnop(o, x, 4) ELSE IntBinop(o, x, y, 4)
I64Numeric(o, x, y) == IF o \in {"clz", "ctz", "popcnt"} THEN IntUnop(o, x, 8) ELSE IntBinop(o, x, y, 8)

\* extend8_s, extend16_s and extend32_s.
ExtendFrom(o) == CASE o = "extend8_s" -> 1 [] o = "extend16_s" -> 2 [] o = "extend32_s" -> 4
ExtendTo(o, x, w) == SignExtend(x, ExtendFrom(o), w)

-----------------------------------------------------------------------------
(* Floats: the variants of softfloat.hpp a module without eosio_fp asks    *)
(* for return quiet NaNs.                                                  *)

F32Relop(o, x, y) == AsBit(F32Compare(o, x, y))
F64Relop(o, x, y) == AsBit(F64Compare(o, x, y))
F32Numeric(o, x, y) == F32(~eosio_fp, o, x, y)
F64Numeric(o, x, y) == F64(~eosio_fp, o, x, y)

Conversion(d, o, s, x) ==
  CASE o = "wrap" -> Wrap(x, 4)
    [] o = "extend_s" -> SignExtend(x, 4, 8)
    [] o = "extend_u" -> x
    [] o \in {"trunc_s", "trunc_u"} -> TruncTo(~eosio_fp, o, x, Width(s), Width(d))
\* convert_s, convert_u, demote and promote.
ConvertToFloat(d, o, s, x) == ConvertFloat(o, x, Width(s), Width(d))
Reinterpret(x) == x
TruncSatOp(d, o, s, x) == TruncSat(o, x, Width(s), Width(d))

-----------------------------------------------------------------------------
(* Vectors.                                                                *)

ExtractLane(s, o, l, v) == LET w == LaneWidth(s) IN
                           IF o = "extract_lane_s" THEN SignExtend(Lanes(v, w)[l + 1], w, 4)
                           ELSE Lanes(v, w)[l + 1]
Shuffle(ls, a, b) == [i \in 1..16 |-> (a \o b)[ls[i] + 1]]
SplatOp(s, x) == Splat(Wrap(x, LaneWidth(s)), LaneWidth(s))

VectorCompare(o, a, b, w) == ZipLanes(LAMBDA x, y : LaneMask(Relop(o, x, y, w), w), a, b, w)
I8x16Compare(o, a, b) == VectorCompare(o, a, b, 1)
I16x8Compare(o, a, b) == VectorCompare(o, a, b, 2)
I32x4Compare(o, a, b) == VectorCompare(o, a, b, 4)
I64x2Compare(o, a, b) == VectorCompare(o, a, b, 8)
F32x4Compare(o, a, b) == F32x4Relop(o, a, b)
F64x2Compare(o, a, b) == F64x2Relop(o, a, b)

BitSelect(a, b, c) == (a & c) | (b & Complement(c, 1))
Logical(o, a, b, c) ==
  CASE o = "not" -> MapLanes(LAMBDA x : Complement(x, 1), a, 1)
    [] o = "and" -> ZipLanes(&, a, b, 1) [] o = "or" -> ZipLanes(|, a, b, 1)
    [] o = "xor" -> ZipLanes(^^, a, b, 1)
    [] o = "andnot" -> ZipLanes(LAMBDA x, y : x & Complement(y, 1), a, b, 1)
    [] o = "bitselect" -> [i \in 1..16 |-> BitSelect(a[i], b[i], c[i])]
AnyTrue(a) == AsBit(a # ZeroVector)
AllTrue(a, w) == AsBit(\A i \in 1..NumLanes(w) : Lanes(a, w)[i] # 0)
\* An i32 has 8 bits here: one for each lane but of i8x16.
BitMask(a, w) == Wrap(FoldRight(LAMBDA x, m : 2 * m + AsBit(SignBit(x, w)), Lanes(a, w), 0), 4)

LaneUnop(o, x, w) == CASE o = "abs" -> IF SignBit(x, w) THEN Negate(x, w) ELSE x
                       [] o = "neg" -> Negate(x, w) [] o = "popcnt" -> PopCount(x, w)
Average(x, y) == (x + y + 1) \div 2
q15mulr(x, y, w) == LET t == Wrap((Signed(x, w) * Signed(y, w) + Mod(w) \div 4) \div (Mod(w) \div 2), w) IN
                    IF t = Mod(w) \div 2 THEN LargestSigned(w) ELSE t
LaneBinop(o, x, y, w) ==
  CASE o = "add" -> Wrap(x + y, w) [] o = "sub" -> Wrap(x - y, w) [] o = "mul" -> Times(x, y, w)
    [] o = "add_sat_s" -> SaturateS(Signed(x, w) + Signed(y, w), w)
    [] o = "add_sat_u" -> SaturateU(x + y, w)
    [] o = "sub_sat_s" -> SaturateS(Signed(x, w) - Signed(y, w), w)
    [] o = "sub_sat_u" -> SaturateU(x - y, w)
    [] o = "min_s" -> IF Signed(x, w) < Signed(y, w) THEN x ELSE y
    [] o = "max_s" -> IF Signed(x, w) < Signed(y, w) THEN y ELSE x
    [] o = "min_u" -> IF x < y THEN x ELSE y [] o = "max_u" -> IF x < y THEN y ELSE x
    [] o = "avgr_u" -> Average(x, y) [] o = "q15mulr_sat_s" -> q15mulr(x, y, w)
LaneShift(o, x, n, w) == CASE o = "shl" -> ShiftL(x, n, w) [] o = "shr_s" -> ShiftRS(x, n, w)
                           [] o = "shr_u" -> ShiftR(x, n)

v128_narrow(o, a, b, w) ==
  LET f(x) == IF o = "narrow_s" THEN SaturateS(Signed(x, 2 * w), w) ELSE SaturateU(Signed(x, 2 * w), w)
      ls == Lanes(a, 2 * w) \o Lanes(b, 2 * w) IN
  FromLanes([i \in DOMAIN ls |-> f(ls[i])], w)
v128_extend(o, a, w) ==
  WidenLanes(IF o \in {"extend_high_s", "extend_high_u"} THEN HighHalf(a) ELSE LowHalf(a),
             w \div 2, o \in {"extend_low_s", "extend_high_s"})
Signs(x, w, signed) == IF signed THEN Signed(x, w) ELSE x
v128_extadd_pairwise(o, a, w) ==
  LET h == w \div 2
      ls == Lanes(a, h)
      x(i) == Signs(ls[i], h, o = "extadd_pairwise_s") IN
  FromLanes([i \in 1..NumLanes(w) |-> Wrap(x(2 * i - 1) + x(2 * i), w)], w)
\* With high, only the first operand is moved to its upper lanes.
v128_extmul(o, a, b, w) ==
  LET h == w \div 2
      n == NumLanes(w)
      signed == o \in {"extmul_low_s", "extmul_high_s"}
      base == IF o \in {"extmul_high_s", "extmul_high_u"} THEN n ELSE 0
      x(i) == Signs(Lanes(a, h)[base + i], h, signed)
      y(i) == Signs(Lanes(b, h)[i], h, signed) IN
  FromLanes([i \in 1..n |-> Wrap(x(i) * y(i), w)], w)
v128_dot(a, b) ==
  LET p(i) == Signed(Lanes(a, 2)[i], 2) * Signed(Lanes(b, 2)[i], 2) IN
  FromLanes([i \in 1..4 |-> Wrap(p(2 * i - 1) + p(2 * i), 4)], 4)

\* A vector operation of one shape, after the operands are popped.
VectorNumeric(o, a, b, w) ==
  CASE o \in {"abs", "neg", "popcnt"} -> MapLanes(LAMBDA x : LaneUnop(o, x, w), a, w)
    [] o \in {"narrow_s", "narrow_u"} -> v128_narrow(o, a, b, w)
    [] o \in {"extend_low_s", "extend_high_s", "extend_low_u", "extend_high_u"} -> v128_extend(o, a, w)
    [] o \in {"extadd_pairwise_s", "extadd_pairwise_u"} -> v128_extadd_pairwise(o, a, w)
    [] o \in {"extmul_low_s", "extmul_high_s", "extmul_low_u", "extmul_high_u"} -> v128_extmul(o, a, b, w)
    [] o = "dot_s" -> v128_dot(a, b)
    [] OTHER -> ZipLanes(LAMBDA x, y : LaneBinop(o, x, y, w), a, b, w)
I8x16Op(o, a, b) == VectorNumeric(o, a, b, 1)
I16x8Op(o, a, b) == VectorNumeric(o, a, b, 2)
I32x4Op(o, a, b) == VectorNumeric(o, a, b, 4)
I64x2Op(o, a, b) == VectorNumeric(o, a, b, 8)
F32x4Op(o, a, b) == F32x4(o, a, b)
F64x2Op(o, a, b) == F64x2(o, a, b)
VectorConversion(o, a) == ConvertF32x4(o, a)
VectorShift(o, a, n, w) == MapLanes(LAMBDA x : LaneShift(o, x, n % Bits(w), w), a, w)

-----------------------------------------------------------------------------
(* The store: linear memory, globals, passive data and element segments    *)
(* (empty once dropped) and the table.                                     *)

Outcome(val, store) == [trap |-> FALSE, val |-> val, store |-> store]
Trap(store) == [trap |-> TRUE, val |-> <<>>, store |-> store]

LoadNamesAll  == {"load", "load8_s", "load8_u", "load16_s", "load16_u", "load32_s", "load32_u",
                  "load8x8_s", "load8x8_u", "load16x4_s", "load16x4_u", "load32x2_s", "load32x2_u",
                  "load8_splat", "load16_splat", "load32_splat", "load64_splat", "load32_zero", "load64_zero"}
StoreNamesAll == {"store", "store8", "store16", "store32"}
LoadLaneNames == {"load8_lane", "load16_lane", "load32_lane", "load64_lane"}
StoreLaneNames == {"store8_lane", "store16_lane", "store32_lane", "store64_lane"}

\* Operands are a, the last one first; the address is the last operand.
Access(sig, a, store) ==
  LET t == sig.op[1]
      o == sig.op[2]
      w == AccessWidth(t, o)
      at == Last(a) + sig.imm[1]
      b == ReadBytes(store.mem, at, w)
      put(v) == Outcome(<<>>, [store EXCEPT !.mem = WriteBytes(@, at, v)]) IN
  IF ~InBounds(store.mem, at, w) THEN Trap(store)
  ELSE CASE o \in LoadNamesAll -> Outcome(<<IF t = "v128" THEN LoadVector(o, b) ELSE LoadScalar(t, o, b)>>, store)
         [] o \in StoreNamesAll -> put(StoredBytes(t, o, a[1]))
         [] o \in LoadLaneNames -> Outcome(<<SetLane(a[1], w, sig.imm[2], FromBytes(b))>>, store)
         [] o \in StoreLaneNames -> put(ToBytes(Lanes(a[1], w)[sig.imm[2] + 1], w))

\* Bulk operations: n, s and d are popped in this order.  memory.init and
\* table.init are init_linear_memory and init_table of the context.
Bulk(sig, a, store) ==
  LET o == sig.op[2]
      n == a[1]
      s == a[2]
      d == a[3] IN
  CASE o = "fill" -> IF ~InBounds(store.mem, d, n) THEN Trap(store)
                     ELSE Outcome(<<>>, [store EXCEPT !.mem = Fill(@, d, Wrap(s, 1), n)])
    [] o = "copy" -> IF ~InBounds(store.mem, s, n) \/ ~InBounds(store.mem, d, n) THEN Trap(store)
                     ELSE Outcome(<<>>, [store EXCEPT !.mem = Copy(@, d, s, n)])
    [] o = "init" -> LET x == store.data[sig.imm[1]] IN
                     IF ~InBounds(x, s, n) \/ ~InBounds(store.mem, d, n) THEN Trap(store)
                     ELSE Outcome(<<>>, [store EXCEPT !.mem = WriteBytes(@, d, ReadBytes(x, s, n))])
TableBulk(sig, a, store) ==
  LET o == sig.op[2]
      n == a[1]
      s == a[2]
      d == a[3] IN
  CASE o = "copy" -> IF ~InBounds(store.tab, s, n) \/ ~InBounds(store.tab, d, n) THEN Trap(store)
                     ELSE Outcome(<<>>, [store EXCEPT !.tab = Copy(@, d, s, n)])
    [] o = "init" -> LET x == store.elem[sig.imm[1]] IN
                     IF ~InBounds(x, s, n) \/ ~InBounds(store.tab, d, n) THEN Trap(store)
                     ELSE Outcome(<<>>, [store EXCEPT !.tab = WriteBytes(@, d, ReadBytes(x, s, n))])

MemoryOp(sig, a, store) ==
  CASE sig.op[2] = "size" -> Outcome(<<Pages(store.mem)>>, store)
    [] sig.op[2] = "grow" -> Outcome(<<IF CanGrow(store.mem, a[1]) THEN Pages(store.mem) ELSE Ones(4)>>,
                                     [store EXCEPT !.mem = Grow(@, a[1])])
    [] sig.op[2] = "drop" -> Outcome(<<>>, [store EXCEPT !.data[sig.imm[1]] = <<>>])
    [] OTHER -> Bulk(sig, a, store)
TableOp(sig, a, store) ==
  IF sig.op[2] = "drop" THEN Outcome(<<>>, [store EXCEPT !.elem[sig.imm[1]] = <<>>])
  ELSE TableBulk(sig, a, store)
GlobalOp(sig, a, store) ==
  IF sig.op[2] = "get" THEN Outcome(<<store.glob[sig.imm[1]]>>, store)
  ELSE Outcome(<<>>, [store EXCEPT !.glob[sig.imm[1]] = a[1]])

-----------------------------------------------------------------------------
(* Opcodes that only compute: x is the first operand, y the second.        *)

ScalarShapes == {"i32", "i64", "f32", "f64"}
VectorConversionNames == {"trunc_sat_f32x4_s", "trunc_sat_f32x4_u", "convert_i32x4_s", "convert_i32x4_u",
                          "trunc_sat_f64x2_s_zero", "trunc_sat_f64x2_u_zero", "convert_low_i32x4_s",
                          "convert_low_i32x4_u", "demote_f64x2_zero", "promote_low_f32x4"}
Compares == {"eqz", "eq", "ne", "lt_s", "lt_u", "gt_s", "gt_u", "le_s", "le_u", "ge_s", "ge_u",
             "lt", "gt", "le", "ge"}
Scalars(op, x, y) ==
  LET o == op[2] IN
  CASE Len(op) = 3 -> CASE o = "reinterpret" -> Reinterpret(x)
                        [] o \in {"trunc_sat_s", "trunc_sat_u"} -> TruncSatOp(op[1], o, op[3], x)
                        [] op[1] \in {"f32", "f64"} -> ConvertToFloat(op[1], o, op[3], x)
                        [] OTHER -> Conversion(op[1], o, op[3], x)
    [] o \in {"extend8_s", "extend16_s", "extend32_s"} -> ExtendTo(o, x, Width(op[1]))
    [] op[1] = "i32" -> IF o \in Compares THEN I32Compare(o, x, y)
                        ELSE IF o \in Divisions /\ DivTraps(o, x, y, 4) THEN Trapped ELSE I32Numeric(o, x, y)
    [] op[1] = "i64" -> IF o \in Compares THEN I64Compare(o, x, y)
                        ELSE IF o \in Divisions /\ DivTraps(o, x, y, 8) THEN Trapped ELSE I64Numeric(o, x, y)
    [] op[1] = "f32" -> IF o \in Compares THEN F32Relop(o, x, y) ELSE F32Numeric(o, x, y)
    [] op[1] = "f64" -> IF o \in Compares THEN F64Relop(o, x, y) ELSE F64Numeric(o, x, y)

\* a has the operands, the last one first.
Vectors(op, imm, a) ==
  LET s == op[1]
      o == op[2]
      x == Last(a)
      w == LaneWidth(s) IN
  CASE s = "v128" -> IF o = "any_true" THEN AnyTrue(x)
                     ELSE Logical(o, x, IF o = "not" THEN x ELSE a[Len(a) - 1], a[1])
    [] o \in {"extract_lane", "extract_lane_s", "extract_lane_u"} -> ExtractLane(s, o, imm[1], x)
    [] o = "replace_lane" -> SetLane(x, w, imm[1], Wrap(a[1], w))
    [] o = "shuffle" -> Shuffle(imm, x, a[1])
    [] o = "splat" -> SplatOp(s, x)
    [] o = "all_true" -> AllTrue(x, w)
    [] o = "bitmask" -> BitMask(x, w)
    [] o \in {"shl", "shr_s", "shr_u"} -> VectorShift(o, x, a[1], w)
    [] o \in VectorConversionNames -> VectorConversion(o, x)
    [] s = "f32x4" -> IF o \in Compares THEN F32x4Compare(o, x, a[1]) ELSE F32x4Op(o, x, a[1])
    [] s = "f64x2" -> IF o \in Compares THEN F64x2Compare(o, x, a[1]) ELSE F64x2Op(o, x, a[1])
    [] s = "i8x16" -> IF o \in Compares THEN I8x16Compare(o, x, a[1]) ELSE I8x16Op(o, x, a[1])
    [] s = "i16x8" -> IF o \in Compares THEN I16x8Compare(o, x, a[1]) ELSE I16x8Op(o, x, a[1])
    [] s = "i32x4" -> IF o \in Compares THEN I32x4Compare(o, x, a[1]) ELSE I32x4Op(o, x, a[1])
    [] s = "i64x2" -> IF o \in Compares THEN I64x2Compare(o, x, a[1]) ELSE I64x2Op(o, x, a[1])

ScalarOutcome(v, store) == IF v = Trapped THEN Trap(store) ELSE Outcome(<<v>>, store)
Compute(op, imm, a, store) ==
  IF op[1] \in ScalarShapes
  THEN ScalarOutcome(Scalars(op, Last(a), IF Len(a) = 1 THEN 0 ELSE a[1]), store)
  ELSE Outcome(<<Vectors(op, imm, a)>>, store)

\* The opcode of a signature on its operands.
Perform(sig, a, store) ==
  CASE sig.op[1] = "memory" -> MemoryOp(sig, a, store)
    [] sig.op[1] = "table" -> TableOp(sig, a, store)
    [] sig.op[1] = "global" -> GlobalOp(sig, a, store)
    [] sig.op[2] \in LoadNamesAll \cup StoreNamesAll \cup LoadLaneNames \cup StoreLaneNames ->
         Access(sig, a, store)
    [] OTHER -> Compute(sig.op, sig.imm, a, store)
=============================================================================
