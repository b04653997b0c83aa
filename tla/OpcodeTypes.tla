---------------------------- MODULE OpcodeTypes ----------------------------
(***************************************************************************)
(* The opcodes that only compute: loads, stores, comparisons, arithmetic,  *)
(* conversions and vectors, each with the operands the parser pops, last   *)
(* first, and the result it pushes.  An opcode is a shape and an           *)
(* operation; a conversion also names its source.                          *)
(***************************************************************************)
EXTENDS Integers, Sequences

CONSTANTS
  Offsets,   \* offsets of memory accesses
  LaneOf,    \* LaneOf(n): the lanes tried of n, as a function of n
  Shuffles   \* operands of i8x16.shuffle

ASSUME OffsetsAssumption == Offsets \subseteq Nat
ASSUME LanesAssumption == \A n \in {2, 4, 8, 16} : LaneOf[n] \subseteq 0..(n - 1)
ASSUME ShufflesAssumption == Shuffles \subseteq [1..16 -> 0..31]

Op(s, o, imm, pops, push) == [op |-> <<s, o>>, imm |-> imm, pops |-> pops, push |-> push]
Unops(s, os, t, r)  == {Op(s, o, <<>>, <<t>>, r) : o \in os}
Binops(s, os, t, r) == {Op(s, o, <<>>, <<t, t>>, r) : o \in os}

IntTypes   == {"i32", "i64"}
FloatTypes == {"f32", "f64"}
IntShapes  == {"i8x16", "i16x8", "i32x4", "i64x2"}
FloatShapes == {"f32x4", "f64x2"}

\* LOAD_OP and STORE_OP.
LoadNames(t) == CASE t = "i32" -> {"load", "load8_s", "load8_u", "load16_s", "load16_u"}
                  [] t = "i64" -> {"load", "load8_s", "load8_u", "load16_s", "load16_u",
                                   "load32_s", "load32_u"}
                  [] t \in FloatTypes -> {"load"}
                  [] t = "v128" -> {"load", "load8x8_s", "load8x8_u", "load16x4_s", "load16x4_u",
                                    "load32x2_s", "load32x2_u", "load8_splat", "load16_splat",
                                    "load32_splat", "load64_splat", "load32_zero", "load64_zero"}
StoreNames(t) == CASE t = "i32" -> {"store", "store8", "store16"}
                   [] t = "i64" -> {"store", "store8", "store16", "store32"}
                   [] OTHER -> {"store"}
Loads(t)  == {Op(t, o, <<n>>, <<"i32">>, t) : o \in LoadNames(t), n \in Offsets}
Stores(t) == {Op(t, o, <<n>>, <<t, "i32">>, "pseudo") : o \in StoreNames(t), n \in Offsets}

ScalarLoads  == UNION {Loads(t) : t \in IntTypes \cup FloatTypes}
ScalarStores == UNION {Stores(t) : t \in IntTypes \cup FloatTypes}
VectorMemory == Loads("v128") \cup Stores("v128")

\* LOADLANE_OP and STORELANE_OP: the lane is below the number of lanes.
LoadLanes ==
  UNION {{Op("v128", o[1], <<n, l>>, <<"v128", "i32">>, "v128") : n \in Offsets, l \in LaneOf[o[2]]} :
         o \in {<<"load8_lane", 16>>, <<"load16_lane", 8>>, <<"load32_lane", 4>>, <<"load64_lane", 2>>}}
StoreLanes ==
  UNION {{Op("v128", o[1], <<n, l>>, <<"v128", "i32">>, "pseudo") : n \in Offsets, l \in LaneOf[o[2]]} :
         o \in {<<"store8_lane", 16>>, <<"store16_lane", 8>>, <<"store32_lane", 4>>,
                <<"store64_lane", 2>>}}

MemorySize == {Op("memory", "size", <<>>, <<>>, "i32")}
MemoryGrow == {Op("memory", "grow", <<>>, <<"i32">>, "i32")}

\* The 0xfc prefix: three i32 operands, or a segment to drop.
BulkOps(segments) ==
  {Op(s[1], s[2], <<>>, <<"i32", "i32", "i32">>, "pseudo") :
     s \in {<<"memory", "fill">>, <<"memory", "copy">>, <<"table", "copy">>}}
    \cup {Op(s, "init", <<x>>, <<"i32", "i32", "i32">>, "pseudo") : s \in {"memory", "table"}, x \in segments}
    \cup {Op(s, "drop", <<x>>, <<>>, "pseudo") : s \in {"memory", "table"}, x \in segments}

\* get_global and, for a mutable one, set_global.
GlobalOps(types) == {Op("global", "get", <<g>>, <<>>, types[g]) : g \in DOMAIN types}
                      \cup {Op("global", "set", <<g>>, <<types[g]>>, "pseudo") : g \in DOMAIN types}

\* Comparisons give an i32.
SignedRelops   == {"lt_s", "gt_s", "le_s", "ge_s"}
UnsignedRelops == {"lt_u", "gt_u", "le_u", "ge_u"}
IntRelops   == {"eq", "ne"} \cup SignedRelops \cup UnsignedRelops
FloatRelops == {"eq", "ne", "lt", "gt", "le", "ge"}
IntCompares(t)   == Unops(t, {"eqz"}, t, "i32") \cup Binops(t, IntRelops, t, "i32")
FloatCompares(t) == Binops(t, FloatRelops, t, "i32")

IntUnops    == {"clz", "ctz", "popcnt"}
IntBinops   == {"add", "sub", "mul", "div_s", "div_u", "rem_s", "rem_u", "and", "or", "xor",
                "shl", "shr_s", "shr_u", "rotl", "rotr"}
FloatUnops  == {"abs", "neg", "ceil", "floor", "trunc", "nearest", "sqrt"}
FloatBinops == {"add", "sub", "mul", "div", "min", "max", "copysign"}
IntNumeric(t)   == Unops(t, IntUnops, t, t) \cup Binops(t, IntBinops, t, t)
FloatNumeric(t) == Unops(t, FloatUnops, t, t) \cup Binops(t, FloatBinops, t, t)

\* CASTOP(dst, opname, src)
Cast(d, o, s) == [op |-> <<d, o, s>>, imm |-> <<>>, pops |-> <<s>>, push |-> d]
Conversions ==
  {Cast("i32", "wrap", "i64"), Cast("f32", "demote", "f64"), Cast("f64", "promote", "f32"),
   Cast("i32", "reinterpret", "f32"), Cast("i64", "reinterpret", "f64"),
   Cast("f32", "reinterpret", "i32"), Cast("f64", "reinterpret", "i64")}
  \cup {Cast("i64", o, "i32") : o \in {"extend_s", "extend_u"}}
  \cup {Cast(d, o, s) : d \in IntTypes, o \in {"trunc_s", "trunc_u"}, s \in FloatTypes}
  \cup {Cast(d, o, s) : d \in FloatTypes, o \in {"convert_s", "convert_u"}, s \in IntTypes}

\* EXTENDOP and TRUNC_SAT_OP.
Extends == Unops("i32", {"extend8_s", "extend16_s"}, "i32", "i32")
             \cup Unops("i64", {"extend8_s", "extend16_s", "extend32_s"}, "i64", "i64")
TruncSats == {Cast(d, o, s) : d \in IntTypes, o \in {"trunc_sat_s", "trunc_sat_u"}, s \in FloatTypes}

\* EXTRACT_LANE_OP, REPLACE_LANE_OP and i8x16_shuffle.
LaneShapes == {<<"i8x16", "i32", 16>>, <<"i16x8", "i32", 8>>, <<"i32x4", "i32", 4>>,
               <<"i64x2", "i64", 2>>, <<"f32x4", "f32", 4>>, <<"f64x2", "f64", 2>>}
ExtractNames(s) == IF s \in {"i8x16", "i16x8"} THEN {"extract_lane_s", "extract_lane_u"}
                   ELSE {"extract_lane"}
ExtractLanes == UNION {{Op(s[1], o, <<l>>, <<"v128">>, s[2]) :
                          o \in ExtractNames(s[1]), l \in LaneOf[s[3]]} : s \in LaneShapes}
ReplaceLanes == UNION {{Op(s[1], "replace_lane", <<l>>, <<s[2], "v128">>, "v128") :
                          l \in LaneOf[s[3]]} : s \in LaneShapes}
ShuffleOps   == {Op("i8x16", "shuffle", x, <<"v128", "v128">>, "v128") : x \in Shuffles}

\* NUMERIC_OP, in the order of the parser.
VectorUnops(s, os)  == Unops(s, os, "v128", "v128")
VectorBinops(s, os) == Binops(s, os, "v128", "v128")
Splats == VectorBinops("i8x16", {"swizzle"})
            \cup {Op(s[1], "splat", <<>>, <<s[2]>>, "v128") : s \in LaneShapes}
VectorIntCompares(s) ==
  VectorBinops(s, IF s = "i64x2" THEN {"eq", "ne"} \cup SignedRelops ELSE IntRelops)
VectorFloatCompares(s) == VectorBinops(s, FloatRelops)
VectorLogic == VectorUnops("v128", {"not"}) \cup VectorBinops("v128", {"and", "andnot", "or", "xor"})
                 \cup {Op("v128", "bitselect", <<>>, <<"v128", "v128", "v128">>, "v128")}
                 \cup Unops("v128", {"any_true"}, "v128", "i32")

VectorCommon(s) ==
  VectorUnops(s, {"abs", "neg"}) \cup Unops(s, {"all_true", "bitmask"}, "v128", "i32")
    \cup {Op(s, o, <<>>, <<"i32", "v128">>, "v128") : o \in {"shl", "shr_s", "shr_u"}}
    \cup VectorBinops(s, {"add", "sub"})
MinMax == {"min_s", "min_u", "max_s", "max_u"}
Saturating == {"add_sat_s", "add_sat_u", "sub_sat_s", "sub_sat_u"}
\* The source of these has lanes of half, or for narrow of twice, the width.
ExtMuls  == {"extmul_low_s", "extmul_high_s", "extmul_low_u", "extmul_high_u"}
ExtAdds  == {"extadd_pairwise_s", "extadd_pairwise_u"}
VExtends == {"extend_low_s", "extend_high_s", "extend_low_u", "extend_high_u"}
Narrows  == {"narrow_s", "narrow_u"}

I8x16Numeric == VectorCommon("i8x16") \cup VectorUnops("i8x16", {"popcnt"})
                  \cup VectorBinops("i8x16", Narrows \cup Saturating \cup MinMax \cup {"avgr_u"})
I16x8Numeric ==
  VectorCommon("i16x8") \cup VectorUnops("i16x8", ExtAdds \cup VExtends)
    \cup VectorBinops("i16x8", Narrows \cup Saturating \cup MinMax \cup ExtMuls
                                 \cup {"q15mulr_sat_s", "mul", "avgr_u"})
I32x4Numeric ==
  VectorCommon("i32x4") \cup VectorUnops("i32x4", ExtAdds \cup VExtends)
    \cup VectorBinops("i32x4", MinMax \cup ExtMuls \cup {"mul", "dot_s"})
I64x2Numeric ==
  VectorCommon("i64x2") \cup VectorUnops("i64x2", VExtends)
    \cup VectorBinops("i64x2", ExtMuls \cup {"mul"})
VectorFloatNumeric(s) ==
  VectorUnops(s, {"ceil", "floor", "trunc", "nearest", "abs", "neg", "sqrt"})
    \cup VectorBinops(s, {"add", "sub", "mul", "div", "min", "max", "pmin", "pmax"})
VectorConversions ==
  VectorUnops("i32x4", {"trunc_sat_f32x4_s", "trunc_sat_f32x4_u", "trunc_sat_f64x2_s_zero",
                        "trunc_sat_f64x2_u_zero"})
    \cup VectorUnops("f32x4", {"convert_i32x4_s", "convert_i32x4_u", "demote_f64x2_zero"})
    \cup VectorUnops("f64x2", {"convert_low_i32x4_s", "convert_low_i32x4_u", "promote_low_f32x4"})
=============================================================================
