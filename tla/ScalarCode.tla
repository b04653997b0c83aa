----------------------------- MODULE ScalarCode -----------------------------
(***************************************************************************)
(* The listings machine_code_writer emits for memory, globals, integers    *)
(* and floats.  Floats are the software floating point build.              *)
(***************************************************************************)
EXTENDS CodeWriter

CONSTANT has_tzcnt   \* the processor has lzcnt and tzcnt

ASSUME TzcntAssumption == has_tzcnt \in BOOLEAN

rax == R("rax")
rcx == R("rcx")
rdx == R("rdx")
rsi == R("rsi")
rdi == R("rdi")
r8  == R("r8")
r9  == R("r9")

mov(w, s, d) == I3("mov", w, s, d)
alu(i, w, s, d) == I3(i, w, s, d)
Clear(r) == I3("xor", 4, r, r)
setcc(cc, r) == I5("setcc", 1, None, None, r, <<cc>>)
cmovz(w, s, d) == I5("cmovcc", w, s, None, d, <<"eq">>)
movsx(w, v, s, d) == I5("movsx", w, s, None, d, <<v>>)
RawPop(r)  == I2("pop", 8, r)
RawPush(r) == I2("push", 8, r)
\* w = 4: what is above the result in rax is not specified.
CallFunction(sig, w) == I5("callc", w, None, None, None, <<sig>>)

-----------------------------------------------------------------------------
(* Memory and globals.                                                     *)

\* An offset that is negative as a 32-bit displacement is added first.
IsHighOffset(n) == n >= Mod(4) \div 2
emit_pop_address(n, out, tmp) ==
  IF IsHighOffset(n)
  THEN [ins |-> <<emit_pop(out), mov(4, N(n), R(tmp)), alu("add", 8, R(tmp), R(out))>>, at |-> Lin(<<out, "rsi">>, 0)]
  ELSE [ins |-> <<emit_pop(out)>>, at |-> Lin(<<out, "rsi">>, n)]
\* The address is left in rax.
RawPopAddress(n) ==
  <<RawPop(rax)>>
    \o (IF IsHighOffset(n) THEN <<mov(4, N(n), rcx), alu("add", 8, rcx, rax)>>
        ELSE IF n # 0 THEN <<alu("add", 8, N(n), rax)>> ELSE <<>>)
    \o <<alu("add", 8, rsi, rax)>>

LoadInstruction(t, o, at) ==
  CASE o \in {"load8_s", "load16_s", "load32_s"} -> movsx(NarrowWidth(o), Width(t), at, rax)
    [] o \in {"load8_u", "load16_u"} -> I3("movzx", NarrowWidth(o), at, rax)
    [] o = "load32_u" -> mov(4, at, rax)
    [] o = "load" -> mov(Width(t), at, rax)
emit_load(t, o, n) == LET a == emit_pop_address(n, "rax", "rcx") IN
                      a.ins \o <<LoadInstruction(t, o, a.at), emit_push("rax")>>
\* Mutant: the address is popped before the value.
emit_store_AddressFirst(t, o, n) == LET a == emit_pop_address(n, "rcx", "rdx") IN
                       a.ins \o <<emit_pop("rax")>> \o <<mov(AccessWidth(t, o), rax, a.at)>>
emit_store(t, o, n) == LET a == emit_pop_address(n, "rcx", "rdx") IN
                       <<emit_pop("rax")>> \o a.ins \o <<mov(AccessWidth(t, o), rax, a.at)>>

\* The address of the globals is in rcx.
emit_global_loc == mov(8, N(Junk), rcx)
emit_get_global(t, g) ==
  IF t = "v128" THEN <<emit_global_loc, MoveVector(Glob(g), X("xmm0")), emit_push_v128("xmm0")>>
  ELSE <<emit_global_loc, mov(Width(t), Glob(g), rax), emit_push("rax")>>
emit_set_global(t, g) ==
  IF t = "v128" THEN <<emit_pop_v128("xmm0"), emit_global_loc, MoveVector(X("xmm0"), Glob(g))>>
  ELSE <<emit_pop("rax"), emit_global_loc, mov(Width(t), rax, Glob(g))>>

\* Calls into the context keep rdi, the context, and rsi, the memory.
KeepingContext(ins) == <<emit_push("rdi"), emit_push("rsi")>> \o ins \o <<emit_pop("rsi"), emit_pop("rdi")>>
\* current_memory and grow_memory return an int32_t; all of rax is pushed.
emit_current_memory(sig) == KeepingContext(<<CallFunction(sig, 4)>>) \o <<emit_push("rax")>>
emit_grow_memory(sig) ==
  <<emit_pop("rax")>> \o KeepingContext(<<mov(4, rax, rsi), CallFunction(sig, 4)>>) \o <<emit_push("rax")>>
\* emit_memory_init and emit_table_init
emit_init(sig) == <<emit_pop("r8"), emit_pop("rcx"), emit_pop("rdx")>>
                    \o KeepingContext(<<mov(4, N(sig.imm[1]), rsi), CallFunction(sig, 8)>>)
\* emit_data_drop and emit_elem_drop
emit_segment_drop(sig) == KeepingContext(<<mov(4, N(sig.imm[1]), rsi), CallFunction(sig, 8)>>)

\* The last byte of the range is read: past the end it faults.
Validate(r) == mov(1, Lin(<<"rcx", r>>, -1), rdx)
emit_memory_fill ==
  <<emit_pop("rcx"), mov(8, rdi, r8), emit_pop("rax"), emit_pop("rdi"), alu("add", 8, rsi, rdi),
    Validate("rdi"), I1("stosb"), mov(8, r8, rdi)>>
LastByte(r) == I3("lea", 8, Lin(<<"rcx", r>>, -1), R(r))
\* Mutant: the direction flag stays set.
Backwards_StaysDown(move) == <<LastByte("rsi"), LastByte("rdi"), I1("std"), move, I1("nop")>>
Backwards(move) == <<LastByte("rsi"), LastByte("rdi"), I1("std"), move, I1("cld")>>
emit_memory_copy ==
  <<emit_pop("rcx"), mov(8, rsi, r8), mov(8, rdi, r9), emit_pop("rsi"), emit_pop("rdi"),
    alu("add", 8, r8, rsi), alu("add", 8, r8, rdi), mov(8, rdi, rax), alu("sub", 8, rsi, rax), Skip("le_u", 9),
    Validate("rdi"), alu("cmp", 8, rcx, rax), Skip("ge_u", 7)>>
    \o Backwards(I1("movsb"))
    \o <<Skip("always", 2), Validate("rsi"), I1("movsb"), mov(8, r8, rsi), mov(8, r9, rdi)>>
\* The bound is a signed comparison with the size less the count.
emit_table_copy(size) ==
  <<emit_pop("rcx"), mov(8, rsi, r8), mov(8, rdi, r9), emit_pop("rsi"), emit_pop("rdi"),
    mov(4, N(size), rax), alu("sub", 8, rcx, rax),
    alu("cmp", 8, rax, rsi), Skip("le_s", 1), I1("trap"), alu("cmp", 8, rax, rdi), Skip("le_s", 1), I1("trap"),
    mov(8, rdi, rax), alu("sub", 8, rsi, rax), Skip("le_u", 8), alu("cmp", 8, rcx, rax), Skip("ge_u", 6)>>
    \o Backwards(I1("movs_table"))
    \o <<Skip("always", 1), I1("movs_table"), mov(8, r8, rsi), mov(8, r9, rdi)>>

-----------------------------------------------------------------------------
(* Integers.                                                               *)

emit_i32_eqz == <<emit_pop("rax"), Clear(rcx), alu("test", 4, rax, rax), setcc("eq", rcx), emit_push("rcx"), Sets("eq", 2)>>
emit_i32_relop(cc) ==
  <<emit_pop("rax"), emit_pop("rcx"), Clear(rdx), alu("cmp", 4, rax, rcx), setcc(cc, rdx), emit_push("rdx"), Sets(cc, 2)>>
emit_i64_eqz == <<RawPop(rax), alu("xor", 8, rcx, rcx), alu("test", 8, rax, rax), setcc("eq", rcx), RawPush(rcx)>>
emit_i64_relop(cc) ==
  <<RawPop(rax), RawPop(rcx), alu("xor", 8, rdx, rdx), alu("cmp", 8, rax, rcx), setcc(cc, rdx), RawPush(rdx)>>

CountInstructions(o, w) ==
  CASE o = "popcnt" -> <<I2("popcnt", w, rax)>>
    [] o = "clz" /\ has_tzcnt -> <<I2("lzcnt", w, rax)>>
    [] o = "ctz" /\ has_tzcnt -> <<I2("tzcnt", w, rax)>>
    [] o = "clz" -> <<mov(w, N(-1), rcx), I3("bsr", w, rax, rax), cmovz(w, rcx, rax),
                      alu("sub", w, N(Bits(w) - 1), rax), I2("neg", w, rax)>>
    [] o = "ctz" -> <<mov(w, N(Bits(w)), rcx), I3("bsf", w, rax, rax), cmovz(w, rcx, rax)>>
emit_i32_unop(o) == <<emit_pop("rax")>> \o CountInstructions(o, 4) \o <<emit_push("rax")>>
emit_i64_unop(o) == <<RawPop(rax)>> \o CountInstructions(o, 8) \o <<RawPush(rax)>>

Mnemonic(o) == CASE o = "mul" -> "imul" [] o = "shr_s" -> "sar" [] o = "shr_u" -> "shr"
                 [] o = "rotl" -> "rol" [] o = "rotr" -> "ror" [] OTHER -> o
\* Mutant: the least number is divided by -1 for its remainder.
DivideInstructions_Always(o, w) ==
  IF o \in {"div_s", "rem_s"} THEN <<I2("cdq", w, None), I2("idiv", w, rcx)>>
  ELSE <<alu("xor", w, rdx, rdx), I2("div", w, rcx)>>
DivideInstructions(o, w) ==
  CASE o = "div_s" -> <<I2("cdq", w, None), I2("idiv", w, rcx)>>
    [] o \in {"div_u", "rem_u"} -> <<alu("xor", w, rdx, rdx), I2("div", w, rcx)>>
    \* the remainder by -1 is zero, without dividing
    [] o = "rem_s" -> <<alu("cmp", w, N(-1), rcx), Skip("eq", 3), I2("cdq", w, None), I2("idiv", w, rcx),
                        Skip("always", 1), Clear(rdx)>>
BinaryInstructions(o, w) == IF o \in Divisions THEN DivideInstructions(o, w) ELSE <<alu(Mnemonic(o), w, rcx, rax)>>
ResultRegister(o) == IF o \in {"rem_s", "rem_u"} THEN "rdx" ELSE "rax"
Commutative == {"add", "mul", "and", "or", "xor"}

\* Operations that take a recent constant or local as their operand.
I32FoldsConst == {"add", "sub", "and", "or", "xor", "shl", "shr_u"}
I32FoldsLocal == {"add", "xor"}
I64FoldsConst == {"add", "shl", "shr_s", "shr_u"}
Shifting == {"shl", "shr_s", "shr_u"}
FoldedI32(o, x) ==
  CASE o \in Shifting -> alu(Mnemonic(o), 4, N(x.n % Bits(4)), rax)
    [] o = "xor" /\ x = N(Ones(4)) -> I2("not", 4, rax)
    [] OTHER -> alu(o, 4, x, rax)
FoldedI64(o, x) ==
  IF o \in Shifting THEN <<alu(Mnemonic(o), 8, N(x.n % Bits(8)), rax)>>
  ELSE <<mov(8, x, rcx), alu(o, 8, rcx, rax)>>
WithRax(ins) == <<emit_pop("rax")>> \o ins \o <<emit_push("rax")>>

emit_i32_binop(w, o) ==
  IF (o \in I32FoldsLocal /\ Folds(w, "get_local")) \/ (o \in I32FoldsConst /\ Folds(w, "i32_const"))
  THEN Emit(try_pop_recent_op(w), WithRax(<<FoldedI32(o, w.r1.x)>>))
  ELSE Emit(w, (IF o \in Commutative THEN <<emit_pop("rax"), emit_pop("rcx")>> ELSE <<emit_pop("rcx"), emit_pop("rax")>>)
                 \o BinaryInstructions(o, 4) \o <<emit_push(ResultRegister(o))>>)

emit_i64_binop(w, o) ==
  IF o \in I64FoldsConst /\ Folds(w, "i64_const")
  THEN Emit(try_pop_recent_op(w), WithRax(FoldedI64(o, w.r1.x)))
  ELSE Emit(w, CASE o \in {"add", "mul"} ->
                      <<emit_pop("rax"), emit_pop("rcx")>> \o BinaryInstructions(o, 8) \o <<emit_push("rax")>>
                 [] o \in Shifting ->
                      <<emit_pop("rcx"), emit_pop("rax")>> \o BinaryInstructions(o, 8) \o <<emit_push("rax")>>
                 [] OTHER -> <<RawPop(rcx), RawPop(rax)>> \o BinaryInstructions(o, 8) \o <<RawPush(R(ResultRegister(o)))>>)

\* extendN_s, in place.
emit_extend(t, o) == <<movsx(ExtendFrom(o), Width(t), Stk(0), rax), mov(Width(t), rax, Stk(0))>>

-----------------------------------------------------------------------------
(* Floats.                                                                 *)

emit_f32_sign(o) ==
  CASE o = "abs" -> <<RawPop(rax), alu("and", 4, N(SignMask(4) - 1), rax), RawPush(rax)>>
    [] o = "neg" -> <<RawPop(rax), alu("xor", 4, N(SignMask(4)), rax), RawPush(rax)>>
    [] o = "copysign" -> <<RawPop(rax), alu("and", 4, N(SignMask(4)), rax), RawPop(rcx),
                           alu("and", 4, N(SignMask(4) - 1), rcx), alu("or", 4, rcx, rax), RawPush(rax)>>
emit_f64_sign(o) ==
  CASE o = "abs" -> <<RawPop(rcx), mov(8, N(SignMask(8) - 1), rax), alu("and", 8, rcx, rax), RawPush(rax)>>
    [] o = "neg" -> <<RawPop(rcx), mov(8, N(SignMask(8)), rax), alu("xor", 8, rcx, rax), RawPush(rax)>>
    [] o = "copysign" -> <<RawPop(rcx), mov(8, N(SignMask(8)), rax), alu("and", 8, rax, rcx), RawPop(rdx),
                           I2("not", 8, rax), alu("and", 8, rdx, rax), alu("or", 8, rcx, rax), RawPush(rax)>>

\* The function's own registers are pushed over the operands.
AroundCall(before, sig, w) ==
  <<RawPush(rdi), RawPush(rsi)>> \o before \o <<CallFunction(sig, w), RawPop(rsi), RawPop(rdi)>>
\* A 4-byte result is stored as such only over a 4-byte operand; over a wider
\* one it is extended by the function's adapter.
emit_softfloat_unop(sig) ==
  LET from == Width(sig.pops[1])
      to == Width(sig.push)
      w == IF from = 4 /\ to = 4 THEN 4 ELSE 8 IN
  AroundCall(<<mov(from, Stk(2), rdi)>>, sig, w) \o <<mov(w, rax, Stk(0))>>
\* emit_f32_binop_softfloat and emit_f64_binop_softfloat
emit_softfloat_binop(sig) ==
  LET w == Width(sig.push) IN
  AroundCall(<<mov(w, Stk(2), rsi), mov(w, Stk(3), rdi)>>, sig, w) \o <<MoveSlots("addrsp", 1), mov(w, rax, Stk(0))>>

\* emit_f32_relop and emit_f64_relop: eq, lt and le with operands exchanged
\* or the result inverted.
emit_float_relop(sig) ==
  LET w == Width(sig.pops[1])
      o == sig.op[2]
      switched == o \in {"gt", "ge"}
      fn == CASE o \in {"eq", "ne"} -> "eq" [] o \in {"lt", "gt"} -> "lt" [] o \in {"le", "ge"} -> "le" IN
  AroundCall(<<mov(w, Stk(IF switched THEN 3 ELSE 2), rsi), mov(w, Stk(IF switched THEN 2 ELSE 3), rdi)>>,
             [sig EXCEPT !.op[2] = fn], 8)
    \o (IF o = "ne" THEN <<alu("xor", 1, N(1), rax)>> ELSE <<>>)
    \o <<MoveSlots("addrsp", 1), mov(8, rax, Stk(0))>>

\* Conversions, by the type of their result.
emit_i32_conversion(sig) ==
  CASE sig.op[2] = "wrap" -> <<emit_pop("rax"), mov(4, rax, rax), emit_push("rax")>>
    [] sig.op[2] = "reinterpret" -> <<>>
    [] OTHER -> emit_softfloat_unop(sig)
emit_i64_conversion(sig) ==
  CASE sig.op[2] = "extend_s" -> <<movsx(4, 8, Stk(0), rax), mov(8, rax, Stk(0))>>
    [] sig.op[2] \in {"extend_u", "reinterpret"} -> <<>>
    [] OTHER -> emit_softfloat_unop(sig)
emit_float_conversion(sig) == IF sig.op[2] = "reinterpret" THEN <<>> ELSE emit_softfloat_unop(sig)

\* ceil to sqrt and add to max, beside the signs.
SoftfloatArith(sig) == IF Len(sig.pops) = 2 THEN emit_softfloat_binop(sig) ELSE emit_softfloat_unop(sig)
SignOps == {"abs", "neg", "copysign"}
emit_f32(sig) == IF sig.op[2] \in SignOps THEN emit_f32_sign(sig.op[2]) ELSE SoftfloatArith(sig)
emit_f64(sig) == IF sig.op[2] \in SignOps THEN emit_f64_sign(sig.op[2]) ELSE SoftfloatArith(sig)
-----------------------------------------------------------------------------
IsIntBinop(sig) == /\ sig.op[1] \in {"i32", "i64"} /\ Len(sig.pops) = 2 /\ sig.imm = <<>>
                   /\ sig.op[2] \notin Compares
\* What is emitted whatever was emitted before.
ScalarListing(sig, tableSize) ==
  LET s == sig.op[1]
      o == sig.op[2] IN
  CASE s = "memory" -> (CASE o = "size" -> emit_current_memory(sig) [] o = "grow" -> emit_grow_memory(sig)
                          [] o = "fill" -> emit_memory_fill [] o = "copy" -> emit_memory_copy
                          [] o = "init" -> emit_init(sig) [] o = "drop" -> emit_segment_drop(sig))
    [] s = "table" -> (CASE o = "copy" -> emit_table_copy(tableSize) [] o = "init" -> emit_init(sig)
                         [] o = "drop" -> emit_segment_drop(sig))
    [] s = "global" -> IF o = "get" THEN emit_get_global(sig.push, sig.imm[1])
                       ELSE emit_set_global(sig.pops[1], sig.imm[1])
    [] o \in LoadNamesAll -> emit_load(s, o, sig.imm[1])
    [] o \in StoreNamesAll -> emit_store(s, o, sig.imm[1])
    [] Len(sig.op) = 3 -> (CASE s = "i32" -> emit_i32_conversion(sig) [] s = "i64" -> emit_i64_conversion(sig)
                             [] OTHER -> emit_float_conversion(sig))
    [] o \in {"extend8_s", "extend16_s", "extend32_s"} -> emit_extend(s, o)
    [] s \in {"f32", "f64"} /\ o \in Compares -> emit_float_relop(sig)
    [] s = "f32" -> emit_f32(sig)
    [] s = "f64" -> emit_f64(sig)
    [] o = "eqz" -> IF s = "i32" THEN emit_i32_eqz ELSE emit_i64_eqz
    [] o \in Compares -> IF s = "i32" THEN emit_i32_relop(o) ELSE emit_i64_relop(o)
    [] OTHER -> IF s = "i32" THEN emit_i32_unop(o) ELSE emit_i64_unop(o)
=============================================================================
