---------------------------- MODULE MachineCode ----------------------------
(***************************************************************************)
(* What machine_code_writer emits around a body and for the opcodes that   *)
(* move operands: locals, constants, drop and select.  A local is at a     *)
(* fixed place from rbp.                                                   *)
(***************************************************************************)
EXTENDS VectorCode

CONSTANT MaxPushes   \* slots of locals up to which the prologue has no loop: 14

ASSUME PushesAssumption == MaxPushes \in Nat

\* The limit is in bytes (StackLimitIsBytes): the prologue takes the
\* function's stack usage off ebx and the epilogue gives it back.  The
\* instruction is completed when the usage is known.
rbx == R("rbx")
emit_check_stack_limit == <<alu("sub", 4, N(0), rbx), Skip("ge_u", 1), I1("trap")>>
stack_limit_entry == 2
emit_check_stack_limit_end(w) == <<alu("add", 4, N(w.stack_usage), rbx)>>
BaseFrame == 16
set_stack_usage(w, usage) == [w EXCEPT !.stack_usage = usage + BaseFrame,
                                       !.code[stack_limit_entry].s = N(usage + BaseFrame)]

\* The locals' slots are zeroed by pushing, with rcx counting down when there
\* are many.
ZeroLocals(slots) ==
  CASE slots = 0 -> <<>>
    [] slots \in 1..MaxPushes -> <<alu("xor", 8, rax, rax)>> \o [i \in 1..slots |-> RawPush(rax)]
    [] OTHER -> <<alu("xor", 8, rax, rax), mov(4, N(slots), rcx), RawPush(rax), alu("sub", 4, N(1), rcx), Skip("ne", -3)>>
emit_prologue(w, slots) == Emit(w, <<I1("enter")>> \o emit_check_stack_limit \o ZeroLocals(slots))

\* Mutant: the locals stay on the stack.
emit_epilogue_KeepsLocals(w, slots, result) ==
  Emit(w, emit_check_stack_limit_end(w)
            \o (CASE result = "pseudo" -> <<>> [] result = "v128" -> <<LoadTop(xmm0)>> [] OTHER -> <<emit_pop("rax")>>)
            \o (IF result = "v128" THEN <<I1("movrbprsp")>> ELSE <<>>)
            \o <<I1("poprbp"), I1("ret")>>)
emit_epilogue(w, slots, result) ==
  Emit(w, emit_check_stack_limit_end(w)
            \o (CASE result = "pseudo" -> <<>> [] result = "v128" -> <<LoadTop(xmm0)>> [] OTHER -> <<emit_pop("rax")>>)
            \o (IF slots > 0 \/ result = "v128" THEN <<I1("movrbprsp")>> ELSE <<>>)
            \o <<I1("poprbp"), I1("ret")>>)

emit_drop(w, t) == Emit(w, IF t = "v128" THEN <<DropVector>> ELSE <<emit_pop("rax")>>)
emit_select(w, t) ==
  Emit(w, IF t = "v128"
          THEN TestRax \o <<Skip("ne", 2), LoadTop(xmm0), MoveVector(xmm0, Stk(2)), DropVector>>
          ELSE <<emit_pop("rax"), emit_pop("rcx"), emit_pop("rdx"), alu("test", 4, rax, rax),
                 cmovz(IF t \in {"i32", "f32"} THEN 4 ELSE 8, rcx, rdx), emit_push("rdx")>>)

\* A scalar that was just pushed may be taken from rax, or from its local.
emit_get_local(w, t, at) ==
  IF t = "v128" THEN Emit(w, <<MoveVector(at, xmm0), MoveSlots("subrsp", 2), StoreTop(xmm0)>>)
  ELSE push_recent_op(Emit(w, <<mov(8, at, rax), emit_push("rax")>>), Position(w), "get_local", at)
emit_set_local(w, t, at) ==
  Emit(w, IF t = "v128" THEN TakeTop(xmm0) \o <<MoveVector(xmm0, at)>> ELSE <<emit_pop("rax"), mov(8, rax, at)>>)
emit_tee_local(w, t, at) ==
  Emit(w, IF t = "v128" THEN <<LoadTop(xmm0), MoveVector(xmm0, at)>>
          ELSE <<emit_pop("rax"), mov(IF t \in {"i32", "f32"} THEN 4 ELSE 8, rax, at), emit_push("rax")>>)

emit_i32_const(w, v) ==
  push_recent_op(Emit(w, <<IF v = 0 THEN Clear(rax) ELSE mov(4, N(v), rax), emit_push("rax")>>),
                 Position(w), "i32_const", N(v))
emit_i64_const(w, v) ==
  push_recent_op(Emit(w, <<mov(8, N(v), rax), emit_push("rax")>>), Position(w), "i64_const", N(v))
emit_float_const(w, t, v) == Emit(w, <<mov(Width(t), N(v), rax), emit_push("rax")>>)
emit_v128_const(w, v) == emit_i64_const(emit_i64_const(w, High64(v)), Low64(v))
emit_const(w, t, v) ==
  CASE t = "i32" -> emit_i32_const(w, v) [] t = "i64" -> emit_i64_const(w, v)
    [] t = "v128" -> emit_v128_const(w, v) [] OTHER -> emit_float_const(w, t, v)

\* One of the opcodes that only compute.
emit_plain(w, sig, tableSize) ==
  CASE IsIntBinop(sig) -> IF sig.op[1] = "i32" THEN emit_i32_binop(w, sig.op[2]) ELSE emit_i64_binop(w, sig.op[2])
    [] sig.op[1] \in ScalarShapes \cup {"memory", "table", "global"} -> Emit(w, ScalarListing(sig, tableSize))
    [] OTHER -> Emit(w, VectorListing(sig))
=============================================================================
