----------------------------- MODULE CodeWriter -----------------------------
(***************************************************************************)
(* The buffer machine_code_writer emits into: instructions, the two recent *)
(* operations it may still fold into the next one, and the branches that   *)
(* wait for a label.                                                       *)
(*                                                                         *)
(* A listing is a sequence of instructions and of calls of the helpers     *)
(* that push and pop; Emit performs one.  marks are not in the code: they  *)
(* pair the interpreter's pc of every opcode with the place its machine    *)
(* code starts, and a pair goes when that place is cut off.                *)
(***************************************************************************)
EXTENDS X86

\* recent_op_t: kind is the alternative of its variant, x the operand.
Recent(kind, start, end, x) == [kind |-> kind, start |-> start, end |-> end, x |-> x]
NoRecent == Recent("none", -1, -1, None)
Condition(cc) == Operand("cc", cc, 0)

NewWriter == [code |-> <<>>, r0 |-> NoRecent, r1 |-> NoRecent, marks |-> {}, scopes |-> <<>>, stack_usage |-> 0]

Position(w) == Len(w.code)
AddCode(w, ins) == [w EXCEPT !.code = Append(@, ins)]
CutTo(w, n) == [w EXCEPT !.code = SubSeq(@, 1, n), !.marks = {m \in @ : m[2] <= n}]
MarkOpcode(w, pc) ==
  [w EXCEPT !.marks = {m \in @ : m[2] # Position(w)} \cup {<<pc, Position(w)>>}]

\* A more specific operation replaces the push it ends with.
push_recent_op(w, start, kind, x) ==
  [w EXCEPT !.r0 = IF w.r1.end = Position(w) THEN @ ELSE w.r1,
            !.r1 = Recent(kind, start, Position(w), x)]

Folds(w, kind) == w.r1.kind = kind /\ w.r1.end = Position(w)
try_pop_recent_op(w) == [CutTo(w, w.r1.start) EXCEPT !.r1 = w.r0, !.r0 = NoRecent]

\* Mutant: a branch target does not forget what came before it.
set_branch_target_Keeps(w) == w
set_branch_target(w) == [w EXCEPT !.r0 = NoRecent, !.r1 = NoRecent]

-----------------------------------------------------------------------------
PushRegister(w, r) == push_recent_op(AddCode(w, I2("push", 8, R(r))), Position(w), "push", R(r))

\* try_undo_push of a local leaves its value in rax: only the push goes.
UndoPush(w) == set_branch_target(CutTo(w, Position(w) - 1))
MoveUnlessSame(w, from, to) == IF from = to THEN w ELSE AddCode(w, I3("mov", 8, R(from), R(to)))

PopRegister(w, r) ==
  CASE Folds(w, "i32_const") -> AddCode(try_pop_recent_op(w), I3("mov", 4, w.r1.x, R(r)))
    [] Folds(w, "i64_const") -> AddCode(try_pop_recent_op(w), I3("mov", 8, w.r1.x, R(r)))
    [] Folds(w, "push") -> MoveUnlessSame(try_pop_recent_op(w), w.r1.x.r, r)
    [] Folds(w, "get_local") -> MoveUnlessSame(UndoPush(w), "rax", r)
    [] OTHER -> AddCode(w, I2("pop", 8, R(r)))

MoveSlots(i, n) == I3(i, 8, N(n), None)     \* addrsp or subrsp
MoveVector(s, d) == I3("vmov", 16, s, d)
PushVector(w, x) ==
  push_recent_op(AddCode(AddCode(w, MoveSlots("subrsp", 2)), MoveVector(X(x), Stk(0))),
                 Position(w), "xmm_push", X(x))
\* Without a recent push xmm0 is loaded, whatever the register.
PopVector(w, x) ==
  IF Folds(w, "xmm_push")
  THEN IF w.r1.x.r = x THEN try_pop_recent_op(w)
       ELSE AddCode(try_pop_recent_op(w), MoveVector(w.r1.x, X(x)))
  ELSE AddCode(AddCode(w, MoveVector(Stk(0), X("xmm0"))), MoveSlots("addrsp", 2))

\* Items of a listing besides instructions.
emit_pop(r)  == I2("emit_pop", 8, R(r))
emit_push(r) == I2("emit_push", 8, R(r))
emit_pop_v128(x)  == I2("emit_pop_v128", 16, X(x))
emit_push_v128(x) == I2("emit_push_v128", 16, X(x))
\* A branch over the next n instructions, or a jump when cc is always.
Skip(cc, n) == I5("skip", 0, N(n), None, None, <<cc>>)
\* What was emitted since the start of k instructions ago is a condition.
Sets(cc, k) == I5("sets", 0, N(k), None, None, <<cc>>)

EmitItem(w, ins) ==
  CASE ins.i = "emit_pop" -> PopRegister(w, ins.d.r)
    [] ins.i = "emit_push" -> PushRegister(w, ins.d.r)
    [] ins.i = "emit_pop_v128" -> PopVector(w, ins.d.r)
    [] ins.i = "emit_push_v128" -> PushVector(w, ins.d.r)
    [] ins.i = "skip" ->
         AddCode(w, [I5(IF ins.imm[1] = "always" THEN "jmp" ELSE "jcc", 0, None, None, None, ins.imm)
                       EXCEPT !.to = Position(w) + 1 + ins.s.n])
    [] ins.i = "sets" -> push_recent_op(w, Position(w) - ins.s.n, "condition", Condition(ins.imm[1]))
    [] OTHER -> AddCode(w, ins)
Emit(w, listing) == FoldLeft(EmitItem, w, listing)

-----------------------------------------------------------------------------
(* Branches and labels.  The parser keeps, for every scope, the target or  *)
(* the branches to fix when it is known.                                   *)

WriterScope(target, relocs) == [target |-> target, relocs |-> relocs]
SetTarget(w, at, target) == [w EXCEPT !.code[at + 1].to = target]
OpenScope(w, target, relocs) == [w EXCEPT !.scopes = Append(@, WriterScope(target, relocs))]
BranchTo(w, l, at) ==
  LET s == Len(w.scopes) - l IN
  IF w.scopes[s].target = NoJump THEN [w EXCEPT !.scopes[s].relocs = Append(@, at)]
  ELSE SetTarget(w, at, w.scopes[s].target)

CondJump(cc) == I5("jcc", 0, None, None, None, <<cc>>)
reverse_condition(cc) ==
  CASE cc = "eq" -> "ne" [] cc = "ne" -> "eq" [] cc = "lt_u" -> "ge_u" [] cc = "ge_u" -> "lt_u"
    [] cc = "gt_u" -> "le_u" [] cc = "le_u" -> "gt_u" [] cc = "lt_s" -> "ge_s" [] cc = "ge_s" -> "lt_s"
    [] cc = "gt_s" -> "le_s" [] cc = "le_s" -> "gt_s"

is_simple_multipop(count, rt) == count = CASE rt = "pseudo" -> 0 [] rt = "v128" -> 2 [] OTHER -> 1
emit_multipop(count, rt) ==
  IF is_simple_multipop(count, rt) THEN <<>>
  ELSE CASE rt = "pseudo" -> <<MoveSlots("addrsp", count)>>
         [] rt = "v128" -> <<MoveVector(Stk(0), X("xmm0")), MoveSlots("addrsp", count - 2), MoveVector(X("xmm0"), Stk(0))>>
         [] OTHER -> <<I3("mov", 8, Stk(0), R("rax")), MoveSlots("addrsp", count), emit_push("rax")>>

TestRax == <<emit_pop("rax"), I3("test", 4, R("rax"), R("rax"))>>
emit_unreachable(w) == AddCode(w, I1("trap"))
emit_block(w) == OpenScope(w, NoJump, <<>>)
emit_loop(w) == OpenScope(set_branch_target(w), Position(w), <<>>)
emit_if(w) ==
  LET v == IF Folds(w, "condition") THEN AddCode(try_pop_recent_op(w), CondJump(reverse_condition(w.r1.x.r)))
           ELSE AddCode(Emit(w, TestRax), CondJump("eq")) IN
  OpenScope(v, NoJump, <<Position(v) - 1>>)
\* The branch of the if, first of its relocations, goes here; the end of the
\* then part takes its place.
emit_else(w) ==
  LET s == Last(w.scopes)
      v == set_branch_target(SetTarget(AddCode(w, Jump("jmp", NoJump)), s.relocs[1], Position(w) + 1)) IN
  [v EXCEPT !.scopes[Len(w.scopes)].relocs[1] = Position(w)]
emit_br(w, l, count, rt) ==
  LET v == AddCode(Emit(w, emit_multipop(count, rt)), Jump("jmp", NoJump)) IN
  BranchTo(v, l, Position(v) - 1)
\* A branch that must pop operands is jumped over when it is not taken.
BranchIf(w, l, cc, count, rt) ==
  IF is_simple_multipop(count, rt) THEN BranchTo(AddCode(w, CondJump(cc)), l, Position(w))
  ELSE LET pops == emit_multipop(count, rt)
           v == AddCode(Emit(w, <<Skip(reverse_condition(cc), Len(pops) + 1)>> \o pops), Jump("jmp", NoJump)) IN
       BranchTo(v, l, Position(v) - 1)
emit_br_if(w, l, count, rt) ==
  IF Folds(w, "condition") THEN BranchIf(try_pop_recent_op(w), l, w.r1.x.r, count, rt)
  ELSE BranchIf(Emit(w, TestRax), l, "ne", count, rt)

\* br_table_generator: the first range of the stack is halved until it is
\* one case.
CaseRange(min, max, label) == [min |-> min, max |-> max, label |-> label]
FixLabel(w, label) == IF label = NoJump THEN w ELSE SetTarget(w, label, Position(w))
\* Mutant: the middle itself goes to the lower half.
Halve_Strict(w, stack) ==
  LET r == Last(stack)
      mid == r.min + (r.max - r.min) \div 2
      v == AddCode(AddCode(FixLabel(w, r.label), I3("cmp", 4, N(mid), R("rax"))), CondJump("gt_u")) IN
  [w |-> v, stack |-> Front(stack) \o <<CaseRange(mid, r.max, Position(v) - 1), CaseRange(r.min, mid, NoJump)>>]
Halve(w, stack) ==
  LET r == Last(stack)
      mid == r.min + (r.max - r.min) \div 2
      v == AddCode(AddCode(FixLabel(w, r.label), I3("cmp", 4, N(mid), R("rax"))), CondJump("ge_u")) IN
  [w |-> v, stack |-> Front(stack) \o <<CaseRange(mid, r.max, Position(v) - 1), CaseRange(r.min, mid, NoJump)>>]
RECURSIVE Narrow(_, _)
Narrow(w, stack) == IF Last(stack).max - Last(stack).min > 1
                    THEN LET h == Halve(w, stack) IN Narrow(h.w, h.stack) ELSE [w |-> w, stack |-> stack]
\* emit_case: the branch is the label itself when nothing is popped.
emit_case(g, l, count, rt) ==
  LET h == Narrow(g.w, g.stack)
      r == Last(h.stack)
      v == FixLabel(h.w, r.label) IN
  [w |-> IF is_simple_multipop(count, rt) /\ r.label # NoJump THEN BranchTo(v, l, r.label)
         ELSE emit_br(v, l, count, rt),
   stack |-> Front(h.stack)]
\* cases has a label, a depth change and a type for every case, the default last.
emit_br_table(w, cases) ==
  FoldLeft(LAMBDA g, c : emit_case(g, c.label, c.count, c.rt),
           [w |-> Emit(w, <<emit_pop("rax")>>), stack |-> <<CaseRange(0, Len(cases), NoJump)>>], cases).w
\* emit_end, then exit_scope
emit_end(w) ==
  LET v == set_branch_target(w) IN
  [FoldLeft(LAMBDA u, at : SetTarget(u, at, Position(v)), v, Last(w.scopes).relocs)
     EXCEPT !.scopes = Front(@)]
=============================================================================
