--------------------------- MODULE FunctionParser ---------------------------
(***************************************************************************)
(* One function body through binary_parser::parse_function_body_code with  *)
(* bitcode_writer: operand types are tracked, branches are resolved and    *)
(* the flat code the interpreter runs is written.                          *)
(*                                                                         *)
(* The body is chosen one opcode at a time among those the parser accepts; *)
(* where the parser throws, there is no step.                              *)
(***************************************************************************)
EXTENDS Integers, SequencesExt, FiniteSetsExt

CONSTANTS
  ValueTypes,     \* i32 and other value types
  Size,           \* Size[t]: get_size_for_type
  Params, Locals, \* types of the parameters and of the declared locals
  Result,         \* the function's result type, or pseudo
  Consts,         \* operands of const instructions
  PlainOps,       \* signatures of the instructions that only compute
  Opcodes,        \* the other opcodes a body may use
  MaxOps,         \* bound on the length of a body
  Tried(_, _),    \* bound on what it holds: its opcodes, and the scopes still open
  PlainTried(_),  \* bound on the signatures tried after its opcodes
  MaxCases,       \* max_br_table_elements
  MaxNested,      \* max_nested_structures
  MaxLocalBytes,  \* max_func_local_bytes
  ElemSize, OpcodeSize \* sizeof(br_table_t::elem_t), sizeof(opcode)

ASSUME TypesAssumption == /\ "i32" \in ValueTypes
                          /\ ValueTypes \cap {"pseudo", "any", "scope", "unreachable"} = {}
                          /\ Size \in [ValueTypes -> Nat]
ASSUME FunctionAssumption == /\ Params \in Seq(ValueTypes) /\ Locals \in Seq(ValueTypes)
                             /\ Result \in ValueTypes \cup {"pseudo"}
ASSUME PlainAssumption == \A sig \in PlainOps : /\ sig.pops \in Seq(ValueTypes)
                                                /\ sig.push \in ValueTypes \cup {"pseudo"}
ASSUME BoundsAssumption == /\ MaxOps \in Nat /\ MaxCases \in Nat /\ MaxNested \in Nat
                           /\ MaxLocalBytes \in Nat
                           /\ ElemSize \in Nat /\ OpcodeSize \in Nat \ {0}
                           /\ ElemSize <= OpcodeSize

VARIABLES
  tk,    \* operand_stack_type_tracker
  pcs,   \* pc_stack
  code,  \* fb, up to op_index; the instruction at address p is code[p + 1]
  src    \* the body so far: each opcode with the tracker and address before it

pvars == <<tk, pcs, code, src>>

BlockTypes == ValueTypes \cup {"pseudo"}
Tags       == {"scope", "unreachable"}
larger(x, y) == IF x >= y THEN x ELSE y
SizeOf(t)  == IF t \in ValueTypes THEN Size[t] ELSE 0

-----------------------------------------------------------------------------
(* operand_stack_type_tracker.  count, unreachable_depth and usage are its *)
(* max_func_local_bytes_stack_checker and max_stack_usage_calculator.      *)
(* operand_depth depends on the writer: depth counts operands, as          *)
(* bitcode_writer does, slots what machine_code_writer does; max and       *)
(* max_slots are maximum_operand_depth for each.                           *)

get_depth_for_type(t) == IF t = "v128" THEN 2 ELSE 1
DepthOf(types) == FoldLeft(LAMBDA n, t : n + get_depth_for_type(t), 0, types)

Bytes(types) == FoldLeft(LAMBDA n, t : n + SizeOf(t), 0, types)

NewTracker ==
  [state |-> <<"scope">>, depth |-> 0, slots |-> 0, max |-> 0, max_slots |-> 0,
   count |-> Bytes(Locals), unreachable_depth |-> 0, usage |-> Bytes(Locals)]

Back(k) == Last(k.state)
Charge(k, t) == IF k.unreachable_depth = 0 THEN SizeOf(t) ELSE 0

CanPush(k, t) == k.count + Charge(k, t) <= MaxLocalBytes

\* Mutant: the maximum is taken before the operand is counted.
Push_MaxBefore(k, t) ==
  [k EXCEPT !.state = Append(@, t), !.depth = @ + 1, !.max = larger(@, k.depth),
            !.slots = @ + get_depth_for_type(t), !.max_slots = larger(@, k.slots),
            !.count = @ + Charge(k, t), !.usage = larger(@, k.count + Charge(k, t))]

Push(k, t) ==
  [k EXCEPT !.state = Append(@, t), !.depth = @ + 1, !.max = larger(@, k.depth + 1),
            !.slots = @ + get_depth_for_type(t), !.max_slots = larger(@, k.slots + get_depth_for_type(t)),
            !.count = @ + Charge(k, t), !.usage = larger(@, k.count + Charge(k, t))]

Drop(k, t) == [k EXCEPT !.state = Front(@), !.depth = @ - 1, !.slots = @ - get_depth_for_type(t),
                        !.count = @ - Charge(k, t)]

\* pop(expected)
CanPop(k, t) == t = "pseudo" \/ (k.state # <<>> /\ Back(k) \in {"unreachable", t, "any"})
Pop(k, t)    == IF t = "pseudo" \/ Back(k) = "unreachable" THEN k ELSE Drop(k, t)

\* pop()
CanPopAny(k) == k.state # <<>> /\ Back(k) # "scope"
TopType(k)   == IF Back(k) = "unreachable" THEN "any" ELSE Back(k)
PopAny(k)    == IF Back(k) = "unreachable" THEN k ELSE Drop(k, Back(k))

\* top(expected)
CanTop(k, t) == CanPop(k, t) /\ CanPush(Pop(k, t), t)
Top(k, t)    == Push(Pop(k, t), t)

\* Mutant: the forgotten operands stay in the depth.
start_unreachable_KeepsDepth(k) ==
  LET s == SelectLastInSeq(k.state, LAMBDA t : t = "scope") IN
  [k EXCEPT !.state = Append(SubSeq(@, 1, s), "unreachable"), !.unreachable_depth = @ + 1]

\* Operands of the innermost scope are forgotten, their bytes are not.
start_unreachable(k) ==
  LET s == SelectLastInSeq(k.state, LAMBDA t : t = "scope")
      gone == {i \in (s + 1)..Len(k.state) : k.state[i] \notin Tags} IN
  [k EXCEPT !.state = Append(SubSeq(@, 1, s), "unreachable"),
            !.depth = @ - Cardinality(gone),
            !.slots = @ - MapThenSumSet(LAMBDA i : get_depth_for_type(k.state[i]), gone),
            !.unreachable_depth = @ + 1]

push_scope(k) == [k EXCEPT !.state = Append(@, "scope")]

\* pop_scope(expected): the operands left must be the expected result.
LeaveUnreachable(k) ==
  IF Back(k) = "unreachable"
  THEN [k EXCEPT !.state = Front(@), !.unreachable_depth = @ - 1] ELSE k

CanPopScope(k, t) ==
  /\ CanPop(k, t)
  /\ LET j == LeaveUnreachable(Pop(k, t)) IN
     /\ Back(j) = "scope"
     /\ t # "pseudo" => CanPush([j EXCEPT !.state = Front(@)], t)

pop_scope(k, t) ==
  LET j == [LeaveUnreachable(Pop(k, t)) EXCEPT !.state = Front(@)] IN
  IF t = "pseudo" THEN j ELSE Push(j, t)

\* Pops in order, then pushes.  Popped(k, ts)[i] is the tracker after i pops.
Popped(k, ts) == LET f[i \in 0..Len(ts)] == IF i = 0 THEN k ELSE Pop(f[i - 1], ts[i]) IN f
CanApply(k, sig) ==
  LET j == Popped(k, sig.pops) IN
  /\ \A i \in DOMAIN sig.pops : CanPop(j[i - 1], sig.pops[i])
  /\ sig.push # "pseudo" => CanPush(j[Len(sig.pops)], sig.push)
Apply(k, sig) ==
  LET j == Popped(k, sig.pops)[Len(sig.pops)] IN
  IF sig.push = "pseudo" THEN j ELSE Push(j, sig.push)

-----------------------------------------------------------------------------
(* pc_stack and branches.  A branch is the address of an instruction and,  *)
(* in a br_table, the entry; target is -1 while a label's address is not   *)
(* known.  The vector of relocations is kept as a set: they are in the     *)
(* order of their addresses.                                               *)

NoTarget == -1
Scope(k, expected, label, is_if, target, relocations) ==
  [operand_depth |-> k.depth, slots |-> k.slots, expected |-> expected, label |-> label, is_if |-> is_if,
   target |-> target, relocations |-> relocations]

Here == Len(code)  \* op_index
AtEntry(a, entry) == [at |-> a, entry |-> entry]
At(a) == AtEntry(a, 0)
FirstOf(bs) == CHOOSE b \in bs : \A c \in bs : b.at <= c.at

\* Mutant: branches lead one instruction too far.
fix_branch_TooFar(c, bs, target) ==
  [i \in DOMAIN c |->
     [c[i] EXCEPT !.pc = IF At(i - 1) \in bs THEN target + 1 ELSE @,
                  !.table = [e \in DOMAIN @ |-> IF AtEntry(i - 1, e) \in bs
                                                THEN [@[e] EXCEPT !.pc = target + 1] ELSE @[e]]]]

\* fix_branch, for each of the branches bs.
fix_branch(c, bs, target) ==
  [i \in DOMAIN c |->
     [c[i] EXCEPT !.pc = IF At(i - 1) \in bs THEN target ELSE @,
                  !.table = [e \in DOMAIN @ |-> IF AtEntry(i - 1, e) \in bs
                                                THEN [@[e] EXCEPT !.pc = target] ELSE @[e]]]]

Label(l) == pcs[Len(pcs) - l]
LabelExists(l) == l < Len(pcs)

\* handle_branch_target: a branch leads to its label at once, if the address is
\* known, or is left to the label; labels[b] is that of branch b.
KnownTarget(l) == IF Label(l).target = NoTarget THEN 0 ELSE Label(l).target
BranchScopes(labels) ==
  [j \in DOMAIN pcs |->
     IF pcs[j].target # NoTarget THEN pcs[j]
     ELSE [pcs[j] EXCEPT !.relocations = @ \cup {b \in DOMAIN labels : labels[b] = Len(pcs) - j}]]

\* compute_depth_change: what a branch to l pops and whether it keeps a value.
DepthChange(k, l) == [pop |-> k.depth - Label(l).operand_depth, keep |-> Label(l).label # "pseudo"]

CanBranch(k, l) == LabelExists(l) /\ (Label(l).label # "pseudo" => CanTop(k, Label(l).label))
AfterBranch(k, l) == IF Label(l).label = "pseudo" THEN k ELSE Top(k, Label(l).label)

Instr(op) == [op |-> op, pc |-> 0, pop |-> 0, keep |-> FALSE, arg |-> 0, table |-> <<>>]
BranchInstr(op, k, l) ==
  [Instr(op) EXCEPT !.pc = KnownTarget(l), !.pop = DepthChange(k, l).pop, !.keep = DepthChange(k, l).keep]
OneBranch(l) == BranchScopes([b \in {At(Here)} |-> l])

-----------------------------------------------------------------------------
Init ==
  /\ tk = NewTracker
  /\ pcs = <<Scope(NewTracker, Result, Result, FALSE, NoTarget, {})>>
  /\ code = <<>>
  /\ src = <<>>

Parsing  == pcs # <<>>
Compiled == pcs = <<>>

\* One iteration of the parser's loop, in a body of MaxOps opcodes at most.
Parse(op, arg, k, p, c) ==
  LET body == Append(src, [op |-> op, arg |-> arg, state |-> tk.state, pc |-> Here]) IN
  /\ Parsing
  /\ Len(body) + Len(p) <= MaxOps
  /\ Len(pcs) <= MaxNested
  /\ Tried(body, Len(p))
  /\ src' = body
  /\ tk' = k
  /\ pcs' = p
  /\ code' = c

Unreachable ==
  Parse("unreachable", 0, start_unreachable(tk), pcs, Append(code, Instr("unreachable")))

Nop == Parse("nop", 0, tk, pcs, Append(code, Instr("nop")))

Block(t) ==
  Parse("block", t, push_scope(tk),
        Append(pcs, Scope(tk, t, t, FALSE, NoTarget, {})), code)

Loop(t) ==
  Parse("loop", t, push_scope(tk),
        Append(pcs, Scope(tk, t, "pseudo", FALSE, Here, {})), code)

If(t) ==
  /\ CanPop(tk, "i32")
  /\ LET k == Pop(tk, "i32") IN
     Parse("if", t, push_scope(k),
           Append(pcs, Scope(k, t, t, TRUE, NoTarget, {At(Here)})), Append(code, Instr("if")))

\* The if's own branch is the first of its relocations.
ElseScope(s) ==
  [s EXCEPT !.is_if = FALSE, !.relocations = (@ \ {FirstOf(@)}) \cup {At(Here)}]

\* Mutant: the branch of the if is not resolved.
Else_Unlinked ==
  /\ Parsing
  /\ Last(pcs).is_if
  /\ LET s == Last(pcs)
         k == Pop(tk, s.expected) IN
     /\ CanPop(tk, s.expected)
     /\ CanPopScope(k, "pseudo")
     /\ Parse("else", 0, push_scope(pop_scope(k, "pseudo")),
              Append(Front(pcs), ElseScope(s)),
              Append(code, Instr("else")))

Else ==
  /\ Parsing
  /\ Last(pcs).is_if
  /\ LET s == Last(pcs)
         k == Pop(tk, s.expected) IN
     /\ CanPop(tk, s.expected)
     /\ CanPopScope(k, "pseudo")
     /\ Parse("else", 0, push_scope(pop_scope(k, "pseudo")),
              Append(Front(pcs), ElseScope(s)),
              fix_branch(Append(code, Instr("else")), {FirstOf(s.relocations)}, Here + 1))

\* Mutant: parameters are not counted as locals.
Return_NoParams == [Instr("return") EXCEPT !.arg = Len(Locals), !.keep = Result # "pseudo"]

\* exit_scope.  The end of the body also writes the epilogue's return.
Return == [Instr("return") EXCEPT !.arg = Len(Params) + Len(Locals), !.keep = Result # "pseudo"]

End ==
  /\ Parsing
  /\ LET s == Last(pcs)
         c == fix_branch(code, s.relocations, Here) IN
     /\ s.is_if => s.expected = "pseudo"
     /\ CanPopScope(tk, s.expected)
     /\ Parse("end", 0, pop_scope(tk, s.expected), Front(pcs),
              IF Len(pcs) = 1 THEN Append(c, Return) ELSE c)

Br(l) ==
  /\ CanBranch(tk, l)
  /\ Parse("br", l, start_unreachable(AfterBranch(tk, l)), OneBranch(l),
           Append(code, BranchInstr("br", tk, l)))

\* return is a branch to the function's own label.
ReturnOp == Parsing /\ Br(Len(pcs) - 1)

BrIf(l) ==
  /\ CanPop(tk, "i32")
  /\ LET k == Pop(tk, "i32") IN
     /\ CanBranch(k, l)
     /\ Parse("br_if", l, AfterBranch(k, l), OneBranch(l),
              Append(code, BranchInstr("br_if", k, l)))

\* Mutant: one slot too many.
DataSlots_Extra(n) == (n * ElemSize) \div OpcodeSize + 3

\* br_table: cases and, last, the default.  Its data follows the instruction.
DataSlots(n) == (n * ElemSize) \div OpcodeSize + 2

\* The tracker after the branches to the first i labels.
Branched(ls) ==
  LET f[i \in 0..Len(ls)] == IF i = 0 THEN Pop(tk, "i32") ELSE AfterBranch(f[i - 1], ls[i]) IN f

TableEntry(k, l) == [pc |-> KnownTarget(l), pop |-> DepthChange(k, l).pop, keep |-> DepthChange(k, l).keep]

BrTable(ls) ==
  /\ CanPop(tk, "i32")
  /\ LET k     == Branched(ls)
         instr == [Instr("br_table") EXCEPT !.table = [i \in DOMAIN ls |-> TableEntry(k[i - 1], ls[i])]]
         data  == [x \in 1..DataSlots(Len(ls) - 1) |-> Instr("data")] IN
     /\ \A i \in DOMAIN ls : /\ CanBranch(k[i - 1], ls[i])
                             /\ Label(ls[i]).label = Label(ls[1]).label
     /\ Parse("br_table", ls, start_unreachable(k[Len(ls)]),
              BranchScopes([b \in {AtEntry(Here, i) : i \in DOMAIN ls} |-> ls[b.entry]]),
              Append(code, instr) \o data)

DropOp ==
  /\ CanPopAny(tk)
  /\ Parse("drop", 0, PopAny(tk), pcs, Append(code, Instr("drop")))

Select ==
  /\ CanPop(tk, "i32")
  /\ LET k0 == Pop(tk, "i32")
         k1 == PopAny(k0)
         t0 == TopType(k0)
         t1 == TopType(k1)
         t  == IF t0 # "any" THEN t0 ELSE t1 IN
     /\ CanPopAny(k0) /\ CanPopAny(k1)
     /\ t0 = t1 \/ t0 = "any" \/ t1 = "any"
     /\ CanPush(PopAny(k1), t)
     /\ Parse("select", 0, Push(PopAny(k1), t), pcs, Append(code, Instr("select")))

LocalTypes == Params \o Locals
LocalInstr(op, i) == [Instr(op) EXCEPT !.arg = i]

GetLocal(i) ==
  /\ CanPush(tk, LocalTypes[i])
  /\ Parse("get_local", i, Push(tk, LocalTypes[i]), pcs, Append(code, LocalInstr("get_local", i)))

SetLocal(i) ==
  /\ CanPop(tk, LocalTypes[i])
  /\ Parse("set_local", i, Pop(tk, LocalTypes[i]), pcs, Append(code, LocalInstr("set_local", i)))

\* Mutant: tee_local takes its operand.
TeeLocal_Pops(i) ==
  /\ CanPop(tk, LocalTypes[i])
  /\ Parse("tee_local", i, Pop(tk, LocalTypes[i]), pcs, Append(code, LocalInstr("tee_local", i)))

TeeLocal(i) ==
  /\ CanTop(tk, LocalTypes[i])
  /\ Parse("tee_local", i, Top(tk, LocalTypes[i]), pcs, Append(code, LocalInstr("tee_local", i)))

Const(t, v) ==
  /\ CanPush(tk, t)
  /\ Parse("const", <<t, v>>, Push(tk, t), pcs,
           Append(code, [Instr("const") EXCEPT !.arg = <<t, v>>]))

\* Loads, stores, comparisons, arithmetic and conversions: a signature.
Plain(sig) ==
  /\ CanApply(tk, sig)
  /\ Parse("plain", sig, Apply(tk, sig), pcs, Append(code, [Instr("plain") EXCEPT !.arg = sig]))

Scopes == 0..(Len(pcs) - 1)

ControlStep ==
  \/ "unreachable" \in Opcodes /\ Unreachable
  \/ "nop" \in Opcodes /\ Nop
  \/ \E t \in BlockTypes : \/ "block" \in Opcodes /\ Block(t)
                           \/ "loop" \in Opcodes /\ Loop(t)
                           \/ "if" \in Opcodes /\ If(t)
  \/ Else
  \/ End
  \/ "return" \in Opcodes /\ ReturnOp
  \/ \E l \in Scopes : \/ "br" \in Opcodes /\ Br(l)
                       \/ "br_if" \in Opcodes /\ BrIf(l)
  \/ "br_table" \in Opcodes /\ \E ls \in SeqOf(Scopes, MaxCases + 1) \ {<<>>} : BrTable(ls)

DataStep ==
  \/ "drop" \in Opcodes /\ DropOp
  \/ "select" \in Opcodes /\ Select
  \/ \E i \in DOMAIN LocalTypes : \/ "get_local" \in Opcodes /\ GetLocal(i)
                                  \/ "set_local" \in Opcodes /\ SetLocal(i)
                                  \/ "tee_local" \in Opcodes /\ TeeLocal(i)
  \/ \E t \in ValueTypes, v \in Consts : "const" \in Opcodes /\ Const(t, v)
  \/ \E sig \in PlainTried(src) : Plain(sig) /\ sig \in PlainOps

ParseStep == ControlStep \/ DataStep
=============================================================================
