---------------------------- MODULE FunctionRun ----------------------------
(***************************************************************************)
(* A body compiled by FunctionParser is called in the interpreter, in step *)
(* with WebAssembly's own meaning of the structured body: labels, heights  *)
(* and a separate set of locals.                                           *)
(***************************************************************************)
EXTENDS FunctionParser, FiniteSets

VARIABLES
  status,  \* "compiling", "running", "returned" or "trapped"
  pc, os,  \* _state.pc, relative to the function, and the operand stack
  ref      \* the structured machine: next opcode, labels, operands, locals

vars == <<tk, pcs, code, src, status, pc, os, ref>>

ASSUME ConstsAssumption == 0 \in Consts /\ Consts \subseteq Nat

\* What the caller had on the operand stack; _last_op_index is its length.
CallerStack    == <<<<"i32", 0>>>>
last_op_index  == Len(CallerStack)
NumLocals      == Len(LocalTypes)
Values         == ValueTypes \X Consts
Typed(t, v)    == <<t, v>>
IsZero(x)      == x[2] = 0

\* Pops the operands an opcode takes, pushes what it computes.
Operate(s, op, arg, v) ==
  CASE op = "drop"   -> Front(s)
    [] op = "select" -> LET n == Len(s) IN
                        Append(SubSeq(s, 1, n - 3), IF IsZero(s[n]) THEN s[n - 1] ELSE s[n - 2])
    [] op = "const"  -> Append(s, arg)
    [] op = "plain"  -> LET r == SubSeq(s, 1, Len(s) - Len(arg.pops)) IN
                        IF arg.push = "pseudo" THEN r ELSE Append(r, Typed(arg.push, v))
Operators == {"drop", "select", "const", "plain"}

-----------------------------------------------------------------------------
(* The interpreter.                                                        *)

Instruction == code[pc + 1]

\* jump(pop_info, new_pc)
Jump(s, d) ==
  /\ pc' = d.pc
  /\ os' = SubSeq(s, 1, Len(s) - d.pop) \o (IF d.keep THEN <<Last(s)>> ELSE <<>>)

\* apply_pop_call
PopCall(i) ==
  /\ os' = SubSeq(os, 1, Len(os) - i.arg - (IF i.keep THEN 1 ELSE 0))
             \o (IF i.keep THEN <<Last(os)>> ELSE <<>>)
  /\ status' = "returned"
  /\ pc' = pc

Next_pc == pc' = pc + 1

Interpret(v) ==
  LET i == Instruction IN
  \/ /\ i.op = "unreachable" /\ Next_pc
     /\ os' = os
     /\ status' = "trapped"
  \/ i.op = "return" /\ PopCall(i)
  \/ /\ i.op \notin {"unreachable", "return"}
     /\ status' = status
     /\ \/ i.op = "nop" /\ Next_pc /\ os' = os
        \/ /\ i.op = "if"
           /\ pc' = IF IsZero(Last(os)) THEN i.pc ELSE pc + 1
           /\ os' = Front(os)
        \/ i.op = "else" /\ pc' = i.pc /\ os' = os
        \/ i.op = "br" /\ Jump(os, i)
        \/ /\ i.op = "br_if"
           /\ IF IsZero(Last(os)) THEN Next_pc /\ os' = Front(os) ELSE Jump(Front(os), i)
        \/ /\ i.op = "br_table"
           /\ LET n == Len(i.table) - 1
                  e == IF Last(os)[2] < n THEN Last(os)[2] + 1 ELSE n + 1 IN
              Jump(Front(os), i.table[e])
        \/ i.op = "get_local" /\ Next_pc /\ os' = Append(os, os[last_op_index + i.arg])
        \/ /\ i.op = "set_local" /\ Next_pc
           /\ os' = [Front(os) EXCEPT ![last_op_index + i.arg] = Last(os)]
        \/ /\ i.op = "tee_local" /\ Next_pc
           /\ os' = [os EXCEPT ![last_op_index + i.arg] = Last(os)]
        \/ /\ i.op \in Operators /\ Next_pc
           /\ os' = Operate(os, i.op, i.arg, v)

-----------------------------------------------------------------------------
(* The structured machine.  A label is the index of the opcode that opens  *)
(* it, 0 for the function, and the height of the operands below it.        *)

Openers == {"block", "loop", "if"}
Open(i, j) == Cardinality({x \in i..j : src[x].op \in Openers})
                - Cardinality({x \in i..j : src[x].op = "end"})

EndOf(i) == IF i = 0 THEN Len(src)
            ELSE CHOOSE j \in i..Len(src) : /\ Open(i, j) = 0
                                            /\ \A x \in i..(j - 1) : Open(i, x) > 0
ElseOf(i) == {j \in i..EndOf(i) : src[j].op = "else" /\ Open(i, j) = 1}

Opcode == src[ref.ip]
LabelAt(i, height) == [at |-> i, height |-> height]
BlockType(i) == IF i = 0 THEN Result ELSE src[i].arg
HasOperand(i) == ~(i # 0 /\ src[i].op = "loop") /\ BlockType(i) # "pseudo"

Step(s) == ref' = [ref EXCEPT !.ip = @ + 1, !.stack = s]

Branch(s, l) ==
  LET b == ref.labels[Len(ref.labels) - l]
      outer == SubSeq(ref.labels, 1, Len(ref.labels) - l - 1) IN
  ref' = [ref EXCEPT
            !.stack = SubSeq(s, 1, b.height) \o (IF HasOperand(b.at) THEN <<Last(s)>> ELSE <<>>),
            !.labels = IF b.at = 0 THEN <<b>> ELSE outer,
            !.ip = IF b.at = 0 THEN Len(src)
                   ELSE IF src[b.at].op = "loop" THEN b.at ELSE EndOf(b.at) + 1]

\* if: enters its else, or leaves it, when the operand is zero.
EnterIf(s, taken) ==
  LET enter == [ref EXCEPT !.stack = s, !.labels = Append(@, LabelAt(ref.ip, Len(s)))] IN
  ref' = IF taken THEN [enter EXCEPT !.ip = @ + 1]
         ELSE IF ElseOf(ref.ip) = {} THEN [ref EXCEPT !.stack = s, !.ip = EndOf(@) + 1]
         ELSE [enter EXCEPT !.ip = 1 + CHOOSE j \in ElseOf(@) : TRUE]

Evaluate(v) ==
  LET o == Opcode
      s == ref.stack IN
  \/ o.op = "unreachable" /\ ref' = [ref EXCEPT !.halt = "trapped"]
  \/ o.op = "end" /\ ref' = [ref EXCEPT !.halt = "returned"]
  \/ o.op = "nop" /\ Step(s)
  \/ o.op = "if" /\ EnterIf(Front(s), ~IsZero(Last(s)))
  \/ /\ o.op = "else"
     /\ ref' = [ref EXCEPT !.ip = EndOf(Last(ref.labels).at) + 1, !.labels = Front(@)]
  \/ o.op = "br" /\ Branch(s, o.arg)
  \/ o.op = "br_if" /\ IF IsZero(Last(s)) THEN Step(Front(s)) ELSE Branch(Front(s), o.arg)
  \/ /\ o.op = "br_table"
     /\ LET x == Last(s)[2] IN
        Branch(Front(s), IF x < Len(o.arg) - 1 THEN o.arg[x + 1] ELSE Last(o.arg))
  \/ o.op = "get_local" /\ Step(Append(s, ref.locals[o.arg]))
  \/ /\ o.op = "set_local"
     /\ ref' = [ref EXCEPT !.ip = @ + 1, !.stack = Front(s), !.locals[o.arg] = Last(s)]
  \/ o.op = "tee_local" /\ ref' = [ref EXCEPT !.ip = @ + 1, !.locals[o.arg] = Last(s)]
  \/ o.op \in Operators /\ Step(Operate(s, o.op, o.arg, v))

\* Opcodes without an instruction of their own.
Silent == Opcode.op \in {"block", "loop"} \/ (Opcode.op = "end" /\ ref.ip < Len(src))

-----------------------------------------------------------------------------
NoRef == [ip |-> 0, labels |-> <<>>, stack |-> <<>>, locals |-> <<>>, halt |-> "no"]

RunInit == Init /\ status = "compiling" /\ pc = 0 /\ os = <<>> /\ ref = NoRef

Compile == /\ status = "compiling"
           /\ ParseStep
           /\ UNCHANGED <<status, pc, os, ref>>

\* execute: arguments, then locals set to zero.
Call(args) ==
  LET locals == args \o [i \in DOMAIN Locals |-> Typed(Locals[i], 0)] IN
  /\ status = "compiling" /\ Compiled
  /\ status' = "running"
  /\ pc' = 0
  /\ os' = CallerStack \o locals
  /\ ref' = [ip |-> 1, labels |-> <<LabelAt(0, 0)>>, stack |-> <<>>, locals |-> locals,
             halt |-> "no"]
  /\ UNCHANGED pvars

EnterOrLeave ==
  /\ status = "running" /\ Silent
  /\ ref' = [ref EXCEPT
               !.ip = @ + 1,
               !.labels = IF Opcode.op = "end" THEN Front(@)
                          ELSE Append(@, LabelAt(ref.ip, Len(ref.stack)))]
  /\ UNCHANGED <<status, pc, os>> /\ UNCHANGED pvars

Execute ==
  /\ status = "running" /\ ~Silent
  /\ \E v \in Consts : Interpret(v) /\ Evaluate(v)
  /\ UNCHANGED pvars

Next ==
  \/ Compile
  \/ \E vs \in [DOMAIN Params -> Consts] : Call([i \in DOMAIN Params |-> Typed(Params[i], vs[i])])
  \/ EnterOrLeave
  \/ Execute

Spec == RunInit /\ [][Next]_vars

-----------------------------------------------------------------------------
Operands(s) == SubSeq(s, last_op_index + NumLocals + 1, Len(s))
TypesOf(s)  == [i \in DOMAIN s |-> s[i][1]]
ResultOf(s) == IF Result = "pseudo" THEN <<>> ELSE <<Last(s)>>

\* The operands a tracker's state holds.
Held(st) == Cardinality({i \in DOMAIN st : st[i] \notin Tags})

\* The tracker counts the operands it holds, its maximum covers what it held at
\* every opcode, every scope remembers a depth that is still there, and no branch
\* pops a negative number of operands, which the unsigned arithmetic would not
\* show (operand_stack_type_tracker, pc_stack, compute_depth_change).
TrackerOK ==
  /\ tk.state \in Seq(ValueTypes \cup Tags \cup {"any"})
  /\ tk.depth = Held(tk.state)
  /\ tk.max \in Nat /\ tk.depth <= tk.max /\ \A n \in DOMAIN src : Held(src[n].state) <= tk.max
  /\ \A j \in DOMAIN pcs : pcs[j].operand_depth \in 0..tk.depth
  /\ \A i \in DOMAIN code : /\ code[i].pop \in Nat
                            /\ \A e \in DOMAIN code[i].table : code[i].table[e].pop \in Nat

\* A run never leaves the code, never takes a br_table's data for an instruction,
\* and keeps its operands above its locals (br_table_parser, jump).
StaysInCode ==
  status = "running" => /\ pc + 1 \in DOMAIN code /\ Instruction.op # "data"
                        /\ os \in Seq(Values) /\ Len(os) >= last_op_index + NumLocals

\* The tracker, the control stack and both machines are well formed.
TypeOK ==
  /\ TrackerOK
  /\ StaysInCode
  /\ tk.count \in Nat /\ tk.usage \in Nat /\ tk.unreachable_depth \in Nat
  /\ pc \in Nat /\ os \in Seq(Values)
  /\ status \in {"compiling", "running", "returned", "trapped"}
  /\ ref.stack \in Seq(Values) /\ ref.locals \in Seq(Values)

\* The flat code with its relocated branches does what the structured body
\* means: same place, same operands and locals, same result left to the
\* caller, whose own operands are untouched (parse_function_body_code,
\* bitcode_writer, jump, apply_pop_call).
FlatMatchesStructured ==
  /\ status = "running" => /\ pc = src[ref.ip].pc
                           /\ os = CallerStack \o ref.locals \o ref.stack
  /\ status = "returned" => ref.halt = "returned" /\ os = CallerStack \o ResultOf(ref.stack)
  /\ status = "trapped" => ref.halt = "trapped"

\* Every instruction reached finds the operand types the parser recorded for
\* it, and was not parsed as unreachable (operand_stack_type_tracker).
OperandsAsTracked ==
  status = "running" /\ ref.ip < Len(src) =>
    /\ "unreachable" \notin ToSet(src[ref.ip].state)
    /\ TypesOf(Operands(os)) = SelectSeq(src[ref.ip].state, LAMBDA t : t \notin Tags)

\* maximum_operand_depth, from which maximum_stack and with it the size of a
\* module's stack is computed, bounds the operands of every execution.
DepthBounded == status = "running" => Len(Operands(os)) <= tk.max

\* The stack_usage charged for a call, which max_func_local_bytes and the
\* total of max_stack_bytes rely on, covers the call's locals and operands.
UsageBounded ==
  status = "running" => Bytes(Locals) + Bytes(TypesOf(Operands(os))) <= tk.usage

\* Least bytes of an opcode in the binary, where a br may be a return, and of
\* the first n of the body.
LeastBytes(o) ==
  CASE o.op = "br_table" -> 2 + Len(o.arg)
    [] o.op \in {"unreachable", "nop", "else", "end", "br", "drop", "select", "plain"} -> 1
    [] OTHER -> 2
SourceBytes[n \in 0..Len(src)] == IF n = 0 THEN 0 ELSE SourceBytes[n - 1] + LeastBytes(src[n])

\* The code never outgrows the fb allocated before parsing, one opcode for
\* every byte of the body, nor does the canary after a br_table
\* (emit_prologue, br_table_parser).
CodeFits == Len(code) <= SourceBytes[Len(src)]

\* Where the branches of an instruction lead.
Targets(i) ==
  (IF i.op \in {"if", "else", "br", "br_if"} THEN {i.pc} ELSE {})
    \cup {i.table[e].pc : e \in DOMAIN i.table}

\* Every branch of the compiled body, of code no run reaches too, leads to where
\* an opcode of the body begins, ahead of it or at the start of a loop
\* (handle_branch_target, exit_scope, emit_else, emit_if).
BranchesLand ==
  Compiled => \A i \in DOMAIN code : \A t \in Targets(code[i]) :
    \E j \in DOMAIN src : t = src[j].pc /\ (t >= i \/ src[j].op = "loop")
=============================================================================
