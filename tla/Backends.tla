------------------------------ MODULE Backends ------------------------------
(***************************************************************************)
(* One function body compiled for both back ends, bitcode_writer and       *)
(* machine_code_writer, then called in both: the interpreter and the       *)
(* processor go on together from one opcode that has a place in both codes *)
(* to the next.  When the writer folds an opcode into the next one, the    *)
(* two have one place.                                                     *)
(***************************************************************************)
EXTENDS FunctionParser, MachineCode

CONSTANTS
  Literal,   \* Literal[t][v]: the value of type t that v stands for
  NewStore,  \* memory, globals, segments and table of a new instance
  ArgsTried(_) \* bound on the constants a body is called with

ASSUME LiteralAssumption ==
  \A t \in ValueTypes, v \in Consts :
    IF t = "v128" THEN Literal[t][v] \in [1..16 -> 0..3] ELSE Literal[t][v] \in 0..Ones(Width(t))

VARIABLES
  wr,      \* machine_code_writer
  interp,  \* the interpreter: pc, operand stack, store, status
  cpu      \* the processor

vars == <<tk, pcs, code, src, wr, interp, cpu>>

-----------------------------------------------------------------------------
(* Compilation.                                                            *)

\* get_frame_offset: parameters are below the return address and the saved
\* rbp, the last one nearest; locals follow, a vector's lower half last.
get_frame_offset(i) ==
  IF i <= Len(Params) THEN Frame(-2 - DepthOf(SubSeq(Params, i + 1, Len(Params))))
  ELSE Frame(DepthOf(SubSeq(Locals, 1, i - Len(Params))))
LocalSlots == DepthOf(Locals)

\* What a branch to l pops, in slots, and the type of the value it keeps.
SlotsPopped(k, l) == k.slots - Label(l).slots
BranchCase(k, l) == [label |-> l, count |-> SlotsPopped(k, l), rt |-> Label(l).label]
TableCases(ls) == [i \in DOMAIN ls |-> BranchCase(Branched(ls)[i - 1], ls[i])]

\* The calls the parser makes for the opcode o, before tk and pcs change.
Write(o) ==
  LET w == IF o.op \in {"block", "loop", "end"} THEN wr ELSE MarkOpcode(wr, o.pc)
      i32_popped == Pop(tk, "i32") IN
  CASE o.op = "unreachable" -> emit_unreachable(w)
    [] o.op = "nop" -> w
    [] o.op = "block" -> emit_block(w)
    [] o.op = "loop" -> emit_loop(w)
    [] o.op = "if" -> emit_if(w)
    [] o.op = "else" -> emit_else(w)
    [] o.op = "end" -> IF Len(pcs) > 1 THEN emit_end(w)
                       ELSE emit_epilogue(set_stack_usage(MarkOpcode(emit_end(w), o.pc), pop_scope(tk, Result).usage),
                                          LocalSlots, Result)
    [] o.op = "br" -> LET c == BranchCase(tk, o.arg) IN emit_br(w, c.label, c.count, c.rt)
    [] o.op = "br_if" -> LET c == BranchCase(i32_popped, o.arg) IN emit_br_if(w, c.label, c.count, c.rt)
    [] o.op = "br_table" -> emit_br_table(w, TableCases(o.arg))
    [] o.op = "drop" -> emit_drop(w, TopType(tk))
    [] o.op = "select" -> emit_select(w, TopType(i32_popped))
    [] o.op = "get_local" -> emit_get_local(w, LocalTypes[o.arg], get_frame_offset(o.arg))
    [] o.op = "set_local" -> emit_set_local(w, LocalTypes[o.arg], get_frame_offset(o.arg))
    [] o.op = "tee_local" -> emit_tee_local(w, LocalTypes[o.arg], get_frame_offset(o.arg))
    [] o.op = "const" -> emit_const(w, o.arg[1], Literal[o.arg[1]][o.arg[2]])
    [] o.op = "plain" -> emit_plain(w, o.arg, Len(NewStore.tab))

-----------------------------------------------------------------------------
(* The interpreter, one instruction of code.                               *)

Typed(t, v) == [t |-> t, v |-> v]
Jumped(r, s, d) ==
  [r EXCEPT !.pc = d.pc, !.os = SubSeq(s, 1, Len(s) - d.pop) \o (IF d.keep THEN <<Last(s)>> ELSE <<>>)]
\* Parameters and locals come first on the operand stack.
NumLocals == Len(LocalTypes)
\* module::get_function_stack_size, where the limit is in bytes
get_function_stack_size == tk.usage + BaseFrame
Returned(r) == [r EXCEPT !.status = "returned", !.os = IF Result = "pseudo" THEN <<>> ELSE <<Last(@)>>,
                         !.remaining = @ + get_function_stack_size]

Pushed(r, sig, x) ==
  IF x.trap THEN [r EXCEPT !.status = "trapped"]
  ELSE [r EXCEPT !.pc = @ + 1, !.store = x.store,
                 !.os = SubSeq(@, 1, Len(@) - Len(sig.pops)) \o [j \in DOMAIN x.val |-> Typed(sig.push, x.val[j])]]
Computed(r, sig) ==
  Pushed(r, sig, Perform(sig, [j \in DOMAIN sig.pops |-> r.os[Len(r.os) + 1 - j].v], r.store))

Interpret(r) ==
  LET i == code[r.pc + 1]
      s == r.os
      n == Len(s)
      next == [r EXCEPT !.pc = @ + 1] IN
  CASE i.op = "unreachable" -> [r EXCEPT !.status = "trapped"]
    [] i.op = "return" -> Returned(r)
    [] i.op = "nop" -> next
    [] i.op = "if" -> [r EXCEPT !.pc = IF s[n].v = 0 THEN i.pc ELSE @ + 1, !.os = Front(@)]
    [] i.op = "else" -> [r EXCEPT !.pc = i.pc]
    [] i.op = "br" -> Jumped(r, s, i)
    [] i.op = "br_if" -> IF s[n].v = 0 THEN [next EXCEPT !.os = Front(@)] ELSE Jumped(r, Front(s), i)
    [] i.op = "br_table" -> LET last == Len(i.table) IN
                            Jumped(r, Front(s), i.table[IF s[n].v < last - 1 THEN s[n].v + 1 ELSE last])
    [] i.op = "drop" -> [next EXCEPT !.os = Front(@)]
    [] i.op = "select" -> [next EXCEPT !.os = Append(SubSeq(@, 1, n - 3), IF s[n].v = 0 THEN s[n - 1] ELSE s[n - 2])]
    [] i.op = "get_local" -> [next EXCEPT !.os = Append(@, s[i.arg])]
    [] i.op = "set_local" -> [next EXCEPT !.os = [Front(@) EXCEPT ![i.arg] = s[n]]]
    [] i.op = "tee_local" -> [next EXCEPT !.os[i.arg] = s[n]]
    [] i.op = "const" -> [next EXCEPT !.os = Append(@, Typed(i.arg[1], Literal[i.arg[1]][i.arg[2]]))]
    [] i.op = "plain" -> Computed(r, i.arg)

-----------------------------------------------------------------------------
(* Both run to the next common place, or until they stop.                  *)

Places == {p[2] : p \in wr.marks}
Opcodes_pc == {p[1] : p \in wr.marks}

RECURSIVE RunInterpreter(_), RunProcessor(_)
InterpretOn(r) == IF r.status = "running" /\ r.pc \notin Opcodes_pc THEN RunInterpreter(r) ELSE r
RunInterpreter(r) == InterpretOn(Interpret(r))
TickOn(m) == IF m.status = "running" /\ m.ip \notin Places /\ m.ip < Position(wr) THEN RunProcessor(m) ELSE m
RunProcessor(m) == TickOn(Tick(m, wr.code))

\* A value in slots of the stack, the one at the lowest address last.
SlotsOf(x) == IF x.t = "v128" THEN <<High64(x.v), Low64(x.v)>> ELSE <<x.v>>
AllSlots(xs) == FlattenSeq([i \in DOMAIN xs |-> SlotsOf(xs[i])])

ZeroOf(t) == Typed(t, IF t = "v128" THEN ZeroVector ELSE 0)
CallerSlots == <<Junk>>
CallerFrame == 1
ReturnAddress == 0
\* The registers the code relies on: memory in rsi, the context in rdi.
Pinned == [x \in {"rsi", "rdi"} |-> IF x = "rsi" THEN 0 ELSE 5]

NoInterpreter == [pc |-> 0, os |-> <<>>, store |-> NewStore, remaining |-> 0, status |-> "idle"]
NoProcessor ==
  [ip |-> 0, regs |-> [r \in Registers |-> IF r \in DOMAIN Pinned THEN Pinned[r] ELSE Junk],
   xmm |-> [x \in Xmms |-> JunkVector], st |-> CallerSlots, rbp |-> CallerFrame, store |-> NewStore,
   flags |-> Flags(0, 0, 4), df |-> FALSE, status |-> "idle"]

BackendsInit ==
  /\ Init
  /\ wr = emit_block(emit_prologue(NewWriter, LocalSlots))
  /\ interp = NoInterpreter
  /\ cpu = NoProcessor

Compile ==
  /\ Parsing
  /\ ParseStep
  /\ wr' = Write(Last(src'))
  /\ UNCHANGED <<interp, cpu>>

\* Arguments on the stack, then the return address; limit bytes of stack are
\* left, which push_call checks in the interpreter and the prologue in the
\* machine code.
Call(args, limit) ==
  /\ Compiled
  /\ interp.status = "idle"
  /\ interp' = IF limit < get_function_stack_size THEN [interp EXCEPT !.status = "trapped"]
               ELSE InterpretOn([interp EXCEPT !.os = args \o [i \in DOMAIN Locals |-> ZeroOf(Locals[i])],
                                               !.remaining = limit - get_function_stack_size,
                                               !.status = "running"])
  /\ cpu' = TickOn([cpu EXCEPT !.st = @ \o AllSlots(args) \o <<ReturnAddress>>, !.regs["rbx"] = limit,
                               !.status = "running"])
  /\ UNCHANGED <<tk, pcs, code, src, wr>>

Run ==
  /\ interp.status = "running"
  /\ cpu.status = "running"
  /\ interp' = RunInterpreter(interp)
  /\ cpu' = RunProcessor(cpu)
  /\ UNCHANGED <<tk, pcs, code, src, wr>>

\* Just enough stack, and one byte less.
Limits == {get_function_stack_size, get_function_stack_size - 1}

Next ==
  \/ Compile
  \/ \E vs \in [DOMAIN Params -> ArgsTried(src)], limit \in Limits :
       Call([i \in DOMAIN Params |-> Typed(Params[i], Literal[Params[i]][vs[i]])], limit)
  \/ Run

Spec == BackendsInit /\ [][Next]_vars

-----------------------------------------------------------------------------
Running == interp.status = "running" /\ cpu.status = "running"

\* The code of both back ends takes the same way: each branch leads to the
\* same opcode, and both stop at the same opcode in the same manner
\* (machine_code_writer against interpret_visitor).
SameWay == /\ Running => <<interp.pc, cpu.ip>> \in wr.marks
           /\ interp.status = cpu.status

\* At every opcode the stack of the machine code holds the operands and the
\* locals of the interpreter: 32-bit values with nothing above them, vectors
\* in two slots, whatever was folded, dropped by a branch or left in place.
SameOperands ==
  Running => cpu.st = CallerSlots \o AllSlots(SubSeq(interp.os, 1, Len(Params))) \o <<ReturnAddress, CallerFrame>>
                       \o AllSlots(SubSeq(interp.os, Len(Params) + 1, Len(interp.os)))

\* Loads, stores, bulk operations, globals and segments have the same effect
\* in both, up to the one that traps.
SameStore == cpu.store = interp.store

\* A call leaves its result in rax or xmm0, the caller's frame and stack as
\* they were under the arguments.
SameResult ==
  interp.status = "returned" /\ cpu.status = "returned" =>
    /\ Len(cpu.st) = Len(CallerSlots) + DepthOf(Params) /\ cpu.rbp = CallerFrame
    /\ CASE Result = "pseudo" -> TRUE
         [] Result = "v128" -> cpu.xmm["xmm0"] = interp.os[1].v
         [] OTHER -> cpu.regs["rax"] = interp.os[1].v

\* Between opcodes rsi and rdi hold the memory and the context, rbx the stack
\* that is left, as the interpreter counts it, and strings move upwards: what
\* every listing assumes of the one before it, calls of library functions
\* included, and what the caller finds again after the epilogue.
ContextKept == cpu.status \in {"running", "returned"} =>
                 /\ \A r \in DOMAIN Pinned : cpu.regs[r] = Pinned[r]
                 /\ cpu.regs["rbx"] = interp.remaining
                 /\ ~cpu.df

\* The operands of a call take no more slots of the machine's stack than
\* maximum_operand_depth, vectors counted twice, whatever code the parser took
\* for unreachable: the JIT's stack is sized from it (parser.hpp,
\* maximum_stack).
FrameSlots == Len(cpu.st) - cpu.rbp
SlotsBounded == Running => FrameSlots - LocalSlots <= tk.max_slots

\* The same with the locals, of which maximum_stack counts one slot each.
FrameFits == Running => FrameSlots <= tk.max_slots + Len(Locals)
=============================================================================
