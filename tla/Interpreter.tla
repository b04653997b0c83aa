---------------------------- MODULE Interpreter ----------------------------
(***************************************************************************)
(* Calls in the interpreter: execution_context::execute, call, return and  *)
(* exit, with host functions that call back into execute and exceptions    *)
(* that unwind to the innermost execute.                                   *)
(*                                                                         *)
(* What a function's code computes is left open: while a function runs, it *)
(* may take any step that validated code of its signature can take.        *)
(***************************************************************************)
EXTENDS Integers, SequencesExt

CONSTANTS
  Functions,   \* functions of the module
  Imports,     \* those that are host functions
  Params, Locals, Results, \* their numbers of parameters, locals and results
  StackSize,   \* get_function_stack_size
  MaxStack,    \* max_call_depth or max_stack_bytes
  Values, Zero,
  MaxOperands, \* bound on the operands of one activation
  MaxNative    \* bound on nested executes and host calls

ASSUME FunctionAssumption ==
  /\ Imports \subseteq Functions
  /\ Params \in [Functions -> Nat] /\ Locals \in [Functions -> Nat]
  /\ Results \in [Functions -> {0, 1}] /\ StackSize \in [Functions -> Nat]
  /\ "halt" \notin Functions /\ "null" \notin Functions
ASSUME BoundAssumption == /\ MaxStack \in Nat /\ MaxOperands \in Nat /\ MaxNative \in Nat
                          /\ Zero \in Values

VARIABLES
  os,         \* the operand stack
  acts,       \* _as, the activation stack; callee is not in the code
  last,       \* _last_op_index
  remaining,  \* _remaining_call_depth
  st,         \* _state: pc is the function being executed, or "halt"
  native      \* the C++ stack: executes and host calls, outermost first

vars == <<os, acts, last, remaining, st, native>>

NoState == [as_index |-> 0, os_index |-> 0, pc |-> "null", exiting |-> FALSE]

Frame(pc, l, f) == [pc |-> pc, last |-> l, callee |-> f]
Locals0(f) == [i \in 1..Locals[f] |-> Zero]

\* An execute with what its cleanup restores; a host call with what its
\* scope_guard restores.
InExecute(f) == [kind |-> "execute", f |-> f, last |-> last, remaining |-> remaining, st |-> st]
InHost(f)    == [kind |-> "host", f |-> f, last |-> 0, remaining |-> remaining, st |-> NoState]

Init ==
  /\ os = <<>> /\ acts = <<>> /\ native = <<>>
  /\ last = 0
  /\ remaining = MaxStack
  /\ st = NoState

Idle   == native = <<>>
InCode == ~Idle /\ Last(native).kind = "execute"
HostTop == ~Idle /\ Last(native).kind = "host"

Innermost == SelectLastInSeq(native, LAMBDA n : n.kind = "execute")

-----------------------------------------------------------------------------
\* Mutant: the exiting flag survives.
Cleanup_KeepsExiting ==
  LET e == native[Innermost] IN
  /\ os' = SubSeq(os, 1, st.os_index)
  /\ acts' = SubSeq(acts, 1, st.as_index)
  /\ st' = [e.st EXCEPT !.exiting = st.exiting]
  /\ last' = e.last
  /\ remaining' = e.remaining
  /\ native' = SubSeq(native, 1, Innermost - 1)

\* execute's cleanup, which runs however execute ends.
Cleanup ==
  LET e == native[Innermost] IN
  /\ os' = SubSeq(os, 1, st.os_index)
  /\ acts' = SubSeq(acts, 1, st.as_index)
  /\ st' = e.st
  /\ last' = e.last
  /\ remaining' = e.remaining
  /\ native' = SubSeq(native, 1, Innermost - 1)

\* execute(host, visitor, func_index, args...), up to the first instruction
\* or into the host function.
Execute(f, args) ==
  /\ Idle \/ HostTop
  /\ Len(native) < MaxNative
  /\ StackSize[f] <= remaining
  /\ LET ops == os \o args IN
     /\ os' = IF f \in Imports THEN ops ELSE ops \o Locals0(f)
     /\ last' = Len(ops) - Params[f]
  /\ acts' = Append(acts, Frame("halt", last, f))
  /\ remaining' = remaining - StackSize[f]
  /\ st' = [st EXCEPT !.as_index = Len(acts), !.os_index = Len(os),
                      !.pc = IF f \in Imports THEN @ ELSE f]
  /\ native' = Append(native, InExecute(f))
                 \o (IF f \in Imports THEN <<InHost(f)>> ELSE <<>>)

-----------------------------------------------------------------------------
(* Instructions of the function st.pc.                                     *)

Running  == InCode /\ st.pc \in Functions
Operands == Len(os) - last - Params[st.pc] - Locals[st.pc]

Push(v) ==
  /\ Running /\ Operands < MaxOperands
  /\ os' = Append(os, v)
  /\ UNCHANGED <<acts, last, remaining, st, native>>

Pop ==
  /\ Running /\ Operands > 0
  /\ os' = Front(os)
  /\ UNCHANGED <<acts, last, remaining, st, native>>

\* set_local
SetOperand(i) ==
  /\ Running /\ Operands > 0
  /\ i < Params[st.pc] + Locals[st.pc]
  /\ os' = [Front(os) EXCEPT ![last + i + 1] = Last(os)]
  /\ UNCHANGED <<acts, last, remaining, st, native>>

CanCall(f) == Running /\ Operands >= Params[f] /\ StackSize[f] <= remaining

\* Mutant: setup_locals is not called.
CallFunction_NoLocals(f) ==
  /\ f \notin Imports /\ CanCall(f)
  /\ acts' = Append(acts, Frame(st.pc, last, f))
  /\ last' = Len(os) - Params[f]
  /\ remaining' = remaining - StackSize[f]
  /\ st' = [st EXCEPT !.pc = f]
  /\ UNCHANGED <<os, native>>

\* call of a function of the module
CallFunction(f) ==
  /\ f \notin Imports /\ CanCall(f)
  /\ acts' = Append(acts, Frame(st.pc, last, f))
  /\ last' = Len(os) - Params[f]
  /\ os' = os \o Locals0(f)
  /\ remaining' = remaining - StackSize[f]
  /\ st' = [st EXCEPT !.pc = f]
  /\ UNCHANGED native

\* call of a host function
CallHost(f) ==
  /\ f \in Imports /\ CanCall(f)
  /\ Len(native) < MaxNative
  /\ acts' = Append(acts, Frame("null", 0, f))
  /\ remaining' = remaining - StackSize[f]
  /\ native' = Append(native, InHost(f))
  /\ UNCHANGED <<os, last, st>>

\* Mutant: the frame's size is not given back.
Return_NoCredit ==
  /\ Running /\ Operands = Results[st.pc]
  /\ Last(acts).pc # "halt"
  /\ os' = SubSeq(os, 1, last) \o SubSeq(os, Len(os) - Results[st.pc] + 1, Len(os))
  /\ last' = Last(acts).last
  /\ st' = [st EXCEPT !.pc = Last(acts).pc]
  /\ acts' = Front(acts)
  /\ UNCHANGED <<remaining, native>>

\* Mutant: the result is put one operand too high.
Return_OneTooHigh ==
  /\ Running /\ Operands = Results[st.pc]
  /\ Last(acts).pc # "halt"
  /\ LET n == Params[st.pc] + Locals[st.pc] IN
     os' = IF Results[st.pc] = 1
           THEN Append(SubSeq(os, 1, Len(os) - n), Last(os))
           ELSE SubSeq(os, 1, Len(os) - n)
  /\ last' = Last(acts).last
  /\ remaining' = remaining + StackSize[st.pc]
  /\ st' = [st EXCEPT !.pc = Last(acts).pc]
  /\ acts' = Front(acts)
  /\ UNCHANGED native

\* apply_pop_call, back to a caller in the module
Return ==
  /\ Running /\ Operands = Results[st.pc]
  /\ Last(acts).pc # "halt"
  /\ LET n == Params[st.pc] + Locals[st.pc] IN
     os' = IF Results[st.pc] = 1
           THEN Append(SubSeq(os, 1, Len(os) - n - 1), Last(os))
           ELSE SubSeq(os, 1, Len(os) - n)
  /\ last' = Last(acts).last
  /\ remaining' = remaining + StackSize[st.pc]
  /\ st' = [st EXCEPT !.pc = Last(acts).pc]
  /\ acts' = Front(acts)
  /\ UNCHANGED native

\* apply_pop_call with &_halt to return to: the loop and execute end.
ReturnFromExecute ==
  /\ Running /\ Operands = Results[st.pc]
  /\ Last(acts).pc = "halt"
  /\ Cleanup

\* An exception or a signal in the code or in a host function: trap, memory
\* fault, stack overflow, or what the host throws.
Throw == ~Idle /\ Cleanup

-----------------------------------------------------------------------------
\* exit, called by a host function
Exit ==
  /\ HostTop
  /\ st' = [st EXCEPT !.pc = "halt", !.exiting = TRUE]
  /\ UNCHANGED <<os, acts, last, remaining, native>>

\* A host function called from code returns: arguments are replaced by the
\* result, the guard restores the depth, the frame is popped.
CalledFromCode == HostTop /\ Last(acts).pc = "null"

\* Mutant: the call's own pc is restored over the one exit has set.
HostReturn_ForgetsExit(v) ==
  /\ CalledFromCode
  /\ LET f == Last(native).f IN
     os' = SubSeq(os, 1, Len(os) - Params[f]) \o (IF Results[f] = 1 THEN <<v>> ELSE <<>>)
  /\ acts' = Front(acts)
  /\ remaining' = Last(native).remaining
  /\ native' = Front(native)
  /\ st' = [st EXCEPT !.pc = acts[Len(acts) - 1].callee]
  /\ UNCHANGED last

HostReturn(v) ==
  /\ CalledFromCode /\ st.pc # "halt"
  /\ LET f == Last(native).f IN
     os' = SubSeq(os, 1, Len(os) - Params[f]) \o (IF Results[f] = 1 THEN <<v>> ELSE <<>>)
  /\ acts' = Front(acts)
  /\ remaining' = Last(native).remaining
  /\ native' = Front(native)
  /\ UNCHANGED <<last, st>>

\* It returns after exit, or was itself what execute called: execute ends.
HostReturnEnds ==
  /\ HostTop
  /\ CalledFromCode => st.pc = "halt"
  /\ Cleanup

\* backend::initialize between calls
Reset ==
  /\ Idle
  /\ st' = NoState
  /\ os' = SubSeq(os, 1, 0)
  /\ acts' = SubSeq(acts, 1, 0)
  /\ UNCHANGED <<last, remaining, native>>

Args(f) == [1..Params[f] -> Values]

Next ==
  \/ \E f \in Functions : \E args \in Args(f) : Execute(f, args)
  \/ \E v \in Values : Push(v)
  \/ Pop
  \/ \E i \in 0..MaxOperands : SetOperand(i)
  \/ \E f \in Functions : CallFunction(f) \/ CallHost(f)
  \/ Return
  \/ ReturnFromExecute
  \/ Throw
  \/ Exit
  \/ \E v \in Values : HostReturn(v)
  \/ HostReturnEnds
  \/ Reset

Spec == Init /\ [][Next]_vars

-----------------------------------------------------------------------------
\* Type invariant of the call machinery; a running function has at least its
\* parameters and locals on the stack.
TypeOK ==
  /\ os \in Seq(Values)
  /\ \A i \in DOMAIN acts : acts[i].pc \in Functions \cup {"halt", "null"}
  /\ last \in 0..Len(os)
  /\ remaining \in 0..MaxStack
  /\ st.pc \in Functions \cup {"halt", "null"}
  /\ Running => Operands >= 0

\* How much of the call depth the first i activations use.
Used[i \in 0..Len(acts)] == IF i = 0 THEN 0 ELSE Used[i - 1] + StackSize[acts[i].callee]

\* What is left of the call depth is exactly what the live activations do not
\* use, through every call, return, exit and exception: recursion is stopped
\* at the limit and never before it (push_call, apply_pop_call, call).
BudgetExact == remaining + Used[Len(acts)] = MaxStack

\* Between calls of the embedder nothing is left of earlier ones, exceptions
\* and exits included: no operand, activation, depth or exiting flag
\* (execute's scope_guard).
IdleIsClean ==
  Idle => os = <<>> /\ acts = <<>> /\ last = 0 /\ remaining = MaxStack /\ st = NoState

\* After exit no more code of that execute runs: code runs in an execute only
\* if exit was not called in it (exit, call).
ExitStopsCode == InCode => st.pc # "halt" /\ st.exiting = native[Innermost].st.exiting

-----------------------------------------------------------------------------
\* Where the operands of activations begin, as the first n frames of acts have
\* saved it: Bases[n][j + 1] is activation j's.  A host call from code has a
\* frame but no operands of its own.
Bases[n \in 0..Len(acts)] ==
  IF n = 0 THEN <<>>
  ELSE IF acts[n].pc = "null" THEN Bases[n - 1]
  ELSE Append(Bases[n - 1], acts[n].last)

\* All of them: saved, then that of the running activation, then the end.
Edges == Bases[Len(acts)] \o <<last, Len(os)>>

ActFrames == LET e == Edges IN [j \in 1..(Len(e) - 2) |-> SubSeq(os, e[j + 1] + 1, e[j + 2])]

\* Executes and host calls alternate in native, an execute first.
OpenExecutes == (Len(native) + 1) \div 2
AsIndex(i)   == IF i = OpenExecutes THEN st.as_index ELSE native[2 * i + 1].st.as_index
ExecuteMarks == LET s == Bases IN [i \in 1..OpenExecutes |-> Len(s[AsIndex(i)])]

CF == INSTANCE CallFrames WITH frames <- ActFrames, marks <- ExecuteMarks

\* One operand stack with saved indices implements separate activations: no
\* call, return, nested execute or exception reaches another's operands.
ImplementsCallFrames == CF!CFSpec
=============================================================================
