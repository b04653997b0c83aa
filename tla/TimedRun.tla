------------------------------ MODULE TimedRun ------------------------------
(***************************************************************************)
(* Time bounded execution: backend::timed_run, the watchdog it arms, the   *)
(* SIGSEGV handler and the protection of the pages that hold compiled      *)
(* code.                                                                   *)
(*                                                                         *)
(* Host threads call timed_run on backends.  A backend's module may be     *)
(* shared (backend::share), so two threads may run the code pages of one   *)
(* module.  The deadline is enforced by a timer thread per run: it sets    *)
(* the running thread's thread-local flag and makes the module's code      *)
(* pages inaccessible; the running thread then faults on its next          *)
(* instruction, and the signal handler jumps out of it.                    *)
(*                                                                         *)
(* A host function may call timed_run again on the same thread, so every   *)
(* thread has a stack of runs: run[t][1] is the outermost and              *)
(* run[t][depth[t]] the one that is executing.                             *)
(***************************************************************************)
EXTENDS Integers

CONSTANTS
  Threads,    \* the host threads
  Modules,    \* the compiled modules, each with its own code pages
  NoModule,   \* the module of a run slot that is not in use
  Loaded,     \* Loaded[t]: the modules whose backends thread t calls
  Timed,      \* the threads that pass a watchdog; the others a null_watchdog
  MaxDepth    \* bound on the nesting of timed_run calls on one thread

ASSUME NoModuleAssumption == NoModule \notin Modules
ASSUME LoadedAssumption   == Loaded \in [Threads -> SUBSET Modules]
ASSUME TimedAssumption    == Timed \subseteq Threads
ASSUME MaxDepthAssumption == MaxDepth \in Nat \ {0}

VARIABLES
  prot,       \* prot[m]: protection of module m's code pages
  timed_out,  \* timed_out[t]: thread t's timed_run_has_timed_out
  depth,      \* depth[t]: number of timed_run calls on thread t's stack
  run,        \* run[t][i]: the i-th of them
  result      \* result[t]: how the last finished timed_run of t ended

vars == <<prot, timed_out, depth, run, result>>

Level == 1..MaxDepth

\* Where a run is.  "f" is the caller's function outside wasm code, "code" is
\* wasm code, "host" a host function called from it, "sig_*" the signal
\* handler: a fault fetching code, a fault on linear memory, a SIGFPE.  The
\* rest is the way out of timed_run.
Phase == {"idle", "f", "code", "host", "sig_code", "sig_mem", "sig_fpe",
          "unwind", "join", "catch", "check", "enable", "clear", "leave"}

\* The timer thread: waiting for the deadline, in its callback before each of
\* its two statements, or gone.  "none" is a null_watchdog.
Timer == {"none", "waiting", "set_flag", "disable", "exited"}

RunState == {"running", "interrupted", "stopped"}

\* The exception in flight, named by the handler that matters to timed_run.
Exn == {"none", "memory", "timeout", "other"}

\* fired records that the watchdog's callback was started for this run.
Run == [mod : Modules \cup {NoModule}, pc : Phase, wd : Timer,
        run_state : RunState, exn : Exn, fired : BOOLEAN]

NoRun == [mod |-> NoModule, pc |-> "idle", wd |-> "none",
          run_state |-> "stopped", exn |-> "none", fired |-> FALSE]

Top(t)   == run[t][depth[t]]
At(t, p) == depth[t] > 0 /\ Top(t).pc = p

SetRun(t, i, r) == run' = [run EXCEPT ![t][i] = r]
Goto(t, p) == SetRun(t, depth[t], [Top(t) EXCEPT !.pc = p])

\* An exception leaves f: the stack unwinds to timed_run's frame.
Throw(t, e) == SetRun(t, depth[t], [Top(t) EXCEPT !.pc = "unwind", !.exn = e])

Init ==
  /\ prot = [m \in Modules |-> "enabled"]
  /\ timed_out = [t \in Threads |-> FALSE]
  /\ depth = [t \in Threads |-> 0]
  /\ run = [t \in Threads |-> [i \in Level |-> NoRun]]
  /\ result = [t \in Threads |-> "none"]

-----------------------------------------------------------------------------
(* The running thread: timed_run, f and the wasm code f executes.          *)

\* timed_run is entered: reenable_code is set up, then the guard starts its
\* timer thread.  A nested call comes from f or from a host function.
BeginRun(t, m) ==
  /\ depth[t] < MaxDepth
  /\ m \in Loaded[t]
  /\ depth[t] > 0 => Top(t).pc \in {"f", "host"}
  /\ depth' = [depth EXCEPT ![t] = depth[t] + 1]
  /\ SetRun(t, depth[t] + 1,
            [mod |-> m, pc |-> "f",
             wd |-> IF t \in Timed THEN "waiting" ELSE "none",
             run_state |-> IF t \in Timed THEN "running" ELSE "stopped",
             exn |-> "none", fired |-> FALSE])
  /\ UNCHANGED <<prot, timed_out, result>>

\* f calls ctx->execute, which enters wasm code under the signal handler.
Execute(t) ==
  /\ At(t, "f")
  /\ Goto(t, "code")
  /\ UNCHANGED <<prot, timed_out, depth, result>>

\* f returns or throws on its own account.
FinishF(t) ==
  /\ At(t, "f")
  /\ \E e \in {"none", "other"} : Throw(t, e)
  /\ UNCHANGED <<prot, timed_out, depth, result>>

\* An instruction is fetched while the code pages are accessible.  It stays
\* in wasm code (a stuttering step), calls a host function, returns from
\* execute, or faults on linear memory or on an arithmetic error.
CodeStep(t) ==
  /\ At(t, "code")
  /\ prot[Top(t).mod] = "enabled"
  /\ \E p \in {"host", "f", "sig_mem", "sig_fpe"} : Goto(t, p)
  /\ UNCHANGED <<prot, timed_out, depth, result>>

\* An instruction is fetched while the code pages are inaccessible.
CodeFault(t) ==
  /\ At(t, "code")
  /\ prot[Top(t).mod] = "disabled"
  /\ Goto(t, "sig_code")
  /\ UNCHANGED <<prot, timed_out, depth, result>>

\* A host function returns to wasm code, throws (longjmp_on_exception), or
\* touches linear memory out of bounds.
HostReturn(t) ==
  /\ At(t, "host")
  /\ \/ Goto(t, "code")
     \/ Throw(t, "other")
     \/ Goto(t, "sig_mem")
  /\ UNCHANGED <<prot, timed_out, depth, result>>

\* signal_handler.  A fault on linear memory always jumps out.  A SIGSEGV on
\* the code pages returns, to retry the instruction, unless this thread has
\* timed out; a SIGFPE there jumps out.  Every jump lands in handle_signal,
\* which throws wasm_memory_exception.
SignalHandler(t) ==
  /\ depth[t] > 0
  /\ Top(t).pc \in {"sig_code", "sig_mem", "sig_fpe"}
  /\ IF Top(t).pc = "sig_code" /\ ~timed_out[t]
     THEN Goto(t, "code")
     ELSE Throw(t, "memory")
  /\ UNCHANGED <<prot, timed_out, depth, result>>

\* ~guard: needs the mutex that runner holds for the whole of its callback.
GuardStop(t) ==
  /\ At(t, "unwind")
  /\ Top(t).wd \notin {"set_flag", "disable"}
  /\ SetRun(t, depth[t], [Top(t) EXCEPT !.pc = "join", !.run_state = "stopped"])
  /\ UNCHANGED <<prot, timed_out, depth, result>>

\* ~guard: _timer.join().
GuardJoin(t) ==
  /\ At(t, "join")
  /\ Top(t).wd \in {"exited", "none"}
  /\ Goto(t, "catch")
  /\ UNCHANGED <<prot, timed_out, depth, result>>

\* Mutant: every memory exception is taken for a timeout.
CatchMemory_NoFlagTest(t) ==
  /\ At(t, "catch")
  /\ SetRun(t, depth[t],
            [Top(t) EXCEPT !.pc = "check", !.exn = IF @ = "memory" THEN "timeout" ELSE @])
  /\ UNCHANGED <<prot, timed_out, depth, result>>

\* catch (wasm_memory_exception&): becomes a timeout if the flag is set.
CatchMemory(t) ==
  /\ At(t, "catch")
  /\ SetRun(t, depth[t],
            [Top(t) EXCEPT !.pc = "check",
                           !.exn = IF @ = "memory" /\ timed_out[t] THEN "timeout" ELSE @])
  /\ UNCHANGED <<prot, timed_out, depth, result>>

\* reenable_code: if (_timed_out.load())
CheckTimedOut(t) ==
  /\ At(t, "check")
  /\ Goto(t, IF timed_out[t] THEN "enable" ELSE "leave")
  /\ UNCHANGED <<prot, timed_out, depth, result>>

\* Mutant: the code pages stay inaccessible.
EnableCode_Forgets(t) ==
  /\ At(t, "enable")
  /\ Goto(t, "clear")
  /\ UNCHANGED <<prot, timed_out, depth, result>>

\* reenable_code: mod->allocator.enable_code()
EnableCode(t) ==
  /\ At(t, "enable")
  /\ prot' = [prot EXCEPT ![Top(t).mod] = "enabled"]
  /\ Goto(t, "clear")
  /\ UNCHANGED <<timed_out, depth, result>>

\* Mutant: the flag stays set for the thread's next run.
ClearTimedOut_Forgets(t) ==
  /\ At(t, "clear")
  /\ Goto(t, "leave")
  /\ UNCHANGED <<prot, timed_out, depth, result>>

\* reenable_code: _timed_out.store(false)
ClearTimedOut(t) ==
  /\ At(t, "clear")
  /\ timed_out' = [timed_out EXCEPT ![t] = FALSE]
  /\ Goto(t, "leave")
  /\ UNCHANGED <<prot, depth, result>>

\* Mutant: the run that called this one is left with it.
LeaveRun_LeavesCaller(t) ==
  /\ At(t, "leave")
  /\ result' = [result EXCEPT ![t] = Top(t).exn]
  /\ depth' = [depth EXCEPT ![t] = depth[t] - 2]
  /\ SetRun(t, depth[t], NoRun)
  /\ UNCHANGED <<prot, timed_out>>

\* timed_run returns or throws to its caller.  A nested run's exception may
\* pass through the caller's f or host function, or be caught there.
LeaveRun(t) ==
  /\ At(t, "leave")
  /\ result' = [result EXCEPT ![t] = Top(t).exn]
  /\ depth' = [depth EXCEPT ![t] = depth[t] - 1]
  /\ \/ SetRun(t, depth[t], NoRun)
     \/ /\ depth[t] > 1
        /\ Top(t).exn # "none"
        /\ run' = [run EXCEPT ![t][depth[t]] = NoRun,
                              ![t][depth[t] - 1] =
                                 [@ EXCEPT !.pc = "unwind", !.exn = Top(t).exn]]
  /\ UNCHANGED <<prot, timed_out>>

-----------------------------------------------------------------------------
(* The timer thread of the i-th run of thread t: guard::runner.            *)

\* The deadline passes first: the callback starts, under the mutex.
TimerExpires(t, i) ==
  /\ run[t][i].wd = "waiting"
  /\ run[t][i].run_state = "running"
  /\ SetRun(t, i, [run[t][i] EXCEPT !.run_state = "interrupted",
                                    !.wd = "set_flag", !.fired = TRUE])
  /\ UNCHANGED <<prot, timed_out, depth, result>>

\* ~guard was first: runner finds _run_state stopped.
TimerStopped(t, i) ==
  /\ run[t][i].wd = "waiting"
  /\ run[t][i].run_state = "stopped"
  /\ SetRun(t, i, [run[t][i] EXCEPT !.wd = "exited"])
  /\ UNCHANGED <<prot, timed_out, depth, result>>

\* The callback: _timed_out.store(true), in the running thread's flag.
CallbackSetFlag(t, i) ==
  /\ run[t][i].wd = "set_flag"
  /\ timed_out' = [timed_out EXCEPT ![t] = TRUE]
  /\ SetRun(t, i, [run[t][i] EXCEPT !.wd = "disable"])
  /\ UNCHANGED <<prot, depth, result>>

\* Mutant: the callback sets the flag and leaves the code accessible.
CallbackDisable_Forgets(t, i) ==
  /\ run[t][i].wd = "disable"
  /\ SetRun(t, i, [run[t][i] EXCEPT !.wd = "exited"])
  /\ UNCHANGED <<prot, timed_out, depth, result>>

\* The callback: mod->allocator.disable_code(); then runner returns.
CallbackDisable(t, i) ==
  /\ run[t][i].wd = "disable"
  /\ prot' = [prot EXCEPT ![run[t][i].mod] = "disabled"]
  /\ SetRun(t, i, [run[t][i] EXCEPT !.wd = "exited"])
  /\ UNCHANGED <<timed_out, depth, result>>

-----------------------------------------------------------------------------
ThreadStep(t) ==
  \/ \E m \in Modules : BeginRun(t, m)
  \/ Execute(t)
  \/ FinishF(t)
  \/ CodeStep(t)
  \/ CodeFault(t)
  \/ HostReturn(t)
  \/ SignalHandler(t)
  \/ GuardStop(t)
  \/ GuardJoin(t)
  \/ CatchMemory(t)
  \/ CheckTimedOut(t)
  \/ EnableCode(t)
  \/ ClearTimedOut(t)
  \/ LeaveRun(t)

TimerStep(t, i) ==
  \/ TimerExpires(t, i)
  \/ TimerStopped(t, i)
  \/ CallbackSetFlag(t, i)
  \/ CallbackDisable(t, i)

Next == \E t \in Threads : ThreadStep(t) \/ \E i \in Level : TimerStep(t, i)

Spec == Init /\ [][Next]_vars

(***************************************************************************)
(* Fairness.  Every thread is eventually scheduled, so what it can do      *)
(* without waiting for another it eventually does, and a host function or  *)
(* f eventually hands control back.  Nothing makes wasm code leave a loop: *)
(* CodeStep is not fair.                                                   *)
(***************************************************************************)
Fairness ==
  \A t \in Threads :
    /\ WF_vars(Execute(t) \/ FinishF(t))
    /\ WF_vars(CodeFault(t))
    /\ WF_vars(HostReturn(t))
    /\ WF_vars(SignalHandler(t))
    /\ WF_vars(GuardStop(t))
    /\ WF_vars(GuardJoin(t))
    /\ WF_vars(CatchMemory(t))
    /\ WF_vars(CheckTimedOut(t))
    /\ WF_vars(EnableCode(t))
    /\ WF_vars(ClearTimedOut(t))
    /\ WF_vars(LeaveRun(t))
    /\ \A i \in Level : WF_vars(TimerStep(t, i))

FairSpec == Spec /\ Fairness

-----------------------------------------------------------------------------
(* Properties.                                                             *)

\* Type invariant of the state of timed_run, its watchdogs and the handler.
TypeOK ==
  /\ prot \in [Modules -> {"enabled", "disabled"}]
  /\ timed_out \in [Threads -> BOOLEAN]
  /\ depth \in [Threads -> 0..MaxDepth]
  /\ run \in [Threads -> [Level -> Run]]
  /\ result \in [Threads -> Exn]

\* Code pages are inaccessible only while some thread that has timed out is
\* still inside a timed_run on that module and has not re-enabled them: no
\* run leaves a module whose code nobody can execute any more.
DisabledHasOwner ==
  \A m \in Modules :
    prot[m] = "disabled" =>
      \E t \in Threads : timed_out[t]
                         /\ \E i \in Level : /\ run[t][i].mod = m
                                             /\ run[t][i].fired
                                             /\ run[t][i].pc \notin {"clear", "leave"}

\* The thread-local flag is set only while a run of the same thread whose
\* watchdog fired is on its stack: no timeout leaks into the next run.
FlagBelongsToRun ==
  \A t \in Threads :
    timed_out[t] => \E i \in Level : run[t][i].fired /\ run[t][i].pc # "leave"

\* What the handler assumes when it returns to retry the instruction: "a
\* SEGV/BUS in the code range when timed_run_has_timed_out=false is due to a
\* _different_ thread's execution activating a deadline timer", and that
\* thread's timed_run has still to reset the page permissions.
RetryIsForOtherThread ==
  \A t \in Threads :
    /\ At(t, "sig_code")
    /\ ~timed_out[t]
    /\ prot[Top(t).mod] = "disabled"
    => \E u \in Threads \ {t} : timed_out[u] /\ depth[u] > 0

\* A wasm_memory_exception is reported as a timeout only if a watchdog armed
\* by this thread, for this run or for one it is nested in, has fired.
TimeoutHasCause ==
  [][\A t \in Threads : \A i \in Level :
       run[t][i].exn = "memory" /\ run'[t][i].exn = "timeout" =>
         \E j \in 1..i : run[t][j].fired]_vars

\* Once the watchdog of a run has fired, the run ends: execution does not
\* overrun its CPU time, whatever loop the wasm code is in.
DeadlineEnforced ==
  \A t \in Threads : \A i \in Level :
    run[t][i].fired ~> (run[t][i].pc = "idle")

\* Code pages made inaccessible by one run are made accessible again, so a
\* thread that shares the module and retries makes progress.
CodeComesBack ==
  \A m \in Modules : prot[m] = "disabled" ~> prot[m] = "enabled"

-----------------------------------------------------------------------------
(***************************************************************************)
(* The inductive invariant of runs that are not nested (MaxDepth = 1): how *)
(* a thread's position in timed_run, its timer and its flag go together.   *)
(***************************************************************************)
AfterJoin == {"catch", "check", "enable", "clear", "leave"}

\* d, flag and r: thread t's depth, flag and only run.
SoloRun(t, d, flag, r) ==
  /\ d = 0 <=> r.pc = "idle"
  /\ r.pc = "idle" => r = NoRun
  /\ r.pc # "idle" => r.mod \in Modules
  /\ r.wd # "none" => t \in Timed
  /\ r.wd \in {"none", "waiting"} => ~r.fired
  /\ r.wd \in {"set_flag", "disable"} => r.fired /\ r.pc \notin AfterJoin \cup {"join"}
  /\ r.pc \in AfterJoin => r.wd \in {"exited", "none"}
  /\ r.pc = "join" => r.run_state = "stopped"
  /\ flag <=> r.fired /\ r.wd \in {"disable", "exited"} /\ r.pc # "leave"
  /\ r.pc \in {"enable", "clear"} => flag
  /\ r.exn = "timeout" => r.fired
  /\ r.exn = "memory" /\ r.pc \in AfterJoin \ {"catch"} => ~r.fired

\* The thread with this flag and run has to re-enable module m's code.
Owner(flag, r, m) ==
  /\ flag
  /\ r.mod = m
  /\ r.wd = "exited"
  /\ r.pc \notin {"clear", "leave"}

SoloInv ==
  /\ TypeOK
  /\ \A t \in Threads : SoloRun(t, depth[t], timed_out[t], run[t][1])
  /\ \A m \in Modules :
       prot[m] = "disabled" => \E t \in Threads : Owner(timed_out[t], run[t][1], m)

-----------------------------------------------------------------------------
\* The abstract specification, for runs that are not nested: a call is
\* overtaken when its watchdog fires.
CallState(d, r) == IF d = 0 THEN "idle" ELSE IF r.fired THEN "expired" ELSE "running"

BE == INSTANCE BoundedExecution WITH
        call    <- [t \in Threads |-> CallState(depth[t], run[t][1])],
        outcome <- result

\* timed_run with its watchdog and signal handler implements the bounded
\* execution it promises, in what each step may do ...
ImplementsBoundedExecution == BE!BSpec

\* ... and in that an overtaken call ends.
ImplementsFairBoundedExecution == BE!BFairSpec
=============================================================================
