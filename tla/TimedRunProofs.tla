--------------------------- MODULE TimedRunProofs ---------------------------
(***************************************************************************)
(* Proofs about TimedRun, for every set of threads and modules and every   *)
(* choice of which threads use a watchdog.                                 *)
(***************************************************************************)
EXTENDS TimedRun, TLAPS

(***************************************************************************)
(* Type correctness, for any nesting of timed_run calls.                   *)
(***************************************************************************)
LEMMA NoRunType == NoRun \in Run
BY DEF NoRun, Run, Phase, Timer, RunState, Exn

\* The slot of the executing run is a run.
LEMMA TopType ==
  ASSUME TypeOK, NEW t \in Threads, depth[t] > 0
  PROVE  depth[t] \in Level /\ Top(t) \in Run
BY MaxDepthAssumption DEF TypeOK, Level, Top

\* A change of the run on top keeps the runs well typed.
LEMMA SetRunType ==
  ASSUME TypeOK, NEW t \in Threads, NEW i \in Level, NEW r \in Run, SetRun(t, i, r)
  PROVE  run' \in [Threads -> [Level -> Run]]
BY DEF TypeOK, SetRun

\* So does a move of its control point,
LEMMA GotoType ==
  ASSUME TypeOK, NEW t \in Threads, depth[t] > 0, NEW p \in Phase, Goto(t, p)
  PROVE  run' \in [Threads -> [Level -> Run]]
<1>1. [Top(t) EXCEPT !.pc = p] \in Run
  BY TopType DEF Run
<1> QED
  BY <1>1, TopType, SetRunType DEF Goto

\* and an exception that leaves it.
LEMMA ThrowType ==
  ASSUME TypeOK, NEW t \in Threads, depth[t] > 0, NEW e \in Exn, Throw(t, e)
  PROVE  run' \in [Threads -> [Level -> Run]]
<1>1. [Top(t) EXCEPT !.pc = "unwind", !.exn = e] \in Run
  BY TopType DEF Run, Phase
<1> QED
  BY <1>1, TopType, SetRunType DEF Throw

\* Type invariant: timed_run, its watchdogs and the signal handler keep every
\* variable in its type, at any nesting of runs.
THEOREM TypeCorrect == Spec => []TypeOK
<1>1. Init => TypeOK
  BY NoRunType, MaxDepthAssumption DEF Init, TypeOK, Level, Exn
<1>2. TypeOK /\ [Next]_vars => TypeOK'
  <2> SUFFICES ASSUME TypeOK, [Next]_vars PROVE TypeOK'
    OBVIOUS
  <2>1. CASE UNCHANGED vars
    BY <2>1 DEF TypeOK, vars
  <2>2. ASSUME NEW t \in Threads, ThreadStep(t) PROVE TypeOK'
    <3>1. CASE \E m \in Modules : BeginRun(t, m)
      <4>1. PICK m \in Modules : BeginRun(t, m)
        BY <3>1
      <4>2. depth[t] + 1 \in Level
        BY <4>1, MaxDepthAssumption DEF BeginRun, TypeOK, Level
      <4>3. [mod |-> m, pc |-> "f",
             wd |-> IF t \in Timed THEN "waiting" ELSE "none",
             run_state |-> IF t \in Timed THEN "running" ELSE "stopped",
             exn |-> "none", fired |-> FALSE] \in Run
        BY DEF Run, Phase, Timer, RunState, Exn
      <4>4. run' \in [Threads -> [Level -> Run]]
        BY <4>1, <4>2, <4>3, SetRunType DEF BeginRun
      <4>5. depth' \in [Threads -> 0..MaxDepth]
        BY <4>1, <4>2, MaxDepthAssumption DEF BeginRun, TypeOK, Level
      <4> QED
        BY <4>1, <4>4, <4>5 DEF BeginRun, TypeOK
    <3>2. CASE Execute(t)
      <4>1. run' \in [Threads -> [Level -> Run]]
        BY <3>2, GotoType DEF Execute, At, Phase
      <4> QED
        BY <3>2, <4>1 DEF Execute, TypeOK
    <3>3. CASE FinishF(t)
      <4>1. run' \in [Threads -> [Level -> Run]]
        BY <3>3, ThrowType DEF FinishF, At, Exn
      <4> QED
        BY <3>3, <4>1 DEF FinishF, TypeOK
    <3>4. CASE CodeStep(t)
      <4>1. run' \in [Threads -> [Level -> Run]]
        BY <3>4, GotoType DEF CodeStep, At, Phase
      <4> QED
        BY <3>4, <4>1 DEF CodeStep, TypeOK
    <3>5. CASE CodeFault(t)
      <4>1. run' \in [Threads -> [Level -> Run]]
        BY <3>5, GotoType DEF CodeFault, At, Phase
      <4> QED
        BY <3>5, <4>1 DEF CodeFault, TypeOK
    <3>6. CASE HostReturn(t)
      <4>1. run' \in [Threads -> [Level -> Run]]
        BY <3>6, GotoType, ThrowType DEF HostReturn, At, Phase, Exn
      <4> QED
        BY <3>6, <4>1 DEF HostReturn, TypeOK
    <3>7. CASE SignalHandler(t)
      <4>1. run' \in [Threads -> [Level -> Run]]
        BY <3>7, GotoType, ThrowType DEF SignalHandler, Phase, Exn
      <4> QED
        BY <3>7, <4>1 DEF SignalHandler, TypeOK
    <3>8. CASE GuardStop(t)
      <4>1. [Top(t) EXCEPT !.pc = "join", !.run_state = "stopped"] \in Run
        BY <3>8, TopType DEF GuardStop, At, Run, Phase, RunState
      <4>2. run' \in [Threads -> [Level -> Run]]
        BY <3>8, <4>1, TopType, SetRunType DEF GuardStop, At
      <4> QED
        BY <3>8, <4>2 DEF GuardStop, TypeOK
    <3>9. CASE GuardJoin(t)
      <4>1. run' \in [Threads -> [Level -> Run]]
        BY <3>9, GotoType DEF GuardJoin, At, Phase
      <4> QED
        BY <3>9, <4>1 DEF GuardJoin, TypeOK
    <3>10. CASE CatchMemory(t)
      <4>1. [Top(t) EXCEPT !.pc = "check",
                           !.exn = IF @ = "memory" /\ timed_out[t] THEN "timeout" ELSE @]
              \in Run
        BY <3>10, TopType DEF CatchMemory, At, Run, Phase, Exn
      <4>2. run' \in [Threads -> [Level -> Run]]
        BY <3>10, <4>1, TopType, SetRunType DEF CatchMemory, At
      <4> QED
        BY <3>10, <4>2 DEF CatchMemory, TypeOK
    <3>11. CASE CheckTimedOut(t)
      <4>1. run' \in [Threads -> [Level -> Run]]
        BY <3>11, GotoType DEF CheckTimedOut, At, Phase
      <4> QED
        BY <3>11, <4>1 DEF CheckTimedOut, TypeOK
    <3>12. CASE EnableCode(t)
      <4>1. run' \in [Threads -> [Level -> Run]]
        BY <3>12, GotoType DEF EnableCode, At, Phase
      <4> QED
        BY <3>12, <4>1 DEF EnableCode, TypeOK
    <3>13. CASE ClearTimedOut(t)
      <4>1. run' \in [Threads -> [Level -> Run]]
        BY <3>13, GotoType DEF ClearTimedOut, At, Phase
      <4> QED
        BY <3>13, <4>1 DEF ClearTimedOut, TypeOK
    <3>14. CASE LeaveRun(t)
      <4>1. depth[t] \in Level
        BY <3>14, MaxDepthAssumption DEF LeaveRun, At, TypeOK, Level
      <4>2. depth' \in [Threads -> 0..MaxDepth]
        BY <3>14, <4>1, MaxDepthAssumption DEF LeaveRun, TypeOK, Level
      <4>3. result' \in [Threads -> Exn]
        BY <3>14, <4>1 DEF LeaveRun, TypeOK, Top, Run
      <4>4. run[t][depth[t]] \in Run
        BY <4>1 DEF TypeOK
      <4>5. run' \in [Threads -> [Level -> Run]]
        <5>1. CASE SetRun(t, depth[t], NoRun)
          BY <5>1, <4>1, NoRunType, SetRunType
        <5>2. CASE /\ depth[t] > 1
                   /\ run' = [run EXCEPT ![t][depth[t]] = NoRun,
                                         ![t][depth[t] - 1] =
                                           [@ EXCEPT !.pc = "unwind", !.exn = Top(t).exn]]
          <6>1. depth[t] - 1 \in Level
            BY <5>2, <4>1, MaxDepthAssumption DEF Level, TypeOK
          <6>2. [run[t][depth[t] - 1] EXCEPT !.pc = "unwind", !.exn = Top(t).exn] \in Run
            <7>1. run[t][depth[t] - 1] \in Run /\ Top(t) \in Run
              BY <6>1, <4>4 DEF TypeOK, Top
            <7> QED
              BY <7>1 DEF Run, Phase
          <6> QED
            BY <5>2, <6>1, <6>2, <4>1, NoRunType DEF TypeOK
        <5> QED
          BY <5>1, <5>2, <3>14 DEF LeaveRun
      <4> QED
        BY <3>14, <4>2, <4>3, <4>5 DEF LeaveRun, TypeOK
    <3> QED
      BY <2>2, <3>1, <3>2, <3>3, <3>4, <3>5, <3>6, <3>7, <3>8, <3>9, <3>10,
         <3>11, <3>12, <3>13, <3>14 DEF ThreadStep
  <2>3. ASSUME NEW t \in Threads, NEW i \in Level, TimerStep(t, i) PROVE TypeOK'
    <3>0. run[t][i] \in Run
      BY DEF TypeOK
    <3>1. CASE TimerExpires(t, i)
      <4>1. [run[t][i] EXCEPT !.run_state = "interrupted", !.wd = "set_flag", !.fired = TRUE] \in Run
        BY <3>0 DEF Run, Timer, RunState
      <4>2. run' \in [Threads -> [Level -> Run]]
        BY <3>1, <4>1, SetRunType DEF TimerExpires
      <4> QED
        BY <3>1, <4>2 DEF TimerExpires, TypeOK
    <3>2. CASE TimerStopped(t, i)
      <4>1. [run[t][i] EXCEPT !.wd = "exited"] \in Run
        BY <3>0 DEF Run, Timer
      <4>2. run' \in [Threads -> [Level -> Run]]
        BY <3>2, <4>1, SetRunType DEF TimerStopped
      <4> QED
        BY <3>2, <4>2 DEF TimerStopped, TypeOK
    <3>3. CASE CallbackSetFlag(t, i)
      <4>1. [run[t][i] EXCEPT !.wd = "disable"] \in Run
        BY <3>0 DEF Run, Timer
      <4>2. run' \in [Threads -> [Level -> Run]]
        BY <3>3, <4>1, SetRunType DEF CallbackSetFlag
      <4> QED
        BY <3>3, <4>2 DEF CallbackSetFlag, TypeOK
    <3>4. CASE CallbackDisable(t, i)
      <4>1. [run[t][i] EXCEPT !.wd = "exited"] \in Run
        BY <3>0 DEF Run, Timer
      <4>2. run' \in [Threads -> [Level -> Run]]
        BY <3>4, <4>1, SetRunType DEF CallbackDisable
      <4> QED
        BY <3>4, <4>2 DEF CallbackDisable, TypeOK
    <3> QED
      BY <2>3, <3>1, <3>2, <3>3, <3>4 DEF TimerStep
  <2> QED
    BY <2>1, <2>2, <2>3 DEF Next
<1> QED
  BY <1>1, <1>2, PTL DEF Spec

(***************************************************************************)
(* Runs that are not nested: MaxDepth = 1.                                 *)
(***************************************************************************)

\* A step of thread t or of its timer leaves the other threads' runs, flags
\* and depths alone, so it keeps the invariant if it keeps it for t and if
\* every module that is disabled afterwards has an owner.
LEMMA SoloStep ==
  ASSUME SoloInv, TypeOK', MaxDepth = 1,
         NEW t \in Threads, NEW r2 \in Run, SetRun(t, 1, r2),
         NEW d2, NEW flag2,
         depth' = [depth EXCEPT ![t] = d2],
         timed_out' = [timed_out EXCEPT ![t] = flag2],
         SoloRun(t, d2, flag2, r2),
         \A m \in Modules :
           prot'[m] = "disabled" =>
             \/ Owner(flag2, r2, m)
             \/ /\ prot[m] = "disabled"
                /\ ~Owner(timed_out[t], run[t][1], m)
  PROVE  SoloInv'
<1>1. 1 \in Level
  BY DEF Level
<1>2. /\ run'[t][1] = r2 /\ depth'[t] = d2 /\ timed_out'[t] = flag2
      /\ \A u \in Threads \ {t} : /\ run'[u][1] = run[u][1]
                                  /\ depth'[u] = depth[u]
                                  /\ timed_out'[u] = timed_out[u]
  BY <1>1 DEF SoloInv, TypeOK, SetRun
<1>3. \A u \in Threads : SoloRun(u, depth'[u], timed_out'[u], run'[u][1])
  BY <1>2 DEF SoloInv
<1>4. ASSUME NEW m \in Modules, prot'[m] = "disabled"
      PROVE  \E u \in Threads : Owner(timed_out'[u], run'[u][1], m)
  <2>1. CASE Owner(flag2, r2, m)
    BY <2>1, <1>2
  <2>2. CASE prot[m] = "disabled" /\ ~Owner(timed_out[t], run[t][1], m)
    <3>1. PICK u \in Threads : Owner(timed_out[u], run[u][1], m)
      BY <2>2 DEF SoloInv
    <3>2. u # t
      BY <2>2, <3>1
    <3> QED
      BY <1>2, <3>1, <3>2
  <2> QED
    BY <1>4, <2>1, <2>2
<1> QED
  BY <1>3, <1>4 DEF SoloInv

Inside == {"f", "code", "host", "sig_code", "sig_mem", "sig_fpe"}

\* A step inside f, or out of it by an exception, changes neither the timer
\* nor the flag nor the code pages.
LEMMA SoloInside ==
  ASSUME SoloInv, TypeOK', MaxDepth = 1, NEW t \in Threads, NEW r2 \in Run,
         SetRun(t, 1, r2), run[t][1].pc \in Inside, r2.pc \in Inside \cup {"unwind"},
         r2.mod = run[t][1].mod, r2.wd = run[t][1].wd, r2.fired = run[t][1].fired,
         r2.run_state = run[t][1].run_state, r2.exn # "timeout" \/ r2.exn = run[t][1].exn,
         prot' = prot, timed_out' = timed_out, depth' = depth
  PROVE  SoloInv'
<1>1. /\ depth' = [depth EXCEPT ![t] = depth[t]]
      /\ timed_out' = [timed_out EXCEPT ![t] = timed_out[t]]
      /\ SoloRun(t, depth[t], timed_out[t], run[t][1])
      /\ run[t][1] \in Run
  BY DEF SoloInv, TypeOK, Level
<1>2. SoloRun(t, depth[t], timed_out[t], r2)
  BY <1>1 DEF SoloRun, Inside, AfterJoin, Run
<1>3. \A m : Owner(timed_out[t], run[t][1], m) => Owner(timed_out[t], r2, m)
  BY DEF Owner, Inside
<1> QED
  BY <1>1, <1>2, <1>3, SoloStep

\* The invariant is inductive.
LEMMA SoloInvInductive ==
  ASSUME MaxDepth = 1, SoloInv, TypeOK', [Next]_vars
  PROVE  SoloInv'
<1>1. CASE UNCHANGED vars
  BY <1>1 DEF vars, SoloInv, TypeOK
<1>2. ASSUME NEW t \in Threads, ThreadStep(t) PROVE SoloInv'
  <2> DEFINE r == run[t][1]
  <2>0. /\ r \in Run /\ timed_out[t] \in BOOLEAN
        /\ SoloRun(t, depth[t], timed_out[t], r)
        /\ depth[t] \in {0, 1}
        /\ depth = [depth EXCEPT ![t] = depth[t]]
        /\ timed_out = [timed_out EXCEPT ![t] = timed_out[t]]
        /\ depth[t] > 0 => depth[t] = 1 /\ Top(t) = r
    BY DEF SoloInv, TypeOK, Level, Top
  <2>1. CASE \E m \in Modules : BeginRun(t, m)
    <3>1. PICK m \in Modules : BeginRun(t, m)
      BY <2>1
    <3> DEFINE r2 == [mod |-> m, pc |-> "f",
                      wd |-> IF t \in Timed THEN "waiting" ELSE "none",
                      run_state |-> IF t \in Timed THEN "running" ELSE "stopped",
                      exn |-> "none", fired |-> FALSE]
    <3>2. depth[t] = 0 /\ r = NoRun
      BY <3>1, <2>0 DEF BeginRun, SoloRun
    <3>3. r2 \in Run
      BY DEF Run, Phase, Timer, RunState, Exn
    <3>4. SetRun(t, 1, r2) /\ depth' = [depth EXCEPT ![t] = 1]
      BY <3>1, <3>2 DEF BeginRun
    <3>5. ~timed_out[t]
      BY <3>2, <2>0 DEF SoloRun, NoRun
    <3>6. SoloRun(t, 1, timed_out[t], r2)
      BY <3>5, <2>0 DEF SoloRun, AfterJoin
    <3>7. timed_out' = timed_out /\ prot' = prot
      BY <3>1 DEF BeginRun
    <3>8. \A m2 : ~Owner(timed_out[t], r, m2)
      BY <3>5 DEF Owner
    <3> HIDE DEF r2
    <3> QED
      BY <2>0, <3>3, <3>4, <3>6, <3>7, <3>8, SoloStep
  <2>2. CASE Execute(t)
    <3>1. depth[t] = 1 /\ Top(t) = r /\ r.pc \in Inside
      BY <2>2, <2>0 DEF Execute, At, Inside
    <3>2. prot' = prot /\ timed_out' = timed_out /\ depth' = depth
      BY <2>2 DEF Execute
    <3>3. \/ \E p \in Inside : SetRun(t, 1, [r EXCEPT !.pc = p])
          \/ \E e \in {"none", "memory", "other"} :
               SetRun(t, 1, [r EXCEPT !.pc = "unwind", !.exn = e])
      BY <2>2, <3>1 DEF Execute, Goto, Throw, Inside
    <3>4. CASE \E p \in Inside : SetRun(t, 1, [r EXCEPT !.pc = p])
      <4>1. PICK p \in Inside : SetRun(t, 1, [r EXCEPT !.pc = p])
        BY <3>4
      <4>2. [r EXCEPT !.pc = p] \in Run
        BY <2>0 DEF Run, Inside, Phase
      <4>3. /\ [r EXCEPT !.pc = p].pc = p
            /\ [r EXCEPT !.pc = p].mod = r.mod
            /\ [r EXCEPT !.pc = p].wd = r.wd
            /\ [r EXCEPT !.pc = p].fired = r.fired
            /\ [r EXCEPT !.pc = p].run_state = r.run_state
            /\ [r EXCEPT !.pc = p].exn = r.exn
        BY <2>0 DEF Run
      <4> QED
        BY <3>1, <3>2, <4>1, <4>2, <4>3, SoloInside
    <3>5. CASE \E e \in {"none", "memory", "other"} :
                 SetRun(t, 1, [r EXCEPT !.pc = "unwind", !.exn = e])
      <4>1. PICK e \in {"none", "memory", "other"} :
              SetRun(t, 1, [r EXCEPT !.pc = "unwind", !.exn = e])
        BY <3>5
      <4>2. [r EXCEPT !.pc = "unwind", !.exn = e] \in Run
        BY <2>0 DEF Run, Phase, Exn
      <4>3. /\ [r EXCEPT !.pc = "unwind", !.exn = e].pc = "unwind"
            /\ [r EXCEPT !.pc = "unwind", !.exn = e].mod = r.mod
            /\ [r EXCEPT !.pc = "unwind", !.exn = e].wd = r.wd
            /\ [r EXCEPT !.pc = "unwind", !.exn = e].fired = r.fired
            /\ [r EXCEPT !.pc = "unwind", !.exn = e].run_state = r.run_state
            /\ [r EXCEPT !.pc = "unwind", !.exn = e].exn # "timeout"
        BY <2>0 DEF Run
      <4> QED
        BY <3>1, <3>2, <4>1, <4>2, <4>3, SoloInside
    <3> QED
      BY <3>3, <3>4, <3>5
  <2>3. CASE FinishF(t)
    <3>1. depth[t] = 1 /\ Top(t) = r /\ r.pc \in Inside
      BY <2>3, <2>0 DEF FinishF, At, Inside
    <3>2. prot' = prot /\ timed_out' = timed_out /\ depth' = depth
      BY <2>3 DEF FinishF
    <3>3. \/ \E p \in Inside : SetRun(t, 1, [r EXCEPT !.pc = p])
          \/ \E e \in {"none", "memory", "other"} :
               SetRun(t, 1, [r EXCEPT !.pc = "unwind", !.exn = e])
      BY <2>3, <3>1 DEF FinishF, Goto, Throw, Inside
    <3>4. CASE \E p \in Inside : SetRun(t, 1, [r EXCEPT !.pc = p])
      <4>1. PICK p \in Inside : SetRun(t, 1, [r EXCEPT !.pc = p])
        BY <3>4
      <4>2. [r EXCEPT !.pc = p] \in Run
        BY <2>0 DEF Run, Inside, Phase
      <4>3. /\ [r EXCEPT !.pc = p].pc = p
            /\ [r EXCEPT !.pc = p].mod = r.mod
            /\ [r EXCEPT !.pc = p].wd = r.wd
            /\ [r EXCEPT !.pc = p].fired = r.fired
            /\ [r EXCEPT !.pc = p].run_state = r.run_state
            /\ [r EXCEPT !.pc = p].exn = r.exn
        BY <2>0 DEF Run
      <4> QED
        BY <3>1, <3>2, <4>1, <4>2, <4>3, SoloInside
    <3>5. CASE \E e \in {"none", "memory", "other"} :
                 SetRun(t, 1, [r EXCEPT !.pc = "unwind", !.exn = e])
      <4>1. PICK e \in {"none", "memory", "other"} :
              SetRun(t, 1, [r EXCEPT !.pc = "unwind", !.exn = e])
        BY <3>5
      <4>2. [r EXCEPT !.pc = "unwind", !.exn = e] \in Run
        BY <2>0 DEF Run, Phase, Exn
      <4>3. /\ [r EXCEPT !.pc = "unwind", !.exn = e].pc = "unwind"
            /\ [r EXCEPT !.pc = "unwind", !.exn = e].mod = r.mod
            /\ [r EXCEPT !.pc = "unwind", !.exn = e].wd = r.wd
            /\ [r EXCEPT !.pc = "unwind", !.exn = e].fired = r.fired
            /\ [r EXCEPT !.pc = "unwind", !.exn = e].run_state = r.run_state
            /\ [r EXCEPT !.pc = "unwind", !.exn = e].exn # "timeout"
        BY <2>0 DEF Run
      <4> QED
        BY <3>1, <3>2, <4>1, <4>2, <4>3, SoloInside
    <3> QED
      BY <3>3, <3>4, <3>5
  <2>4. CASE CodeStep(t)
    <3>1. depth[t] = 1 /\ Top(t) = r /\ r.pc \in Inside
      BY <2>4, <2>0 DEF CodeStep, At, Inside
    <3>2. prot' = prot /\ timed_out' = timed_out /\ depth' = depth
      BY <2>4 DEF CodeStep
    <3>3. \/ \E p \in Inside : SetRun(t, 1, [r EXCEPT !.pc = p])
          \/ \E e \in {"none", "memory", "other"} :
               SetRun(t, 1, [r EXCEPT !.pc = "unwind", !.exn = e])
      BY <2>4, <3>1 DEF CodeStep, Goto, Throw, Inside
    <3>4. CASE \E p \in Inside : SetRun(t, 1, [r EXCEPT !.pc = p])
      <4>1. PICK p \in Inside : SetRun(t, 1, [r EXCEPT !.pc = p])
        BY <3>4
      <4>2. [r EXCEPT !.pc = p] \in Run
        BY <2>0 DEF Run, Inside, Phase
      <4>3. /\ [r EXCEPT !.pc = p].pc = p
            /\ [r EXCEPT !.pc = p].mod = r.mod
            /\ [r EXCEPT !.pc = p].wd = r.wd
            /\ [r EXCEPT !.pc = p].fired = r.fired
            /\ [r EXCEPT !.pc = p].run_state = r.run_state
            /\ [r EXCEPT !.pc = p].exn = r.exn
        BY <2>0 DEF Run
      <4> QED
        BY <3>1, <3>2, <4>1, <4>2, <4>3, SoloInside
    <3>5. CASE \E e \in {"none", "memory", "other"} :
                 SetRun(t, 1, [r EXCEPT !.pc = "unwind", !.exn = e])
      <4>1. PICK e \in {"none", "memory", "other"} :
              SetRun(t, 1, [r EXCEPT !.pc = "unwind", !.exn = e])
        BY <3>5
      <4>2. [r EXCEPT !.pc = "unwind", !.exn = e] \in Run
        BY <2>0 DEF Run, Phase, Exn
      <4>3. /\ [r EXCEPT !.pc = "unwind", !.exn = e].pc = "unwind"
            /\ [r EXCEPT !.pc = "unwind", !.exn = e].mod = r.mod
            /\ [r EXCEPT !.pc = "unwind", !.exn = e].wd = r.wd
            /\ [r EXCEPT !.pc = "unwind", !.exn = e].fired = r.fired
            /\ [r EXCEPT !.pc = "unwind", !.exn = e].run_state = r.run_state
            /\ [r EXCEPT !.pc = "unwind", !.exn = e].exn # "timeout"
        BY <2>0 DEF Run
      <4> QED
        BY <3>1, <3>2, <4>1, <4>2, <4>3, SoloInside
    <3> QED
      BY <3>3, <3>4, <3>5
  <2>5. CASE CodeFault(t)
    <3>1. depth[t] = 1 /\ Top(t) = r /\ r.pc \in Inside
      BY <2>5, <2>0 DEF CodeFault, At, Inside
    <3>2. prot' = prot /\ timed_out' = timed_out /\ depth' = depth
      BY <2>5 DEF CodeFault
    <3>3. \/ \E p \in Inside : SetRun(t, 1, [r EXCEPT !.pc = p])
          \/ \E e \in {"none", "memory", "other"} :
               SetRun(t, 1, [r EXCEPT !.pc = "unwind", !.exn = e])
      BY <2>5, <3>1 DEF CodeFault, Goto, Throw, Inside
    <3>4. CASE \E p \in Inside : SetRun(t, 1, [r EXCEPT !.pc = p])
      <4>1. PICK p \in Inside : SetRun(t, 1, [r EXCEPT !.pc = p])
        BY <3>4
      <4>2. [r EXCEPT !.pc = p] \in Run
        BY <2>0 DEF Run, Inside, Phase
      <4>3. /\ [r EXCEPT !.pc = p].pc = p
            /\ [r EXCEPT !.pc = p].mod = r.mod
            /\ [r EXCEPT !.pc = p].wd = r.wd
            /\ [r EXCEPT !.pc = p].fired = r.fired
            /\ [r EXCEPT !.pc = p].run_state = r.run_state
            /\ [r EXCEPT !.pc = p].exn = r.exn
        BY <2>0 DEF Run
      <4> QED
        BY <3>1, <3>2, <4>1, <4>2, <4>3, SoloInside
    <3>5. CASE \E e \in {"none", "memory", "other"} :
                 SetRun(t, 1, [r EXCEPT !.pc = "unwind", !.exn = e])
      <4>1. PICK e \in {"none", "memory", "other"} :
              SetRun(t, 1, [r EXCEPT !.pc = "unwind", !.exn = e])
        BY <3>5
      <4>2. [r EXCEPT !.pc = "unwind", !.exn = e] \in Run
        BY <2>0 DEF Run, Phase, Exn
      <4>3. /\ [r EXCEPT !.pc = "unwind", !.exn = e].pc = "unwind"
            /\ [r EXCEPT !.pc = "unwind", !.exn = e].mod = r.mod
            /\ [r EXCEPT !.pc = "unwind", !.exn = e].wd = r.wd
            /\ [r EXCEPT !.pc = "unwind", !.exn = e].fired = r.fired
            /\ [r EXCEPT !.pc = "unwind", !.exn = e].run_state = r.run_state
            /\ [r EXCEPT !.pc = "unwind", !.exn = e].exn # "timeout"
        BY <2>0 DEF Run
      <4> QED
        BY <3>1, <3>2, <4>1, <4>2, <4>3, SoloInside
    <3> QED
      BY <3>3, <3>4, <3>5
  <2>6. CASE HostReturn(t)
    <3>1. depth[t] = 1 /\ Top(t) = r /\ r.pc \in Inside
      BY <2>6, <2>0 DEF HostReturn, At, Inside
    <3>2. prot' = prot /\ timed_out' = timed_out /\ depth' = depth
      BY <2>6 DEF HostReturn
    <3>3. \/ \E p \in Inside : SetRun(t, 1, [r EXCEPT !.pc = p])
          \/ \E e \in {"none", "memory", "other"} :
               SetRun(t, 1, [r EXCEPT !.pc = "unwind", !.exn = e])
      BY <2>6, <3>1 DEF HostReturn, Goto, Throw, Inside
    <3>4. CASE \E p \in Inside : SetRun(t, 1, [r EXCEPT !.pc = p])
      <4>1. PICK p \in Inside : SetRun(t, 1, [r EXCEPT !.pc = p])
        BY <3>4
      <4>2. [r EXCEPT !.pc = p] \in Run
        BY <2>0 DEF Run, Inside, Phase
      <4>3. /\ [r EXCEPT !.pc = p].pc = p
            /\ [r EXCEPT !.pc = p].mod = r.mod
            /\ [r EXCEPT !.pc = p].wd = r.wd
            /\ [r EXCEPT !.pc = p].fired = r.fired
            /\ [r EXCEPT !.pc = p].run_state = r.run_state
            /\ [r EXCEPT !.pc = p].exn = r.exn
        BY <2>0 DEF Run
      <4> QED
        BY <3>1, <3>2, <4>1, <4>2, <4>3, SoloInside
    <3>5. CASE \E e \in {"none", "memory", "other"} :
                 SetRun(t, 1, [r EXCEPT !.pc = "unwind", !.exn = e])
      <4>1. PICK e \in {"none", "memory", "other"} :
              SetRun(t, 1, [r EXCEPT !.pc = "unwind", !.exn = e])
        BY <3>5
      <4>2. [r EXCEPT !.pc = "unwind", !.exn = e] \in Run
        BY <2>0 DEF Run, Phase, Exn
      <4>3. /\ [r EXCEPT !.pc = "unwind", !.exn = e].pc = "unwind"
            /\ [r EXCEPT !.pc = "unwind", !.exn = e].mod = r.mod
            /\ [r EXCEPT !.pc = "unwind", !.exn = e].wd = r.wd
            /\ [r EXCEPT !.pc = "unwind", !.exn = e].fired = r.fired
            /\ [r EXCEPT !.pc = "unwind", !.exn = e].run_state = r.run_state
            /\ [r EXCEPT !.pc = "unwind", !.exn = e].exn # "timeout"
        BY <2>0 DEF Run
      <4> QED
        BY <3>1, <3>2, <4>1, <4>2, <4>3, SoloInside
    <3> QED
      BY <3>3, <3>4, <3>5
  <2>7. CASE SignalHandler(t)
    <3>1. depth[t] = 1 /\ Top(t) = r /\ r.pc \in Inside
      BY <2>7, <2>0 DEF SignalHandler, At, Inside
    <3>2. prot' = prot /\ timed_out' = timed_out /\ depth' = depth
      BY <2>7 DEF SignalHandler
    <3>3. \/ \E p \in Inside : SetRun(t, 1, [r EXCEPT !.pc = p])
          \/ \E e \in {"none", "memory", "other"} :
               SetRun(t, 1, [r EXCEPT !.pc = "unwind", !.exn = e])
      BY <2>7, <3>1 DEF SignalHandler, Goto, Throw, Inside
    <3>4. CASE \E p \in Inside : SetRun(t, 1, [r EXCEPT !.pc = p])
      <4>1. PICK p \in Inside : SetRun(t, 1, [r EXCEPT !.pc = p])
        BY <3>4
      <4>2. [r EXCEPT !.pc = p] \in Run
        BY <2>0 DEF Run, Inside, Phase
      <4>3. /\ [r EXCEPT !.pc = p].pc = p
            /\ [r EXCEPT !.pc = p].mod = r.mod
            /\ [r EXCEPT !.pc = p].wd = r.wd
            /\ [r EXCEPT !.pc = p].fired = r.fired
            /\ [r EXCEPT !.pc = p].run_state = r.run_state
            /\ [r EXCEPT !.pc = p].exn = r.exn
        BY <2>0 DEF Run
      <4> QED
        BY <3>1, <3>2, <4>1, <4>2, <4>3, SoloInside
    <3>5. CASE \E e \in {"none", "memory", "other"} :
                 SetRun(t, 1, [r EXCEPT !.pc = "unwind", !.exn = e])
      <4>1. PICK e \in {"none", "memory", "other"} :
              SetRun(t, 1, [r EXCEPT !.pc = "unwind", !.exn = e])
        BY <3>5
      <4>2. [r EXCEPT !.pc = "unwind", !.exn = e] \in Run
        BY <2>0 DEF Run, Phase, Exn
      <4>3. /\ [r EXCEPT !.pc = "unwind", !.exn = e].pc = "unwind"
            /\ [r EXCEPT !.pc = "unwind", !.exn = e].mod = r.mod
            /\ [r EXCEPT !.pc = "unwind", !.exn = e].wd = r.wd
            /\ [r EXCEPT !.pc = "unwind", !.exn = e].fired = r.fired
            /\ [r EXCEPT !.pc = "unwind", !.exn = e].run_state = r.run_state
            /\ [r EXCEPT !.pc = "unwind", !.exn = e].exn # "timeout"
        BY <2>0 DEF Run
      <4> QED
        BY <3>1, <3>2, <4>1, <4>2, <4>3, SoloInside
    <3> QED
      BY <3>3, <3>4, <3>5
  <2>8. CASE GuardStop(t)
    <3> DEFINE r2 == [r EXCEPT !.pc = "join", !.run_state = "stopped"]
    <3>1. depth[t] = 1 /\ Top(t) = r
      BY <2>8, <2>0 DEF GuardStop, At
    <3>2. r2 \in Run
      BY <2>0 DEF Run, Phase, RunState, Exn
    <3>3. SetRun(t, 1, r2) /\ depth' = depth
      BY <2>8, <3>1 DEF GuardStop
    <3>4. SoloRun(t, depth[t], timed_out[t], r2)
      BY <2>8, <2>0, <3>1 DEF GuardStop, At, SoloRun, Run, AfterJoin
    <3>5. \A m : Owner(timed_out[t], r, m) => Owner(timed_out[t], r2, m)
      BY <2>8, <2>0, <3>1 DEF GuardStop, At, Owner, Run
    <3>6. prot' = prot /\ timed_out' = timed_out
      BY <2>8 DEF GuardStop
    <3> HIDE DEF r2
    <3> QED
      BY <2>0, <3>2, <3>3, <3>4, <3>5, <3>6, SoloStep
  <2>9. CASE GuardJoin(t)
    <3> DEFINE r2 == [r EXCEPT !.pc = "catch"]
    <3>1. depth[t] = 1 /\ Top(t) = r
      BY <2>9, <2>0 DEF GuardJoin, At
    <3>2. r2 \in Run
      BY <2>0 DEF Run, Phase, RunState, Exn
    <3>3. SetRun(t, 1, r2) /\ depth' = depth
      BY <2>9, <3>1 DEF GuardJoin, Goto
    <3>4. SoloRun(t, depth[t], timed_out[t], r2)
      BY <2>9, <2>0, <3>1 DEF GuardJoin, At, SoloRun, Run, AfterJoin
    <3>5. \A m : Owner(timed_out[t], r, m) => Owner(timed_out[t], r2, m)
      BY <2>9, <2>0, <3>1 DEF GuardJoin, At, Owner, Run
    <3>6. prot' = prot /\ timed_out' = timed_out
      BY <2>9 DEF GuardJoin
    <3> HIDE DEF r2
    <3> QED
      BY <2>0, <3>2, <3>3, <3>4, <3>5, <3>6, SoloStep
  <2>10. CASE CatchMemory(t)
    <3> DEFINE r2 == [r EXCEPT !.pc = "check",
                                    !.exn = IF @ = "memory" /\ timed_out[t]
                                            THEN "timeout" ELSE @]
    <3>1. depth[t] = 1 /\ Top(t) = r
      BY <2>10, <2>0 DEF CatchMemory, At
    <3>2. r2 \in Run
      BY <2>0 DEF Run, Phase, RunState, Exn
    <3>3. SetRun(t, 1, r2) /\ depth' = depth
      BY <2>10, <3>1 DEF CatchMemory
    <3>4. SoloRun(t, depth[t], timed_out[t], r2)
      BY <2>10, <2>0, <3>1 DEF CatchMemory, At, SoloRun, Run, AfterJoin
    <3>5. \A m : Owner(timed_out[t], r, m) => Owner(timed_out[t], r2, m)
      BY <2>10, <2>0, <3>1 DEF CatchMemory, At, Owner, Run
    <3>6. prot' = prot /\ timed_out' = timed_out
      BY <2>10 DEF CatchMemory
    <3> HIDE DEF r2
    <3> QED
      BY <2>0, <3>2, <3>3, <3>4, <3>5, <3>6, SoloStep
  <2>11. CASE CheckTimedOut(t)
    <3> DEFINE r2 == [r EXCEPT !.pc = IF timed_out[t] THEN "enable" ELSE "leave"]
    <3>1. depth[t] = 1 /\ Top(t) = r
      BY <2>11, <2>0 DEF CheckTimedOut, At
    <3>2. r2 \in Run
      BY <2>0 DEF Run, Phase, RunState, Exn
    <3>3. SetRun(t, 1, r2) /\ depth' = depth
      BY <2>11, <3>1 DEF CheckTimedOut, Goto
    <3>4. SoloRun(t, depth[t], timed_out[t], r2)
      BY <2>11, <2>0, <3>1 DEF CheckTimedOut, At, SoloRun, Run, AfterJoin
    <3>5. \A m : Owner(timed_out[t], r, m) => Owner(timed_out[t], r2, m)
      BY <2>11, <2>0, <3>1 DEF CheckTimedOut, At, Owner, Run
    <3>6. prot' = prot /\ timed_out' = timed_out
      BY <2>11 DEF CheckTimedOut
    <3> HIDE DEF r2
    <3> QED
      BY <2>0, <3>2, <3>3, <3>4, <3>5, <3>6, SoloStep
  <2>12. CASE EnableCode(t)
    <3> DEFINE r2 == [r EXCEPT !.pc = "clear"]
    <3>1. depth[t] = 1 /\ Top(t) = r
      BY <2>12, <2>0 DEF EnableCode, At
    <3>2. r2 \in Run
      BY <2>0 DEF Run, Phase, RunState, Exn
    <3>3. SetRun(t, 1, r2) /\ depth' = depth
      BY <2>12, <3>1 DEF EnableCode, Goto
    <3>4. SoloRun(t, depth[t], timed_out[t], r2)
      BY <2>12, <2>0, <3>1 DEF EnableCode, At, SoloRun, Run, AfterJoin
    <3>5. \A m \in Modules : prot'[m] = "disabled" =>
            prot[m] = "disabled" /\ ~Owner(timed_out[t], r, m)
      BY <2>12, <3>1, <2>0 DEF EnableCode, Owner, SoloInv, TypeOK
    <3>6. timed_out' = timed_out
      BY <2>12 DEF EnableCode
    <3> HIDE DEF r2
    <3> QED
      BY <2>0, <3>2, <3>3, <3>4, <3>5, <3>6, SoloStep
  <2>13. CASE ClearTimedOut(t)
    <3> DEFINE r2 == [r EXCEPT !.pc = "leave"]
    <3>1. depth[t] = 1 /\ Top(t) = r
      BY <2>13, <2>0 DEF ClearTimedOut, At
    <3>2. r2 \in Run
      BY <2>0 DEF Run, Phase, RunState, Exn
    <3>3. SetRun(t, 1, r2) /\ depth' = depth
      BY <2>13, <3>1 DEF ClearTimedOut, Goto
    <3>4. SoloRun(t, depth[t], FALSE, r2)
      BY <2>13, <2>0, <3>1 DEF ClearTimedOut, At, SoloRun, Run, AfterJoin
    <3>5. prot' = prot /\ \A m \in Modules : ~Owner(timed_out[t], r, m)
      BY <2>13, <3>1 DEF ClearTimedOut, At, Owner
    <3>6. timed_out' = [timed_out EXCEPT ![t] = FALSE]
      BY <2>13 DEF ClearTimedOut
    <3> HIDE DEF r2
    <3> QED
      BY <2>0, <3>2, <3>3, <3>4, <3>5, <3>6, SoloStep
  <2>14. CASE LeaveRun(t)
    <3>1. depth[t] = 1 /\ Top(t) = r /\ r.pc = "leave"
      BY <2>14, <2>0 DEF LeaveRun, At
    <3>2. SetRun(t, 1, NoRun) /\ depth' = [depth EXCEPT ![t] = 0]
      BY <2>14, <3>1 DEF LeaveRun
    <3>3. ~timed_out[t]
      BY <3>1, <2>0 DEF SoloRun
    <3>4. SoloRun(t, 0, timed_out[t], NoRun)
      BY <3>3, <2>0 DEF SoloRun, NoRun, AfterJoin
    <3>5. \A m : ~Owner(timed_out[t], r, m)
      BY <3>3 DEF Owner
    <3>6. prot' = prot /\ timed_out' = timed_out
      BY <2>14 DEF LeaveRun
    <3> QED
      BY <2>0, <3>2, <3>4, <3>5, <3>6, NoRunType, SoloStep
  <2> QED
    BY <1>2, <2>1, <2>2, <2>3, <2>4, <2>5, <2>6, <2>7, <2>8, <2>9, <2>10, <2>11, <2>12, <2>13, <2>14 DEF ThreadStep
<1>3. ASSUME NEW t \in Threads, NEW i \in Level, TimerStep(t, i) PROVE SoloInv'
  <2> DEFINE r == run[t][1]
  <2>0. /\ r \in Run /\ timed_out[t] \in BOOLEAN /\ i = 1
        /\ SoloRun(t, depth[t], timed_out[t], r)
        /\ depth = [depth EXCEPT ![t] = depth[t]]
        /\ timed_out = [timed_out EXCEPT ![t] = timed_out[t]]
    BY <1>3 DEF SoloInv, TypeOK, Level
  <2>1. CASE TimerExpires(t, i)
    <3> DEFINE r2 == [r EXCEPT !.run_state = "interrupted", !.wd = "set_flag", !.fired = TRUE]
    <3>1. r2 \in Run
      BY <2>0 DEF Run, Timer, RunState
    <3>2. SetRun(t, 1, r2) /\ depth' = depth /\ timed_out' = [timed_out EXCEPT ![t] = timed_out[t]]
      BY <2>1, <2>0 DEF TimerExpires
    <3>3. SoloRun(t, depth[t], timed_out[t], r2)
      BY <2>1, <2>0 DEF TimerExpires, SoloRun, Run, AfterJoin, NoRun
    <3>4. \A m \in Modules : prot'[m] = "disabled" =>
            \/ Owner(timed_out[t], r2, m)
            \/ prot[m] = "disabled" /\ ~Owner(timed_out[t], r, m)
      BY <2>1, <2>0 DEF TimerExpires, Owner, SoloRun, Run, SoloInv, TypeOK, AfterJoin
    <3> HIDE DEF r2
    <3> QED
      BY <2>0, <3>1, <3>2, <3>3, <3>4, SoloStep
  <2>2. CASE TimerStopped(t, i)
    <3> DEFINE r2 == [r EXCEPT !.wd = "exited"]
    <3>1. r2 \in Run
      BY <2>0 DEF Run, Timer, RunState
    <3>2. SetRun(t, 1, r2) /\ depth' = depth /\ timed_out' = [timed_out EXCEPT ![t] = timed_out[t]]
      BY <2>2, <2>0 DEF TimerStopped
    <3>3. SoloRun(t, depth[t], timed_out[t], r2)
      BY <2>2, <2>0 DEF TimerStopped, SoloRun, Run, AfterJoin, NoRun
    <3>4. \A m \in Modules : prot'[m] = "disabled" =>
            \/ Owner(timed_out[t], r2, m)
            \/ prot[m] = "disabled" /\ ~Owner(timed_out[t], r, m)
      BY <2>2, <2>0 DEF TimerStopped, Owner, SoloRun, Run, SoloInv, TypeOK, AfterJoin
    <3> HIDE DEF r2
    <3> QED
      BY <2>0, <3>1, <3>2, <3>3, <3>4, SoloStep
  <2>3. CASE CallbackSetFlag(t, i)
    <3> DEFINE r2 == [r EXCEPT !.wd = "disable"]
    <3>1. r2 \in Run
      BY <2>0 DEF Run, Timer, RunState
    <3>2. SetRun(t, 1, r2) /\ depth' = depth /\ timed_out' = [timed_out EXCEPT ![t] = TRUE]
      BY <2>3, <2>0 DEF CallbackSetFlag
    <3>3. SoloRun(t, depth[t], TRUE, r2)
      BY <2>3, <2>0 DEF CallbackSetFlag, SoloRun, Run, AfterJoin, NoRun
    <3>4. \A m \in Modules : prot'[m] = "disabled" =>
            \/ Owner(TRUE, r2, m)
            \/ prot[m] = "disabled" /\ ~Owner(timed_out[t], r, m)
      BY <2>3, <2>0 DEF CallbackSetFlag, Owner, SoloRun, Run, SoloInv, TypeOK, AfterJoin
    <3> HIDE DEF r2
    <3> QED
      BY <2>0, <3>1, <3>2, <3>3, <3>4, SoloStep
  <2>4. CASE CallbackDisable(t, i)
    <3> DEFINE r2 == [r EXCEPT !.wd = "exited"]
    <3>1. r2 \in Run
      BY <2>0 DEF Run, Timer, RunState
    <3>2. SetRun(t, 1, r2) /\ depth' = depth /\ timed_out' = [timed_out EXCEPT ![t] = timed_out[t]]
      BY <2>4, <2>0 DEF CallbackDisable
    <3>3. SoloRun(t, depth[t], timed_out[t], r2)
      BY <2>4, <2>0 DEF CallbackDisable, SoloRun, Run, AfterJoin, NoRun
    <3>4. \A m \in Modules : prot'[m] = "disabled" =>
            \/ Owner(timed_out[t], r2, m)
            \/ prot[m] = "disabled" /\ ~Owner(timed_out[t], r, m)
      BY <2>4, <2>0 DEF CallbackDisable, Owner, SoloRun, Run, SoloInv, TypeOK, AfterJoin
    <3> HIDE DEF r2
    <3> QED
      BY <2>0, <3>1, <3>2, <3>3, <3>4, SoloStep
  <2> QED
    BY <1>3, <2>1, <2>2, <2>3, <2>4 DEF TimerStep
<1> QED
  BY <1>1, <1>2, <1>3 DEF Next

\* With one run at a time the invariant always holds.
LEMMA SoloInvCorrect == ASSUME MaxDepth = 1 PROVE Spec => []SoloInv
<1>1. Init => SoloInv
  <2> SUFFICES ASSUME Init PROVE SoloInv
    OBVIOUS
  <2>1. TypeOK
    BY NoRunType, MaxDepthAssumption DEF Init, TypeOK, Level, Exn
  <2>2. ASSUME NEW t \in Threads
        PROVE  SoloRun(t, depth[t], timed_out[t], run[t][1])
    BY DEF Init, SoloRun, NoRun, Level, AfterJoin
  <2> QED
    BY <2>1, <2>2 DEF SoloInv, Init
<1>2. SoloInv /\ TypeOK' /\ [Next]_vars => SoloInv'
  BY SoloInvInductive
<1> QED
  BY <1>1, <1>2, TypeCorrect, PTL DEF Spec

\* When no thread nests timed_run calls, code pages are inaccessible only
\* while a thread that has timed out is on its way to re-enabling them: no
\* sequence of timeouts of threads sharing a module leaves it unusable.
THEOREM DisabledCodeHasOwner ==
  ASSUME MaxDepth = 1 PROVE Spec => []DisabledHasOwner
<1>1. SoloInv => DisabledHasOwner
  <2> SUFFICES ASSUME SoloInv, NEW m \in Modules, prot[m] = "disabled"
               PROVE  \E t \in Threads : timed_out[t]
                        /\ \E i \in Level : /\ run[t][i].mod = m
                                            /\ run[t][i].fired
                                            /\ run[t][i].pc \notin {"clear", "leave"}
    BY DEF DisabledHasOwner
  <2>1. PICK t \in Threads : Owner(timed_out[t], run[t][1], m)
    BY DEF SoloInv
  <2>2. 1 \in Level /\ SoloRun(t, depth[t], timed_out[t], run[t][1])
    BY DEF SoloInv, Level
  <2> QED
    BY <2>1, <2>2 DEF Owner, SoloRun
<1> QED
  BY <1>1, SoloInvCorrect, PTL

\* When no thread nests timed_run calls, the handler's reason for retrying a
\* faulting instruction is right: another thread has timed out and is still
\* inside its timed_run.
THEOREM RetryIsJustified ==
  ASSUME MaxDepth = 1 PROVE Spec => []RetryIsForOtherThread
<1>1. SoloInv => RetryIsForOtherThread
  <2> SUFFICES ASSUME SoloInv, NEW t \in Threads, At(t, "sig_code"), ~timed_out[t],
                      prot[Top(t).mod] = "disabled"
               PROVE  \E u \in Threads \ {t} : timed_out[u] /\ depth[u] > 0
    BY DEF RetryIsForOtherThread
  <2>1. Top(t) = run[t][1] /\ Top(t).pc # "idle"
    BY DEF SoloInv, TypeOK, At, Top
  <2>2. Top(t).mod \in Modules
    BY <2>1 DEF SoloInv, SoloRun
  <2>3. PICK u \in Threads : Owner(timed_out[u], run[u][1], Top(t).mod)
    BY <2>2 DEF SoloInv
  <2>4. SoloRun(u, depth[u], timed_out[u], run[u][1]) /\ depth[u] \in 0..MaxDepth
    BY DEF SoloInv, TypeOK
  <2>5. run[u][1].pc # "idle"
    BY <2>3, <2>4 DEF SoloRun, Owner, NoRun
  <2> QED
    BY <2>3, <2>4, <2>5 DEF SoloRun, Owner
<1> QED
  BY <1>1, SoloInvCorrect, PTL

(***************************************************************************)
(* Refinement: timed_run implements the bounded execution it promises.     *)
(***************************************************************************)
Calls == [t \in Threads |-> CallState(depth[t], run[t][1])]

\* A step of one thread that changes neither its depth nor whether its
\* watchdog fired, and no result, is a stuttering step.
LEMMA SoloStutter ==
  ASSUME SoloInv, MaxDepth = 1, NEW t \in Threads, NEW r2, SetRun(t, 1, r2),
         r2.fired = run[t][1].fired, depth' = depth, result' = result
  PROVE  Calls' = Calls /\ result' = result
<1>1. 1 \in Level
  BY DEF Level
<1>2. \A u \in Threads : CallState(depth'[u], run'[u][1]) = CallState(depth[u], run[u][1])
  BY <1>1 DEF SoloInv, TypeOK, SetRun, CallState
<1> QED
  BY <1>2 DEF Calls

\* A step that moves thread t's call from one abstract state to another
\* leaves the other calls alone.
LEMMA SoloMove ==
  ASSUME SoloInv, MaxDepth = 1, NEW t \in Threads, NEW r2, SetRun(t, 1, r2), NEW d2,
         depth' = [depth EXCEPT ![t] = d2]
  PROVE  Calls' = [Calls EXCEPT ![t] = CallState(d2, r2)]
<1>1. 1 \in Level
  BY DEF Level
<1>2. \A u \in Threads : CallState(depth'[u], run'[u][1]) =
                         IF u = t THEN CallState(d2, r2) ELSE CallState(depth[u], run[u][1])
  BY <1>1 DEF SoloInv, TypeOK, SetRun
<1> QED
  BY <1>2 DEF Calls

\* A step of timed_run, the watchdog or the handler is a step of a bounded
\* execution, or changes nothing that it shows.
LEMMA RefinementStep ==
  ASSUME MaxDepth = 1, SoloInv, [Next]_vars
  PROVE  [BE!BNext]_(BE!bvars)
<1>1. CASE UNCHANGED vars
  BY <1>1 DEF vars, BE!bvars
<1>2. ASSUME NEW t \in Threads, ThreadStep(t) PROVE [BE!BNext]_(BE!bvars)
  <2> DEFINE r == run[t][1]
  <2>0. /\ r \in Run
        /\ SoloRun(t, depth[t], timed_out[t], r)
        /\ depth[t] \in {0, 1}
        /\ depth[t] > 0 => depth[t] = 1 /\ Top(t) = r
    BY DEF SoloInv, TypeOK, Level, Top
  <2>1. CASE \E m \in Modules : BeginRun(t, m)
    <3>1. PICK m \in Modules : BeginRun(t, m)
      BY <2>1
    <3>2. depth[t] = 0
      BY <3>1, <2>0 DEF BeginRun
    <3>3. depth[t] + 1 = 1
      BY <3>2
    <3>4. depth[t] = 0 /\ depth' = [depth EXCEPT ![t] = 1] /\ result' = result
      BY <3>1, <3>2, <3>3 DEF BeginRun
    <3>5. PICK r2 : SetRun(t, 1, r2) /\ r2.fired = FALSE
      BY <3>1, <3>4 DEF BeginRun
    <3>6. CallState(1, r2) = "running"
      BY <3>5 DEF CallState
    <3>7. Calls' = [Calls EXCEPT ![t] = CallState(1, r2)]
      BY <3>4, <3>5, SoloMove
    <3>8. Calls' = [Calls EXCEPT ![t] = "running"]
      BY <3>6, <3>7
    <3>9. Calls[t] = "idle"
      BY <3>4 DEF CallState, Calls
    <3> QED
      BY <3>4, <3>8, <3>9 DEF BE!BNext, BE!Begin, Calls
  <2>2. CASE \/ Execute(t) \/ FinishF(t) \/ CodeStep(t) \/ CodeFault(t) \/ HostReturn(t)
             \/ SignalHandler(t) \/ GuardStop(t) \/ GuardJoin(t) \/ CatchMemory(t)
             \/ CheckTimedOut(t) \/ EnableCode(t) \/ ClearTimedOut(t)
    <3>1. depth[t] = 1 /\ Top(t) = r
      BY <2>0, <2>2 DEF Execute, FinishF, CodeStep, CodeFault, HostReturn, SignalHandler,
         GuardStop, GuardJoin, CatchMemory, CheckTimedOut, EnableCode, ClearTimedOut, At
    <3>2. depth' = depth /\ result' = result
      BY <2>2 DEF Execute, FinishF, CodeStep, CodeFault, HostReturn, SignalHandler,
         GuardStop, GuardJoin, CatchMemory, CheckTimedOut, EnableCode, ClearTimedOut
    <3>3. \E p, e, st : SetRun(t, 1, [r EXCEPT !.pc = p])
                      \/ SetRun(t, 1, [r EXCEPT !.pc = p, !.exn = e])
                      \/ SetRun(t, 1, [r EXCEPT !.pc = p, !.run_state = st])
      BY <2>2, <3>1 DEF Execute, FinishF, CodeStep, CodeFault, HostReturn, SignalHandler,
         GuardStop, GuardJoin, CatchMemory, CheckTimedOut, EnableCode, ClearTimedOut,
         Goto, Throw
    <3>4. \E r2 : SetRun(t, 1, r2) /\ r2.fired = r.fired
      <4>1. \A p, e, st : /\ [r EXCEPT !.pc = p].fired = r.fired
                          /\ [r EXCEPT !.pc = p, !.exn = e].fired = r.fired
                          /\ [r EXCEPT !.pc = p, !.run_state = st].fired = r.fired
        BY <2>0 DEF Run
      <4>2. PICK p, e, st : \/ SetRun(t, 1, [r EXCEPT !.pc = p])
                            \/ SetRun(t, 1, [r EXCEPT !.pc = p, !.exn = e])
                            \/ SetRun(t, 1, [r EXCEPT !.pc = p, !.run_state = st])
        BY <3>3
      <4> DEFINE ra == [r EXCEPT !.pc = p]
                 rb == [r EXCEPT !.pc = p, !.exn = e]
                 rc == [r EXCEPT !.pc = p, !.run_state = st]
      <4>3. /\ SetRun(t, 1, ra) \/ SetRun(t, 1, rb) \/ SetRun(t, 1, rc)
            /\ ra.fired = r.fired /\ rb.fired = r.fired /\ rc.fired = r.fired
        BY <4>1, <4>2
      <4> HIDE DEF ra, rb, rc
      <4> QED
        BY <4>3
    <3> QED
      BY <3>2, <3>4, SoloStutter DEF BE!bvars, Calls
  <2>3. CASE LeaveRun(t)
    <3>1. depth[t] = 1 /\ Top(t) = r /\ r.pc = "leave"
      BY <2>3, <2>0 DEF LeaveRun, At
    <3>2. /\ SetRun(t, 1, NoRun) /\ depth' = [depth EXCEPT ![t] = 0]
          /\ result' = [result EXCEPT ![t] = r.exn]
      BY <2>3, <3>1 DEF LeaveRun
    <3>3. Calls' = [Calls EXCEPT ![t] = "idle"]
      BY <3>2, SoloMove DEF CallState
    <3>4. Calls[t] = IF r.fired THEN "expired" ELSE "running"
      BY <3>1 DEF CallState, Calls
    <3>5. /\ r.exn \in Exn
          /\ r.exn = "timeout" => r.fired
          /\ r.exn = "memory" => ~r.fired
      BY <2>0, <3>1 DEF SoloRun, AfterJoin, Run
    <3>6. CASE r.fired
      BY <3>2, <3>3, <3>4, <3>5, <3>6 DEF BE!BNext, BE!EndExpired, Exn, Calls
    <3>7. CASE ~r.fired
      BY <3>2, <3>3, <3>4, <3>5, <3>7 DEF BE!BNext, BE!EndInTime, Exn, Calls
    <3> QED
      BY <3>6, <3>7
  <2> QED
    BY <1>2, <2>1, <2>2, <2>3 DEF ThreadStep
<1>3. ASSUME NEW t \in Threads, NEW i \in Level, TimerStep(t, i)
      PROVE  [BE!BNext]_(BE!bvars)
  <2> DEFINE r == run[t][1]
  <2>0. r \in Run /\ i = 1 /\ SoloRun(t, depth[t], timed_out[t], r)
        /\ depth[t] \in {0, 1} /\ depth = [depth EXCEPT ![t] = depth[t]]
    BY <1>3 DEF SoloInv, TypeOK, Level
  <2>1. CASE TimerExpires(t, i)
    <3>0. [r EXCEPT !.run_state = "interrupted", !.wd = "set_flag", !.fired = TRUE].fired
            = TRUE
      BY <2>0 DEF Run
    <3>1. PICK r2 : SetRun(t, 1, r2) /\ r2.fired = TRUE
      BY <2>0, <2>1, <3>0 DEF TimerExpires
    <3>2. depth' = depth /\ result' = result
      BY <2>1 DEF TimerExpires
    <3>3. r.pc # "idle" /\ ~r.fired /\ t \in Timed
      BY <2>0, <2>1 DEF TimerExpires, SoloRun, NoRun
    <3>4. depth[t] = 1
      BY <2>0, <3>3 DEF SoloRun
    <3>5. Calls' = [Calls EXCEPT ![t] = "expired"]
      BY <2>0, <3>1, <3>2, <3>4, SoloMove DEF CallState
    <3>6. Calls[t] = "running"
      BY <3>3, <3>4 DEF CallState, Calls
    <3> QED
      BY <3>2, <3>3, <3>5, <3>6 DEF BE!BNext, BE!Expire, Calls
  <2>2. CASE TimerStopped(t, i) \/ CallbackSetFlag(t, i) \/ CallbackDisable(t, i)
    <3>1. \E w : SetRun(t, 1, [r EXCEPT !.wd = w])
      BY <2>0, <2>2 DEF TimerStopped, CallbackSetFlag, CallbackDisable
    <3>2. \E r2 : SetRun(t, 1, r2) /\ r2.fired = r.fired
      BY <3>1, <2>0 DEF Run
    <3>3. depth' = depth /\ result' = result
      BY <2>2 DEF TimerStopped, CallbackSetFlag, CallbackDisable
    <3> QED
      BY <3>2, <3>3, SoloStutter DEF BE!bvars, Calls
  <2> QED
    BY <1>3, <2>1, <2>2 DEF TimerStep
<1> QED
  BY <1>1, <1>2, <1>3 DEF Next

\* When no thread nests timed_run calls, every step of timed_run, its timers
\* and the signal handler is a step the abstract bounded execution allows, or
\* a stuttering step: a run is reported as timed out only after its deadline,
\* and never as a memory violation after it.
THEOREM TimedRunImplementsBoundedExecution ==
  ASSUME MaxDepth = 1 PROVE Spec => ImplementsBoundedExecution
<1>1. Init => BE!BInit
  BY MaxDepthAssumption DEF Init, BE!BInit, CallState
<1>2. SoloInv /\ [Next]_vars => [BE!BNext]_(BE!bvars)
  BY RefinementStep
<1> QED
  BY <1>1, <1>2, SoloInvCorrect, PTL DEF Spec, ImplementsBoundedExecution, BE!BSpec

(***************************************************************************)
(* Runs nested to any depth: how the runs on a thread's stack, their       *)
(* timers and the thread's flag go together.                               *)
(***************************************************************************)

\* Slot i, which holds r, of a thread with d runs on its stack.
StackRun(i, d, r) ==
  /\ i > d => r = NoRun
  /\ i < d => r.pc \in {"f", "host"}
  /\ r.pc \in Inside => r.exn = "none"
  /\ r.wd \in {"set_flag", "disable"} => r.fired /\ r.pc \notin AfterJoin \cup {"join"}
  /\ r.pc \in AfterJoin => r.wd \in {"exited", "none"}
  /\ r.pc = "join" => r.run_state = "stopped"

\* Run r explains a flag that is set.
Explains(r) == r.fired /\ r.pc # "leave"

StackInv ==
  /\ TypeOK
  /\ \A t \in Threads : \A i \in Level : StackRun(i, depth[t], run[t][i])
  /\ \A t \in Threads : timed_out[t] => \E i \in Level : Explains(run[t][i])

\* A step of thread t or of one of its timers that changes one run and neither
\* begins nor leaves one.
LEMMA StackStep ==
  ASSUME StackInv, TypeOK', NEW t \in Threads, NEW i \in Level, NEW r2 \in Run, SetRun(t, i, r2),
         depth' = depth, NEW flag2, timed_out' = [timed_out EXCEPT ![t] = flag2],
         StackRun(i, depth[t], r2),
         flag2 => Explains(r2) \/ (timed_out[t] /\ ~Explains(run[t][i]))
  PROVE  StackInv'
<1>1. run'[t][i] = r2 /\ timed_out'[t] = flag2
  BY DEF StackInv, TypeOK, SetRun
<1>2. /\ \A j \in Level \ {i} : run'[t][j] = run[t][j]
      /\ \A u \in Threads \ {t} : run'[u] = run[u] /\ timed_out'[u] = timed_out[u]
  BY DEF StackInv, TypeOK, SetRun
<1>3. \A u \in Threads : \A j \in Level : StackRun(j, depth'[u], run'[u][j])
  BY <1>1, <1>2 DEF StackInv
<1>4. ASSUME NEW u \in Threads, timed_out'[u]
      PROVE  \E j \in Level : Explains(run'[u][j])
  <2>1. CASE u # t
    BY <1>2, <1>4, <2>1 DEF StackInv
  <2>2. CASE u = t /\ Explains(r2)
    BY <1>1, <2>2
  <2>3. CASE u = t /\ timed_out[t] /\ ~Explains(run[t][i])
    <3>1. PICK j \in Level : Explains(run[t][j])
      BY <2>3 DEF StackInv
    <3>2. run'[t][j] = run[t][j]
      BY <1>2, <2>3, <3>1
    <3>. QED
      BY <2>3, <3>1, <3>2
  <2>. QED
    BY <1>1, <1>4, <2>1, <2>2, <2>3
<1>. QED
  BY <1>3, <1>4 DEF StackInv

\* The same, of the run that executes, when the flag is not touched.
LEMMA TopStep ==
  ASSUME StackInv, TypeOK', NEW t \in Threads, depth[t] > 0, NEW r2 \in Run,
         SetRun(t, depth[t], r2), depth' = depth, timed_out' = timed_out,
         StackRun(depth[t], depth[t], r2),
         timed_out[t] /\ Explains(Top(t)) => Explains(r2)
  PROVE  StackInv'
<1>1. depth[t] \in Level /\ timed_out' = [timed_out EXCEPT ![t] = timed_out[t]]
  BY TopType DEF StackInv, TypeOK
<1>. QED
  BY <1>1, StackStep DEF Top

\* What the invariant says of the run that executes.
LEMMA TopRun ==
  ASSUME StackInv, NEW t \in Threads, depth[t] > 0
  PROVE  Top(t) \in Run /\ depth[t] \in Level /\ StackRun(depth[t], depth[t], Top(t))
BY TopType DEF StackInv, Top

\* timed_run is entered: the slot of the new run was not in use.
LEMMA BeginStack ==
  ASSUME StackInv, TypeOK', NEW t \in Threads, NEW m \in Modules, BeginRun(t, m)
  PROVE  StackInv'
<1>. DEFINE k == depth[t] + 1
            r2 == [mod |-> m, pc |-> "f",
                   wd |-> IF t \in Timed THEN "waiting" ELSE "none",
                   run_state |-> IF t \in Timed THEN "running" ELSE "stopped",
                   exn |-> "none", fired |-> FALSE]
<1>1. k \in Level /\ depth[t] \in 0..MaxDepth /\ SetRun(t, k, r2)
      /\ depth' = [depth EXCEPT ![t] = k] /\ timed_out' = timed_out
  BY MaxDepthAssumption DEF StackInv, TypeOK, BeginRun, Level
<1>2. /\ r2.pc = "f" /\ r2.exn = "none" /\ r2.wd \notin {"set_flag", "disable"}
  OBVIOUS
<1>3. StackRun(k, k, r2)
  BY <1>1, <1>2 DEF StackRun, AfterJoin
<1>4. /\ run'[t][k] = r2 /\ depth'[t] = k
      /\ \A j \in Level \ {k} : run'[t][j] = run[t][j]
      /\ \A u \in Threads \ {t} : run'[u] = run[u] /\ depth'[u] = depth[u]
  BY <1>1 DEF StackInv, TypeOK, SetRun
<1>5. run[t][k] = NoRun
  BY <1>1 DEF StackInv, StackRun
<1>6. \A j \in Level : j = depth[t] => run[t][j].pc \in {"f", "host"}
  BY <1>1 DEF BeginRun, Top, Level
<1>. HIDE DEF r2
<1>7. ASSUME NEW j \in Level \ {k} PROVE StackRun(j, k, run[t][j])
  <2>1. StackRun(j, depth[t], run[t][j])
    BY DEF StackInv
  <2>. QED
    BY <1>1, <1>6, <2>1 DEF StackRun, Level
<1>8. \A u \in Threads : \A j \in Level : StackRun(j, depth'[u], run'[u][j])
  BY <1>3, <1>4, <1>7 DEF StackInv
<1>9. ASSUME NEW u \in Threads, timed_out'[u]
      PROVE  \E j \in Level : Explains(run'[u][j])
  <2>1. PICK j \in Level : Explains(run[u][j])
    BY <1>1, <1>9 DEF StackInv
  <2>2. ~(u = t /\ j = k)
    BY <1>5, <2>1 DEF Explains, NoRun
  <2>. QED
    BY <1>4, <2>1, <2>2
<1>. QED
  BY <1>8, <1>9 DEF StackInv

\* timed_run is left: the run that is left no longer explains the flag.
LEMMA LeaveStack ==
  ASSUME StackInv, TypeOK', NEW t \in Threads, LeaveRun(t)
  PROVE  StackInv'
<1>. DEFINE d == depth[t]
<1>1. d > 0 /\ Top(t).pc = "leave" /\ d \in Level /\ Top(t) = run[t][d] /\ d \in Nat
  BY TopRun DEF LeaveRun, At, Top, Level, StackInv, TypeOK
<1>2. /\ depth'[t] = d - 1 /\ timed_out' = timed_out
      /\ \A u \in Threads \ {t} : depth'[u] = depth[u]
  BY DEF LeaveRun, StackInv, TypeOK
<1>3. /\ run'[t][d] = NoRun
      /\ \A u \in Threads \ {t} : run'[u] = run[u]
      /\ \A j \in Level \ {d, d - 1} : run'[t][j] = run[t][j]
  <2>1. CASE SetRun(t, d, NoRun)
    BY <1>1, <2>1 DEF SetRun, StackInv, TypeOK
  <2>2. CASE /\ d > 1
             /\ run' = [run EXCEPT ![t][d] = NoRun,
                          ![t][d - 1] = [@ EXCEPT !.pc = "unwind", !.exn = Top(t).exn]]
    BY <1>1, <2>2 DEF StackInv, TypeOK, Level
  <2>. QED
    BY <2>1, <2>2 DEF LeaveRun
<1>4. ASSUME d - 1 \in Level
      PROVE  /\ run'[t][d - 1].wd = run[t][d - 1].wd /\ run'[t][d - 1].fired = run[t][d - 1].fired
             /\ run'[t][d - 1].run_state = run[t][d - 1].run_state
             /\ \/ run'[t][d - 1].pc = "unwind"
                \/ /\ run'[t][d - 1].pc = run[t][d - 1].pc
                   /\ run'[t][d - 1].exn = run[t][d - 1].exn
  <2>1. CASE SetRun(t, d, NoRun)
    BY <1>1, <1>4, <2>1 DEF SetRun, StackInv, TypeOK
  <2>2. CASE run' = [run EXCEPT ![t][d] = NoRun,
                       ![t][d - 1] = [@ EXCEPT !.pc = "unwind", !.exn = Top(t).exn]]
    <3>1. run[t][d - 1] \in Run
      BY <1>4 DEF StackInv, TypeOK
    <3>2. run'[t][d - 1] = [run[t][d - 1] EXCEPT !.pc = "unwind", !.exn = Top(t).exn]
      BY <1>1, <1>4, <2>2 DEF StackInv, TypeOK
    <3>. QED
      BY <3>1, <3>2 DEF Run
  <2>. QED
    BY <2>1, <2>2 DEF LeaveRun
<1>. HIDE DEF d
<1>5. StackRun(d, d - 1, NoRun)
  BY <1>1 DEF StackRun, NoRun, Inside, AfterJoin
<1>6. ASSUME d - 1 \in Level PROVE StackRun(d - 1, d - 1, run'[t][d - 1])
  <2>1. StackRun(d - 1, d, run[t][d - 1])
    BY <1>6 DEF StackInv, d
  <2>. QED
    BY <1>1, <1>4, <1>6, <2>1 DEF StackRun, Inside, AfterJoin
<1>7. ASSUME NEW j \in Level \ {d, d - 1} PROVE StackRun(j, d - 1, run[t][j])
  <2>1. StackRun(j, d, run[t][j])
    BY DEF StackInv, d
  <2>. QED
    BY <1>1, <2>1 DEF StackRun, Level
<1>8. \A u \in Threads : \A j \in Level : StackRun(j, depth'[u], run'[u][j])
  BY <1>2, <1>3, <1>5, <1>6, <1>7 DEF StackInv
<1>9. ASSUME NEW u \in Threads, timed_out'[u]
      PROVE  \E j \in Level : Explains(run'[u][j])
  <2>1. PICK j \in Level : Explains(run[u][j])
    BY <1>2, <1>9 DEF StackInv
  <2>2. ~(u = t /\ j = d)
    BY <1>1, <2>1 DEF Explains
  <2>3. CASE u = t /\ j = d - 1
    BY <1>4, <2>1, <2>3 DEF Explains
  <2>. QED
    BY <1>3, <2>1, <2>2, <2>3
<1>. QED
  BY <1>8, <1>9 DEF StackInv

\* The executing run goes on, with its timer and without a step past ~guard.
LEMMA GoesOn ==
  ASSUME StackInv, TypeOK', NEW t \in Threads, depth[t] > 0, depth' = depth,
         timed_out' = timed_out, Top(t).pc \in Inside,
         \/ \E p \in Inside : Goto(t, p)
         \/ \E e \in Exn : Throw(t, e)
  PROVE  StackInv'
<1>1. Top(t) \in Run /\ StackRun(depth[t], depth[t], Top(t))
  BY TopRun
<1>2. ASSUME NEW r2 \in Run, SetRun(t, depth[t], r2),
             r2.wd = Top(t).wd, r2.fired = Top(t).fired,
             r2.pc = "unwind" \/ (r2.pc \in Inside /\ r2.exn = Top(t).exn)
      PROVE  StackInv'
  <2>1. depth[t] \in Level /\ ~(depth[t] > depth[t]) /\ ~(depth[t] < depth[t])
    BY TopRun DEF Level
  <2>2. StackRun(depth[t], depth[t], r2)
    BY <1>1, <1>2, <2>1 DEF StackRun, Inside, AfterJoin
  <2>3. Explains(Top(t)) => Explains(r2)
    BY <1>2 DEF Explains, Inside
  <2>. QED
    BY <1>2, <2>2, <2>3, TopStep
<1>3. ASSUME NEW p \in Inside, Goto(t, p) PROVE StackInv'
  <2>1. [Top(t) EXCEPT !.pc = p] \in Run
    BY <1>1 DEF Run, Inside, Phase
  <2>. QED
    BY <1>1, <1>2, <1>3, <2>1 DEF Goto, Run
<1>4. ASSUME NEW e \in Exn, Throw(t, e) PROVE StackInv'
  <2>1. [Top(t) EXCEPT !.pc = "unwind", !.exn = e] \in Run
    BY <1>1 DEF Run, Phase
  <2>. QED
    BY <1>1, <1>2, <1>4, <2>1 DEF Throw, Run
<1>. QED
  BY <1>3, <1>4

\* The executing run is on its way out: its timer is left alone, and a run
\* that explains the flag still does.
LEMMA GoesOut ==
  ASSUME StackInv, TypeOK', NEW t \in Threads, depth[t] > 0, depth' = depth,
         NEW flag2, timed_out' = [timed_out EXCEPT ![t] = flag2],
         NEW r2 \in Run, SetRun(t, depth[t], r2), r2.wd = Top(t).wd, r2.fired = Top(t).fired,
         r2.pc \in AfterJoin, Top(t).wd \in {"exited", "none"},
         flag2 => timed_out[t] /\ r2.pc # "leave"
  PROVE  StackInv'
<1>1. depth[t] \in Level /\ ~(depth[t] > depth[t]) /\ ~(depth[t] < depth[t])
  BY TopRun DEF Level
<1>2. StackRun(depth[t], depth[t], r2)
  BY <1>1 DEF StackRun, Inside, AfterJoin
<1>3. flag2 => Explains(r2) \/ (timed_out[t] /\ ~Explains(run[t][depth[t]]))
  BY DEF Explains, Top
<1>. QED
  BY <1>1, <1>2, <1>3, StackStep

\* The invariant is inductive.
LEMMA StackInvInductive ==
  ASSUME StackInv, TypeOK', [Next]_vars
  PROVE  StackInv'
<1>1. CASE UNCHANGED vars
  BY <1>1 DEF vars, StackInv, TypeOK
<1>2. ASSUME NEW t \in Threads, ThreadStep(t) PROVE StackInv'
  <2>1. CASE \E m \in Modules : BeginRun(t, m)
    BY <2>1, BeginStack
  <2>2. CASE Execute(t) \/ FinishF(t) \/ CodeStep(t) \/ CodeFault(t) \/ HostReturn(t)
    BY <2>2, GoesOn DEF Execute, FinishF, CodeStep, CodeFault, HostReturn, At, Inside, Exn
  <2>3. CASE SignalHandler(t)
    BY <2>3, GoesOn DEF SignalHandler, Inside, Exn
  <2>4. CASE GuardStop(t)
    <3>. DEFINE r2 == [Top(t) EXCEPT !.pc = "join", !.run_state = "stopped"]
    <3>1. /\ depth[t] > 0 /\ Top(t).wd \notin {"set_flag", "disable"} /\ SetRun(t, depth[t], r2)
          /\ depth' = depth /\ timed_out' = timed_out
      BY <2>4 DEF GuardStop, At
    <3>2. Top(t) \in Run /\ depth[t] \in Level /\ StackRun(depth[t], depth[t], Top(t))
      BY <3>1, TopRun
    <3>3. /\ r2 \in Run /\ r2.pc = "join" /\ r2.run_state = "stopped" /\ r2.wd = Top(t).wd
          /\ r2.fired = Top(t).fired
      BY <3>2 DEF Run, Phase, RunState
    <3>. HIDE DEF r2
    <3>4. StackRun(depth[t], depth[t], r2)
      BY <3>1, <3>2, <3>3 DEF StackRun, Inside, AfterJoin, Level
    <3>5. Explains(Top(t)) => Explains(r2)
      BY <3>3 DEF Explains
    <3>. QED
      BY <3>1, <3>3, <3>4, <3>5, TopStep
  <2>5. ASSUME depth[t] > 0, depth' = depth, Top(t).pc \in AfterJoin \cup {"join"},
               Top(t).pc = "join" => Top(t).wd \in {"exited", "none"},
               NEW p \in AfterJoin, Goto(t, p),
               NEW flag2, timed_out' = [timed_out EXCEPT ![t] = flag2],
               flag2 => timed_out[t] /\ p # "leave"
        PROVE  StackInv'
    <3>. DEFINE r2 == [Top(t) EXCEPT !.pc = p]
    <3>1. Top(t) \in Run /\ StackRun(depth[t], depth[t], Top(t))
      BY <2>5, TopRun
    <3>2. r2 \in Run /\ r2.pc = p /\ r2.wd = Top(t).wd /\ r2.fired = Top(t).fired
      BY <3>1 DEF Run, AfterJoin, Phase
    <3>3. SetRun(t, depth[t], r2)
      BY <2>5 DEF Goto
    <3>4. Top(t).wd \in {"exited", "none"}
      BY <2>5, <3>1 DEF StackRun
    <3>. HIDE DEF r2
    <3>5. r2.pc \in AfterJoin /\ (flag2 => timed_out[t] /\ r2.pc # "leave")
      BY <2>5, <3>2
    <3>6. r2 \in Run /\ r2.wd = Top(t).wd /\ r2.fired = Top(t).fired
      BY <3>2
    <3>. QED
      BY <2>5, <3>3, <3>4, <3>5, <3>6, GoesOut, Zenon
  <2>6. timed_out = [timed_out EXCEPT ![t] = timed_out[t]]
    BY DEF StackInv, TypeOK
  <2>7. CASE GuardJoin(t)
    BY <2>5, <2>6, <2>7 DEF GuardJoin, At, AfterJoin
  <2>8. CASE CatchMemory(t)
    <3>. DEFINE r2 == [Top(t) EXCEPT !.pc = "check",
                         !.exn = IF @ = "memory" /\ timed_out[t] THEN "timeout" ELSE @]
    <3>1. /\ depth[t] > 0 /\ Top(t).pc = "catch" /\ SetRun(t, depth[t], r2)
          /\ depth' = depth /\ timed_out' = timed_out
      BY <2>8 DEF CatchMemory, At
    <3>2. Top(t) \in Run /\ StackRun(depth[t], depth[t], Top(t))
      BY <3>1, TopRun
    <3>3. r2 \in Run /\ r2.pc = "check" /\ r2.wd = Top(t).wd /\ r2.fired = Top(t).fired
      BY <3>2 DEF Run, Phase, Exn
    <3>4. Top(t).wd \in {"exited", "none"}
      BY <3>1, <3>2 DEF StackRun, AfterJoin
    <3>. HIDE DEF r2
    <3>. QED
      BY <2>6, <3>1, <3>3, <3>4, GoesOut DEF AfterJoin
  <2>9. CASE CheckTimedOut(t)
    BY <2>5, <2>6, <2>9 DEF CheckTimedOut, At, AfterJoin
  <2>10. CASE EnableCode(t)
    BY <2>5, <2>6, <2>10 DEF EnableCode, At, AfterJoin
  <2>11. CASE ClearTimedOut(t)
    <3>. DEFINE flag2 == FALSE
    <3>1. timed_out' = [timed_out EXCEPT ![t] = flag2] /\ ~flag2
      BY <2>11 DEF ClearTimedOut
    <3>2. /\ depth[t] > 0 /\ depth' = depth /\ Top(t).pc \in AfterJoin /\ Top(t).pc # "join"
          /\ Goto(t, "leave") /\ "leave" \in AfterJoin
      BY <2>11 DEF ClearTimedOut, At, AfterJoin
    <3>. HIDE DEF flag2
    <3>. QED
      BY <2>5, <3>1, <3>2
  <2>12. CASE LeaveRun(t)
    BY <2>12, LeaveStack
  <2>. QED
    BY <1>2, <2>1, <2>2, <2>3, <2>4, <2>7, <2>8, <2>9, <2>10, <2>11, <2>12 DEF ThreadStep
<1>3. ASSUME NEW t \in Threads, NEW i \in Level, TimerStep(t, i) PROVE StackInv'
  <2>. DEFINE r == run[t][i]
  <2>1. r \in Run /\ StackRun(i, depth[t], r) /\ depth' = depth
    BY <1>3 DEF StackInv, TypeOK, TimerStep, TimerExpires, TimerStopped, CallbackSetFlag,
                CallbackDisable
  <2>2. timed_out = [timed_out EXCEPT ![t] = timed_out[t]]
    BY DEF StackInv, TypeOK
  <2>3. r = NoRun => r.wd = "none"
    BY DEF NoRun
  <2>4. ASSUME NEW w \in Timer, NEW s \in RunState, NEW f \in BOOLEAN,
               SetRun(t, i, [r EXCEPT !.wd = w, !.run_state = s, !.fired = f]),
               r.wd \in {"waiting", "set_flag", "disable"}, r.fired => f,
               s = r.run_state \/ r.run_state = "running",
               w \in {"set_flag", "disable"} => f /\ r.pc \notin AfterJoin \cup {"join"},
               NEW flag2, timed_out' = [timed_out EXCEPT ![t] = flag2],
               flag2 => timed_out[t] \/ (f /\ r.pc # "leave")
        PROVE  StackInv'
    <3>. DEFINE r2 == [r EXCEPT !.wd = w, !.run_state = s, !.fired = f]
    <3>1. /\ r2 \in Run /\ r2.pc = r.pc /\ r2.exn = r.exn /\ r2.wd = w /\ r2.run_state = s
          /\ r2.fired = f
      BY <2>1 DEF Run
    <3>2. r # NoRun
      BY <2>3, <2>4
    <3>. HIDE DEF r2
    <3>3. StackRun(i, depth[t], r2)
      BY <2>1, <2>4, <3>1, <3>2 DEF StackRun, AfterJoin
    <3>4. flag2 => Explains(r2) \/ (timed_out[t] /\ ~Explains(r))
      BY <2>4, <3>1 DEF Explains
    <3>5. SetRun(t, i, r2)
      BY <2>4 DEF r2
    <3>. QED
      BY <2>1, <2>4, <3>1, <3>3, <3>4, <3>5, StackStep
  <2>5. r.wd \in {"set_flag", "disable"} => r.fired /\ r.pc \notin AfterJoin \cup {"join"}
    BY <2>1 DEF StackRun
  <2>6. r.wd = "waiting" /\ r.run_state = "running" => r.pc \notin AfterJoin \cup {"join"}
    BY <2>1 DEF StackRun
  <2>7. r.wd \in Timer /\ r.run_state \in RunState /\ r.fired \in BOOLEAN
    BY <2>1 DEF Run
  <2>8. CASE TimerExpires(t, i)
    <3>1. /\ r.wd = "waiting" /\ r.run_state = "running" /\ timed_out' = timed_out
          /\ SetRun(t, i, [r EXCEPT !.wd = "set_flag", !.run_state = "interrupted", !.fired = TRUE])
      BY <2>8 DEF TimerExpires, SetRun
    <3>. QED
      BY <2>2, <2>4, <2>6, <3>1 DEF Timer, RunState
  <2>9. CASE TimerStopped(t, i)
    <3>1. /\ r.wd = "waiting" /\ timed_out' = timed_out
          /\ SetRun(t, i, [r EXCEPT !.wd = "exited", !.run_state = r.run_state, !.fired = r.fired])
      BY <2>1, <2>9 DEF TimerStopped, SetRun, Run
    <3>. QED
      BY <2>2, <2>4, <2>7, <3>1 DEF Timer
  <2>10. CASE CallbackSetFlag(t, i)
    <3>1. /\ r.wd = "set_flag" /\ timed_out' = [timed_out EXCEPT ![t] = TRUE]
          /\ SetRun(t, i, [r EXCEPT !.wd = "disable", !.run_state = r.run_state, !.fired = r.fired])
      BY <2>1, <2>10 DEF CallbackSetFlag, SetRun, Run
    <3>. QED
      BY <2>4, <2>5, <2>7, <3>1 DEF Timer, AfterJoin
  <2>11. CASE CallbackDisable(t, i)
    <3>1. /\ r.wd = "disable" /\ timed_out' = timed_out
          /\ SetRun(t, i, [r EXCEPT !.wd = "exited", !.run_state = r.run_state, !.fired = r.fired])
      BY <2>1, <2>11 DEF CallbackDisable, SetRun, Run
    <3>. QED
      BY <2>2, <2>4, <2>7, <3>1 DEF Timer
  <2>. QED
    BY <1>3, <2>8, <2>9, <2>10, <2>11 DEF TimerStep
<1>. QED
  BY <1>1, <1>2, <1>3 DEF Next

\* The invariant of nested runs holds in every reachable state.
LEMMA StackInvCorrect == Spec => []StackInv
<1>1. Init => StackInv
  <2>. SUFFICES ASSUME Init PROVE StackInv
    OBVIOUS
  <2>1. TypeOK
    BY NoRunType, MaxDepthAssumption DEF Init, TypeOK, Level, Exn
  <2>2. ASSUME NEW t \in Threads, NEW i \in Level
        PROVE  StackRun(i, depth[t], run[t][i]) /\ ~timed_out[t]
    <3>1. run[t][i] = NoRun /\ depth[t] = 0 /\ ~timed_out[t]
      BY DEF Init
    <3>2. i > 0 /\ ~(i < 0)
      BY DEF Level
    <3>. QED
      BY <3>1, <3>2 DEF StackRun, NoRun, Inside, AfterJoin
  <2>3. \A t \in Threads : ~timed_out[t]
    BY DEF Init
  <2>. QED
    BY <2>1, <2>2, <2>3 DEF StackInv
<1>2. StackInv /\ TypeOK' /\ [Next]_vars => StackInv'
  BY StackInvInductive
<1>. QED
  BY <1>1, <1>2, TypeCorrect, PTL DEF Spec

\* No timeout leaks into the next run of a thread, however its runs are
\* nested: a flag that is set belongs to a run that is still on its stack
\* (timed_run's reenable_code, the callback of the watchdog).
THEOREM FlagHasRun == Spec => []FlagBelongsToRun
<1>1. StackInv => FlagBelongsToRun
  BY DEF StackInv, Explains, FlagBelongsToRun
<1>. QED
  BY <1>1, StackInvCorrect, PTL

\* At any nesting a memory fault is reported as a timeout only if a watchdog of
\* this run, or of one that it is nested in, has fired (timed_run's catch).
THEOREM TimeoutAlwaysHasCause == Spec => TimeoutHasCause
<1>. DEFINE Caused == \A t \in Threads : \A i \in Level :
                        run[t][i].exn = "memory" /\ run'[t][i].exn = "timeout" =>
                          \E j \in 1..i : run[t][j].fired
<1>1. StackInv /\ StackInv' /\ [Next]_vars => [Caused]_vars
  <2>. SUFFICES ASSUME StackInv, [Next]_vars, NEW t \in Threads, NEW i \in Level,
                       run[t][i].exn = "memory", run'[t][i].exn = "timeout"
                PROVE  \E j \in 1..i : run[t][j].fired
    BY DEF Caused
  <2>1. run[t][i] \in Run /\ run[t][i].exn # "timeout" /\ run'[t][i] # run[t][i]
    BY DEF StackInv, TypeOK
  <2>2. ASSUME NEW u \in Threads, NEW k \in Level, NEW r2, SetRun(u, k, r2),
               r2.exn = run[u][k].exn \/ r2.exn # "timeout"
        PROVE  FALSE
    BY <2>1, <2>2 DEF SetRun, StackInv, TypeOK
  <2>3. PICK u \in Threads : ThreadStep(u) \/ \E k \in Level : TimerStep(u, k)
    BY <2>1 DEF Next, vars
  <2>4. ASSUME NEW k \in Level, TimerStep(u, k) PROVE FALSE
    <3>1. run[u][k] \in Run
      BY DEF StackInv, TypeOK
    <3>. QED
      BY <2>2, <2>4, <3>1 DEF TimerStep, TimerExpires, TimerStopped, CallbackSetFlag,
                              CallbackDisable, Run
  <2>5. CatchMemory(u) \/ LeaveRun(u)
    <3>1. ASSUME NEW p, depth[u] > 0, Goto(u, p) PROVE FALSE
      BY <2>2, <3>1, TopRun DEF Goto, Top, Run
    <3>2. ASSUME NEW e, e # "timeout", depth[u] > 0, Throw(u, e) PROVE FALSE
      BY <2>2, <3>2, TopRun DEF Throw, Top, Run
    <3>3. ASSUME NEW m \in Modules, BeginRun(u, m) PROVE FALSE
      <4>1. depth[u] + 1 \in Level
        BY <3>3, MaxDepthAssumption DEF BeginRun, StackInv, TypeOK, Level
      <4>. QED
        BY <2>2, <3>3, <4>1 DEF BeginRun
    <3>4. ~GuardStop(u)
      BY <2>2, TopRun DEF GuardStop, At, Top, Run
    <3>5. ~(Execute(u) \/ FinishF(u) \/ CodeStep(u) \/ CodeFault(u) \/ HostReturn(u))
      BY <3>1, <3>2 DEF Execute, FinishF, CodeStep, CodeFault, HostReturn, At
    <3>6. ~(SignalHandler(u) \/ GuardJoin(u) \/ CheckTimedOut(u) \/ EnableCode(u) \/ ClearTimedOut(u))
      BY <3>1, <3>2 DEF SignalHandler, GuardJoin, CheckTimedOut, EnableCode, ClearTimedOut, At
    <3>. QED
      BY <2>3, <2>4, <3>3, <3>4, <3>5, <3>6 DEF ThreadStep
  <2>6. CASE CatchMemory(u)
    <3>1. u = t /\ i = depth[t] /\ timed_out[t]
      <4>1. depth[u] > 0 /\ depth[u] \in Level /\ Top(u) \in Run
        BY <2>6, TopRun DEF CatchMemory, At
      <4>2. SetRun(u, depth[u], [Top(u) EXCEPT !.pc = "check",
              !.exn = IF @ = "memory" /\ timed_out[u] THEN "timeout" ELSE @])
        BY <2>6 DEF CatchMemory
      <4>3. u = t /\ i = depth[t]
        BY <2>1, <4>1, <4>2 DEF SetRun, StackInv, TypeOK
      <4>4. ASSUME ~timed_out[u] PROVE FALSE
        BY <2>2, <4>1, <4>2, <4>4 DEF Top, Run
      <4>. QED
        BY <4>3, <4>4
    <3>2. PICK j \in Level : Explains(run[t][j])
      BY <3>1 DEF StackInv
    <3>3. ~(j > depth[t])
      BY <3>2 DEF StackInv, StackRun, Explains, NoRun
    <3>. QED
      BY <3>1, <3>2, <3>3 DEF Explains, Level, StackInv, TypeOK
  <2>7. CASE LeaveRun(u)
    <3>1. depth[u] > 0 /\ depth[u] \in Level /\ Top(u) = run[u][depth[u]]
      BY <2>7, TopRun DEF LeaveRun, At, Top
    <3>2. ~SetRun(u, depth[u], NoRun)
      <4>1. NoRun.exn = "none"
        BY DEF NoRun
      <4>. QED
        BY <2>2, <3>1, <4>1
    <3>3. /\ depth[u] > 1
          /\ run' = [run EXCEPT ![u][depth[u]] = NoRun,
                       ![u][depth[u] - 1] = [@ EXCEPT !.pc = "unwind", !.exn = Top(u).exn]]
      BY <2>7, <3>2 DEF LeaveRun
    <3>4. depth[u] - 1 \in Level
      BY <3>1, <3>3, MaxDepthAssumption DEF Level
    <3>5. run[u][depth[u] - 1].exn = "none"
      BY <3>1, <3>4 DEF StackInv, StackRun, Inside, Level
    <3>6. u = t /\ (i = depth[u] \/ i = depth[u] - 1)
      BY <2>1, <3>1, <3>3, <3>4 DEF StackInv, TypeOK
    <3>7. i # depth[u]
      <4>1. depth[u] # depth[u] - 1
        BY <3>1 DEF Level
      <4>2. run'[u][depth[u]] = NoRun
        BY <3>1, <3>3, <3>4, <4>1 DEF StackInv, TypeOK
      <4>. QED
        BY <3>6, <4>2 DEF NoRun
    <3>. QED
      BY <3>5, <3>6, <3>7
  <2>. QED
    BY <2>5, <2>6, <2>7
<1>. QED
  BY <1>1, StackInvCorrect, PTL DEF Spec, TimeoutHasCause
=============================================================================
