-------------------------- MODULE BoundedExecution --------------------------
(***************************************************************************)
(* What timed_run promises each thread, with no pages, timers or signals:  *)
(* a call runs, may be overtaken by its deadline, and ends.  A call that   *)
(* is overtaken ends, and is never reported as a memory violation; a call  *)
(* that is not is never reported as a timeout.                             *)
(***************************************************************************)
CONSTANTS
  Threads,   \* the host threads
  Timed      \* the threads whose calls have a deadline

VARIABLES
  call,      \* call[t]: "idle", "running" or "expired"
  outcome    \* outcome[t]: how the last call ended

bvars == <<call, outcome>>

BInit == /\ call = [t \in Threads |-> "idle"]
         /\ outcome = [t \in Threads |-> "none"]

Begin(t) == /\ call[t] = "idle"
            /\ call' = [call EXCEPT ![t] = "running"]
            /\ UNCHANGED outcome

Expire(t) == /\ t \in Timed
             /\ call[t] = "running"
             /\ call' = [call EXCEPT ![t] = "expired"]
             /\ UNCHANGED outcome

EndInTime(t) == /\ call[t] = "running"
                /\ call' = [call EXCEPT ![t] = "idle"]
                /\ \E r \in {"none", "memory", "other"} :
                     outcome' = [outcome EXCEPT ![t] = r]

\* The caller's function may still finish between the deadline and the fault.
EndExpired(t) == /\ call[t] = "expired"
                 /\ call' = [call EXCEPT ![t] = "idle"]
                 /\ \E r \in {"none", "timeout", "other"} :
                      outcome' = [outcome EXCEPT ![t] = r]

BNext == \E t \in Threads : Begin(t) \/ Expire(t) \/ EndInTime(t) \/ EndExpired(t)

BSpec == BInit /\ [][BNext]_bvars

BFairSpec == BSpec /\ \A t \in Threads : WF_bvars(EndExpired(t))
=============================================================================
