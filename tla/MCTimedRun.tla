----------------------------- MODULE MCTimedRun -----------------------------
(* Model-checking instances of TimedRun.                                   *)
EXTENDS TimedRun

CONSTANTS t1, t2, m1, m2

\* Every thread calls backends of every module.
LoadedAll == [t \in Threads |-> Modules]

\* t1 has a module of its own besides the one it shares with t2.
LoadedPartly == [t \in Threads |-> IF t = t1 THEN Modules ELSE {m1}]
=============================================================================
