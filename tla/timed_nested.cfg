\* timed_run called from a host function of a timed_run.
SPECIFICATION Spec
CONSTANTS
  t1 = t1
  t2 = t2
  m1 = m1
  m2 = m2
  Threads = {t1}
  Modules = {m1, m2}
  NoModule = NoModule
  Loaded <- LoadedAll
  Timed = {t1}
  MaxDepth = 2
INVARIANTS FlagBelongsToRun
PROPERTIES TimeoutHasCause
