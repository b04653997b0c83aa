\* Two threads share a module; only t1 runs under a watchdog.
SPECIFICATION FairSpec
CONSTANTS
  t1 = t1
  t2 = t2
  m1 = m1
  m2 = m2
  Threads = {t1, t2}
  Modules = {m1, m2}
  NoModule = NoModule
  Loaded <- LoadedPartly
  Timed = {t1}
  MaxDepth = 1
INVARIANTS TypeOK DisabledHasOwner RetryIsForOtherThread
PROPERTIES ImplementsBoundedExecution ImplementsFairBoundedExecution CodeComesBack
