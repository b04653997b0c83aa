\* Two threads share a module, both under watchdogs: the deadline of one of
\* them is not enforced.
SPECIFICATION FairSpec
CONSTANTS
  t1 = t1
  t2 = t2
  m1 = m1
  m2 = m2
  Threads = {t1, t2}
  Modules = {m1}
  NoModule = NoModule
  Loaded <- LoadedAll
  Timed = {t1, t2}
  MaxDepth = 1
PROPERTIES DeadlineEnforced
