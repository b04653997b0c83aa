\* The same with mprotect failing at any call.
SPECIFICATION Spec
CONSTANTS
  a = a
  b = b
  c = c
  t1 = t1
  t2 = t2
  t3 = t3
  none = none
  c1 = c1
  c2 = c2
  Contexts = {c1, c2}
  NoContext = NoContext
  Mods = {a, c, none}
  Def <- DefSmall
  PageSize = 1
  HardMax = 2
  Values = {0, 1}
  Zero = 0
  MaxPagesOptions = {1, 2}
  PageWords = 4
  EntryWords = 2
  MprotectErrors = {TRUE, FALSE}
  Growths <- GrowAndShrink
SYMMETRY Symmetry
INVARIANTS AllocatedAccessible
PROPERTIES ResetIsPristine
