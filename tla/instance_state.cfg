\* Memory and table page of two contexts that share an allocator.
SPECIFICATION Spec
CONSTANTS
  a = a
  b = b
  c = c
  t1 = t1
  t2 = t2
  t3 = t3
  none = none
  c1 = c1
  c2 = c2
  Contexts = {c1, c2}
  NoContext = NoContext
  Mods = {a, b, c, t1, t2, t3, none}
  Def <- DefState
  PageSize = 2
  HardMax = 2
  Values = {0, 1}
  Zero = 0
  MaxPagesOptions = {1, 2}
  PageWords = 4
  EntryWords = 2
  MprotectErrors = {FALSE}
  Growths <- GrowAndShrink
SYMMETRY Symmetry
CONSTRAINT MemoryOrTable
INVARIANTS TypeOK AccessMatchesBounds WithinLimits PointersIntact 
PROPERTIES ImplementsWasmInstance
