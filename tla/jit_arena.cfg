SPECIFICATION Spec
CONSTANTS
  m1 = m1
  m2 = m2
  m3 = m3
  Modules = {m1, m2, m3}
  AddressPages = 6
  segment_size = 3
  PageBytes = 2
  max_memory_size = 4
  Bodies <- MCBodies
  Header <- MCHeader
  MaxFunctions = 1
  Threads = 2
SYMMETRY Symmetry
INVARIANTS Partition Coalesced BlocksHeld CodeIntact SecondPassFits
