SPECIFICATION Spec
CONSTANTS
  NPROC = 2
  NPAGES = 17
  MaxSz = 12
  Programs <- MCPrograms
  Grow <- MCGrow
INVARIANT PagesOwnedOnce MemoryIsImage NoPanic
VIEW MCView
