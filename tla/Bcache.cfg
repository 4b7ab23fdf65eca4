SPECIFICATION Spec
CONSTANTS
  Procs = {p1, p2, p3}
  Blocks = {k1, k2, k3}
  NBUF = 2
  Data = {d0, d1}
  InitData = d0
  MaxPins = 1
  NoBlock = NoBlock
  NoProc = NoProc
SYMMETRY Symm
INVARIANTS
  OneBufferPerBlock
  HolderHasItsBlock
  AsleepOnlyIfLocked
PROPERTIES
  NothingLost
CHECK_DEADLOCK FALSE
