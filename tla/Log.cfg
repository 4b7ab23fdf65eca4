SPECIFICATION FairSpec
CONSTANTS
  Procs = {p1, p2}
  Blocks = {b1, b2, b3}
  Data = {d0, d1}
  InitData = d0
  NoData = NoData
  NoProc = NoProc
  MAXOPBLOCKS = 2
  LOGSIZE = 4
  NLOG = 4
  OpBlocks = 1
INVARIANTS CommitAlone PinsProtectDirty SleeperHasWaker NoPanic
PROPERTIES CrashAtomic SleeperWoken
