SPECIFICATION FairSpec
CONSTANTS
  Writers = {w1, w2}
  Readers = {r1}
  Killable = {r1}
  Bytes = {0, 1}
  Junk = 0
  PIPESIZE = 2
  UINT = 4
  MaxN = 2
  Free = Free
INVARIANTS NoUseAfterFree
PROPERTIES PipeIsStream WriteReturns EofEndsReads
