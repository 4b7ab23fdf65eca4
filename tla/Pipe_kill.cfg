SPECIFICATION Spec
CONSTANTS
  Writers = {w1, w2}
  Readers = {r1, r2}
  Killable = {w1, w2, r1, r2}
  Bytes = {0, 1}
  Junk = 0
  PIPESIZE = 2
  UINT = 4
  MaxN = 2
  Free = Free
SYMMETRY Symm
INVARIANTS
  ReaderSleepsOnlyWhenEmpty
