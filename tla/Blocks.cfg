SPECIFICATION Spec
CONSTANTS
  p1 = p1
  p2 = p2
  f1 = f1
  f2 = f2
  None = None
  Procs <- MCProcs
  Files <- MCFiles
  NINODES = 3
  IPB = 4
  FSSIZE = 13
  LOGSIZE = 1
  BSIZE = 2
  NDIRECT = 1
  MAXOPBLOCKS = 6
  MkfsFiles <- OneFile
  WriteSizes <- MCWrites
  ReadSizes <- MCReads
SYMMETRY Symmetry
INVARIANT BlocksOwnedOnce FileContents LogFits NoPanic
VIEW MCView
