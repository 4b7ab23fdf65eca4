SPECIFICATION Spec
CONSTANTS
  i = i
  a = a
  b = b
  c = c
  c1 = c1
  c2 = c2
  Procs = {i,a,b,c}
  Initproc = i
  CPUs = {c1,c2}
  NoProc = NoProc
  Targets = {0,2,3,4,5}
  MaxPid = 5
SYMMETRY Symm
INVARIANTS StackInUseOnce NoOrphans NoMissedExit
