SPECIFICATION FairSpec
CONSTANTS
  i = i
  a = a
  b = b
  c1 = c1
  c2 = c2
  Procs = {i,a,b}
  Initproc = i
  CPUs = {c1,c2}
  NoProc = NoProc
  Targets = {2,3}
  MaxPid = 3
PROPERTY KilledExits
