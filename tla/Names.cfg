SPECIFICATION Spec
CONSTANTS
  p1 = p1
  p2 = p2
  None = None
  Procs <- MCProcs
  Inums <- MCInums
  ROOTINO = 1
  NINODE = 3
  DirNames <- MCNamesSet
  Calls <- MCCalls
SYMMETRY Symmetry
INVARIANT RefCounts IputNeverWaits PanicsOnlyIfStrayed LinksCovered
