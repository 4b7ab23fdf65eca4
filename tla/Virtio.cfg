SPECIFICATION Spec
CONSTANTS
  Procs = {p1, p2, p3}
  Bufs = {b1, b2, b3}
  Data = {d0, d1}
  InitData = d0
  NUM = 8
  IDX = 8
  NoBuf = NoBuf
  NoProc = NoProc
  Intr = Intr
VIEW View
SYMMETRY Symm
INVARIANTS
  DescOwnedOnce
  NotForgotten
PROPERTIES
  RequestServed
