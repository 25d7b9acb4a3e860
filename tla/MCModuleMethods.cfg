\* Two clients, one of which the application may move, and a heap of two cells.
SPECIFICATION HubSpec
CONSTANTS
  c1 = c1
  c2 = c2
  p1 = p1
  p2 = p2
  p3 = p3
  m1 = m1
  m2 = m2
  Clients = {c1, c2}
  Places = {p1, p2, p3}
  NoPlace = NoPlace
  Relocatable = {c2}
  Cells = {m1, m2}
  Null = Null
  Dangling = Dangling
  NoClient = NoClient
SYMMETRY Symmetry
INVARIANTS
  MethodsTypeOK
  HandlesBalanced
  HeldIsComplete
  ContextsName
  RepliesSound
  OnlyEmptyRepliesLeak
\* Every client may be dropped, and a stray callback ends the program.
CHECK_DEADLOCK FALSE
