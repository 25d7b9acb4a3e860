\* Clients that move, as every constructor's result does.
SPECIFICATION Spec
CONSTANTS
  c1 = c1
  c2 = c2
  p1 = p1
  p2 = p2
  p3 = p3
  Clients = {c1, c2}
  Places = {p1, p2, p3}
  NoPlace = NoPlace
  Relocatable = {c1, c2}
SYMMETRY Symmetry
INVARIANT
  NoStray
\* Every client may be dropped, and a stray callback ends the program.
CHECK_DEADLOCK FALSE
