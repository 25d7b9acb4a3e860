\* The callbacks of the module client.
SPECIFICATION Spec
CONSTANTS
  h1 = h1
  h2 = h2
  h3 = h3
  w1 = w1
  w2 = w2
  w3 = w3
  w4 = w4
  Handles = {h1, h2, h3}
  Wrappers = {w1, w2, w3, w4}
  NoHandle = NoHandle
  CallbacksOwn <- ModuleCallbacksOwn
SYMMETRY Symmetry
INVARIANTS
  TypeOK
  SoleOwner
  DestroyedOnce
\* A misused handle ends the program.
CHECK_DEADLOCK FALSE
