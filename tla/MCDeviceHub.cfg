\* A client and its clone, three places, one upload, one transport.
SPECIFICATION ResourcesSpec
CONSTANTS
  c1 = c1  c2 = c2  nobody = nobody
  p1 = p1  p2 = p2  p3 = p3  noplace = noplace
  u1 = u1  transport = transport
  First <- MCFirst
  Clones <- MCClones
  Nobody = nobody
  Places <- MCPlaces
  NoPlace = noplace
  Relocatable <- MCRelocatable
  Uploads <- MCUploads
  TheTransport = transport
SYMMETRY Symmetry
CONSTRAINT Bounds
INVARIANTS
  ResourcesTypeOK
  CallbacksOnTheirClient
  InitializedIsComplete
  OnlyClonesBreakNesting
\* The client ends with its handle.
CHECK_DEADLOCK FALSE
