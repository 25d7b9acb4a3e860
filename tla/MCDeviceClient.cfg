\* Two concurrent calls on a client and its clone.
SPECIFICATION FairSpec
CONSTANTS
  r1 = r1
  r2 = r2
  k1 = k1
  k2 = k2
  ok = ok
  error = error
  destroyed = destroyed
  Requests = {r1, r2}
  Copies = {k1, k2}
  First = k1
  Codes = {ok, error, destroyed}
  OK = ok
  ERROR = error
  DESTROYED = destroyed
  NoReply = NoReply
INVARIANTS
  TypeOK
  ContextSound
  NoContextLeak
  NoLostWakeup
  OnlyClonesMisuse
PROPERTIES
  ImplementsRequests
  WakesResolve
  PolledResolves
\* The application may stop after any call; a misused handle ends the
\* program.
CHECK_DEADLOCK FALSE
