\* A property subscription that sees an update.
SPECIFICATION Spec
CONSTANTS
  r1 = r1
  ok = ok
  error = error
  destroyed = destroyed
  Requests = {r1}
  Codes = {ok, error, destroyed}
  OK = ok
  ERROR = error
  DESTROYED = destroyed
  NoReply = NoReply
  UpdatesFollow = TRUE
SYMMETRY Symmetry
INVARIANT
  EveryContextReclaimedOnce
\* The application may stop after any call; after a second reclaim the
\* program has no next step.
CHECK_DEADLOCK FALSE
