\* Two overlapping calls, with property updates.
SPECIFICATION FairSpec
CONSTANTS
  r1 = r1
  r2 = r2
  ok = ok
  error = error
  destroyed = destroyed
  Requests = {r1, r2}
  Codes = {ok, error, destroyed}
  OK = ok
  ERROR = error
  DESTROYED = destroyed
  NoReply = NoReply
  UpdatesFollow = TRUE
INVARIANTS
  TypeOK
  ContextSound
  ReclaimedOnce
  NoContextLeak
  OwnAnswer
PROPERTIES
  ImplementsRequests
  AnsweredInOwnPoll
  PolledResolves
  LoopDrains
\* The application may stop after any call; after a second reclaim the
\* program has no next step.
CHECK_DEADLOCK FALSE
