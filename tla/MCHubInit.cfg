\* Three threads race for the initialisation.
SPECIFICATION FairSpec
CONSTANTS
  t1 = t1
  t2 = t2
  t3 = t3
  ok = ok
  failure1 = failure1
  failure2 = failure2
  Threads = {t1, t2, t3}
  Codes = {ok, failure1, failure2}
  OK = ok
  NoCode = NoCode
  Constructors <- OneOfEach
INVARIANTS
  TypeOK
  InitOnce
PROPERTIES
  ImplementsOnceInit
  EnsureReturns
