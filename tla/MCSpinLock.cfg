SPECIFICATION FairSpec
CONSTANTS
  Threads = {t1, t2, t3}
  NoThread = NoThread
  SpinTries = 2
INVARIANTS
  TypeOK
  MutualExclusion
  FlagMatchesHolder
PROPERTIES
  ImplementsMutex
  SomebodyGetsIn
