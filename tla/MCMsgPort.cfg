SPECIFICATION FairSpec
CONSTANTS
  Threads = {t1, t2}
  Ports = {p1, p2}
  Names = {n1}
  Messages = {m1, m2}
  NoThread = NoThread
  NoPort = NoPort
  NoMsg = NoMsg
  Anonymous = Anonymous
INVARIANTS
  TypeOK
  RegistryExact
  OneOpenPortPerName
  NoMovedFromMessage
  SoleOwner
PROPERTIES
  ImplementsMailbox
  CloseReleasesWaiters
