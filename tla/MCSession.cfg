SPECIFICATION FairSpec
CONSTANTS
  MaxPlays = 2
  StartTicks = 2
  Batch = 2
INVARIANTS
  TypeOK
  NeverRefused
  RunningSlotInUse
  OwnReplyOnly
  SlotReleased
PROPERTIES
  ConnectAnswered
  QuitEnds
CHECK_DEADLOCK FALSE
