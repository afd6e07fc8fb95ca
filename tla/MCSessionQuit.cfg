SPECIFICATION FairSpec
CONSTANTS
  MaxPlays = 0
  StartTicks = 2
  Batch = 2
PROPERTIES
  QuitAlwaysEnds
CHECK_DEADLOCK FALSE
