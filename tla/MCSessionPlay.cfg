SPECIFICATION Spec
CONSTANTS
  MaxPlays = 2
  StartTicks = 2
  Batch = 2
INVARIANTS
  PlayNeverAborts
CHECK_DEADLOCK FALSE
