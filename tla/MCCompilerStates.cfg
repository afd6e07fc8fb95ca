SPECIFICATION Spec
CONSTANTS
  Sources <- MCSources
  Missing0 <- MCMissing
  ErrorLimit = 1
  NSMSGS = 2
  MAXU = 2
INVARIANT StatesOwned
