SPECIFICATION Spec
CONSTANTS
  Sources <- MCSources
  Missing0 <- MCAllMissing
  ErrorLimit = 30
  NSMSGS = 75
  MAXU = 20
INVARIANT DefaultsCompile
