SPECIFICATION Spec
CONSTANTS
  Sources <- MCSources
  Missing0 <- MCMissing
  ErrorLimit = 1
  NSMSGS = 2
  MAXU = 2
INVARIANT TypeOK
INVARIANT CleanSourceOnly
INVARIANT SlicesRight
INVARIANT ReferencesResolve
INVARIANT ServerGetsWhole
PROPERTY CompileEnds
