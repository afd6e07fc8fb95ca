SPECIFICATION Spec
CONSTANTS
  Files <- MCFiles
  MaxLines = 4
  ErrorLimit = 1
INVARIANT TypeOK
INVARIANT BlocksAsWritten
PROPERTY ReadingEnds
