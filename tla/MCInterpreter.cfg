SPECIFICATION Spec
CONSTANTS
  Games <- MCGames
  NoVerb = NoVerb
  MaxLines = 4
  MaxSkip = 2
  MaxDepth = 5
CHECK_DEADLOCK FALSE
INVARIANT TypeOK
PROPERTY EndsStick
PROPERTY CommandEnds
