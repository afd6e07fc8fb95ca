SPECIFICATION Spec
CONSTANTS
  Games <- MCSpecial
  NoVerb = NoVerb
  MaxLines = 4
  MaxSkip = 2
  MaxDepth = 5
CHECK_DEADLOCK FALSE
INVARIANT OwnLines
