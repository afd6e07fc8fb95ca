SPECIFICATION Spec
CONSTANTS
  Games <- MCTreats
  NoVerb = NoVerb
  MaxLines = 4
  MaxSkip = 2
  MaxDepth = 5
CHECK_DEADLOCK FALSE
PROPERTY TreatAsEnds
