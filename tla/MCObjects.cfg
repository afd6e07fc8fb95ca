SPECIFICATION Spec
CONSTANTS
  Objs <- MCObjs
  nstates <- MCNstates
  weightOf <- MCWeightOf
  startsLit <- MCStartsLit
  ShowFire <- MCShowFire
  Rooms <- MCRooms
  Dark <- MCDark
  Small <- MCSmall
  RankStrength = 2
  RankMaxWeight = 1
  MaxCount = 1
  MaxWrong = 0
  MaxLogins = 1
CHECK_DEADLOCK FALSE
INVARIANT TypeOK
INVARIANT NothingIsLost
PROPERTY HandsBooked
