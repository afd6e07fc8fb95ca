SPECIFICATION Spec
CONSTANTS
  MaxRank = 4
  scoreOf <- MCScore
  taskOf <- MCTask
  experienceOf <- MCExperience
  statOf <- MCStats
  SetTasks = {1, 2}
  Amounts = {1, 3}
  MaxScore = 6
  MaxStat = 2
PROPERTIES
  RankReached
