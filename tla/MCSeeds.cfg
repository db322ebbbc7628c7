SPECIFICATION Spec
CONSTANTS
  Env <- MCEnv
  Rate = 5
  StartTimes <- MCStartTimes
  IntMax = 2147483647
  MaxTime = 103
  MaxChildren = 3
INVARIANTS
  TypeOK
  EnvironmentWins
  ForkedSeedsDiffer
CHECK_DEADLOCK FALSE
