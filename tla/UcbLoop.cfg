SPECIFICATION Spec
CONSTANTS
  MaxActions = 4
  MaxScore = 3
  MaxVisits = 1
  Scale = 4
INVARIANTS
  SelectsFirstBest
  MarginIsAgainstRunnerUp
CHECK_DEADLOCK FALSE
