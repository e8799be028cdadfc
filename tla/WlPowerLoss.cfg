SPECIFICATION Spec
CONSTANTS
  MaxPos = 5
  UpdateRate = 1
  Fats = 2
  MaxCalls = 2
  MaxLosses = 2
  Values = {"x"}
PROPERTY SurvivesAnyLoss
CHECK_DEADLOCK FALSE
