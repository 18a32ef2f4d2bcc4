SPECIFICATION Spec
CONSTANTS
  AnyScope = AnyScope
  Threshold = 80
  MaxRounds = 8
  MaxDegradations = 6
  Sources <- MCSources
  Modules <- MCModules
INVARIANTS
  BudgetSurvives
