SPECIFICATION Spec
CONSTANTS
  AnyScope = AnyScope
  Threshold = 80
  MaxRounds = 8
  MaxDegradations = 6
  Sources <- MCSources
  Modules <- MCModules
INVARIANTS
  ArenaHolds
  SurvivorsUnchanged
  OrderKept
  OnlyReplayableVanishes
  UncappedMeansConverged
  PassesKeepAcceptance
  RoundTrip
  LexicalScopeIsDominance
  AcceptedBlocksAreSchedulable
  PlansAreComplete
  NothingIsLeftOut
  BoundsHalve
  EstimateIsFresh
  GivesUpAtTheEnd
PROPERTIES
  DegradingIsFaster
  EveryStepIsProgress
