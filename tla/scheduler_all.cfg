SPECIFICATION Spec
CONSTANTS
  AnyScope = AnyScope
  a = a
  b = b
  Effects <- MCEffects
  Programs <- MCPrograms
INVARIANTS
  TypeOK
  SeesWhatTheProgramSays
  OperandsAreBound
  LevelsAreLongestChains
  NothingIsDropped
  TerminatorRunsAlone
