SPECIFICATION Spec
CONSTANTS
  Null = Null
  True = True
  False = False
  NoKey = NoKey
  NoBinding = NoBinding
  c1 = c1
  c2 = c2
  fast = fast
  slow = slow
  url = url
  ValueId <- MCValueId
  OperationId <- MCOperationId
  PlanId <- MCPlanId
  Plan <- MCPlan
  Arguments <- MCArguments
  Scalar <- MCScalar
  Number <- MCNumber
  Field <- MCField
  Answers <- MCAnswers
  MemoryKeys <- MCMemoryKeys
  Entries = {"ask"}
  Failing = {}
  EnvTracksKeys = TRUE
  LosesAcks = TRUE
  CheckpointEvery = 2
  RepeatThreshold = 16
  MaxAttempts = 1
INVARIANTS
  KeyNamesInvocation
