SPECIFICATION FairSpec
CONSTANTS
  Null = Null
  True = True
  False = False
  NoKey = NoKey
  NoBinding = NoBinding
  c1 = c1
  c2 = c2
  fast = fast
  slow = slow
  url = url
  ValueId <- MCValueId
  OperationId <- MCOperationId
  PlanId <- MCPlanId
  Plan <- MCPlan
  Arguments <- MCArguments
  Scalar <- MCScalar
  Number <- MCNumber
  Field <- MCField
  Answers <- MCAnswers
  MemoryKeys <- MCMemoryKeys
  Entries = {"durable", "nested", "infer", "store", "worklist"}
  Failing = {}
  EnvTracksKeys = TRUE
  LosesAcks = TRUE
  CheckpointEvery = 2
  RepeatThreshold = 16
  MaxAttempts = 3
INVARIANTS
  TypeOK
  WritesAppliedOnce
  AnswersAgree
  KeyNamesInvocation
  FinishedMeansApplied
  
  LoggedCheckpointsExist
  SnapshotsCoverTheLog
PROPERTIES
  ImplementsDurableEffects
  Completes
