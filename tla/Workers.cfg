SPECIFICATION WorkersSpec
CONSTANTS
  w1 = w1
  b1 = b1
  b2 = b2
  Worker = {w1}
  Boot = {b1, b2}
  Controller = {}
  Mandatory = {"m"}
  Optional = {}
  SelfReportKey = {"worker-self-report"}
  Limit <- AmpleBudget
  CandidateBudget = 2
  WorkerBudget = 2
  MaxAttemptsPerCandidate = 2
  RequireCompleteMandatory = TRUE
  RequirePromotionRequest = FALSE
  QualityWeight = 1
  CompletenessWeight = 1
  DepthWeight = 0
  RetainTopK = 1
  MaxRetained = 1
  MaxPerLineage = 1
  RetainSelected = TRUE
  MaxGenerationDepth = 1
  CarryForwardElite = FALSE
  MaxPopulations = 1
  MaxRootPopulations = 1
  MaxCandidates = 2
  MaxAttempts = 2
  MaxEpoch = 2
  MaxSessions = 2
  MaxTaskRevisions = 1
  MaxPolicyRevisions = 1
  MaxPopulationGeneration = 1
  MaxSelections = 1
  Home <- OneHome
  MaxSaveFailures = 1
INVARIANTS
  AcknowledgedIsDurable
  AssignedIsDurable
PROPERTIES
  OutcomesRecordedOnce
CHECK_DEADLOCK FALSE
