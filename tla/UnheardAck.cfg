SPECIFICATION FairStartedSpec
CONSTANTS
  w1 = w1
  b1 = b1
  Worker = {w1}
  Boot = {b1}
  Controller = {}
  Mandatory = {"m"}
  Optional = {}
  SelfReportKey = {"worker-self-report"}
  Limit <- AmpleBudget
  CandidateBudget = 1
  WorkerBudget = 1
  MaxAttemptsPerCandidate = 2
  RequireCompleteMandatory = TRUE
  RequirePromotionRequest = FALSE
  QualityWeight = 1
  CompletenessWeight = 1
  DepthWeight = 0
  RetainTopK = 1
  MaxRetained = 1
  MaxPerLineage = 1
  RetainSelected = TRUE
  MaxGenerationDepth = 1
  CarryForwardElite = FALSE
  MaxPopulations = 1
  MaxRootPopulations = 1
  MaxCandidates = 1
  MaxAttempts = 1
  MaxEpoch = 1
  MaxSessions = 1
  MaxTaskRevisions = 1
  MaxPolicyRevisions = 1
  MaxPopulationGeneration = 1
  MaxSelections = 1
  Home <- OneHome
  MaxSaveFailures = 0
PROPERTIES
  AcknowledgementIsHeard
CHECK_DEADLOCK FALSE
