SPECIFICATION FirstPublishedSpec
CONSTANTS
  w1 = w1
  b1 = b1
  x1 = x1
  Worker = {w1}
  Boot = {b1}
  Controller = {x1}
  Mandatory = {"m"}
  Optional = {}
  SelfReportKey = {}
  Limit <- AmpleBudget
  CandidateBudget = 2
  WorkerBudget = 2
  MaxAttemptsPerCandidate = 2
  RequireCompleteMandatory = TRUE
  RequirePromotionRequest = FALSE
  QualityWeight = 1
  CompletenessWeight = 1
  DepthWeight = 0
  RetainTopK = 1
  MaxRetained = 1
  MaxPerLineage = 1
  RetainSelected = TRUE
  MaxGenerationDepth = 2
  CarryForwardElite = TRUE
  MaxPopulations = 2
  MaxRootPopulations = 1
  MaxCandidates = 2
  MaxAttempts = 1
  MaxEpoch = 2
  MaxSessions = 1
  MaxTaskRevisions = 2
  MaxPolicyRevisions = 2
  MaxPopulationGeneration = 1
  MaxSelections = 1
PROPERTIES
  SettlesUnlessStale
  SelectionOutlivesRestart
CHECK_DEADLOCK FALSE
