SPECIFICATION PublishedSpec
CONSTANTS
  w1 = w1
  w2 = w2
  b1 = b1
  x1 = x1
  Worker = {w1, w2}
  Boot = {b1}
  Controller = {x1}
  Mandatory = {"m"}
  Optional = {"o"}
  SelfReportKey = {"m"}
  Limit <- AmpleBudget
  CandidateBudget = 2
  WorkerBudget = 2
  MaxAttemptsPerCandidate = 2
  RequireCompleteMandatory = FALSE
  RequirePromotionRequest = FALSE
  QualityWeight = 1
  CompletenessWeight = 1
  DepthWeight = 0
  RetainTopK = 1
  MaxRetained = 1
  MaxPerLineage = 1
  RetainSelected = TRUE
  MaxGenerationDepth = 1
  CarryForwardElite = FALSE
  MaxPopulations = 1
  MaxRootPopulations = 1
  MaxCandidates = 2
  MaxAttempts = 2
  MaxEpoch = 1
  MaxSessions = 1
  MaxTaskRevisions = 2
  MaxPolicyRevisions = 2
  MaxPopulationGeneration = 2
  MaxSelections = 2
INVARIANTS
  AuditClean
  WinnerPassedEveryGate
PROPERTIES
  CommitsCurrentRanking
  CommitsCurrentRetention
SYMMETRY Symmetry
CHECK_DEADLOCK FALSE
