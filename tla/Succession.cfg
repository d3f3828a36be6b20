SPECIFICATION Spec
CONSTANTS
  w1 = w1
  b1 = b1
  x1 = x1
  Worker = {w1}
  Boot = {b1}
  Controller = {x1}
  Mandatory = {"m"}
  Optional = {}
  SelfReportKey = {}
  Limit <- AmpleBudget
  CandidateBudget = 2
  WorkerBudget = 2
  MaxAttemptsPerCandidate = 2
  RequireCompleteMandatory = TRUE
  RequirePromotionRequest = TRUE
  QualityWeight = 1
  CompletenessWeight = 1
  DepthWeight = 0
  RetainTopK = 1
  MaxRetained = 1
  MaxPerLineage = 1
  RetainSelected = TRUE
  MaxGenerationDepth = 2
  CarryForwardElite = TRUE
  MaxPopulations = 2
  MaxRootPopulations = 1
  MaxCandidates = 3
  MaxAttempts = 2
  MaxEpoch = 1
  MaxSessions = 1
  MaxTaskRevisions = 1
  MaxPolicyRevisions = 1
  MaxPopulationGeneration = 2
  MaxSelections = 1
INVARIANTS
  ClosedIsQuiescent
  LineageSound
  SavedStateLoads
SYMMETRY Symmetry
CHECK_DEADLOCK FALSE
