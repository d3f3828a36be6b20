SPECIFICATION Spec
CONSTANTS
  w1 = w1
  w2 = w2
  b1 = b1
  Worker = {w1, w2}
  Boot = {b1}
  Controller = {}
  Mandatory = {"m"}
  Optional = {}
  SelfReportKey = {}
  Limit <- TightBudget
  CandidateBudget = 2
  WorkerBudget = 2
  MaxAttemptsPerCandidate = 2
  RequireCompleteMandatory = TRUE
  RequirePromotionRequest = FALSE
  QualityWeight = 1
  CompletenessWeight = 1
  DepthWeight = 0
  RetainTopK = 1
  MaxRetained = 1
  MaxPerLineage = 1
  RetainSelected = TRUE
  MaxGenerationDepth = 1
  CarryForwardElite = FALSE
  MaxPopulations = 1
  MaxRootPopulations = 1
  MaxCandidates = 2
  MaxAttempts = 4
  MaxEpoch = 1
  MaxSessions = 1
  MaxTaskRevisions = 1
  MaxPolicyRevisions = 1
  MaxPopulationGeneration = 1
  MaxSelections = 1
INVARIANTS
  TypeOK
  ReservationsAccounted
  WithinLimits
  ChargedPerOutput
  OneOpenAttemptPerSlot
  InFlightSlotIsEmpty
  BusyWithItsAttempt
SYMMETRY Symmetry
CHECK_DEADLOCK FALSE
