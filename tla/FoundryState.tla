---------------------------- MODULE FoundryState ----------------------------
(***************************************************************************)
(* The durable state of FoundryCore (the maps of foundry_core_impl.hpp),   *)
(* the legal-transition tables, the budget ledger, the authority checks    *)
(* and the helpers that several handlers share.                            *)
(*                                                                         *)
(* An identity is its allocation counter, so the order in which the code   *)
(* sorts identities is the order of the numbers; 0 is the null identity.   *)
(* A record that was never created is in state "Absent".  One task and one *)
(* policy are modelled; what matters of them is their generation.          *)
(* Every public method of FoundryCore holds the one mutex for its whole    *)
(* body, so every handler is one action.                                   *)
(***************************************************************************)
EXTENDS Integers, FiniteSets

CONSTANTS
    Worker,                  \* durable worker identities
    Boot,                    \* boot identities a worker process may present
    Controller,              \* callers that hold prepared decisions
    Mandatory, Optional,     \* evaluator keys of the task's requirements
    SelfReportKey            \* keys under which workers report on themselves

CONSTANTS
    Limit,                   \* BudgetLimits: limit of each budget kind
    CandidateBudget,         \* PopulationSpec::candidate_budget
    WorkerBudget,            \* PopulationSpec::worker_budget
    MaxAttemptsPerCandidate, \* kMaxAttemptsPerCandidate
    RequireCompleteMandatory,
    RequirePromotionRequest,
    QualityWeight, CompletenessWeight, DepthWeight,
    RetainTopK, MaxRetained, MaxPerLineage, RetainSelected,
    MaxGenerationDepth, CarryForwardElite

\* Bounds of the explored instance; the code has none of these.
CONSTANTS
    MaxPopulations, MaxCandidates, MaxAttempts,  \* identities allocated
    MaxRootPopulations,      \* populations that have no predecessor
    MaxEpoch,                \* coordinator incarnations
    MaxSessions,             \* session generations per worker
    MaxTaskRevisions,        \* generations of the task
    MaxPolicyRevisions,      \* generations of the policy
    MaxPopulationGeneration, \* bound on requesting revalidation
    MaxSelections            \* selection generations per population

\* The depth no candidate exceeds.
kMaxLineageDepth == 64

BudgetKind == {"Candidates", "CandidateAttempts", "WorkerAssignments",
               "ActiveAttempts", "Retries"}

ASSUME BoundsAssumption ==
    /\ MaxPopulations \in Nat /\ MaxCandidates \in Nat /\ MaxAttempts \in Nat
    /\ MaxRootPopulations \in Nat
    /\ MaxEpoch \in Nat /\ MaxSessions \in Nat
    /\ MaxTaskRevisions \in Nat /\ MaxPolicyRevisions \in Nat
    /\ MaxPopulationGeneration \in Nat /\ MaxSelections \in Nat

\* What validate_policy, BudgetLimits::validate and create_population demand.
ASSUME PolicyAssumption ==
    /\ Limit \in [BudgetKind -> Nat]
    /\ CandidateBudget \in 1..Limit["Candidates"]
    /\ WorkerBudget \in Nat \ {0}
    /\ MaxAttemptsPerCandidate \in Nat
    /\ RequireCompleteMandatory \in BOOLEAN
    /\ RequirePromotionRequest \in BOOLEAN
    /\ RetainSelected \in BOOLEAN /\ CarryForwardElite \in BOOLEAN
    /\ QualityWeight \in Nat /\ CompletenessWeight \in Nat /\ DepthWeight \in Nat
    /\ RetainTopK \in 1..MaxRetained /\ MaxRetained \in Nat
    /\ MaxPerLineage \in 1..MaxRetained
    /\ MaxGenerationDepth \in 1..kMaxLineageDepth

ASSUME EvaluatorAssumption ==
    /\ Mandatory \cap Optional = {}
    /\ IsFiniteSet(Mandatory) /\ IsFiniteSet(Optional)

-----------------------------------------------------------------------------
(* State names, terminal states and legal transitions. *)

PopulationId == 1..MaxPopulations
CandidateId == 1..MaxCandidates
AttemptId == 1..MaxAttempts
Requirement == Mandatory \cup Optional

\* The counters of the IdAllocator.
IdCounters == [population: 0..MaxPopulations, candidate: 0..MaxCandidates,
               attempt: 0..MaxAttempts]

PopulationState == {"Absent", "Created", "Ready", "Running", "Evaluating",
    "Selecting", "Advancing", "Closing", "Closed", "Failed", "Cancelled",
    "RevalidationRequired"}
PopulationTerminal == {"Closed", "Failed", "Cancelled"}

CandidateState == {"Absent", "Registered", "Producing", "Published",
    "Evaluating", "Evaluated", "Selected", "Retained", "Retired",
    "Superseded", "RevalidationRequired", "ProductionFailed",
    "ProductionCancelled", "Disqualified"}

AttemptState == {"Absent", "Authorized", "Dispatched", "Running", "Published",
    "Evaluating", "Completed", "Failed", "Cancelled", "OutcomeUnknown"}
AttemptTerminal == {"Completed", "Failed", "Cancelled", "OutcomeUnknown"}
\* Created is never stored: authorize_attempt inserts the record Authorized.
AttemptInFlight == {"Authorized", "Dispatched", "Running"}
AttemptOpen == AttemptInFlight \cup {"Published", "Evaluating"}

WorkerState == {"Absent", "Registered", "Ready", "Busy",
    "RevalidationRequired", "Offline", "Rejected"}

PopulationTransition ==
    UNION {
      {"Created"} \X {"Ready", "Cancelled", "Failed"},
      {"Ready"} \X {"Running", "Cancelled", "Failed", "RevalidationRequired"},
      {"Running"} \X {"Evaluating", "Selecting", "RevalidationRequired",
                      "Closing", "Cancelled", "Failed"},
      {"Evaluating"} \X {"Selecting", "Running", "RevalidationRequired",
                         "Closing", "Cancelled", "Failed"},
      {"Selecting"} \X {"Advancing", "Closing", "Running",
                        "RevalidationRequired", "Cancelled", "Failed"},
      {"Advancing"} \X {"Selecting", "Running", "Closing",
                        "RevalidationRequired", "Failed"},
      {"RevalidationRequired"} \X {"Running", "Evaluating", "Selecting",
                                   "Closing", "Failed", "Cancelled"},
      {"Closing"} \X {"Closed", "Failed"} }

CandidateTransition ==
    UNION {
      {"Registered"} \X {"Producing", "ProductionFailed",
                         "ProductionCancelled", "Disqualified"},
      {"Producing"} \X {"Registered", "Published", "ProductionFailed",
                        "ProductionCancelled"},
      {"Published"} \X {"Evaluating", "RevalidationRequired", "Superseded",
                        "Disqualified", "ProductionCancelled"},
      {"Evaluating"} \X {"Evaluated", "RevalidationRequired", "Disqualified",
                         "Superseded", "ProductionCancelled"},
      {"Evaluated"} \X {"Selected", "Retained", "Retired", "Disqualified",
                        "Superseded", "RevalidationRequired"},
      {"RevalidationRequired"} \X {"Evaluating", "Evaluated", "Retired",
                                   "Superseded", "Disqualified"},
      {"Selected"} \X {"Retained", "Retired", "Superseded"},
      {"Retained"} \X {"Selected", "Retired", "Superseded"} }

PopulationLegal(from, to) == from = to \/ <<from, to>> \in PopulationTransition
CandidateLegal(from, to) == from = to \/ <<from, to>> \in CandidateTransition

\* Candidate states that refuse a publication and refuse evidence.
CandidateFinished == {"ProductionCancelled", "Superseded", "Retired",
                      "Disqualified", "ProductionFailed"}
\* Candidate states that keep a population from closing.
CandidateUnresolved == {"Registered", "Producing", "Published", "Evaluating",
                        "RevalidationRequired"}

-----------------------------------------------------------------------------
(* Records. *)

PopulationRecord == [
    state: PopulationState,
    generation: Nat,
    taskGeneration: Nat, policyGeneration: Nat,
    index: Nat,                      \* population_index
    seed: {0} \cup CandidateId,      \* seed_candidate
    committedSelection: Nat,         \* 0: none
    retentionCommitted: BOOLEAN,
    retentionSelection: Nat,         \* retention_selection_generation
    promotionRequested: BOOLEAN]     \* committed_promotion_request is valid

\* "output" is the attempt whose artifacts the candidate carries; it stands
\* for artifacts, artifact_set_digest, producer_worker and producer_boot.
\* A root candidate's lineage is named after the candidate.
CandidateRecord == [
    state: CandidateState,
    population: {0} \cup PopulationId,
    populationGeneration: Nat, taskGeneration: Nat,  \* when the slot was made
    lineage: {0} \cup CandidateId, parent: {0} \cup CandidateId, depth: Nat,
    attemptCount: Nat,
    output: {0} \cup AttemptId,
    selected: BOOLEAN, retained: BOOLEAN]

\* packagePopulation and packageTask are the generations the AttemptPackage
\* carried to the worker, which echoes them; 0 before confirm_dispatch.
AttemptRecord == [
    state: AttemptState,
    population: {0} \cup PopulationId, candidate: {0} \cup CandidateId,
    worker: {0} \cup Worker, boot: {0} \cup Boot,
    retry: BOOLEAN,                  \* retry_index > 0
    holdsReservation: BOOLEAN,
    packagePopulation: Nat, packageTask: Nat]

WorkerRecord == [
    state: WorkerState, boot: {0} \cup Boot, sessionGeneration: Nat,
    active: {0} \cup AttemptId, registeredEpoch: Nat]

\* WorkerSessionAuthority; the session identity changes exactly when the
\* session generation does, so the generation stands for both.
SessionAuthority == [epoch: Nat, worker: Worker, boot: Boot, generation: Nat]

\* "about" is the output the candidate carried when the report came in: what
\* the evidence really is about.  Every stored record is complete.
EvaluationRecord == [
    candidate: CandidateId, key: Requirement \cup SelfReportKey,
    kind: {"Reference", "WorkerSelfReport"},
    outcome: {"Pass", "NotPass"}, high: BOOLEAN,
    about: {0} \cup AttemptId]

\* A digest is modelled by the inputs it encodes (SHA-256 as an injection).
SelectionDigest == [
    generation: Nat, taskGeneration: Nat, policyGeneration: Nat,
    candidates: [CandidateId -> CandidateRecord],
    evidence: SUBSET EvaluationRecord]

SelectionDecision == [
    state: {"None", "Prepared", "Impossible", "Committed"},
    population: {0} \cup PopulationId,
    populationGeneration: Nat, taskGeneration: Nat, policyGeneration: Nat,
    generation: Nat,
    selected: {0} \cup CandidateId,
    rank: [CandidateId -> Nat],      \* 0: not ranked
    digest: SelectionDigest]

RetentionDigest == [
    generation: Nat, policyGeneration: Nat, selectionGeneration: Nat,
    selection: SelectionDigest]

RetentionDecision == [
    state: {"None", "Prepared", "Committed"},
    population: {0} \cup PopulationId,
    populationGeneration: Nat, policyGeneration: Nat,
    selectionGeneration: Nat,
    retained: SUBSET CandidateId, retired: SUBSET CandidateId,
    digest: RetentionDigest]

PromotionRequest == [population: PopulationId, candidate: CandidateId,
                     selectionGeneration: Nat, eligible: BOOLEAN]

-----------------------------------------------------------------------------

VARIABLES
    epoch,              \* coordinator incarnation
    taskGeneration, policyGeneration,
    ids,                \* IdAllocator counters
    populations, candidates, attempts, workers, evaluations,
    selections, retentions, promotions,
    reserved, consumed, \* ledgers_
    sessions,           \* every session authority ever issued to a worker
    heldSelection, heldRetention  \* decisions prepared for each controller

definitionVars == <<taskGeneration, policyGeneration>>
ledgerVars == <<reserved, consumed>>
decisionVars == <<selections, retentions, promotions, heldSelection, heldRetention>>
workerVars == <<workers, sessions>>
vars == <<epoch, definitionVars, ids, populations, candidates, attempts,
          evaluations, ledgerVars, decisionVars, workerVars>>

NoPopulation == [state |-> "Absent", generation |-> 0, taskGeneration |-> 0,
    policyGeneration |-> 0, index |-> 0, seed |-> 0, committedSelection |-> 0,
    retentionCommitted |-> FALSE, retentionSelection |-> 0,
    promotionRequested |-> FALSE]
NoCandidate == [state |-> "Absent", population |-> 0,
    populationGeneration |-> 0, taskGeneration |-> 0, lineage |-> 0, parent |-> 0,
    depth |-> 0, attemptCount |-> 0, output |-> 0, selected |-> FALSE,
    retained |-> FALSE]
NoAttempt == [state |-> "Absent", population |-> 0, candidate |-> 0,
    worker |-> 0, boot |-> 0, retry |-> FALSE,
    holdsReservation |-> FALSE, packagePopulation |-> 0, packageTask |-> 0]
NoWorker == [state |-> "Absent", boot |-> 0, sessionGeneration |-> 0,
    active |-> 0, registeredEpoch |-> 0]
NoSelectionDigest == [generation |-> 0, taskGeneration |-> 0,
    policyGeneration |-> 0, candidates |-> [c \in CandidateId |-> NoCandidate],
    evidence |-> {}]
NoSelection == [state |-> "None", population |-> 0, populationGeneration |-> 0,
    taskGeneration |-> 0, policyGeneration |-> 0, generation |-> 0,
    selected |-> 0, rank |-> [c \in CandidateId |-> 0],
    digest |-> NoSelectionDigest]
NoRetention == [state |-> "None", population |-> 0, populationGeneration |-> 0,
    policyGeneration |-> 0, selectionGeneration |-> 0, retained |-> {},
    retired |-> {}, digest |-> [generation |-> 0, policyGeneration |-> 0,
        selectionGeneration |-> 0, selection |-> NoSelectionDigest]]

\* A new core after define_task and define_policy, at its first epoch.
Init ==
    /\ epoch = 1
    /\ taskGeneration = 1 /\ policyGeneration = 1
    /\ ids = [population |-> 0, candidate |-> 0, attempt |-> 0]
    /\ populations = [p \in PopulationId |-> NoPopulation]
    /\ candidates = [c \in CandidateId |-> NoCandidate]
    /\ attempts = [a \in AttemptId |-> NoAttempt]
    /\ workers = [w \in Worker |-> NoWorker]
    /\ evaluations = {}
    /\ selections = [p \in PopulationId |-> NoSelection]
    /\ retentions = [p \in PopulationId |-> NoRetention]
    /\ promotions = {}
    /\ reserved = [p \in PopulationId |-> [k \in BudgetKind |-> 0]]
    /\ consumed = [p \in PopulationId |-> [k \in BudgetKind |-> 0]]
    /\ sessions = {}
    /\ heldSelection = [x \in Controller |-> NoSelection]
    /\ heldRetention = [x \in Controller |-> NoRetention]

-----------------------------------------------------------------------------
(* Lookups. *)

CandidatesOf(p) == {c \in CandidateId : candidates[c].population = p}
AttemptsOf(c) == {a \in AttemptId : attempts[a].candidate = c}
\* Mutation of OpenAttemptsOf: a running attempt does not count as open.
OpenAttemptsButRunning(c) ==
    {a \in AttemptsOf(c) : attempts[a].state \in AttemptOpen \ {"Running"}}
OpenAttemptsOf(c) == {a \in AttemptsOf(c) : attempts[a].state \in AttemptOpen}
ActiveAttempts(p) == {a \in AttemptId : /\ attempts[a].population = p
                                        /\ attempts[a].state \in AttemptInFlight}
\* Mutation of LivePopulation: terminal states are forgotten.
KnownPopulation(p) == populations[p].state # "Absent"
LivePopulation(p) == /\ populations[p].state # "Absent"
                     /\ populations[p].state \notin PopulationTerminal

(* Evidence E about candidate c: the records of authoritative kind for one
   requirement, and whether the declared evidence set is complete.  A task
   without requirements never settles a candidate. *)
\* Mutation of RequirementRecords: a worker's claim counts as evidence.
AllRecords(E, c, k) == {r \in E : r.candidate = c /\ r.key = k}
RequirementRecords(E, c, k) ==
    {r \in E : r.candidate = c /\ r.key = k /\ r.kind # "WorkerSelfReport"}
RequirementComplete(E, c, k) == RequirementRecords(E, c, k) # {}
RequirementPassed(E, c, k) ==
    /\ RequirementComplete(E, c, k)
    /\ \A r \in RequirementRecords(E, c, k) : r.outcome = "Pass"
EvidenceComplete(E, c) ==
    /\ Requirement # {}
    /\ \A k \in Requirement : RequirementComplete(E, c, k)

(* Authority. *)
ValidSession(s) ==
    LET w == workers[s.worker] IN
    /\ s.epoch = epoch
    /\ w.state # "Absent"
    /\ s.boot = w.boot
    /\ s.generation = w.sessionGeneration
    /\ w.state # "Rejected"

\* A worker acts on an attempt it was sent a package for.
ValidOperation(s, a) ==
    LET t == attempts[a] IN
    /\ ValidSession(s)
    /\ t.packagePopulation # 0
    /\ t.packagePopulation = populations[t.population].generation
    /\ t.packageTask = populations[t.population].taskGeneration
    /\ LivePopulation(t.population)
    /\ t.worker = s.worker /\ t.boot = s.boot

(* The budget ledger.  reserve refuses at the limit; consume and release
   refuse without an open reservation, and every caller ignores that. *)
InUse(p, k) == reserved[p][k] + consumed[p][k]
\* Mutation of HasCapacity: one reservation too many fits.
FitsAtLimit(p, k) == InUse(p, k) <= Limit[k]
HasCapacity(p, k) == InUse(p, k) < Limit[k]
Reserve(p, kinds) ==
    [reserved EXCEPT ![p] = [k \in BudgetKind |->
        IF k \in kinds THEN @[k] + 1 ELSE @[k]]]
Settled(p, k, n) == IF reserved[p][k] < n THEN reserved[p][k] ELSE n

\* The kinds an attempt reserves, and settles together.
KindsOf(t) == {"CandidateAttempts", "WorkerAssignments", "ActiveAttempts"}
              \cup IF t.retry THEN {"Retries"} ELSE {}

\* Mutation of ReleaseReservations: an attempt may give back what it gave
\* back before.
ReleaseAgain(A) ==
    [p \in PopulationId |-> [k \in BudgetKind |->
        LET returned == {a \in A : /\ attempts[a].population = p
                                   /\ k \in KindsOf(attempts[a])}
        IN  reserved[p][k] - Settled(p, k, Cardinality(returned))]]
\* Mutation of ReleaseReservations: and the counter may underflow.
ReleaseBelowZero(A) ==
    [p \in PopulationId |-> [k \in BudgetKind |->
        reserved[p][k] - Cardinality({a \in A : /\ attempts[a].population = p
                                                /\ k \in KindsOf(attempts[a])})]]

\* release_attempt_reservations_locked for every attempt in A.
ReleaseReservations(A) ==
    [p \in PopulationId |-> [k \in BudgetKind |->
        LET returned == {a \in A : /\ attempts[a].population = p
                                   /\ attempts[a].holdsReservation
                                   /\ k \in KindsOf(attempts[a])}
        IN  reserved[p][k] - Settled(p, k, Cardinality(returned))]]

\* Every attempt in A takes the state st and gives its reservations back.
EndAttempts(A, st) ==
    [a \in AttemptId |->
        IF a \in A
        THEN [attempts[a] EXCEPT !.state = st, !.holdsReservation = FALSE]
        ELSE attempts[a]]

\* Mutation of ReopenSlots: a slot that has an output is started afresh too.
RestartSlots(A) ==
    [c \in CandidateId |->
        IF A \cap AttemptsOf(c) # {}
        THEN [candidates[c] EXCEPT !.state = "Registered", !.output = 0]
        ELSE candidates[c]]

\* Slots whose attempt ended without an outcome may be tried again.
ReopenSlots(A) ==
    [c \in CandidateId |->
        IF /\ A \cap AttemptsOf(c) # {}
           /\ candidates[c].state \in {"Producing", "Registered"}
        THEN [candidates[c] EXCEPT !.state = "Registered"]
        ELSE candidates[c]]

(* settle_candidate_locked: a candidate whose evidence is complete walks to
   Evaluated, and its attempts complete whatever its own state was. *)
SettledCandidate(r) ==
    IF r.state \in {"Published", "Evaluating"}
    THEN [r EXCEPT !.state = "Evaluated"] ELSE r
SettledBy(C) == {a \in AttemptId :
                  /\ attempts[a].candidate \in C
                  /\ attempts[a].state \in {"Published", "Evaluating",
                                            "Running", "Dispatched"}}

\* A worker whose attempt is over: free for the next one.
FreeWorker(w) == [workers EXCEPT ![w].state = "Ready", ![w].active = 0]
\* Mutation of FreeWorkersOf: workers of attempts that run are left alone.
FreeIdleWorkersOf(A) ==
    [w \in Worker |->
        IF \E a \in A : /\ attempts[a].worker = w /\ workers[w].active = a
                       /\ attempts[a].state # "Running"
        THEN [workers[w] EXCEPT !.state = "Ready", !.active = 0]
        ELSE workers[w]]
\* The workers of the attempts in A that have one of them active.
FreeWorkersOf(A) ==
    [w \in Worker |->
        IF \E a \in A : attempts[a].worker = w /\ workers[w].active = a
        THEN [workers[w] EXCEPT !.state = "Ready", !.active = 0]
        ELSE workers[w]]
=============================================================================
