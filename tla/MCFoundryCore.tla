---------------------------- MODULE MCFoundryCore ----------------------------
(***************************************************************************)
(* Instances of FoundryCore for TLC.                                       *)
(***************************************************************************)
EXTENDS FoundryCore, TLC

Budget(candidatesLimit, attemptsLimit, assignments, active, retries) ==
    [k \in BudgetKind |->
        CASE k = "Candidates" -> candidatesLimit
          [] k = "CandidateAttempts" -> attemptsLimit
          [] k = "WorkerAssignments" -> assignments
          [] k = "ActiveAttempts" -> active
          [] k = "Retries" -> retries]

\* Two workers at a time use every kind up, and there is one retry.
TightBudget == Budget(2, 2, 2, 2, 1)
AmpleBudget == Budget(4, 4, 4, 4, 2)

\* Every worker was dispatched one slot of the running population, published,
\* disconnected and was rejected.  Evaluation has begun: the first candidate
\* passed its mandatory gates.
Produced(c) ==
    [NoCandidate EXCEPT !.state = "Evaluating", !.population = 1,
        !.populationGeneration = 2, !.taskGeneration = 1, !.lineage = c,
        !.attemptCount = 1, !.output = c]
PublishedInit ==
    /\ epoch = 1
    /\ taskGeneration = 1 /\ policyGeneration = 1
    /\ ids = [population |-> 1, candidate |-> MaxCandidates, attempt |-> MaxAttempts]
    /\ populations = [p \in PopulationId |-> IF p # 1 THEN NoPopulation ELSE
           [NoPopulation EXCEPT !.state = "Evaluating", !.generation = 2,
                !.taskGeneration = 1, !.policyGeneration = 1, !.index = 1]]
    /\ candidates = [c \in CandidateId |-> Produced(c)]
    /\ \E b \in Boot, owner \in [AttemptId -> Worker] :
         /\ attempts = [a \in AttemptId |->
                [NoAttempt EXCEPT !.state = "OutcomeUnknown", !.population = 1,
                    !.candidate = a, !.worker = owner[a], !.boot = b,
                    !.packagePopulation = 2, !.packageTask = 1]]
         /\ workers = [w \in Worker |->
                [NoWorker EXCEPT !.state = "Rejected", !.boot = b,
                    !.sessionGeneration = 1, !.registeredEpoch = 1]]
         /\ sessions = {[epoch |-> 1, worker |-> w, boot |-> b, generation |-> 1] :
                           w \in Worker}
         /\ \A w \in Worker : \E a \in AttemptId : owner[a] = w
         /\ Cardinality(Worker) = MaxAttempts
    /\ evaluations = {[candidate |-> 1, key |-> k, kind |-> "Reference",
                       outcome |-> "Pass", high |-> FALSE,
                       about |-> 1] : k \in Mandatory}
    /\ selections = [p \in PopulationId |-> NoSelection]
    /\ retentions = [p \in PopulationId |-> NoRetention]
    /\ promotions = {}
    /\ reserved = [p \in PopulationId |-> [k \in BudgetKind |-> 0]]
    /\ consumed = [p \in PopulationId |-> [k \in BudgetKind |->
           IF k = "Retries" \/ p # 1 THEN 0 ELSE MaxCandidates]]
    /\ heldSelection = [x \in Controller |-> NoSelection]
    /\ heldRetention = [x \in Controller |-> NoRetention]
PublishedSpec == PublishedInit /\ [][Next]_vars

Symmetry == Permutations(Worker) \cup Permutations(Boot) \cup Permutations(Controller)
=============================================================================
