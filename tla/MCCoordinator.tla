---------------------------- MODULE MCCoordinator ----------------------------
(***************************************************************************)
(* Instances of CoordinatorEvaluation for TLC.                             *)
(***************************************************************************)
EXTENDS MCFoundryCore, CoordinatorEvaluation

\* The first population runs; its first candidate is published, by a worker
\* that has disconnected since, and awaits its evidence.
FirstPublished ==
    /\ epoch = 1
    /\ taskGeneration = 1 /\ policyGeneration = 1
    /\ ids = [population |-> 1, candidate |-> 1, attempt |-> 1]
    /\ populations = [p \in PopulationId |-> IF p # 1 THEN NoPopulation ELSE
           [NoPopulation EXCEPT !.state = "Evaluating", !.generation = 2,
                !.taskGeneration = 1, !.policyGeneration = 1, !.index = 1]]
    /\ candidates = [c \in CandidateId |-> IF c # 1 THEN NoCandidate
                        ELSE [Produced(1) EXCEPT !.state = "Published"]]
    /\ \E w \in Worker, b \in Boot :
         /\ attempts = [a \in AttemptId |-> IF a # 1 THEN NoAttempt ELSE
                [NoAttempt EXCEPT !.state = "OutcomeUnknown", !.population = 1,
                    !.candidate = 1, !.worker = w, !.boot = b,
                    !.packagePopulation = 2, !.packageTask = 1]]
         /\ workers = [v \in Worker |-> IF v # w THEN NoWorker ELSE
                [NoWorker EXCEPT !.state = "Rejected", !.boot = b,
                    !.sessionGeneration = 1, !.registeredEpoch = 1]]
         /\ sessions = {[epoch |-> 1, worker |-> w, boot |-> b, generation |-> 1]}
    /\ evaluations = {} /\ promotions = {}
    /\ selections = [p \in PopulationId |-> NoSelection]
    /\ retentions = [p \in PopulationId |-> NoRetention]
    /\ reserved = [p \in PopulationId |-> [k \in BudgetKind |-> 0]]
    /\ consumed = [p \in PopulationId |-> [k \in BudgetKind |->
           IF p # 1 \/ k = "Retries" THEN 0 ELSE 1]]
    /\ heldSelection = [x \in Controller |-> NoSelection]
    /\ heldRetention = [x \in Controller |-> NoRetention]
    /\ jobs = [c \in CandidateId |-> NoJob]
FirstPublishedSpec == FirstPublished /\ CoordinatorSteps
=============================================================================
