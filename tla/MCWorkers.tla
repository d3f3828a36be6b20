------------------------------ MODULE MCWorkers ------------------------------
(***************************************************************************)
(* Instances of CoordinatorWorkers for TLC.                                *)
(***************************************************************************)
EXTENDS MCFoundryCore, CoordinatorWorkers

\* Every process is started under the same worker identity.
OneHome == [b \in Boot |-> CHOOSE w \in Worker : TRUE]

\* Every population has been created and started, and that is saved.
RunningPopulation ==
    [NoPopulation EXCEPT !.state = "Running", !.generation = 2,
        !.taskGeneration = 1, !.policyGeneration = 1, !.index = 1]
StartedInit ==
    /\ epoch = 1
    /\ taskGeneration = 1 /\ policyGeneration = 1
    /\ ids = [population |-> MaxPopulations, candidate |-> 0, attempt |-> 0]
    /\ populations = [p \in PopulationId |-> RunningPopulation]
    /\ candidates = [c \in CandidateId |-> NoCandidate]
    /\ attempts = [a \in AttemptId |-> NoAttempt]
    /\ workers = [w \in Worker |-> NoWorker]
    /\ evaluations = {} /\ promotions = {} /\ sessions = {}
    /\ selections = [p \in PopulationId |-> NoSelection]
    /\ retentions = [p \in PopulationId |-> NoRetention]
    /\ reserved = [p \in PopulationId |-> [k \in BudgetKind |-> 0]]
    /\ consumed = [p \in PopulationId |-> [k \in BudgetKind |-> 0]]
    /\ heldSelection = [x \in Controller |-> NoSelection]
    /\ heldRetention = [x \in Controller |-> NoRetention]
    /\ ProcessInit
FairStartedSpec == StartedInit /\ [][WorkersNext]_allVars /\ WorkersFairness
=============================================================================
