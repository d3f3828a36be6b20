----------------------------- MODULE WorkersProofs -----------------------------
(***************************************************************************)
(* The coordinator, its snapshot and its workers, for every value of the   *)
(* constants: a crash takes the core back to the snapshot, so the snapshot *)
(* has to satisfy the invariants of the core, and every state after it has *)
(* to follow from it by steps that keep outcomes.                          *)
(***************************************************************************)
EXTENDS CoordinatorWorkers, FoundrySlots

USE DEF definitionVars, ledgerVars, decisionVars, workerVars, diskVars, netVars

-----------------------------------------------------------------------------
(* Snapshots. *)

\* A core whose controllers never decided anything.
NoSelections == [p \in PopulationId |-> NoSelection]
NoRetentions == [p \in PopulationId |-> NoRetention]

\* A snapshot of a core in which no decision was made.
SnapshotRecord ==
    [epoch: Nat \ {0}, taskGeneration: Nat, policyGeneration: Nat, ids: IdCounters,
     populations: [PopulationId -> PopulationRecord],
     candidates: [CandidateId -> CandidateRecord],
     attempts: [AttemptId -> SoundAttempt],
     workers: [Worker -> WorkerRecord],
     evaluations: SUBSET EvaluationRecord,
     selections: {NoSelections}, retentions: {NoRetentions}, promotions: {{}},
     reserved: [PopulationId -> [BudgetKind -> Nat]],
     consumed: [PopulationId -> [BudgetKind -> Nat]]]

\* CountersExact, of a snapshot.
Counted(d) ==
    /\ \A p \in PopulationId : IF p <= d.ids.population THEN d.populations[p].state # "Absent"
                               ELSE d.populations[p] = NoPopulation
    /\ \A c \in CandidateId : IF c <= d.ids.candidate THEN d.candidates[c].state # "Absent"
                              ELSE d.candidates[c] = NoCandidate
    /\ \A a \in AttemptId : IF a <= d.ids.attempt THEN d.attempts[a].state # "Absent"
                            ELSE d.attempts[a] = NoAttempt

\* Identities of records in a snapshot.
HasCandidate(d, c) == c \in CandidateId /\ d.candidates[c].state # "Absent"
HasPopulation(d, p) == p \in PopulationId /\ d.populations[p].state # "Absent"

\* TableRefs, of a snapshot.
Referring(d) ==
    /\ \A a \in AttemptId : d.attempts[a].state # "Absent" =>
          /\ HasCandidate(d, d.attempts[a].candidate)
          /\ d.attempts[a].population = d.candidates[d.attempts[a].candidate].population
          /\ d.attempts[a].worker \in Worker /\ d.attempts[a].boot \in Boot
    /\ \A c \in CandidateId : d.candidates[c].state # "Absent" =>
          LET r == d.candidates[c] IN
          /\ HasPopulation(d, r.population)
          /\ IF r.parent = 0 THEN r.depth = 0 /\ r.lineage = c
             ELSE /\ r.parent # c /\ HasCandidate(d, r.parent)
                  /\ r.depth = d.candidates[r.parent].depth + 1
                  /\ r.lineage = d.candidates[r.parent].lineage
          /\ r.output # 0 => d.attempts[r.output].state # "Absent"
    /\ \A p \in PopulationId : d.populations[p].state # "Absent" =>
          d.populations[p].seed = 0 \/ HasCandidate(d, d.populations[p].seed)
    /\ \A r \in d.evaluations : HasCandidate(d, r.candidate)

\* A population that was not started is in its first generation, and nobody
\* registered in an epoch that is yet to come.
Timely(d) ==
    /\ \A p \in PopulationId : d.populations[p].state \in {"Created", "Ready"} =>
                               d.populations[p].generation = 1
    /\ \A w \in Worker : d.workers[w].registeredEpoch <= d.epoch

\* The authority begin_dispatch builds for a worker of the current epoch is one
\* the worker was issued, among S.
Issued(d, S) ==
    \A w \in Worker : d.workers[w].registeredEpoch = d.epoch =>
        [epoch |-> d.epoch, worker |-> w, boot |-> d.workers[w].boot,
         generation |-> d.workers[w].sessionGeneration] \in S

\* What a snapshot has to be for a core to go on from it.
Sound(d, S) ==
    /\ d \in SnapshotRecord /\ IsFiniteSet(d.evaluations)
    /\ Counted(d) /\ Referring(d) /\ Timely(d) /\ Issued(d, S)

\* The part of the core that no snapshot has.
Callers ==
    /\ sessions \subseteq SessionAuthority
    /\ heldSelection = [x \in Controller |-> NoSelection]
    /\ heldRetention = [x \in Controller |-> NoRetention]

\* Decisions that were never made are of their types.
LEMMA NothingIsTyped ==
    /\ NoSelection \in SelectionDecision /\ NoRetention \in RetentionDecision
    /\ NoSelection.state = "None" /\ NoRetention.state = "None"
<1>1. NoCandidate \in CandidateRecord
  BY DEF NoCandidate, CandidateRecord, CandidateState
<1>2. [c \in CandidateId |-> NoCandidate] \in [CandidateId -> CandidateRecord]
  BY <1>1
<1>3. NoSelectionDigest \in SelectionDigest
  BY <1>2 DEF NoSelectionDigest, SelectionDigest
<1>4. [c \in CandidateId |-> 0] \in [CandidateId -> Nat]
  OBVIOUS
<1>5. NoSelection \in SelectionDecision /\ NoSelection.state = "None"
  BY <1>3, <1>4 DEF NoSelection, SelectionDecision
<1>6. NoRetention \in RetentionDecision /\ NoRetention.state = "None"
  BY <1>3 DEF NoRetention, RetentionDecision, RetentionDigest
<1> QED BY <1>5, <1>6

\* The core of a sound snapshot satisfies the invariants of the core.
LEMMA SoundIsInv ==
    Sound(Snapshot, sessions) /\ Callers => CoreInv /\ RefInv
<1> SUFFICES ASSUME Sound(Snapshot, sessions), Callers PROVE CoreInv /\ RefInv
  OBVIOUS
<1>1. Snapshot \in SnapshotRecord /\ IsFiniteSet(evaluations)
  BY DEF Sound, Snapshot
<1>2. /\ epoch \in Nat /\ taskGeneration \in Nat /\ policyGeneration \in Nat
      /\ ids \in IdCounters
      /\ populations \in [PopulationId -> PopulationRecord]
      /\ candidates \in [CandidateId -> CandidateRecord]
      /\ attempts \in [AttemptId -> SoundAttempt]
      /\ workers \in [Worker -> WorkerRecord]
      /\ evaluations \subseteq EvaluationRecord
      /\ selections = NoSelections /\ retentions = NoRetentions /\ promotions = {}
      /\ reserved \in [PopulationId -> [BudgetKind -> Nat]]
      /\ consumed \in [PopulationId -> [BudgetKind -> Nat]]
  BY <1>1 DEF Snapshot, SnapshotRecord
<1>3. attempts \in [AttemptId -> AttemptRecord]
  BY <1>2 DEF SoundAttempt
<1>4. CoreInv
  BY <1>1, <1>2, <1>3, NothingIsTyped DEF CoreInv, TypeOK, Callers, NoSelections, NoRetentions
<1>5. CountersExact
  BY DEF Sound, Counted, Snapshot, CountersExact
<1>6. TableRefs
  BY <1>5, <1>2 DEF Sound, Referring, HasCandidate, HasPopulation, Snapshot, TableRefs, AttemptRef,
     CandidateRef, LineageOf, PopulationRef, KnownCandidate, ExistingPopulation
<1>7. DecisionRefs
  BY <1>2, NothingIsTyped DEF DecisionRefs, SelectionRef, RetentionRef, Callers, NoSelections,
     NoRetentions
<1> QED BY <1>4, <1>6, <1>7 DEF RefInv

\* And the other way round.
LEMMA InvIsSound ==
    ASSUME CoreInv, RefInv, epoch # 0,
           selections = NoSelections, retentions = NoRetentions, promotions = {},
           Timely(Snapshot), Issued(Snapshot, sessions)
    PROVE  Sound(Snapshot, sessions)
<1>1. Snapshot \in SnapshotRecord
  BY DEF CoreInv, TypeOK, Snapshot, SnapshotRecord
<1>2. IsFiniteSet(Snapshot.evaluations)
  BY DEF CoreInv, Snapshot
<1>3. Counted(Snapshot)
  BY DEF RefInv, TableRefs, Counted, Snapshot, CountersExact
<1>4. Referring(Snapshot)
  BY DEF RefInv, Referring, HasCandidate, HasPopulation, Snapshot, TableRefs, AttemptRef,
     CandidateRef, LineageOf, PopulationRef, KnownCandidate, ExistingPopulation
<1> QED BY <1>1, <1>2, <1>3, <1>4 DEF Sound

-----------------------------------------------------------------------------
(* What never changes from one snapshot to a later one. *)

\* Snapshot e may be saved after d: an attempt stays who it is and stays over,
\* an output stays, and an attempt that was over delivers none any more.
Follows(d, e) ==
    /\ \A a \in AttemptId : d.attempts[a].state # "Absent" =>
          /\ e.attempts[a].state # "Absent"
          /\ SameAttempt(d.attempts[a], e.attempts[a])
    /\ \A a \in AttemptId : d.attempts[a].state \in AttemptTerminal =>
                            e.attempts[a].state \in AttemptTerminal
    /\ \A c \in CandidateId : d.candidates[c].output # 0 =>
                              e.candidates[c].output = d.candidates[c].output
    /\ \A a \in AttemptId, c \in CandidateId :
          d.attempts[a].state \in AttemptTerminal /\ e.candidates[c].output = a =>
          \E b \in CandidateId : d.candidates[b].output = a

\* Every snapshot follows itself ...
LEMMA FollowsItself == ASSUME NEW d PROVE Follows(d, d)
  BY DEF Follows, SameAttempt

\* ... and the ones before those it follows.
LEMMA FollowsOn ==
    ASSUME NEW d, NEW e, NEW f, Follows(d, e), Follows(e, f)
    PROVE  Follows(d, f)
<1>1. ASSUME NEW a \in AttemptId, d.attempts[a].state # "Absent"
      PROVE  f.attempts[a].state # "Absent" /\ SameAttempt(d.attempts[a], f.attempts[a])
  BY <1>1 DEF Follows, SameAttempt
<1>2. \A a \in AttemptId : d.attempts[a].state \in AttemptTerminal =>
         e.attempts[a].state \in AttemptTerminal /\ f.attempts[a].state \in AttemptTerminal
  BY DEF Follows
<1>3. \A c \in CandidateId : d.candidates[c].output # 0 =>
                             f.candidates[c].output = d.candidates[c].output
  BY DEF Follows
<1>4. ASSUME NEW a \in AttemptId, NEW c \in CandidateId,
             d.attempts[a].state \in AttemptTerminal, f.candidates[c].output = a
      PROVE  \E b \in CandidateId : d.candidates[b].output = a
  <2>1. PICK b \in CandidateId : e.candidates[b].output = a
    BY <1>2, <1>4 DEF Follows
  <2> QED BY <1>4, <2>1 DEF Follows
<1> QED BY <1>1, <1>2, <1>3, <1>4 DEF Follows

\* Without prepared decisions, every step of the core leads to a snapshot that
\* follows the one before.
LEMMA StepFollows ==
    ASSUME CoreInv, RefInv, Callers, [Next]_vars
    PROVE  Follows(Snapshot, Snapshot')
<1> SUFFICES /\ \A a \in AttemptId : attempts[a].state # "Absent" =>
                   attempts'[a].state # "Absent" /\ SameAttempt(attempts[a], attempts'[a])
             /\ \A a \in AttemptId : attempts[a].state \in AttemptTerminal =>
                                     attempts'[a].state \in AttemptTerminal
             /\ \A c \in CandidateId : candidates[c].output # 0 =>
                                       candidates'[c].output = candidates[c].output
             /\ \A a \in AttemptId, c \in CandidateId :
                   attempts[a].state \in AttemptTerminal /\ candidates'[c].output = a =>
                   \E b \in CandidateId : candidates[b].output = a
  BY DEF Follows, Snapshot
<1>1. \A a \in AttemptId : attempts[a].state # "Absent" =>
         attempts'[a].state # "Absent" /\ SameAttempt(attempts[a], attempts'[a])
  BY NextRefInv DEF Endures
<1>2. \A x \in Controller : ~CommitsSelection(x) /\ ~CommitsRetention(x)
  BY NothingIsTyped DEF Callers, CommitsSelection, CommitsRetention, SelectionIsCurrent,
     RetentionIsCurrent
<1>3. \A c \in CandidateId : candidates[c].state = "Absent" => candidates[c].output = 0
  BY AbsentIsBlank DEF RefInv, TableRefs, NoCandidate
<1> DEFINE Ends == \A a \in AttemptId : attempts[a].state \in AttemptTerminal =>
                                        attempts'[a].state \in AttemptTerminal
           Stays == \A c \in CandidateId : candidates[c].output # 0 =>
                                           candidates'[c].output = candidates[c].output
           Adds == \A a \in AttemptId, c \in CandidateId :
                      attempts[a].state \in AttemptTerminal /\ candidates'[c].output = a =>
                      \E b \in CandidateId : candidates[b].output = a
<1>4. CASE WorkStep
  <2>1. Ends
    BY <1>4 DEF WorkStep, AttemptsEnd
  <2>2. \A c \in CandidateId : candidates'[c].output = candidates[c].output
    BY <1>4 DEF WorkStep, CandidatesWork, WorksOn, OnlyState
  <2> QED BY <1>1, <2>1, <2>2
<1>5. ASSUME NEW s \in sessions, NEW p \in PopulationId, NEW d \in CandidateId,
             NEW a \in AttemptId, Authorizes(s, p, d, a)
      PROVE  Ends /\ Stays /\ Adds
  <2>1. Ends
    BY <1>5 DEF Authorizes, NoAttempt, AttemptTerminal
  <2>2. \A c \in CandidateId : \/ candidates'[c].output = candidates[c].output
                               \/ candidates[c].output = 0 /\ candidates'[c].output = 0
    BY <1>5 DEF Authorizes, TakesSlot, MakesSlot, NoCandidate
  <2>3. 0 \notin AttemptId
    BY DEF AttemptId
  <2> QED BY <2>1, <2>2, <2>3
<1>6. ASSUME NEW s \in sessions, NEW a \in AttemptId, NEW d \in CandidateId, Publishes(s, a, d)
      PROVE  Ends /\ Stays /\ Adds
  <2>1. {"Running", "Dispatched"} \cap AttemptTerminal = {}
    BY DEF AttemptTerminal
  <2>2. Ends
    BY <1>6, <2>1 DEF Publishes
  <2>3. Stays
    BY <1>6 DEF Publishes
  <2>4. Adds
    BY <1>6, <2>1 DEF Publishes
  <2> QED BY <2>2, <2>3, <2>4
<1>7. ASSUME NEW q \in PopulationId, Creates(q) PROVE Ends /\ Stays /\ Adds
  BY <1>7 DEF Creates, MakesPopulation
<1>8. ASSUME NEW p \in PopulationId, NEW q \in PopulationId, NEW w \in CandidateId,
             Advances(p, q, w)
      PROVE  Ends /\ Stays /\ Adds
  <2>1. Ends
    BY <1>8 DEF Advances, MakesPopulation
  <2>2. CASE UNCHANGED candidates
    BY <2>1, <2>2
  <2>3. ASSUME NEW e \in CandidateId, MakesElite(q, e, w) PROVE Stays /\ Adds
    BY <2>3 DEF MakesElite, NoCandidate
  <2> QED BY <1>8, <2>1, <2>2, <2>3 DEF Advances
<1>9. Ends /\ Stays /\ Adds
  BY <1>1, <1>2, <1>4, <1>5, <1>6, <1>7, <1>8, StepCases
<1> QED BY <1>1, <1>9

-----------------------------------------------------------------------------
(* The calls the coordinator makes. *)

\* The calls of FoundryCore that the coordinator's threads make, with every
\* authority that was ever issued.
CoordinatorCall ==
    \/ \E w \in Worker, b \in Boot : register_worker(w, b)
    \/ \E s \in sessions :
         \/ worker_ready(s)
         \/ worker_disconnected(s)
         \/ authorize_attempt(s)
         \/ \E a \in AttemptId : \/ confirm_dispatch(s, a)
                                 \/ acknowledge_attempt(s, a)
                                 \/ publish_candidate(s, a)
    \/ \E c \in CandidateId : SelfReport(c)
    \/ create_population
    \/ \E p \in PopulationId : start_population(p, populations[p].generation)
    \/ \E a \in AttemptId : cancel_attempt(a)
    \/ recover
    \/ UNCHANGED vars

\* Each is a step of the core: start() is only accepted in the generation a
\* population is made in.
LEMMA CallIsStep ==
    ASSUME Sound(Snapshot, sessions), CoordinatorCall PROVE [Next]_vars
<1>1. ASSUME NEW p \in PopulationId, start_population(p, populations[p].generation)
      PROVE  OperatorCall
  <2>1. populations[p].generation = 1
    BY <1>1 DEF Sound, Timely, Snapshot, start_population
  <2>2. 1 \in 1..(MaxPopulationGeneration + 3)
    BY BoundsAssumption
  <2> QED BY <1>1, <2>1, <2>2 DEF OperatorCall
<1>2. ASSUME NEW w \in Worker, NEW b \in Boot, register_worker(w, b) PROVE WorkerCall
  BY <1>2 DEF WorkerCall
<1>3. ASSUME NEW s \in sessions,
             \/ worker_ready(s)
             \/ worker_disconnected(s)
             \/ authorize_attempt(s)
             \/ \E a \in AttemptId : \/ confirm_dispatch(s, a)
                                     \/ acknowledge_attempt(s, a)
                                     \/ publish_candidate(s, a)
      PROVE  WorkerCall
  BY <1>3 DEF WorkerCall
<1>4. ASSUME NEW c \in CandidateId, SelfReport(c) PROVE EvaluatorCall
  BY <1>4 DEF EvaluatorCall
<1>5. ASSUME create_population \/ \E a \in AttemptId : cancel_attempt(a) PROVE OperatorCall
  BY <1>5 DEF OperatorCall
<1> QED BY <1>1, <1>2, <1>3, <1>4, <1>5 DEF CoordinatorCall, Next

\* No call makes, takes or stores a decision.
LEMMA CallDecidesNothing ==
    ASSUME CoordinatorCall, Callers, selections = NoSelections, retentions = NoRetentions,
           promotions = {}
    PROVE  /\ selections' = NoSelections /\ retentions' = NoRetentions /\ promotions' = {}
           /\ heldSelection' = [x \in Controller |-> NoSelection]
           /\ heldRetention' = [x \in Controller |-> NoRetention]
<1>1. CASE recover
  <2>1. /\ \A p \in PopulationId : selections[p] = NoSelection /\ retentions[p] = NoRetention
        /\ selections' = [p \in PopulationId |->
               IF selections[p].state = "Committed" THEN selections[p] ELSE NoSelection]
        /\ retentions' = [p \in PopulationId |->
               IF retentions[p].state = "Committed" THEN retentions[p] ELSE NoRetention]
        /\ heldSelection' = [x \in Controller |-> NoSelection]
        /\ heldRetention' = [x \in Controller |-> NoRetention]
        /\ promotions' = {}
    BY <1>1 DEF recover, NoSelections, NoRetentions
  <2> QED BY <2>1 DEF NoSelections, NoRetentions
<1>2. CASE UNCHANGED decisionVars
  BY <1>2 DEF Callers
<1> DEFINE Same == UNCHANGED decisionVars
<1>3. /\ \A s : worker_ready(s) => Same
      /\ \A s : worker_disconnected(s) => Same
      /\ \A s : authorize_attempt(s) => Same
      /\ \A s, a : confirm_dispatch(s, a) => Same
      /\ \A s, a : acknowledge_attempt(s, a) => Same
      /\ \A s, a : publish_candidate(s, a) => Same
  BY DEF worker_ready, worker_disconnected, authorize_attempt, confirm_dispatch,
     acknowledge_attempt, publish_candidate, AcceptsReady
<1>4. /\ \A w, b : register_worker(w, b) => Same
      /\ \A c : SelfReport(c) => Same
      /\ \A p, g : start_population(p, g) => Same
      /\ \A a : cancel_attempt(a) => Same
      /\ create_population => Same
      /\ UNCHANGED vars => Same
  BY DEF register_worker, SelfReport, record_evaluation, create_population, start_population,
     cancel_attempt, vars
<1> HIDE DEF Same
<1>5. Same \/ recover
  BY <1>3, <1>4 DEF CoordinatorCall
<1> QED BY <1>1, <1>2, <1>5 DEF Same

\* What a call does to the populations that were not started.
LEMMA CallStartsPopulations ==
    ASSUME CoreInv, CountersExact, CoordinatorCall,
           \A p \in PopulationId : populations[p].state \in {"Created", "Ready"} =>
                                   populations[p].generation = 1
    PROVE  \A p \in PopulationId : populations'[p].state \in {"Created", "Ready"} =>
                                   populations'[p].generation = 1
<1>1. populations \in [PopulationId -> PopulationRecord]
  BY DEF CoreInv, TypeOK
<1> DEFINE Young == \A p \in PopulationId : populations'[p].state \in {"Created", "Ready"} =>
                                            populations'[p].generation = 1
<1>2. CASE UNCHANGED populations
  BY <1>2
<1>3. CASE create_population
  <2>1. PICK q \in PopulationId : MakesPopulation(q, 1, 0)
    BY <1>3, CreatePopulationDoes
  <2> QED BY <2>1 DEF MakesPopulation
<1>4. ASSUME NEW q \in PopulationId, start_population(q, populations[q].generation) PROVE Young
  BY <1>1, <1>4 DEF start_population, PopulationRecord
<1>5. ASSUME NEW s \in sessions, NEW a \in AttemptId, publish_candidate(s, a) PROVE Young
  <2> DEFINE q == attempts[a].population
  <2>1. populations' = IF populations[q].state = "Running"
                       THEN [populations EXCEPT ![q].state = "Evaluating"] ELSE populations
    BY <1>5 DEF publish_candidate
  <2> QED BY <1>1, <2>1 DEF PopulationRecord
<1>6. CASE recover
  <2>1. \A p \in PopulationId : populations'[p] = RecoveredPopulation(p)
    BY <1>6 DEF recover
  <2>2. ASSUME NEW p \in PopulationId
        PROVE  RecoveredPopulation(p) = populations[p]
               \/ RecoveredPopulation(p).state = "RevalidationRequired"
    BY <1>1 DEF RecoveredPopulation, PopulationRecord
  <2> QED BY <2>1, <2>2
<1>7. \/ UNCHANGED populations \/ create_population \/ recover
      \/ \E q \in PopulationId : start_population(q, populations[q].generation)
      \/ \E s \in sessions, a \in AttemptId : publish_candidate(s, a)
  BY DEF CoordinatorCall, register_worker, worker_ready, worker_disconnected, authorize_attempt,
     confirm_dispatch, acknowledge_attempt, SelfReport, record_evaluation, cancel_attempt, vars
<1> QED BY <1>2, <1>3, <1>4, <1>5, <1>6, <1>7

\* A worker's record names the same registration as before.
SameRegistration(w) ==
    /\ workers'[w].boot = workers[w].boot
    /\ workers'[w].sessionGeneration = workers[w].sessionGeneration
    /\ workers'[w].registeredEpoch = workers[w].registeredEpoch

\* Only register_worker changes a registration, and it issues the authority.
LEMMA RegisterIssues ==
    ASSUME CoreInv, NEW w \in Worker, NEW b \in Boot, register_worker(w, b)
    PROVE  /\ \A v \in Worker : v # w => SameRegistration(v)
           /\ workers'[w].registeredEpoch = workers[w].registeredEpoch
              \/ workers'[w].registeredEpoch = epoch
           /\ [epoch |-> epoch, worker |-> w, boot |-> workers'[w].boot,
               generation |-> workers'[w].sessionGeneration] \in sessions'
           /\ workers'[w].boot = b
           /\ sessions \subseteq sessions' /\ epoch' = epoch
<1>1. workers \in [Worker -> WorkerRecord]
  BY DEF CoreInv, TypeOK
<1>2. PICK record \in WorkerRecord :
         /\ IssueSession(w, record)
         /\ record.boot = b
         /\ record.registeredEpoch = workers[w].registeredEpoch \/ record.registeredEpoch = epoch
  <2>1. epoch \in Nat
    BY DEF CoreInv, TypeOK
  <2>2. CASE FirstRegistration(w, b)
    <3> DEFINE r == [workers[w] EXCEPT !.state = "Registered", !.boot = b,
                                       !.registeredEpoch = epoch]
    <3>1. r \in WorkerRecord /\ r.boot = b /\ r.registeredEpoch = epoch
      BY <1>1, <2>1 DEF WorkerRecord, WorkerState
    <3>2. IssueSession(w, r)
      BY <2>2 DEF FirstRegistration
    <3> QED BY <3>1, <3>2
  <2>3. CASE SameIncarnation(w, b)
    <3> DEFINE r == [workers[w] EXCEPT !.state =
           IF workers[w].registeredEpoch # epoch
           THEN "RevalidationRequired" ELSE "Registered"]
    <3>1. r \in WorkerRecord /\ r.boot = b
          /\ r.registeredEpoch = workers[w].registeredEpoch
      BY <1>1, <2>1, <2>3 DEF WorkerRecord, WorkerState, SameIncarnation
    <3>2. IssueSession(w, r)
      BY <2>3 DEF SameIncarnation
    <3> QED BY <3>1, <3>2
  <2>4. CASE ReplaceIncarnation(w, b)
    <3> DEFINE r == [workers[w] EXCEPT !.state = "Registered", !.boot = b,
                                       !.registeredEpoch = epoch, !.active = 0]
    <3>1. r \in WorkerRecord /\ r.boot = b /\ r.registeredEpoch = epoch
      BY <1>1, <2>1 DEF WorkerRecord, WorkerState
    <3>2. IssueSession(w, r)
      BY <2>4 DEF ReplaceIncarnation
    <3> QED BY <3>1, <3>2
  <2> QED BY <2>2, <2>3, <2>4 DEF register_worker
<1>3. /\ \A v \in Worker : v # w => workers'[v] = workers[v]
      /\ workers'[w].boot = record.boot
      /\ workers'[w].sessionGeneration = workers[w].sessionGeneration + 1
      /\ workers'[w].registeredEpoch = record.registeredEpoch
      /\ sessions' = sessions \cup
             {[epoch |-> epoch, worker |-> w, boot |-> record.boot,
               generation |-> workers[w].sessionGeneration + 1]}
  BY <1>1, <1>2 DEF IssueSession, WorkerRecord
<1>4. epoch' = epoch
  BY DEF register_worker
<1> QED BY <1>2, <1>3, <1>4 DEF SameRegistration

\* The other calls change no registration.
LEMMA CallKeepsRegistrations ==
    ASSUME CoreInv, CoordinatorCall
    PROVE  \/ \E w \in Worker, b \in Boot : register_worker(w, b)
           \/ /\ \A w \in Worker : SameRegistration(w)
              /\ sessions' = sessions
              /\ epoch' = epoch \/ recover
<1>1. workers \in [Worker -> WorkerRecord]
  BY DEF CoreInv, TypeOK
<1> DEFINE Same == /\ \A w \in Worker : SameRegistration(w)
                   /\ sessions' = sessions
                   /\ epoch' = epoch \/ recover
<1>2. UNCHANGED <<workers, sessions, epoch>> => Same
  BY DEF SameRegistration
<1>3. ASSUME NEW s, worker_ready(s) PROVE Same
  <2>1. workers' = [workers EXCEPT ![s.worker].state = "Ready"] /\ UNCHANGED <<sessions, epoch>>
    BY <1>3 DEF worker_ready
  <2> QED BY <1>1, <2>1 DEF SameRegistration, WorkerRecord
<1>4. ASSUME NEW s, worker_disconnected(s) PROVE Same
  <2>1. /\ workers' = [workers EXCEPT ![s.worker].state = "Offline", ![s.worker].active = 0]
        /\ UNCHANGED <<sessions, epoch>>
    BY <1>4 DEF worker_disconnected
  <2> QED BY <1>1, <2>1 DEF SameRegistration, WorkerRecord
<1>5. ASSUME NEW s, authorize_attempt(s) PROVE Same
  <2>1. /\ \E a : workers' = [workers EXCEPT ![s.worker].state = "Busy", ![s.worker].active = a]
        /\ UNCHANGED <<sessions, epoch>>
    BY <1>5 DEF authorize_attempt, AuthorizeSlot
  <2> QED BY <1>1, <2>1 DEF SameRegistration, WorkerRecord
<1>6. ASSUME NEW s, NEW a, publish_candidate(s, a) PROVE Same
  <2>1. workers' = FreeWorker(s.worker) /\ UNCHANGED <<sessions, epoch>>
    BY <1>6 DEF publish_candidate
  <2> QED BY <1>1, <2>1 DEF SameRegistration, WorkerRecord, FreeWorker
<1>7. ASSUME NEW a, cancel_attempt(a) PROVE Same
  <2>1. workers' = FreeWorkersOf({a}) /\ UNCHANGED <<sessions, epoch>>
    BY <1>7 DEF cancel_attempt
  <2> QED BY <1>1, <2>1 DEF SameRegistration, WorkerRecord, FreeWorkersOf
<1>8. ASSUME recover PROVE Same
  <2>1. /\ workers' = [w \in Worker |->
               IF workers[w].state = "Absent" THEN workers[w]
               ELSE [workers[w] EXCEPT !.state = "Offline", !.active = 0]]
        /\ UNCHANGED sessions
    BY <1>8 DEF recover
  <2> QED BY <1>1, <1>8, <2>1 DEF SameRegistration, WorkerRecord
<1>9. /\ \A s, a : confirm_dispatch(s, a) => Same
      /\ \A s, a : acknowledge_attempt(s, a) => Same
      /\ \A c : SelfReport(c) => Same
      /\ \A p, g : start_population(p, g) => Same
      /\ create_population => Same
      /\ UNCHANGED vars => Same
  BY <1>2 DEF confirm_dispatch, acknowledge_attempt, SelfReport, record_evaluation,
     start_population, create_population, vars
<1> HIDE DEF Same
<1>10. Same \/ \E w \in Worker, b \in Boot : register_worker(w, b)
  BY <1>3, <1>4, <1>5, <1>6, <1>7, <1>8, <1>9 DEF CoordinatorCall
<1> QED BY <1>10 DEF Same

\* Nobody is registered in an epoch to come, and what the records of this
\* epoch say was issued.
LEMMA CallKeepsIssued ==
    ASSUME CoreInv, CoordinatorCall, Issued(Snapshot, sessions),
           \A w \in Worker : workers[w].registeredEpoch <= epoch
    PROVE  /\ \A w \in Worker : workers'[w].registeredEpoch <= epoch'
           /\ \A w \in Worker : workers'[w].registeredEpoch = epoch' =>
                [epoch |-> epoch', worker |-> w, boot |-> workers'[w].boot,
                 generation |-> workers'[w].sessionGeneration] \in sessions'
           /\ sessions \subseteq sessions'
           /\ epoch <= epoch'
<1>1. epoch \in Nat /\ \A w \in Worker : workers[w].registeredEpoch \in Nat
  BY DEF CoreInv, TypeOK, WorkerRecord
<1>2. \A w \in Worker : workers[w].registeredEpoch = epoch =>
        [epoch |-> epoch, worker |-> w, boot |-> workers[w].boot,
         generation |-> workers[w].sessionGeneration] \in sessions
  BY DEF Issued, Snapshot
<1>3. ASSUME NEW w \in Worker, NEW b \in Boot, register_worker(w, b)
      PROVE  /\ \A v \in Worker : workers'[v].registeredEpoch <= epoch'
             /\ \A v \in Worker : workers'[v].registeredEpoch = epoch' =>
                  [epoch |-> epoch', worker |-> v, boot |-> workers'[v].boot,
                   generation |-> workers'[v].sessionGeneration] \in sessions'
             /\ sessions \subseteq sessions'
             /\ epoch <= epoch'
  <2>1. /\ \A v \in Worker : v # w => SameRegistration(v)
        /\ \/ workers'[w].registeredEpoch = workers[w].registeredEpoch
           \/ workers'[w].registeredEpoch = epoch
        /\ [epoch |-> epoch, worker |-> w, boot |-> workers'[w].boot,
            generation |-> workers'[w].sessionGeneration] \in sessions'
        /\ sessions \subseteq sessions' /\ epoch' = epoch
    BY <1>3, RegisterIssues
  <2>2. epoch <= epoch' /\ \A v \in Worker : workers'[v].registeredEpoch <= epoch'
    BY <1>1, <2>1 DEF SameRegistration
  <2>3. ASSUME NEW v \in Worker, workers'[v].registeredEpoch = epoch'
        PROVE  [epoch |-> epoch', worker |-> v, boot |-> workers'[v].boot,
                generation |-> workers'[v].sessionGeneration] \in sessions'
    <3>1. CASE v = w
      BY <2>1, <3>1
    <3>2. CASE v # w
      <4>1. /\ workers'[v].boot = workers[v].boot
            /\ workers'[v].sessionGeneration = workers[v].sessionGeneration
            /\ workers[v].registeredEpoch = epoch
        BY <2>1, <2>3, <3>2 DEF SameRegistration
      <4>2. [epoch |-> epoch, worker |-> v, boot |-> workers[v].boot,
             generation |-> workers[v].sessionGeneration] \in sessions
        BY <1>2, <4>1
      <4> QED BY <2>1, <4>1, <4>2
    <3> QED BY <3>1, <3>2
  <2> QED BY <2>1, <2>2, <2>3
<1>4. ASSUME \A w \in Worker : SameRegistration(w), sessions' = sessions, epoch' = epoch
      PROVE  /\ \A v \in Worker : workers'[v].registeredEpoch <= epoch'
             /\ \A v \in Worker : workers'[v].registeredEpoch = epoch' =>
                  [epoch |-> epoch', worker |-> v, boot |-> workers'[v].boot,
                   generation |-> workers'[v].sessionGeneration] \in sessions'
             /\ epoch <= epoch'
  BY <1>1, <1>2, <1>4 DEF SameRegistration
<1>5. ASSUME \A w \in Worker : SameRegistration(w), recover
      PROVE  /\ \A v \in Worker : workers'[v].registeredEpoch <= epoch'
                                   /\ workers'[v].registeredEpoch # epoch'
             /\ epoch <= epoch'
  <2>1. epoch' = epoch + 1
    BY <1>5 DEF recover
  <2> QED BY <1>1, <1>5, <2>1 DEF SameRegistration
<1> QED BY <1>3, <1>4, <1>5, CallKeepsRegistrations

\* A call leads from a sound snapshot to one that follows it.
LEMMA CallKeepsSound ==
    ASSUME Sound(Snapshot, sessions), Callers, CoordinatorCall
    PROVE  /\ Sound(Snapshot, sessions)' /\ Callers'
           /\ Follows(Snapshot, Snapshot')
           /\ sessions \subseteq sessions' /\ epoch <= epoch'
<1>1. CoreInv /\ RefInv /\ [Next]_vars
  BY SoundIsInv, CallIsStep
<1>2. CoreInv' /\ RefInv' /\ Follows(Snapshot, Snapshot')
  BY <1>1, NextCoreInv, NextRefInv, StepFollows
<1>3. Snapshot \in SnapshotRecord /\ Timely(Snapshot) /\ Issued(Snapshot, sessions)
  BY DEF Sound
<1>4. /\ selections = NoSelections /\ retentions = NoRetentions /\ promotions = {}
      /\ epoch \in Nat /\ epoch # 0
  BY <1>3 DEF SnapshotRecord, Snapshot
<1>5. /\ selections' = NoSelections /\ retentions' = NoRetentions /\ promotions' = {}
      /\ Callers'
  <2>1. sessions' \subseteq SessionAuthority
    BY <1>2 DEF CoreInv, TypeOK
  <2> QED BY <1>4, <2>1, CallDecidesNothing DEF Callers
<1>6. \A p \in PopulationId : populations[p].state \in {"Created", "Ready"} =>
                              populations[p].generation = 1
  BY <1>3 DEF Timely, Snapshot
<1>7. \A p \in PopulationId : populations'[p].state \in {"Created", "Ready"} =>
                              populations'[p].generation = 1
  BY <1>1, <1>6, CallStartsPopulations DEF RefInv, TableRefs
<1>8. \A w \in Worker : workers[w].registeredEpoch <= epoch
  BY <1>3 DEF Timely, Snapshot
<1>9. /\ \A w \in Worker : workers'[w].registeredEpoch <= epoch'
      /\ \A w \in Worker : workers'[w].registeredEpoch = epoch' =>
           [epoch |-> epoch', worker |-> w, boot |-> workers'[w].boot,
            generation |-> workers'[w].sessionGeneration] \in sessions'
      /\ sessions \subseteq sessions' /\ epoch <= epoch'
  BY <1>1, <1>3, <1>8, CallKeepsIssued
<1>10. Timely(Snapshot)' /\ Issued(Snapshot, sessions)'
  BY <1>7, <1>9 DEF Timely, Issued, Snapshot
<1>11. epoch' # 0
  <2>1. epoch' \in Nat
    BY <1>2 DEF CoreInv, TypeOK
  <2> QED BY <1>4, <1>9, <2>1
<1>12. Sound(Snapshot, sessions)'
  <2>1. (/\ CoreInv /\ RefInv /\ epoch # 0
         /\ selections = NoSelections /\ retentions = NoRetentions /\ promotions = {}
         /\ Timely(Snapshot) /\ Issued(Snapshot, sessions)
         => Sound(Snapshot, sessions))'
    BY InvIsSound, PTL
  <2> QED BY <1>2, <1>5, <1>10, <1>11, <2>1
<1> QED BY <1>2, <1>5, <1>9, <1>12

-----------------------------------------------------------------------------
(* The coordinator between the core and the workers. *)

\* The authorities that frames, connections and processes may hold.
Authorities == sessions \cup {NoSession}

\* Attempt a on disk was authorized for boot b.
Given(d, a, b) ==
    a \in AttemptId /\ d.attempts[a].state # "Absent" /\ d.attempts[a].boot = b

\* The output of attempt a is on disk.
Delivered(d, a) ==
    /\ a \in AttemptId /\ d.attempts[a].state # "Absent"
    /\ d.attempts[a].candidate \in CandidateId
    /\ d.candidates[d.attempts[a].candidate].output = a

\* What a worker may have sent.
ToCoordinator ==
    {f \in [type: {"Hello", "WorkerReady", "AttemptAccepted", "CandidatePublish"},
            session: Authorities, attempt: {0} \cup AttemptId] :
        f.type \in {"AttemptAccepted", "CandidatePublish"} => f.attempt # 0}

\* What a worker may have been sent: an assignment of an attempt that is on disk
\* under the authority that carries it, the acknowledgement of an output that is.
ToWorker ==
    {f \in [type: {"AssignAttempt", "PublishAck"},
            session: Authorities, attempt: {0} \cup AttemptId] :
        /\ f.type = "AssignAttempt" => Given(durable, f.attempt, f.session.boot)
        /\ f.type = "PublishAck" => Delivered(durable, f.attempt)}

\* What a worker process may be.
Runtimes ==
    {r \in [pc: {"Unstarted", "AwaitHello", "Serving", "Producing", "AwaitAck", "Exited"},
            session: Authorities, inbox: Seq(ToWorker),
            refused: SUBSET {HelloRefused, PublishRefused}, acknowledged: BOOLEAN,
            job: {0} \cup AttemptId, authority: Authorities] :
        /\ r.job # 0 => Given(durable, r.job, r.authority.boot)
        /\ r.pc = "Producing" => r.job # 0}

\* What the pump may be up to.  The authority it builds from a record of an
\* earlier epoch was never issued, and is refused.
PumpInv ==
    /\ pump \in [pc: {"Idle", "Listed", "Read", "Saved"}, conn: {0} \cup Boot,
                 session: [epoch: Nat, worker: {0} \cup Worker, boot: {0} \cup Boot,
                           generation: Nat],
                 attempt: {0} \cup AttemptId]
    /\ pump.pc # "Idle" => up /\ pump.conn \in Boot
    /\ pump.pc = "Read" => pump.session \in sessions \/ pump.session.epoch < epoch
    /\ pump.pc = "Saved" => /\ pump.session \in sessions
                            /\ Given(durable, pump.attempt, pump.session.boot)

\* What a connection may be.
Registrations == [open: BOOLEAN, session: Authorities]

\* What was sent, or is about to be, is on disk.
NetInv ==
    /\ registry \in [Boot -> Registrations]
    /\ toCoordinator \in [Boot -> Seq(ToCoordinator)]
    /\ runtime \in [Boot -> Runtimes]
    /\ PumpInv
    /\ claim # NoClaim => Delivered(durable, claim.attempt)

\* The core and the snapshot are sound, and the core follows the snapshot.
DiskInv ==
    /\ Sound(Snapshot, sessions) /\ Callers
    /\ Sound(durable, sessions)
    /\ Follows(durable, Snapshot)

\* Authorities are only added.
LEMMA SoundGrows ==
    ASSUME NEW d, NEW S, NEW T, S \subseteq T, Sound(d, S) PROVE Sound(d, T)
  BY DEF Sound, Issued

\* A call of the core, with or without the save that comes after it.
LEMMA CallKeepsDisk ==
    ASSUME DiskInv, CoordinatorCall, durable' = durable \/ durable' = Snapshot'
    PROVE  /\ DiskInv' /\ Follows(durable, durable')
           /\ sessions \subseteq sessions' /\ epoch <= epoch'
<1>1. /\ Sound(Snapshot, sessions)' /\ Callers'
      /\ Follows(Snapshot, Snapshot')
      /\ sessions \subseteq sessions' /\ epoch <= epoch'
  BY CallKeepsSound DEF DiskInv
<1>2. Follows(durable, Snapshot')
  BY <1>1, FollowsOn DEF DiskInv
<1>3. CASE durable' = durable
  <2>1. Sound(durable, sessions')
    BY <1>1, SoundGrows DEF DiskInv
  <2>2. Sound(durable, sessions)' /\ Follows(durable, Snapshot)'
    BY <1>2, <1>3, <2>1
  <2> QED BY <1>1, <1>3, <2>2, FollowsItself DEF DiskInv
<1>4. CASE durable' = Snapshot'
  <2>1. Sound(durable, sessions)'
    BY <1>1, <1>4
  <2>2. Follows(durable, Snapshot)'
    BY <1>4, FollowsItself
  <2> QED BY <1>1, <1>2, <1>4, <2>1, <2>2 DEF DiskInv
<1> QED BY <1>3, <1>4

\* A crash takes the core back to the snapshot.
LEMMA CrashKeepsDisk ==
    ASSUME DiskInv, Crash PROVE DiskInv' /\ durable' = durable /\ sessions' = sessions
<1>1. durable \in SnapshotRecord
  BY DEF DiskInv, Sound
<1>2. Snapshot' = durable
  BY <1>1 DEF Crash, Snapshot, SnapshotRecord
<1>3. durable' = durable /\ sessions' = sessions /\ Callers'
  BY DEF Crash, DiskInv, Callers
<1>4. Sound(Snapshot, sessions)' /\ Sound(durable, sessions)'
  BY <1>2, <1>3 DEF DiskInv
<1>5. Follows(durable, Snapshot)'
  BY <1>2, <1>3, FollowsItself
<1> QED BY <1>3, <1>4, <1>5 DEF DiskInv

-----------------------------------------------------------------------------
(* The steps, one by one: which call of the core each makes. *)

\* An authority that is valid was issued: NoSession is of no epoch.
LEMMA ValidWasIssued ==
    ASSUME DiskInv, NEW s \in Authorities, ValidSession(s) PROVE s \in sessions
<1>1. epoch # 0
  BY DEF DiskInv, Sound, SnapshotRecord, Snapshot
<1> QED BY <1>1 DEF Authorities, NoSession, ValidSession

\* The frame a reader hands over is one a worker may have sent.
LEMMA ReceivedFrame ==
    ASSUME NetInv, NEW b \in Boot, NEW type, Receive(b, type)
    PROVE  /\ Head(toCoordinator[b]) \in ToCoordinator
           /\ Head(toCoordinator[b]).type = type
           /\ toCoordinator' \in [Boot -> Seq(ToCoordinator)]
           /\ up /\ pump.pc # "Saved" /\ claim = NoClaim
<1>1. toCoordinator[b] \in Seq(ToCoordinator) /\ toCoordinator[b] # <<>>
  BY DEF NetInv, Receive
<1>2. Head(toCoordinator[b]) \in ToCoordinator /\ Tail(toCoordinator[b]) \in Seq(ToCoordinator)
  BY <1>1
<1> QED BY <1>2 DEF NetInv, Receive, BarrierFree

\* A recorded claim is a self report about the candidate of its attempt.
LEMMA ClaimIsReport ==
    ASSUME DiskInv, NetInv, RecordClaim PROVE CoordinatorCall
<1> DEFINE a == claim.attempt
           c == attempts[a].candidate
<1>1. Delivered(durable, a)
  BY DEF NetInv, RecordClaim
<1>2. a \in AttemptId /\ SameAttempt(durable.attempts[a], attempts[a])
  BY <1>1 DEF Delivered, DiskInv, Follows, Snapshot
<1>3. c \in CandidateId
  BY <1>1, <1>2 DEF Delivered, SameAttempt
<1>4. a \in AttemptsOf(c)
  BY <1>2 DEF AttemptsOf
<1>5. PICK k \in SelfReportKey :
         record_evaluation(c, k, "WorkerSelfReport", "Pass", FALSE,
                           attempts[a].packagePopulation, attempts[a].packageTask)
  BY DEF RecordClaim
<1>6. SelfReport(c)
  BY <1>4, <1>5 DEF SelfReport
<1> QED BY <1>3, <1>6 DEF CoordinatorCall

\* Every step but a crash makes one call of the core, or none, and saves the
\* core it leads to, or does not.
LEMMA StepCalls ==
    ASSUME DiskInv, NetInv, [WorkersNext]_allVars
    PROVE  \/ Crash
           \/ CoordinatorCall /\ (durable' = durable \/ durable' = Snapshot')
<1> DEFINE Calls == CoordinatorCall /\ (durable' = durable \/ durable' = Snapshot')
<1>0. Home \in [Boot -> Worker]
  BY WorkersAssumption
<1>1. ASSUME NEW b \in Boot, HandleHello(b) PROVE Calls
  <2>1. register_worker(Home[b], b)
    BY <1>1 DEF HandleHello
  <2>2. durable' = durable \/ durable' = Snapshot'
    BY <1>1 DEF HandleHello, Save, SaveFails
  <2> QED BY <1>0, <2>1, <2>2 DEF CoordinatorCall
<1>2. ASSUME NEW b \in Boot, HandleWorkerReady(b) PROVE Calls
  <2> DEFINE s == Head(toCoordinator[b]).session
  <2>1. s \in Authorities
    BY <1>2, ReceivedFrame DEF HandleWorkerReady, ToCoordinator
  <2>2. durable' = durable \/ durable' = Snapshot'
    BY <1>2 DEF HandleWorkerReady, Save, SaveFails
  <2>3. UNCHANGED vars \/ worker_ready(s)
    BY <1>2 DEF HandleWorkerReady
  <2>4. worker_ready(s) => s \in sessions
    BY <2>1, ValidWasIssued DEF worker_ready, AcceptsReady
  <2> QED BY <2>2, <2>3, <2>4 DEF CoordinatorCall
<1>3. ASSUME NEW b \in Boot, HandleAttemptAccepted(b) PROVE Calls
  <2> DEFINE f == Head(toCoordinator[b])
  <2>1. f.session \in Authorities /\ f.attempt \in AttemptId
    BY <1>3, ReceivedFrame DEF HandleAttemptAccepted, ToCoordinator
  <2>2. durable' = durable \/ durable' = Snapshot'
    BY <1>3 DEF HandleAttemptAccepted, Save, SaveFails
  <2>3. UNCHANGED vars \/ acknowledge_attempt(f.session, f.attempt)
    BY <1>3 DEF HandleAttemptAccepted
  <2>4. acknowledge_attempt(f.session, f.attempt) => f.session \in sessions
    BY <2>1, ValidWasIssued DEF acknowledge_attempt, AcceptsAcknowledgement, ValidOperation
  <2> QED BY <2>1, <2>2, <2>3, <2>4 DEF CoordinatorCall
<1>4. ASSUME NEW b \in Boot, HandleCandidatePublish(b) PROVE Calls
  <2> DEFINE f == Head(toCoordinator[b])
             s == registry[b].session
  <2>1. s \in Authorities /\ f.attempt \in AttemptId
    BY <1>4, ReceivedFrame DEF HandleCandidatePublish, ToCoordinator, NetInv, Registrations
  <2>2. durable' = durable \/ durable' = Snapshot'
    BY <1>4 DEF HandleCandidatePublish, Save, SaveFails
  <2>3. UNCHANGED vars \/ publish_candidate(s, f.attempt)
    BY <1>4 DEF HandleCandidatePublish
  <2>4. publish_candidate(s, f.attempt) => s \in sessions
    BY <2>1, ValidWasIssued DEF publish_candidate, AcceptsPublication, ValidOperation
  <2> QED BY <2>1, <2>2, <2>3, <2>4 DEF CoordinatorCall
<1>5. ASSUME NEW b \in Boot, note_close(b) PROVE Calls
  <2> DEFINE s == registry[b].session
  <2>1. s \in Authorities
    BY DEF NetInv, Registrations
  <2>2. durable' = durable \/ durable' = Snapshot'
    BY <1>5 DEF note_close, Save, SaveFails
  <2>3. UNCHANGED vars \/ (worker_disconnected(s) /\ ValidSession(s))
    BY <1>5 DEF note_close
  <2> QED BY <2>1, <2>2, <2>3, ValidWasIssued DEF CoordinatorCall
<1>6. ASSUME NEW b \in Boot, dispatch_ready_workers(b) \/ WorkerStep(b) PROVE Calls
  BY <1>6 DEF dispatch_ready_workers, WorkerStep, CoordinatorCall
<1>7. ASSUME RecordClaim PROVE Calls
  BY <1>7, ClaimIsReport DEF RecordClaim, Save, SaveFails
<1>8. ASSUME begin_dispatch PROVE Calls
  BY <1>8 DEF begin_dispatch, CoordinatorCall
<1>9. ASSUME AuthorizeAndSave PROVE Calls
  <2>1. durable' = durable \/ durable' = Snapshot'
    BY <1>9 DEF AuthorizeAndSave, Save, SaveFails
  <2>2. UNCHANGED vars \/ authorize_attempt(pump.session)
    BY <1>9 DEF AuthorizeAndSave
  <2>3. ASSUME authorize_attempt(pump.session) PROVE pump.session \in sessions
    <3>1. pump.session.epoch = epoch
      BY <2>3 DEF authorize_attempt, AcceptsDispatch, ValidSession
    <3>2. epoch \in Nat
      BY DEF DiskInv, Sound, SnapshotRecord, Snapshot
    <3>3. pump.session \in sessions \/ pump.session.epoch < epoch
      BY <1>9 DEF AuthorizeAndSave, NetInv, PumpInv
    <3> QED BY <3>1, <3>2, <3>3
  <2> QED BY <2>1, <2>2, <2>3 DEF CoordinatorCall
<1>10. ASSUME ConfirmAndSend PROVE Calls
  <2>1. /\ confirm_dispatch(pump.session, pump.attempt) /\ durable' = durable
        /\ pump.session \in sessions /\ pump.attempt \in AttemptId
    BY <1>10 DEF ConfirmAndSend, NetInv, PumpInv, Given
  <2> QED BY <2>1 DEF CoordinatorCall
<1>11. ASSUME HandleController PROVE Calls
  BY <1>11 DEF HandleController, CoordinatorCall, Save, SaveFails
<1>12. ASSUME start PROVE Calls
  BY <1>12 DEF start, CoordinatorCall, Save
<1>13. ASSUME UNCHANGED allVars PROVE Calls
  BY <1>13 DEF allVars, CoordinatorCall
<1> HIDE DEF Calls
<1>14. Crash \/ Calls
  BY <1>1, <1>2, <1>3, <1>4, <1>5, <1>6, <1>7, <1>8, <1>9, <1>10, <1>11, <1>12, <1>13
     DEF WorkersNext, ReaderStep, HandleFrame, MidwayStep
<1> QED BY <1>14 DEF Calls

-----------------------------------------------------------------------------
(* The steps, one by one: what each sends. *)

\* What may be sent, held or claimed stays what it is as the disk goes on.
Grown ==
    /\ Authorities \subseteq Authorities' /\ sessions \subseteq sessions'
    /\ \A a, b : Given(durable, a, b) => Given(durable', a, b)
    /\ \A a : Delivered(durable, a) => Delivered(durable', a)
    /\ Registrations \subseteq Registrations'
    /\ Seq(ToCoordinator) \subseteq Seq(ToCoordinator')
    /\ ToWorker \subseteq ToWorker' /\ Runtimes \subseteq Runtimes'

\* It does when outcomes are kept.
LEMMA LaterIsGrown ==
    ASSUME Follows(durable, durable'), sessions \subseteq sessions' PROVE Grown
<1>1. Authorities \subseteq Authorities'
  BY DEF Authorities
<1>2. ASSUME NEW a, NEW b, Given(durable, a, b) PROVE Given(durable', a, b)
  BY <1>2 DEF Given, Follows, SameAttempt
<1>3. ASSUME NEW a, Delivered(durable, a) PROVE Delivered(durable', a)
  <2>1. a # 0
    BY <1>3 DEF Delivered, AttemptId
  <2> QED BY <1>3, <2>1 DEF Delivered, Follows, SameAttempt
<1>4. Registrations \subseteq Registrations'
  BY <1>1 DEF Registrations
<1>5. ToCoordinator \subseteq ToCoordinator'
  BY <1>1 DEF ToCoordinator
<1>6. Seq(ToCoordinator) \subseteq Seq(ToCoordinator')
  BY <1>5
<1>7. ToWorker \subseteq ToWorker'
  BY <1>1, <1>2, <1>3 DEF ToWorker
<1>8. Seq(ToWorker) \subseteq Seq(ToWorker')
  BY <1>7
<1>9. Runtimes \subseteq Runtimes'
  BY <1>1, <1>2, <1>8 DEF Runtimes
<1> QED BY <1>1, <1>2, <1>3, <1>4, <1>6, <1>7, <1>9 DEF Grown

\* What a step leaves alone.
LEMMA NetStays ==
    ASSUME NetInv, Grown
    PROVE  /\ registry \in [Boot -> Registrations']
           /\ toCoordinator \in [Boot -> Seq(ToCoordinator')]
           /\ runtime \in [Boot -> Runtimes']
           /\ claim # NoClaim => Delivered(durable', claim.attempt)
  BY DEF NetInv, Grown

\* The process goes on; only a crash can take the epoch back.
Onward == epoch' \in Nat /\ epoch <= epoch'

\* The pump goes on while it does nothing.
LEMMA PumpStays ==
    ASSUME DiskInv, NetInv, Grown, Onward, UNCHANGED <<pump, up>> PROVE PumpInv'
<1>1. epoch \in Nat
  BY DEF DiskInv, Sound, SnapshotRecord, Snapshot
<1>2. pump.session.epoch < epoch => pump.session.epoch < epoch'
  BY <1>1 DEF NetInv, PumpInv, Onward
<1> QED BY <1>2 DEF NetInv, PumpInv, Grown

\* What the coordinator may send.
Sendable ==
    ToWorker \cup {HelloRefused, PublishRefused}
             \cup {Frame("HelloAck", s, 0) : s \in Authorities}

\* A process that is sent such a frame stays one.
Enqueues == \A r \in Runtimes, f \in Sendable : enqueue(r, f) \in Runtimes

\* The reader thread queues a frame or resolves it; either is a runtime.
LEMMA EnqueueKeeps == Enqueues
<1> SUFFICES ASSUME NEW r \in Runtimes, NEW f \in Sendable
             PROVE  enqueue(r, f) \in Runtimes
  BY DEF Enqueues
<1>1. ASSUME NEW s \in Authorities, f = Frame("HelloAck", s, 0) PROVE enqueue(r, f) \in Runtimes
  <2>1. f.type = "HelloAck" /\ f.session = s /\ f \notin {HelloRefused, PublishRefused}
    BY <1>1 DEF Frame, HelloRefused, PublishRefused
  <2>2. enqueue(r, f) = [r EXCEPT !.session = s]
    BY <2>1 DEF enqueue
  <2> QED BY <2>2 DEF Runtimes
<1>2. CASE f \in {HelloRefused, PublishRefused}
  <2>1. enqueue(r, f) = [r EXCEPT !.refused = @ \cup {f}]
    BY <1>2 DEF enqueue, HelloRefused, PublishRefused, Frame
  <2> QED BY <1>2, <2>1 DEF Runtimes
<1>3. CASE f \in ToWorker
  <2>1. f.type \in {"AssignAttempt", "PublishAck"}
    BY <1>3 DEF ToWorker
  <2>2. enqueue(r, f) = [r EXCEPT !.inbox = Append(@, f)]
    BY <2>1 DEF enqueue, HelloRefused, PublishRefused, Frame
  <2>3. Append(r.inbox, f) \in Seq(ToWorker)
    BY <1>3 DEF Runtimes
  <2> QED BY <2>2, <2>3 DEF Runtimes
<1> QED BY <1>1, <1>2, <1>3 DEF Sendable

\* The coordinator sends what may be sent once the step is made.
LEMMA SendKeeps ==
    ASSUME NEW b, NEW f \in Sendable', Send(b, f), runtime \in [Boot -> Runtimes']
    PROVE  runtime' \in [Boot -> Runtimes']
<1>1. Enqueues'
  BY EnqueueKeeps, PTL
<1>2. \A r \in Runtimes' : enqueue(r, f) \in Runtimes'
  BY <1>1 DEF Enqueues
<1> HIDE DEF enqueue
<1>3. CASE runtime' = runtime
  BY <1>3
<1>4. CASE runtime' = [runtime EXCEPT ![b] = enqueue(@, f)]
  BY <1>2, <1>4
<1> QED BY <1>3, <1>4 DEF Send

\* The handshake: the session of the connection is the one just issued.
LEMMA HelloKeeps ==
    ASSUME DiskInv, NetInv, Grown, Onward, NEW b \in Boot, HandleHello(b) PROVE NetInv'
<1> DEFINE w == Home[b]
           session == [epoch |-> epoch, worker |-> w, boot |-> b,
                       generation |-> workers'[w].sessionGeneration]
<1>1. session \in sessions'
  <2>1. CoreInv /\ w \in Worker
    BY SoundIsInv, WorkersAssumption DEF DiskInv
  <2>2. register_worker(w, b)
    BY DEF HandleHello
  <2> QED BY <2>1, <2>2, RegisterIssues
<1>2. session \in Authorities'
  BY <1>1 DEF Authorities
<1>3. /\ registry' = [registry EXCEPT ![b].session = session] \/ registry' = registry
      /\ \/ Send(b, Frame("HelloAck", session, 0))
         \/ Send(b, HelloRefused)
      /\ UNCHANGED <<up, pump, claim>>
      /\ Receive(b, "Hello")
  BY DEF HandleHello
<1> HIDE DEF session
<1>4. registry' \in [Boot -> Registrations']
  BY <1>2, <1>3, NetStays DEF Registrations
<1>5. Frame("HelloAck", session, 0) \in Sendable' /\ HelloRefused \in Sendable'
  BY <1>2 DEF Sendable
<1>6. runtime' \in [Boot -> Runtimes']
  BY <1>3, <1>5, NetStays, SendKeeps
<1> QED BY <1>3, <1>4, <1>6, NetStays, PumpStays, ReceivedFrame DEF NetInv, Grown

\* Frames the coordinator does not answer, and connections it closes.
LEMMA QuietKeeps ==
    ASSUME DiskInv, NetInv, Grown, Onward, NEW b \in Boot,
           HandleWorkerReady(b) \/ HandleAttemptAccepted(b) \/ note_close(b)
    PROVE  NetInv'
<1>1. /\ UNCHANGED <<up, pump, claim, runtime>>
      /\ toCoordinator' \in [Boot -> Seq(ToCoordinator)]
      /\ registry' = registry \/ registry' = [registry EXCEPT ![b].open = FALSE]
  <2>1. CASE HandleWorkerReady(b)
    BY <2>1, ReceivedFrame DEF HandleWorkerReady
  <2>2. CASE HandleAttemptAccepted(b)
    BY <2>2, ReceivedFrame DEF HandleAttemptAccepted
  <2>3. CASE note_close(b)
    <3>1. <<>> \in Seq(ToCoordinator)
      OBVIOUS
    <3> QED BY <2>3, <3>1 DEF note_close, NetInv
  <2> QED BY <2>1, <2>2, <2>3
<1>2. registry' \in [Boot -> Registrations']
  BY <1>1, NetStays DEF Registrations
<1> QED BY <1>1, <1>2, NetStays, PumpStays DEF NetInv, Grown

\* The control plane looks at no connection.
LEMMA ControllerKeeps ==
    ASSUME DiskInv, NetInv, Grown, Onward, HandleController PROVE NetInv'
<1>1. UNCHANGED <<up, pump, claim, netVars, runtime>>
  BY DEF HandleController
<1> QED BY <1>1, NetStays, PumpStays DEF NetInv

\* Nothing happens that the coordinator could see.
LEMMA NothingKeeps ==
    ASSUME DiskInv, NetInv, Grown, Onward, UNCHANGED <<up, pump, claim, netVars, runtime>>
    PROVE  NetInv'
  BY NetStays, PumpStays DEF NetInv

\* A start finds the pump idle.
LEMMA StartKeeps ==
    ASSUME DiskInv, NetInv, Grown, start PROVE NetInv'
<1>1. ~up /\ UNCHANGED <<pump, claim, netVars, runtime>>
  BY DEF start
<1>2. pump.pc = "Idle"
  BY <1>1 DEF NetInv, PumpInv
<1>3. PumpInv'
  BY <1>1, <1>2 DEF NetInv, PumpInv
<1> QED BY <1>1, <1>3, NetStays DEF NetInv

\* A crash forgets the connections, and what the pump and the handlers were at.
LEMMA CrashKeeps ==
    ASSUME DiskInv, NetInv, Grown, Crash PROVE NetInv'
<1>1. /\ pump' = IdlePump /\ claim' = NoClaim /\ runtime' = runtime
      /\ registry' = [b \in Boot |-> [open |-> FALSE, session |-> NoSession]]
      /\ toCoordinator' = [b \in Boot |-> <<>>]
  BY DEF Crash
<1>2. NoSession \in Authorities' /\ <<>> \in Seq(ToCoordinator')
  BY DEF Authorities
<1>3. registry' \in [Boot -> Registrations'] /\ toCoordinator' \in [Boot -> Seq(ToCoordinator')]
  BY <1>1, <1>2 DEF Registrations
<1>4. PumpInv'
  BY <1>1 DEF PumpInv, IdlePump, NoSession
<1> QED BY <1>1, <1>3, <1>4, NetStays DEF NetInv

\* The pump lists a connection ...
LEMMA ListingKeeps ==
    ASSUME DiskInv, NetInv, Grown, NEW b \in Boot, dispatch_ready_workers(b) PROVE NetInv'
<1>1. /\ up /\ up' = up /\ UNCHANGED <<claim, netVars, runtime>>
      /\ pump' = [IdlePump EXCEPT !.pc = "Listed", !.conn = b]
  BY DEF dispatch_ready_workers
<1>2. PumpInv'
  BY <1>1 DEF PumpInv, IdlePump, NoSession
<1> QED BY <1>1, <1>2, NetStays DEF NetInv

\* ... and builds the authority the record of its worker names: the record is of
\* this epoch and the authority was issued, or of an earlier one.
LEMMA ReadingKeeps ==
    ASSUME DiskInv, NetInv, Grown, begin_dispatch PROVE NetInv'
<1> DEFINE w == Home[pump.conn]
           session == [epoch |-> workers[w].registeredEpoch, worker |-> w,
                       boot |-> workers[w].boot,
                       generation |-> workers[w].sessionGeneration]
<1>1. /\ up /\ pump.pc = "Listed"
      /\ pump' = [pump EXCEPT !.pc = "Read", !.session = session] \/ pump' = IdlePump
      /\ UNCHANGED <<up, sessions, epoch, claim, netVars, runtime>>
  BY DEF begin_dispatch, vars
<1>2. w \in Worker /\ pump.conn \in Boot
  BY <1>1, WorkersAssumption DEF NetInv, PumpInv
<1>3. /\ workers[w] \in WorkerRecord /\ epoch \in Nat
      /\ workers[w].registeredEpoch <= epoch
      /\ workers[w].registeredEpoch = epoch => session \in sessions
  BY <1>2 DEF DiskInv, Sound, SnapshotRecord, Snapshot, Timely, Issued
<1>4. session \in sessions \/ session.epoch < epoch
  BY <1>3 DEF WorkerRecord
<1>5. session \in [epoch: Nat, worker: {0} \cup Worker, boot: {0} \cup Boot, generation: Nat]
  BY <1>2, <1>3 DEF WorkerRecord
<1> HIDE DEF session
<1>6. CASE pump' = IdlePump
  <2>1. PumpInv'
    BY <1>6 DEF PumpInv, IdlePump, NoSession
  <2> QED BY <1>1, <2>1, NetStays DEF NetInv
<1>7. CASE pump' = [pump EXCEPT !.pc = "Read", !.session = session]
  <2>1. pump'.pc = "Read" /\ pump'.session = session /\ pump'.conn = pump.conn
        /\ pump'.attempt = pump.attempt
    BY <1>7 DEF NetInv, PumpInv
  <2>2. pump' \in [pc: {"Idle", "Listed", "Read", "Saved"}, conn: {0} \cup Boot,
                   session: [epoch: Nat, worker: {0} \cup Worker, boot: {0} \cup Boot,
                             generation: Nat],
                   attempt: {0} \cup AttemptId]
    BY <1>5, <1>7 DEF NetInv, PumpInv
  <2>3. PumpInv'
    BY <1>1, <1>2, <1>4, <2>1, <2>2 DEF PumpInv
  <2> QED BY <1>1, <2>3, NetStays DEF NetInv
<1> QED BY <1>1, <1>6, <1>7

\* The attempt it goes on with is on disk, for the boot of that authority.
LEMMA AuthorizingKeeps ==
    ASSUME DiskInv, NetInv, Grown, AuthorizeAndSave PROVE NetInv'
<1>1. /\ up /\ pump.pc = "Read" /\ UNCHANGED <<up, claim, netVars, runtime>>
      /\ \/ /\ authorize_attempt(pump.session) /\ durable' = Snapshot'
            /\ pump' = [pump EXCEPT !.pc = "Saved", !.attempt = ids'.attempt]
         \/ pump' = IdlePump
  BY DEF AuthorizeAndSave, BarrierFree, Save
<1>2. CASE pump' = IdlePump
  <2>1. PumpInv'
    BY <1>2 DEF PumpInv, IdlePump, NoSession
  <2> QED BY <1>1, <2>1, NetStays DEF NetInv
<1>3. CASE /\ authorize_attempt(pump.session) /\ durable' = Snapshot'
           /\ pump' = [pump EXCEPT !.pc = "Saved", !.attempt = ids'.attempt]
  <2>1. pump.session \in sessions
    <3>1. pump.session.epoch = epoch
      BY <1>3 DEF authorize_attempt, AcceptsDispatch, ValidSession
    <3>2. epoch \in Nat
      BY DEF DiskInv, Sound, SnapshotRecord, Snapshot
    <3>3. pump.session \in sessions \/ pump.session.epoch < epoch
      BY <1>1 DEF NetInv, PumpInv
    <3> QED BY <3>1, <3>2, <3>3
  <2>2. CoreInv /\ CountersExact
    BY SoundIsInv DEF DiskInv, RefInv, TableRefs
  <2>3. PICK p \in PopulationId, c \in CandidateId, a \in AttemptId :
           Authorizes(pump.session, p, c, a)
    BY <1>3, <2>1, <2>2, AuthorizeAttemptDoes
  <2>4. /\ ids'.attempt = a /\ attempts'[a].state = "Authorized"
        /\ attempts'[a].boot = pump.session.boot
    BY <2>3 DEF Authorizes
  <2>5. durable'.attempts = attempts'
    BY <1>3 DEF Snapshot
  <2>6. Given(durable', a, pump.session.boot)
    BY <2>4, <2>5 DEF Given
  <2>7. /\ pump'.pc = "Saved" /\ pump'.attempt = a /\ pump'.session = pump.session
        /\ pump'.conn = pump.conn /\ pump.conn \in Boot
        /\ pump' \in [pc: {"Idle", "Listed", "Read", "Saved"}, conn: {0} \cup Boot,
                      session: [epoch: Nat, worker: {0} \cup Worker, boot: {0} \cup Boot,
                                generation: Nat],
                      attempt: {0} \cup AttemptId]
    BY <1>1, <1>3, <2>4 DEF NetInv, PumpInv
  <2>8. PumpInv'
    BY <1>1, <2>1, <2>6, <2>7 DEF PumpInv, Grown
  <2> QED BY <1>1, <2>8, NetStays DEF NetInv
<1> QED BY <1>1, <1>2, <1>3

\* What it sends is the attempt it saved.
LEMMA ConfirmingKeeps ==
    ASSUME DiskInv, NetInv, Grown, ConfirmAndSend PROVE NetInv'
<1> DEFINE f == Frame("AssignAttempt", pump.session, pump.attempt)
<1>1. /\ pump.pc = "Saved" /\ Send(pump.conn, f) /\ pump' = IdlePump
      /\ UNCHANGED <<up, claim, netVars>>
  BY DEF ConfirmAndSend
<1>2. pump.session \in sessions /\ Given(durable, pump.attempt, pump.session.boot)
  BY <1>1 DEF NetInv, PumpInv
<1>3. /\ pump.session \in Authorities' /\ Given(durable', pump.attempt, pump.session.boot)
      /\ pump.attempt \in AttemptId
  BY <1>2 DEF Grown, Authorities, Given
<1>4. f \in ToWorker'
  BY <1>3 DEF ToWorker, Frame
<1>5. runtime' \in [Boot -> Runtimes']
  BY <1>1, <1>4, NetStays, SendKeeps DEF Sendable
<1>6. PumpInv'
  BY <1>1 DEF PumpInv, IdlePump, NoSession
<1> QED BY <1>1, <1>5, <1>6, NetStays DEF NetInv

\* A publication is claimed once its output is on disk.
LEMMA PublishKeeps ==
    ASSUME DiskInv, NetInv, Grown, Onward, NEW b \in Boot, HandleCandidatePublish(b) PROVE NetInv'
<1> DEFINE a == Head(toCoordinator[b]).attempt
           s == registry[b].session
<1>1. /\ Receive(b, "CandidatePublish") /\ UNCHANGED <<up, pump, registry>>
      /\ \/ /\ publish_candidate(s, a) /\ durable' = Snapshot'
            /\ claim' = [conn |-> b, attempt |-> a] /\ runtime' = runtime
         \/ Send(b, PublishRefused) /\ claim' = claim
  BY DEF HandleCandidatePublish, Save
<1>2. a \in AttemptId
  BY <1>1, ReceivedFrame DEF ToCoordinator
<1>3. toCoordinator' \in [Boot -> Seq(ToCoordinator')]
  BY <1>1, ReceivedFrame DEF Grown
<1> HIDE DEF a, s
<1>4. CASE /\ publish_candidate(s, a) /\ durable' = Snapshot'
           /\ claim' = [conn |-> b, attempt |-> a] /\ runtime' = runtime
  <2> DEFINE c == attempts[a].candidate
  <2>1. CoreInv /\ RefInv
    BY SoundIsInv DEF DiskInv
  <2>2. attempts[a].state # "Absent"
    BY <1>4 DEF publish_candidate, AcceptsPublication, ValidOperation
  <2>3. c \in CandidateId
    BY <1>2, <2>1, <2>2 DEF RefInv, TableRefs, AttemptRef, KnownCandidate
  <2>4. Publishes(s, a, c)
    BY <1>2, <1>4, <2>1, <2>3, PublishCandidateDoes
  <2>5. attempts'[a].state # "Absent" /\ attempts'[a].candidate = c /\ candidates'[c].output = a
    BY <2>4 DEF Publishes, SameAttempt
  <2>6. durable'.attempts = attempts' /\ durable'.candidates = candidates'
    BY <1>4 DEF Snapshot
  <2>7. Delivered(durable', a)
    BY <1>2, <2>3, <2>5, <2>6 DEF Delivered
  <2> QED BY <1>1, <1>3, <1>4, <2>7, NetStays, PumpStays DEF NetInv
<1>5. CASE Send(b, PublishRefused) /\ claim' = claim
  <2>1. runtime' \in [Boot -> Runtimes']
    BY <1>5, NetStays, SendKeeps DEF Sendable
  <2> QED BY <1>1, <1>3, <1>5, <2>1, NetStays, PumpStays DEF NetInv
<1> QED BY <1>1, <1>4, <1>5

\* The acknowledgement is of the output that was claimed.
LEMMA ClaimKeeps ==
    ASSUME DiskInv, NetInv, Grown, Onward, RecordClaim PROVE NetInv'
<1> DEFINE f == Frame("PublishAck", NoSession, claim.attempt)
<1>1. /\ claim # NoClaim /\ claim' = NoClaim /\ Send(claim.conn, f)
      /\ UNCHANGED <<up, pump, netVars>>
  BY DEF RecordClaim
<1>2. Delivered(durable', claim.attempt)
  BY <1>1, NetStays
<1>3. f \in ToWorker'
  BY <1>2 DEF ToWorker, Frame, Authorities, Delivered
<1>4. runtime' \in [Boot -> Runtimes']
  BY <1>1, <1>3, NetStays, SendKeeps DEF Sendable
<1> QED BY <1>1, <1>4, NetStays, PumpStays DEF NetInv

-----------------------------------------------------------------------------
(* The loop of a worker process. *)

\* What the step of a process leads to, in terms of the state before it.
Loops ==
    /\ registry' \in [Boot -> Registrations]
    /\ toCoordinator' \in [Boot -> Seq(ToCoordinator)]
    /\ runtime' \in [Boot -> Runtimes]

\* A process that exits keeps nothing.
LEMMA ExitLoops ==
    ASSUME NetInv, NEW b \in Boot, Exit(b) PROVE Loops
<1> DEFINE gone == [NewRuntime EXCEPT !.pc = "Exited"]
<1>1. <<>> \in Seq(ToWorker) /\ NoSession \in Authorities
  BY DEF Authorities
<1>2. gone \in Runtimes
  BY <1>1 DEF NewRuntime, Runtimes
<1>3. runtime' = [runtime EXCEPT ![b] = gone] /\ UNCHANGED <<registry, toCoordinator>>
  BY DEF Exit
<1> HIDE DEF gone
<1> QED BY <1>2, <1>3 DEF NetInv, Loops

\* A process that sends a frame, or exits.
LEMMA SendOrExitLoops ==
    ASSUME NetInv, NEW b \in Boot, NEW f \in ToCoordinator, NEW r \in Runtimes,
           SendOrExit(b, f, r)
    PROVE  Loops
<1>1. CASE /\ toCoordinator' = [toCoordinator EXCEPT ![b] = Append(@, f)]
           /\ runtime' = [runtime EXCEPT ![b] = r]
           /\ UNCHANGED registry
  <2>1. Append(toCoordinator[b], f) \in Seq(ToCoordinator)
    BY DEF NetInv
  <2> QED BY <1>1, <2>1 DEF NetInv, Loops
<1> QED BY <1>1, ExitLoops DEF SendOrExit

\* The next frame of a process.
LEMMA NextFrame ==
    ASSUME NEW r \in Runtimes, r.inbox # <<>>
    PROVE  Head(r.inbox) \in ToWorker /\ Tail(r.inbox) \in Seq(ToWorker)
<1>1. r.inbox \in Seq(ToWorker)
  BY DEF Runtimes
<1> QED BY <1>1

\* It connects, and it takes an assignment under the session that carries it.
LEMMA WorkerLoops ==
    ASSUME NetInv, NEW b \in Boot, connect(b) \/ LoopStep(b) \/ Break(b) PROVE Loops
<1> DEFINE r == runtime[b]
<1>1. r \in Runtimes /\ NoSession \in Authorities
  BY DEF NetInv, Authorities
<1>2. CASE connect(b)
  <2>1. /\ registry' = [registry EXCEPT ![b] = [open |-> TRUE, session |-> NoSession]]
        /\ toCoordinator' = [toCoordinator EXCEPT ![b] = <<Frame("Hello", NoSession, 0)>>]
        /\ runtime' = [runtime EXCEPT ![b].pc = "AwaitHello"]
    BY <1>2 DEF connect
  <2>2. Frame("Hello", NoSession, 0) \in ToCoordinator
    BY <1>1 DEF Frame, ToCoordinator
  <2>3. <<Frame("Hello", NoSession, 0)>> \in Seq(ToCoordinator)
    BY <2>2
  <2>4. [r EXCEPT !.pc = "AwaitHello"] \in Runtimes
    BY <1>1 DEF Runtimes
  <2>5. [open |-> TRUE, session |-> NoSession] \in Registrations
    BY <1>1 DEF Registrations
  <2> QED BY <2>1, <2>3, <2>4, <2>5 DEF NetInv, Loops
<1>3. CASE FinishHandshake(b)
  <2> DEFINE f == Frame("WorkerReady", r.session, 0)
             next == [r EXCEPT !.pc = "Serving"]
  <2>1. SendOrExit(b, f, next) \/ Exit(b)
    BY <1>3 DEF FinishHandshake
  <2>2. f \in ToCoordinator /\ next \in Runtimes
    BY <1>1 DEF Frame, ToCoordinator, Runtimes
  <2> QED BY <2>1, <2>2, SendOrExitLoops, ExitLoops
<1>4. CASE serve(b)
  <2> DEFINE frame == Head(r.inbox)
             rest == [r EXCEPT !.inbox = Tail(@)]
             f == Frame("AttemptAccepted", frame.session, frame.attempt)
             job == [rest EXCEPT !.pc = "Producing", !.job = frame.attempt,
                                 !.authority = frame.session]
             told == [rest EXCEPT !.acknowledged = TRUE]
  <2>1. \/ Exit(b)
        \/ r.inbox # <<>> /\ frame.type = "AssignAttempt" /\ SendOrExit(b, f, job)
        \/ r.inbox # <<>> /\ runtime' = [runtime EXCEPT ![b] = told] /\ UNCHANGED netVars
    BY <1>4 DEF serve
  <2>2. CASE r.inbox # <<>> /\ frame.type = "AssignAttempt" /\ SendOrExit(b, f, job)
    <3>1. frame \in ToWorker /\ Tail(r.inbox) \in Seq(ToWorker)
      BY <1>1, <2>2, NextFrame
    <3>2. /\ frame.session \in Authorities /\ frame.attempt \in AttemptId
          /\ Given(durable, frame.attempt, frame.session.boot)
          /\ frame.attempt # 0
      BY <2>2, <3>1 DEF ToWorker, Given, AttemptId
    <3>3. f \in ToCoordinator
      BY <3>2 DEF Frame, ToCoordinator
    <3> HIDE DEF frame
    <3>4. job \in Runtimes
      BY <1>1, <3>1, <3>2 DEF Runtimes
    <3> QED BY <2>2, <3>3, <3>4, SendOrExitLoops
  <2>3. CASE r.inbox # <<>> /\ runtime' = [runtime EXCEPT ![b] = told] /\ UNCHANGED netVars
    <3>1. Tail(r.inbox) \in Seq(ToWorker)
      BY <1>1, <2>3, NextFrame
    <3>2. told \in Runtimes
      BY <1>1, <3>1 DEF Runtimes
    <3> QED BY <2>3, <3>2 DEF NetInv, Loops
  <2> QED BY <2>1, <2>2, <2>3, ExitLoops
<1>5. CASE serve_assignment(b)
  <2> DEFINE f == Frame("CandidatePublish", r.authority, r.job)
             next == [r EXCEPT !.pc = "AwaitAck"]
  <2>1. r.pc = "Producing" /\ (SendOrExit(b, f, next) \/ Exit(b))
    BY <1>5 DEF serve_assignment
  <2>2. f \in ToCoordinator /\ next \in Runtimes
    BY <1>1, <2>1 DEF Frame, ToCoordinator, Runtimes
  <2> QED BY <2>1, <2>2, SendOrExitLoops, ExitLoops
<1>6. CASE wait_for_publish_ack(b)
  <2> DEFINE next == [r EXCEPT !.pc = "Serving", !.acknowledged = FALSE]
  <2>1. \/ runtime' = [runtime EXCEPT ![b] = next] /\ UNCHANGED netVars
        \/ Exit(b)
    BY <1>6 DEF wait_for_publish_ack
  <2>2. next \in Runtimes
    BY <1>1 DEF Runtimes
  <2> QED BY <2>1, <2>2, ExitLoops DEF NetInv, Loops
<1>7. CASE Break(b)
  BY <1>7 DEF Break, NetInv, Loops
<1> QED BY <1>2, <1>3, <1>4, <1>5, <1>6, <1>7 DEF LoopStep

\* It holds nothing that may not be held.
LEMMA WorkerKeeps ==
    ASSUME DiskInv, NetInv, Grown, Onward, NEW b \in Boot, WorkerStep(b) PROVE NetInv'
<1>1. Loops /\ UNCHANGED <<up, pump, claim>>
  BY WorkerLoops DEF WorkerStep
<1> QED BY <1>1, NetStays, PumpStays DEF NetInv, Loops, Grown

-----------------------------------------------------------------------------
(* The invariant, and what follows from it. *)

\* The inductive invariant.
WorkersInv == DiskInv /\ NetInv

\* Every step that keeps the outcomes on disk keeps the rest.
LEMMA NextNetInv ==
    ASSUME DiskInv, NetInv, Grown, Crash \/ Onward, [WorkersNext]_allVars PROVE NetInv'
<1>0. CASE Crash
  BY <1>0, CrashKeeps
<1> SUFFICES ASSUME Onward, ~Crash PROVE NetInv'
  BY <1>0
<1>1. \A b \in Boot : HandleFrame(b) => NetInv'
  BY HelloKeeps, QuietKeeps, PublishKeeps DEF HandleFrame
<1>2. \A b \in Boot : note_close(b) \/ dispatch_ready_workers(b) \/ WorkerStep(b) => NetInv'
  BY QuietKeeps, ListingKeeps, WorkerKeeps
<1>3. MidwayStep => NetInv'
  BY ClaimKeeps, ReadingKeeps, AuthorizingKeeps, ConfirmingKeeps DEF MidwayStep
<1>4. UNCHANGED allVars => NetInv'
  BY NothingKeeps DEF allVars
<1> QED BY <1>1, <1>2, <1>3, <1>4, ControllerKeeps, CrashKeeps, StartKeeps
        DEF WorkersNext, ReaderStep

\* The invariant is inductive, and every snapshot follows the one before it.
LEMMA NextWorkersInv ==
    ASSUME WorkersInv, [WorkersNext]_allVars
    PROVE  WorkersInv' /\ Follows(durable, durable')
<1>1. DiskInv /\ NetInv
  BY DEF WorkersInv
<1>2. /\ DiskInv' /\ Follows(durable, durable') /\ sessions \subseteq sessions'
      /\ Crash \/ Onward
  <2>1. CASE Crash
    <3>1. DiskInv' /\ durable' = durable /\ sessions' = sessions
      BY <1>1, <2>1, CrashKeepsDisk
    <3>2. Follows(durable, durable')
      BY <3>1, FollowsItself
    <3> QED BY <2>1, <3>1, <3>2
  <2>2. CASE CoordinatorCall /\ (durable' = durable \/ durable' = Snapshot')
    <3>1. /\ DiskInv' /\ Follows(durable, durable')
          /\ sessions \subseteq sessions' /\ epoch <= epoch'
      BY <1>1, <2>2, CallKeepsDisk
    <3>2. epoch' \in Nat
      BY <3>1 DEF DiskInv, Sound, SnapshotRecord, Snapshot
    <3> QED BY <3>1, <3>2 DEF Onward
  <2> QED BY <1>1, <2>1, <2>2, StepCalls
<1>3. Grown
  BY <1>2, LaterIsGrown
<1> QED BY <1>1, <1>2, <1>3, NextNetInv DEF WorkersInv

\* An empty plant is on disk, and nothing was sent.
LEMMA InitWorkersInv == WorkersInit => WorkersInv
<1> SUFFICES ASSUME WorkersInit PROVE WorkersInv
  OBVIOUS
<1>1. Init /\ ProcessInit
  BY DEF WorkersInit
<1>2. CoreInv /\ RefInv
  BY <1>1, InitCoreInv, InitRefInv
<1>3. /\ epoch = 1 /\ workers = [w \in Worker |-> NoWorker]
      /\ populations = [p \in PopulationId |-> NoPopulation]
      /\ selections = NoSelections /\ retentions = NoRetentions /\ promotions = {}
  BY <1>1 DEF Init, NoSelections, NoRetentions
<1>4. Timely(Snapshot) /\ Issued(Snapshot, sessions)
  BY <1>3 DEF Timely, Issued, Snapshot, NoWorker, NoPopulation
<1>5. Sound(Snapshot, sessions)
  BY <1>2, <1>3, <1>4, InvIsSound
<1>6. Callers
  BY <1>1 DEF Init, Callers
<1>7. DiskInv
  BY <1>1, <1>5, <1>6, FollowsItself DEF ProcessInit, DiskInv
<1>8. NoSession \in Authorities /\ <<>> \in Seq(ToCoordinator) /\ <<>> \in Seq(ToWorker)
  BY DEF Authorities
<1>9. NewRuntime \in Runtimes
  BY <1>8 DEF NewRuntime, Runtimes
<1>10. PumpInv
  BY <1>1 DEF ProcessInit, PumpInv, IdlePump, NoSession
<1>11. NetInv
  BY <1>1, <1>8, <1>9, <1>10 DEF ProcessInit, NetInv, Registrations
<1> QED BY <1>7, <1>11 DEF WorkersInv

\* What a process was sent and has not looked at may be sent.
LEMMA QueuedIsSent ==
    ASSUME NetInv, NEW b \in Boot
    PROVE  runtime[b] \in Runtimes /\ \A frame \in Queued(b) : frame \in ToWorker
<1>1. runtime[b] \in Runtimes
  BY DEF NetInv
<1>2. runtime[b].inbox \in Seq(ToWorker)
  BY <1>1 DEF Runtimes
<1>3. \A i \in DOMAIN runtime[b].inbox : runtime[b].inbox[i] \in ToWorker
  BY <1>2
<1> QED BY <1>1, <1>3 DEF Queued

\* From the moment a PublishAck is on its way, through crashes, failed saves
\* and restarts, the snapshot on disk has the candidate with that output: the
\* coordinator acknowledges only what HandleCandidatePublish has saved, and no
\* later snapshot takes an output back.
THEOREM AcknowledgementsAreDurable == WorkersSpec => []AcknowledgedIsDurable
<1>1. WorkersInv => AcknowledgedIsDurable
  <2> SUFFICES ASSUME NetInv, NEW b \in Boot, NEW frame \in Queued(b),
                      frame.type = "PublishAck"
               PROVE  /\ durable.attempts[frame.attempt].state # "Absent"
                      /\ durable.candidates[durable.attempts[frame.attempt].candidate].output
                         = frame.attempt
    BY DEF WorkersInv, AcknowledgedIsDurable
  <2>1. Delivered(durable, frame.attempt)
    BY QueuedIsSent DEF ToWorker
  <2> QED BY <2>1 DEF Delivered
<1>2. WorkersInv /\ [WorkersNext]_allVars => WorkersInv'
  BY NextWorkersInv
<1> QED BY <1>1, <1>2, InitWorkersInv, PTL DEF WorkersSpec

\* An attempt a worker was given is on disk, for that worker's boot: the pump
\* sends only what AuthorizeAndSave has saved, so a restart from the snapshot
\* never hands the identity out again.
THEOREM AssignmentsAreDurable == WorkersSpec => []AssignedIsDurable
<1>1. WorkersInv => AssignedIsDurable
  <2> SUFFICES ASSUME NetInv, NEW b \in Boot
               PROVE  /\ \A frame \in Queued(b) : frame.type = "AssignAttempt" =>
                            durable.attempts[frame.attempt].boot = frame.session.boot
                      /\ runtime[b].job # 0 =>
                            durable.attempts[runtime[b].job].boot = runtime[b].authority.boot
    BY DEF WorkersInv, AssignedIsDurable
  <2>1. \A frame \in Queued(b) : frame.type = "AssignAttempt" =>
           Given(durable, frame.attempt, frame.session.boot)
    BY QueuedIsSent DEF ToWorker
  <2>2. runtime[b].job # 0 => Given(durable, runtime[b].job, runtime[b].authority.boot)
    BY QueuedIsSent DEF Runtimes
  <2> QED BY <2>1, <2>2 DEF Given
<1>2. WorkersInv /\ [WorkersNext]_allVars => WorkersInv'
  BY NextWorkersInv
<1> QED BY <1>1, <1>2, InitWorkersInv, PTL DEF WorkersSpec

\* What recovery has to load is always something it accepts: until start() has
\* recovered it, the core is the snapshot of the process that died.
THEOREM SnapshotsLoad == WorkersSpec => []SavedStateLoads
<1>1. WorkersInv => SavedStateLoads
  BY SoundIsInv, RefsAreValid DEF WorkersInv, DiskInv
<1>2. WorkersInv /\ [WorkersNext]_allVars => WorkersInv'
  BY NextWorkersInv
<1> QED BY <1>1, <1>2, InitWorkersInv, PTL DEF WorkersSpec

-----------------------------------------------------------------------------
(* The refinement: the snapshots on disk are a ledger of publications. *)

\* The attempts a snapshot has as over, and those whose output it has.
Over(d) == {a \in AttemptId : d.attempts[a].state \in AttemptTerminal}
Produced(d) == {a \in AttemptId : \E c \in CandidateId : d.candidates[c].output = a}

\* Nothing is recorded of an empty plant.
LEMMA InitRecords == WorkersInit => Recorded!Init
<1> SUFFICES ASSUME WorkersInit PROVE Recorded!Init
  OBVIOUS
<1>1. /\ \A a \in AttemptId : durable.attempts[a].state = "Absent"
      /\ \A c \in CandidateId : durable.candidates[c].output = 0
  BY DEF WorkersInit, ProcessInit, Snapshot, Init, NoAttempt, NoCandidate
<1>2. "Absent" \notin AttemptTerminal /\ 0 \notin AttemptId
  BY DEF AttemptTerminal, AttemptId
<1> QED BY <1>1, <1>2 DEF Recorded!Init

\* A snapshot that follows another records what it adds, and takes back nothing.
LEMMA FollowingRecords ==
    ASSUME Follows(durable, durable') PROVE Recorded!Record
<1> DEFINE o == Over(durable')
           p == Produced(durable')
<1>1. o \in SUBSET AttemptId /\ p \in SUBSET AttemptId
  BY DEF Over, Produced
<1>2. Over(durable) \subseteq o
  BY DEF Follows, Over
<1>3. Produced(durable) \subseteq p
  BY DEF Follows, Produced, AttemptId
<1>4. p \cap Over(durable) = Produced(durable) \cap Over(durable)
  <2>1. \A a \in p : a \in Over(durable) => a \in Produced(durable)
    BY DEF Follows, Over, Produced
  <2> QED BY <1>3, <2>1
<1> HIDE DEF o, p
<1>5. /\ {a \in AttemptId : durable.attempts[a].state \in AttemptTerminal} = Over(durable)
      /\ {a \in AttemptId : \E c \in CandidateId : durable.candidates[c].output = a}
         = Produced(durable)
      /\ {a \in AttemptId : durable'.attempts[a].state \in AttemptTerminal} = o
      /\ {a \in AttemptId : \E c \in CandidateId : durable'.candidates[c].output = a} = p
  BY DEF Over, Produced, o, p
<1> QED BY <1>1, <1>2, <1>3, <1>4, <1>5 DEF Recorded!Record

\* The sequence of snapshots implements PublicationLedger, whatever happens to
\* the process that writes them: an attempt saved as over stays over, an output
\* saved stays saved, and an attempt that was over without one gets none.
THEOREM SnapshotsAreALedger == WorkersSpec => OutcomesRecordedOnce
<1>1. WorkersInv /\ [WorkersNext]_allVars => WorkersInv'
  BY NextWorkersInv
<1>2. WorkersInv /\ [WorkersNext]_allVars => Recorded!Record
  BY NextWorkersInv, FollowingRecords
<1> QED BY <1>1, <1>2, InitWorkersInv, InitRecords, PTL
        DEF WorkersSpec, OutcomesRecordedOnce, Recorded!Spec
=============================================================================
