------------------------------ MODULE FoundryCore ------------------------------
(***************************************************************************)
(* The state machine of FoundryCore: every public method that changes      *)
(* state is an action, called by workers, evaluators, controllers and the  *)
(* operator in any order.  The callers' inputs are small sets; the bounds  *)
(* among the constants decide which part of the machine a run explores.    *)
(***************************************************************************)
EXTENDS FoundryDispatch, FoundrySelect, FoundryRecovery

\* Calls of a worker connection: w registers, or presents a session authority
\* it was issued at any time.
WorkerCall ==
    \/ \E w \in Worker, b \in Boot : register_worker(w, b)
    \/ \E s \in sessions :
         \/ worker_ready(s)
         \/ revalidate_worker(s)
         \/ worker_disconnected(s)
         \/ reject_worker_session(s)
         \/ authorize_attempt(s)
         \/ \E a \in AttemptId :
              \/ confirm_dispatch(s, a)
              \/ abandon_dispatch(s, a)
              \/ acknowledge_attempt(s, a)
              \/ publish_candidate(s, a)
              \/ report_attempt_failure(s, a)

\* An evaluator reports on a candidate with output.  The report is bound to
\* the generations the evaluator read: those of the candidate's slot or the
\* current ones.  Of a mandatory report only the outcome counts, of an
\* optional one only the score, high or low.
EvaluatorReport(c) ==
    LET p == candidates[c].population IN
    /\ candidates[c].output # 0
    /\ \E k \in Requirement, outcome \in {"Pass", "NotPass"},
          g \in {candidates[c].populationGeneration, populations[p].generation},
          t \in {candidates[c].taskGeneration, taskGeneration} :
         record_evaluation(c, k, "Reference", outcome,
                           k \in Optional /\ outcome = "Pass", g, t)

\* A worker claims success (or not) for a candidate whenever it likes; the
\* claim carries the generations of the package it was sent.
SelfReport(c) ==
    \E k \in SelfReportKey, a \in AttemptsOf(c), outcome \in {"Pass", "NotPass"} :
        record_evaluation(c, k, "WorkerSelfReport", outcome, FALSE,
                          attempts[a].packagePopulation, attempts[a].packageTask)

EvaluatorCall ==
    \E c \in CandidateId : begin_evaluation(c) \/ EvaluatorReport(c) \/ SelfReport(c)

OperatorCall ==
    \/ revise_task
    \/ revise_policy
    \/ create_population
    \/ \E p \in PopulationId, g \in 1..(MaxPopulationGeneration + 3) :
         \/ start_population(p, g)
         \/ cancel_population(p, g)
         \/ revalidate_population(p, g)
    \/ \E p \in PopulationId : request_population_revalidation(p)
    \/ \E a \in AttemptId : cancel_attempt(a) \/ force_attempt_outcome_unknown(a)

ControllerCall ==
    \/ \E x \in Controller :
         \/ \E p \in PopulationId : prepare_selection(x, p) \/ prepare_retention(x, p)
         \/ commit_selection(x)
         \/ commit_retention(x)
    \/ \E p \in PopulationId :
         \/ prepare_promotion_request(p)
         \/ close_population(p)
         \/ create_successor(p)
         \/ advance_population(p)

Next == WorkerCall \/ EvaluatorCall \/ OperatorCall \/ ControllerCall \/ recover

Spec == Init /\ [][Next]_vars

-----------------------------------------------------------------------------
(* Types. *)

\* Every table of the core holds records of its type; in particular no budget
\* counter, generation or depth ever underflows.
TypeOK ==
    /\ epoch \in Nat /\ taskGeneration \in Nat /\ policyGeneration \in Nat
    /\ ids \in IdCounters
    /\ populations \in [PopulationId -> PopulationRecord]
    /\ candidates \in [CandidateId -> CandidateRecord]
    /\ attempts \in [AttemptId -> AttemptRecord]
    /\ workers \in [Worker -> WorkerRecord]
    /\ evaluations \subseteq EvaluationRecord
    /\ selections \in [PopulationId -> SelectionDecision]
    /\ retentions \in [PopulationId -> RetentionDecision]
    /\ promotions \subseteq PromotionRequest
    /\ reserved \in [PopulationId -> [BudgetKind -> Nat]]
    /\ consumed \in [PopulationId -> [BudgetKind -> Nat]]
    /\ sessions \subseteq SessionAuthority
    /\ heldSelection \in [Controller -> SelectionDecision]
    /\ heldRetention \in [Controller -> RetentionDecision]

-----------------------------------------------------------------------------
(* Budgets and attempts. *)

Holders(p, k) == {a \in AttemptId : /\ attempts[a].population = p
                                    /\ attempts[a].holdsReservation
                                    /\ k \in KindsOf(attempts[a])}

\* The ledger and the attempts agree: every open reservation belongs to an
\* attempt that will settle it, on whichever of the nine ending paths
\* (publish, fail, abandon, cancel, force, disconnect, replace, settle,
\* recover) the attempt takes, and none is returned twice.
ReservationsAccounted ==
    \A p \in PopulationId, k \in BudgetKind :
        reserved[p][k] = Cardinality(Holders(p, k))

\* A reservation is held exactly while the attempt is in flight; an attempt
\* that ended, in whatever way, gave it back or had it charged.
HeldWhileInFlight ==
    \A a \in AttemptId :
        attempts[a].holdsReservation <=> attempts[a].state \in AttemptInFlight

\* authorize_attempt checks some kinds and reserves others after the check;
\* no kind ever exceeds its policy limit.
WithinLimits ==
    \A p \in PopulationId, k \in BudgetKind : InUse(p, k) <= Limit[k]

\* Committed outputs, not attempts, are what a population is charged for, and
\* each is charged once: a retry of a slot whose attempt had an undetermined
\* outcome does not charge the slot twice.
ChargedPerOutput ==
    \A p \in PopulationId :
        LET produced == {c \in CandidatesOf(p) :
                           \E a \in AttemptsOf(c) : candidates[c].output = a}
        IN  \A k \in {"CandidateAttempts", "WorkerAssignments", "ActiveAttempts"} :
                consumed[p][k] = Cardinality(produced)

\* A slot never has two attempts that can still act on it, so an attempt
\* replayed after a disconnect or restart cannot race its predecessor.
OneOpenAttemptPerSlot ==
    \A c \in CandidateId, a, b \in AttemptId :
        a \in OpenAttemptsOf(c) /\ b \in OpenAttemptsOf(c) => a = b

\* An attempt in flight has a slot that is being produced and has no output:
\* publish_candidate never gets past its checks only to fail the transition
\* after it stored the artifacts.
InFlightSlotIsEmpty ==
    \A a \in AttemptId : attempts[a].state \in AttemptInFlight =>
        /\ candidates[attempts[a].candidate].state = "Producing"
        /\ candidates[attempts[a].candidate].output = 0
        /\ LivePopulation(attempts[a].population)

\* The owner of an attempt in flight is the worker's current incarnation and
\* was not declared offline: no disconnect, replacement or restart leaves an
\* attempt behind that nobody will report on.
InFlightHasOwner ==
    \A a \in AttemptId : attempts[a].state \in AttemptInFlight =>
        /\ workers[attempts[a].worker].boot = attempts[a].boot
        /\ workers[attempts[a].worker].state \notin {"Absent", "Offline"}

\* A worker is Busy only with an attempt of its own that is in flight, however
\* that attempt may end: no failure, cancellation, publication, abandonment or
\* closure leaves a worker behind that nobody will give work to.  The one
\* exception is force_attempt_outcome_unknown, which does not free it.
BusyWithItsAttempt ==
    \A w \in Worker : workers[w].state = "Busy" =>
        LET a == workers[w].active IN
        /\ a # 0 /\ attempts[a].worker = w /\ attempts[a].boot = workers[w].boot
        /\ attempts[a].state \in AttemptInFlight \cup {"OutcomeUnknown"}

-----------------------------------------------------------------------------
(* Evidence and decisions. *)

\* Authoritative evidence is about the output the candidate carries now: no
\* retry, disconnect or restart puts another output behind a verdict.
EvidenceAboutOutput ==
    \A r \in evaluations : r.kind # "WorkerSelfReport" =>
        r.about = candidates[r.candidate].output

\* A candidate that is marked as the winner passed every mandatory gate by
\* authoritative evidence, whether or not the policy demands complete
\* evidence, and however the evidence, the decisions and the revalidations
\* were interleaved.
WinnerPassedEveryGate ==
    \A c \in CandidateId : candidates[c].selected =>
        \A k \in Mandatory : \E r \in evaluations :
            /\ r.candidate = c /\ r.key = k
            /\ r.kind # "WorkerSelfReport" /\ r.outcome = "Pass"

\* FoundryCore::audit, on the parts of the state that are modelled: it finds
\* nothing in any reachable state.
AuditClean ==
    /\ \A p \in PopulationId : populations[p].state = "Closed" =>
          populations[p].committedSelection > 0 /\ populations[p].retentionCommitted
    /\ \A c \in CandidateId : candidates[c].selected =>
          candidates[c].state \in {"Selected", "Retained", "Retired"}
    /\ \A c \in CandidateId : candidates[c].parent # 0 =>
          candidates[c].parent # c /\ candidates[candidates[c].parent].state # "Absent"
    /\ \A p \in PopulationId :
          selections[p].state = "Committed" /\ selections[p].selected # 0 =>
          candidates[selections[p].selected].selected
    /\ \A c, d \in CandidateId :
          /\ candidates[c].population = candidates[d].population
          /\ candidates[c].selected /\ candidates[d].selected
          => c = d

\* A closed population is quiescent for good: no late publication, report,
\* disconnect, restart or decision brings an open attempt, a reservation or
\* an unresolved candidate back into it.
ClosedIsQuiescent ==
    \A p \in PopulationId : populations[p].state = "Closed" =>
        /\ \A a \in AttemptId : attempts[a].population = p =>
                                attempts[a].state \in AttemptTerminal
        /\ \A k \in BudgetKind : reserved[p][k] = 0
        /\ \A c \in CandidatesOf(p) : candidates[c].state \notin CandidateUnresolved

\* No step takes an attempt out of a terminal state or a population out of
\* one, and none gives a candidate of a terminal population an output,
\* evidence or the winner's mark: late results are refused everywhere.
LateResultsRefused ==
    [][ /\ \A a \in AttemptId : attempts[a].state \in AttemptTerminal =>
              attempts'[a] = attempts[a]
        /\ \A p \in PopulationId : populations[p].state \in PopulationTerminal =>
              /\ populations'[p].state = populations[p].state
              /\ \A c \in CandidateId : candidates'[c].population = p =>
                    /\ c \in CandidatesOf(p)
                    /\ candidates'[c].output = candidates[c].output
                    /\ candidates'[c].selected = candidates[c].selected
                    /\ ~\E r \in evaluations' \ evaluations : r.candidate = c ]_vars

\* The winner a commit installs is the front of the ranking as it would be
\* computed at the moment of the commit, although it was computed earlier,
\* outside the lock, and other calls may have intervened: the digest covers
\* everything the ranking depends on.
CommitsCurrentRanking ==
    [][ \A p \in PopulationId :
          populations'[p].committedSelection > populations[p].committedSelection =>
            /\ selections'[p].rank = Ranking(p)
            /\ \A c \in CandidateId :
                 candidates'[c].population = p /\ candidates'[c].selected
                 => Ranking(p)[c] = 1 ]_vars

\* A committed retention is the one the current committed selection implies.
CommitsCurrentRetention ==
    [][ \A p \in PopulationId :
          retentions'[p].state = "Committed" /\ retentions'[p] # retentions[p] =>
            /\ selections[p].state = "Committed"
            /\ selections[p].generation = populations[p].committedSelection
            /\ retentions'[p].retained = RetainedSet(selections[p]) ]_vars

\* A child continues its parent's lineage one generation deeper; the parent
\* is the winner of the closed predecessor and stays its winner, however
\* often the predecessor is advanced and whatever decisions come later.  No
\* candidate is deeper than a snapshot may say (validate_candidate_record).
LineageSound ==
    \A c \in CandidateId :
        /\ candidates[c].depth <= kMaxLineageDepth
        /\ candidates[c].parent # 0 =>
             LET parent == candidates[candidates[c].parent]
                 predecessor == populations[parent.population]
             IN  /\ candidates[c].lineage = parent.lineage
                 /\ candidates[c].depth = parent.depth + 1
                 /\ parent.selected /\ parent.output # 0
                 /\ predecessor.state = "Closed"
                 /\ populations[candidates[c].population].index = predecessor.index + 1

-----------------------------------------------------------------------------
(* Restarts. *)

\* Every state the core can be saved in is one that validate_semantics accepts
\* when the next coordinator loads it: no sequence of calls stores a record
\* that names a missing one, a depth its parents do not imply or an identity
\* beyond its counter, which only the next start would refuse.
SavedStateLoads == validate_semantics

\* No step takes a generation back, with one exception: a restart forgets the
\* selection a population had committed, and only where a later preparation
\* had replaced the stored decision.  A restart never forgets a decision that
\* is stored as committed, which a closed population or a child rests on.
SelectionOutlivesRestart ==
    [][ /\ taskGeneration' >= taskGeneration
        /\ policyGeneration' >= policyGeneration
        /\ \A w \in Worker :
             workers'[w].sessionGeneration >= workers[w].sessionGeneration
        /\ \A p \in PopulationId :
             /\ populations'[p].generation >= populations[p].generation
             /\ \/ populations'[p].committedSelection >= populations[p].committedSelection
                \/ /\ epoch' > epoch
                   /\ selections[p].state # "Committed"
                   /\ populations'[p].state = "RevalidationRequired" ]_vars

\* An incarnation that was known before a restart is given work again only
\* after revalidate_worker, in the epoch it is revalidated in.  The only other
\* way to become Ready is an attempt of the worker that ends or is published:
\* publish_candidate, report_attempt_failure and the cancellations free it
\* whatever its state was.
ReadyOnlyByRevalidation ==
    [][ \A w \in Worker :
          /\ workers[w].state \notin {"Ready", "Busy"}
          /\ workers'[w].state \in {"Ready", "Busy"}
          => \/ workers'[w].registeredEpoch = epoch'
             \/ \E a \in AttemptId :
                  /\ attempts[a].worker = w
                  /\ attempts[a].state \in AttemptOpen
                  /\ attempts'[a].state \in AttemptTerminal \cup {"Published"}
                  /\ attempts'[a].state # attempts[a].state ]_vars
=============================================================================
