--------------------------- MODULE FoundryDispatch ---------------------------
(***************************************************************************)
(* foundry_dispatch.cpp: worker sessions, dispatch of production attempts, *)
(* publication, evidence and cancellation of one attempt.  A refused call  *)
(* changes no state (statistics are not modelled), so it is no step.       *)
(***************************************************************************)
EXTENDS FoundryState

-----------------------------------------------------------------------------
(* Worker sessions. *)

\* The record and the authority that registration and revalidation end with.
IssueSession(w, record) ==
    /\ workers[w].sessionGeneration < MaxSessions
    /\ workers' = [workers EXCEPT ![w] =
           [record EXCEPT !.sessionGeneration = workers[w].sessionGeneration + 1]]
    /\ sessions' = sessions \cup
           {[epoch |-> epoch, worker |-> w, boot |-> record.boot,
             generation |-> workers[w].sessionGeneration + 1]}

FirstRegistration(w, b) ==
    /\ workers[w].state = "Absent"
    /\ IssueSession(w, [workers[w] EXCEPT !.state = "Registered", !.boot = b,
                                          !.registeredEpoch = epoch])
    /\ UNCHANGED <<attempts, candidates, reserved>>

\* A live incarnation is not taken over by a duplicate connection; one that
\* registered under an earlier epoch has to revalidate.
SameIncarnation(w, b) ==
    /\ workers[w].state \in {"Offline", "Rejected", "RevalidationRequired"}
    /\ workers[w].boot = b
    /\ IssueSession(w, [workers[w] EXCEPT !.state =
           IF workers[w].registeredEpoch # epoch
           THEN "RevalidationRequired" ELSE "Registered"])
    /\ UNCHANGED <<attempts, candidates, reserved>>

ReplaceIncarnation(w, b) ==
    LET orphaned == {a \in AttemptId : /\ attempts[a].worker = w
                                       /\ attempts[a].state \in AttemptOpen}
    IN
    /\ workers[w].state # "Absent"
    /\ workers[w].boot # b
    /\ reserved' = ReleaseReservations(orphaned)
    /\ attempts' = EndAttempts(orphaned, "OutcomeUnknown")
    /\ candidates' = ReopenSlots(orphaned)
    /\ IssueSession(w, [workers[w] EXCEPT !.state = "Registered", !.boot = b,
                                          !.registeredEpoch = epoch, !.active = 0])

register_worker(w, b) ==
    /\ \/ FirstRegistration(w, b)
       \/ SameIncarnation(w, b)
       \/ ReplaceIncarnation(w, b)
    /\ UNCHANGED <<epoch, definitionVars, ids, populations, evaluations,
                   consumed, decisionVars>>

\* Mutation of AcceptsReady: a worker may announce itself instead of being
\* revalidated.
AcceptsReadyUnrevalidated(s) ==
    /\ ValidSession(s)
    /\ workers[s.worker].state \in {"Registered", "RevalidationRequired", "Ready"}
AcceptsReady(s) ==
    /\ ValidSession(s)
    /\ workers[s.worker].state \in {"Registered", "Ready"}

worker_ready(s) ==
    /\ AcceptsReady(s)
    /\ workers' = [workers EXCEPT ![s.worker].state = "Ready"]
    /\ UNCHANGED <<epoch, definitionVars, ids, populations, candidates, attempts,
                   evaluations, ledgerVars, decisionVars, sessions>>

revalidate_worker(s) ==
    /\ ValidSession(s)
    /\ workers[s.worker].state \in {"RevalidationRequired", "Registered"}
    /\ IssueSession(s.worker, [workers[s.worker] EXCEPT !.state = "Registered",
                                                       !.registeredEpoch = epoch])
    /\ UNCHANGED <<epoch, definitionVars, ids, populations, candidates, attempts,
                   evaluations, ledgerVars, decisionVars>>

worker_disconnected(s) ==
    LET lost == {a \in AttemptId : /\ attempts[a].worker = s.worker
                                   /\ attempts[a].boot = s.boot
                                   /\ attempts[a].state \in AttemptOpen}
    IN
    /\ ValidSession(s)
    /\ reserved' = ReleaseReservations(lost)
    /\ attempts' = EndAttempts(lost, "OutcomeUnknown")
    /\ candidates' = ReopenSlots(lost)
    /\ workers' = [workers EXCEPT ![s.worker].state = "Offline",
                                  ![s.worker].active = 0]
    /\ UNCHANGED <<epoch, definitionVars, ids, populations, evaluations,
                   consumed, decisionVars, sessions>>

\* Checks nothing of the session but the incarnation it names.
reject_worker_session(s) ==
    /\ workers[s.worker].state # "Absent"
    /\ workers[s.worker].boot = s.boot
    /\ workers' = [workers EXCEPT ![s.worker].state = "Rejected"]
    /\ UNCHANGED <<epoch, definitionVars, ids, populations, candidates, attempts,
                   evaluations, ledgerVars, decisionVars, sessions>>

-----------------------------------------------------------------------------
(* Dispatch. *)

\* Mutation of OpenSlots: a slot is dispatched while its attempt is open.
SlotsWithBudget(p) ==
    {c \in CandidatesOf(p) : /\ candidates[c].state \in {"Registered", "Producing"}
                             /\ candidates[c].attemptCount < MaxAttemptsPerCandidate}
\* Slots that need a (new) attempt; the lowest identity goes first.
OpenSlots(p) ==
    {c \in CandidatesOf(p) : /\ candidates[c].state \in {"Registered", "Producing"}
                             /\ candidates[c].attemptCount < MaxAttemptsPerCandidate
                             /\ OpenAttemptsOf(c) = {}}
FirstSlot(p) == CHOOSE c \in OpenSlots(p) : \A d \in OpenSlots(p) : c <= d

\* The depth of a new slot: below the population's seed, or of a root.
SlotDepth(p) ==
    LET seed == populations[p].seed IN
    IF seed = 0 THEN 0 ELSE candidates[seed].depth + 1

\* What the dispatch loop does with population p: pass over it, dispatch an
\* existing slot, make a new slot, or give up on every later population too
\* (the reservation of CandidateAttempts is returned as the call's error).
DispatchVerdict(p) ==
    LET c == FirstSlot(p)
        retry == candidates[c].attemptCount > 0
    IN
    CASE \/ populations[p].state # "Running"
         \/ Cardinality(ActiveAttempts(p)) >= WorkerBudget -> "skip"
      [] OTHER ->
         IF OpenSlots(p) = {}
         THEN IF /\ Cardinality(CandidatesOf(p)) < CandidateBudget
                 /\ SlotDepth(p) <= kMaxLineageDepth
                 /\ \A k \in BudgetKind \ {"Retries"} : HasCapacity(p, k)
              THEN "create" ELSE "skip"
         ELSE IF retry /\ ~HasCapacity(p, "Retries") THEN "skip"
         ELSE IF ~HasCapacity(p, "CandidateAttempts") THEN "fail"
         ELSE IF \A k \in {"WorkerAssignments", "ActiveAttempts"} : HasCapacity(p, k)
              THEN "dispatch" ELSE "skip"

DispatchPopulation(p) ==
    /\ DispatchVerdict(p) \in {"dispatch", "create"}
    /\ \A q \in PopulationId : q < p => DispatchVerdict(q) = "skip"

\* Mutation of NewSlot: every slot is the root of a lineage of its own.
RootSlot(p, c) ==
    [NoCandidate EXCEPT
        !.state = "Registered", !.population = p,
        !.populationGeneration = populations[p].generation,
        !.taskGeneration = populations[p].taskGeneration,
        !.parent = populations[p].seed, !.lineage = c, !.depth = 0]
\* A new slot: a child of the population's seed, or the root of a lineage.
NewSlot(p, c) ==
    LET seed == populations[p].seed IN
    [NoCandidate EXCEPT
        !.state = "Registered", !.population = p,
        !.populationGeneration = populations[p].generation,
        !.taskGeneration = populations[p].taskGeneration,
        !.parent = seed,
        !.lineage = IF seed = 0 THEN c ELSE candidates[seed].lineage,
        !.depth = SlotDepth(p)]

\* The attempt authorized for slot (already a record) under identity c.
AuthorizeSlot(s, p, c, slot) ==
    LET a == ids.attempt + 1
        attempt == [NoAttempt EXCEPT
                      !.state = "Authorized", !.population = p, !.candidate = c,
                      !.worker = s.worker, !.boot = s.boot,
                      !.retry = slot.attemptCount > 0,
                      !.holdsReservation = TRUE]
    IN
    /\ a \in AttemptId
    /\ attempts' = [attempts EXCEPT ![a] = attempt]
    /\ candidates' = [candidates EXCEPT ![c] =
           [slot EXCEPT !.state = "Producing", !.attemptCount = @ + 1]]
    /\ workers' = [workers EXCEPT ![s.worker].state = "Busy",
                                  ![s.worker].active = a]
    /\ reserved' = Reserve(p, KindsOf(attempt))

AcceptsDispatch(s) ==
    /\ ValidSession(s)
    /\ workers[s.worker].state = "Ready"
    /\ \E p \in PopulationId : DispatchPopulation(p)

authorize_attempt(s) ==
    /\ AcceptsDispatch(s)
    /\ \E p \in PopulationId :
         /\ DispatchPopulation(p)
         /\ \/ /\ DispatchVerdict(p) = "dispatch"
               /\ AuthorizeSlot(s, p, FirstSlot(p), candidates[FirstSlot(p)])
               /\ ids' = [ids EXCEPT !.attempt = @ + 1]
               /\ UNCHANGED consumed
            \/ /\ DispatchVerdict(p) = "create"
               /\ ids.candidate + 1 \in CandidateId
               /\ AuthorizeSlot(s, p, ids.candidate + 1, NewSlot(p, ids.candidate + 1))
               /\ ids' = [ids EXCEPT !.attempt = @ + 1, !.candidate = @ + 1]
               /\ consumed' = [consumed EXCEPT ![p]["Candidates"] = @ + 1]
    /\ UNCHANGED <<epoch, definitionVars, populations, evaluations,
                   decisionVars, sessions>>

\* The package carries the current generations of the population and the task.
confirm_dispatch(s, a) ==
    /\ ValidSession(s)
    /\ attempts[a].state = "Authorized"
    /\ attempts[a].worker = s.worker /\ attempts[a].boot = s.boot
    /\ attempts' = [attempts EXCEPT
           ![a].state = "Dispatched",
           ![a].packagePopulation = populations[attempts[a].population].generation,
           ![a].packageTask = taskGeneration]
    /\ UNCHANGED <<epoch, definitionVars, ids, populations, candidates,
                   evaluations, ledgerVars, decisionVars, workerVars>>

abandon_dispatch(s, a) ==
    LET c == attempts[a].candidate IN
    /\ ValidSession(s)
    /\ attempts[a].state = "Authorized"
    /\ reserved' = ReleaseReservations({a})
    /\ attempts' = EndAttempts({a}, "Cancelled")
    /\ candidates' = IF candidates[c].state = "Producing"
                     THEN [candidates EXCEPT ![c].state = "Registered"]
                     ELSE candidates
    /\ workers' = FreeWorkersOf({a})
    /\ UNCHANGED <<epoch, definitionVars, ids, populations, evaluations,
                   consumed, decisionVars, sessions>>

AcceptsAcknowledgement(s, a) ==
    /\ ValidOperation(s, a)
    /\ attempts[a].state = "Dispatched"

acknowledge_attempt(s, a) ==
    /\ AcceptsAcknowledgement(s, a)
    /\ attempts' = [attempts EXCEPT ![a].state = "Running"]
    /\ UNCHANGED <<epoch, definitionVars, ids, populations, candidates,
                   evaluations, ledgerVars, decisionVars, workerVars>>

-----------------------------------------------------------------------------
(* Publication. *)

\* Mutation of ChargedKinds: the concurrency reservation is not charged.
ChargedButActive(a) == {k \in KindsOf(attempts[a]) : k # "ActiveAttempts"}
\* The reservations a publication turns into consumption.
ChargedKinds(a) ==
    {k \in KindsOf(attempts[a]) :
        /\ reserved[attempts[a].population][k] > 0
        /\ k = "ActiveAttempts" => attempts[a].holdsReservation}

AcceptsPublication(s, a) ==
    LET c == attempts[a].candidate IN
    /\ ValidOperation(s, a)
    /\ candidates[c].state \notin CandidateFinished
    /\ attempts[a].state \in {"Running", "Dispatched"}
    /\ candidates[c].output = 0
    /\ CandidateLegal(candidates[c].state, "Published")

publish_candidate(s, a) ==
    LET c == attempts[a].candidate
        p == attempts[a].population
    IN
    /\ AcceptsPublication(s, a)
    /\ candidates' = [candidates EXCEPT ![c].output = a, ![c].state = "Published"]
    /\ attempts' = [attempts EXCEPT ![a].state = "Published",
                                    ![a].holdsReservation = FALSE]
    /\ reserved' = [reserved EXCEPT ![p] = [k \in BudgetKind |->
                        IF k \in ChargedKinds(a) THEN @[k] - 1 ELSE @[k]]]
    /\ consumed' = [consumed EXCEPT ![p] = [k \in BudgetKind |->
                        IF k \in ChargedKinds(a) THEN @[k] + 1 ELSE @[k]]]
    /\ workers' = FreeWorker(s.worker)
    /\ populations' = IF populations[p].state = "Running"
                      THEN [populations EXCEPT ![p].state = "Evaluating"]
                      ELSE populations
    /\ UNCHANGED <<epoch, definitionVars, ids, evaluations, decisionVars, sessions>>

\* Accepted for any attempt that is not terminal, a published one included.
report_attempt_failure(s, a) ==
    LET c == attempts[a].candidate
        p == attempts[a].population
        released == ReleaseReservations({a})
        retryable == /\ candidates[c].attemptCount < MaxAttemptsPerCandidate
                     /\ released[p]["Retries"] + consumed[p]["Retries"] < Limit["Retries"]
    IN
    /\ ValidOperation(s, a)
    /\ attempts[a].state \in AttemptOpen
    /\ reserved' = released
    /\ attempts' = EndAttempts({a}, "Failed")
    /\ candidates' = IF candidates[c].state \in {"Producing", "Registered"}
                     THEN [candidates EXCEPT ![c].state =
                             IF retryable THEN "Registered" ELSE "ProductionFailed"]
                     ELSE candidates
    /\ workers' = FreeWorker(s.worker)
    /\ UNCHANGED <<epoch, definitionVars, ids, populations, evaluations,
                   consumed, decisionVars, sessions>>

-----------------------------------------------------------------------------
(* Evidence. *)

begin_evaluation(c) ==
    /\ candidates[c].state \in {"Published", "Evaluating"}
    /\ LivePopulation(candidates[c].population)
    /\ candidates' = [candidates EXCEPT ![c].state = "Evaluating"]
    /\ attempts' = [a \in AttemptId |->
           IF attempts[a].candidate = c /\ attempts[a].state = "Published"
           THEN [attempts[a] EXCEPT !.state = "Evaluating"] ELSE attempts[a]]
    /\ UNCHANGED <<epoch, definitionVars, ids, populations, evaluations,
                   ledgerVars, decisionVars, workerVars>>

\* The checks of record_evaluation on a complete report under key k that is
\* bound to population generation g and task generation t.  A second report
\* under the same key is a duplicate, whoever made the first.
AcceptsEvaluation(c, k, g, t) ==
    LET p == candidates[c].population IN
    /\ candidates[c].state # "Absent"
    /\ candidates[c].state \notin CandidateFinished
    /\ t = populations[p].taskGeneration
    /\ g = populations[p].generation
    /\ LivePopulation(p)
    /\ ~\E r \in evaluations : r.candidate = c /\ r.key = k

\* The last missing requirement settles the candidate.
record_evaluation(c, k, kind, outcome, high, g, t) ==
    LET record == [candidate |-> c, key |-> k, kind |-> kind,
                   outcome |-> outcome, high |-> high,
                   about |-> candidates[c].output]
        evidence == evaluations \cup {record}
    IN
    /\ AcceptsEvaluation(c, k, g, t)
    /\ evaluations' = evidence
    /\ IF EvidenceComplete(evidence, c)
       THEN /\ candidates' = [candidates EXCEPT ![c] = SettledCandidate(@)]
            /\ attempts' = EndAttempts(SettledBy({c}), "Completed")
            /\ reserved' = ReleaseReservations(SettledBy({c}))
       ELSE UNCHANGED <<candidates, attempts, reserved>>
    /\ UNCHANGED <<epoch, definitionVars, ids, populations, consumed,
                   decisionVars, workerVars>>

-----------------------------------------------------------------------------
(* Cancellation of one attempt. *)

cancel_attempt(a) ==
    LET c == attempts[a].candidate IN
    /\ attempts[a].state \in AttemptOpen
    /\ reserved' = ReleaseReservations({a})
    /\ attempts' = EndAttempts({a}, "Cancelled")
    /\ candidates' = IF candidates[c].state \in {"Producing", "Registered",
                                                 "Published", "Evaluating"}
                     THEN [candidates EXCEPT ![c].state = "ProductionCancelled"]
                     ELSE candidates
    /\ workers' = FreeWorkersOf({a})
    /\ UNCHANGED <<epoch, definitionVars, ids, populations, evaluations,
                   consumed, decisionVars, sessions>>

\* Leaves the worker as it is.
force_attempt_outcome_unknown(a) ==
    /\ attempts[a].state \in AttemptOpen
    /\ reserved' = ReleaseReservations({a})
    /\ attempts' = EndAttempts({a}, "OutcomeUnknown")
    /\ candidates' = ReopenSlots({a})
    /\ UNCHANGED <<epoch, definitionVars, ids, populations, evaluations,
                   consumed, decisionVars, workerVars>>
=============================================================================
