------------------------------ MODULE FoundrySteps ------------------------------
(***************************************************************************)
(* What a step of FoundryCore may do to the tables, for every value of the *)
(* constants.  Each table has a relation between its contents before and   *)
(* after a step; one lemma per handler shows that the handler stays within *)
(* it, and the invariants proved later rest on the relations alone.        *)
(***************************************************************************)
EXTENDS FoundryTypes

USE DEF definitionVars, ledgerVars, decisionVars, workerVars

-----------------------------------------------------------------------------
(* Attempts. *)

\* Who an attempt is: fixed when authorize_attempt stores it.
SameAttempt(r, s) ==
    /\ s.population = r.population /\ s.candidate = r.candidate
    /\ s.worker = r.worker /\ s.boot = r.boot /\ s.retry = r.retry

\* An attempt stays where it is, or takes a step that settles nothing.
Proceeds(r, s) ==
    \/ s.state = r.state
    \/ r.state \in AttemptInFlight /\ s.state \in AttemptInFlight
    \/ r.state = "Published" /\ s.state = "Evaluating"

\* The step ends the open attempts A and gives back what they hold; the others
\* proceed, and those that ended before or do not exist stay as they are.
AttemptsEnd(A) ==
    /\ A \in SUBSET AttemptId
    /\ \A a \in A : /\ attempts[a].state \in AttemptOpen
                    /\ attempts'[a].state \in AttemptTerminal
    /\ \A a \in AttemptId : /\ SameAttempt(attempts[a], attempts'[a])
                            /\ a \in A \/ Proceeds(attempts[a], attempts'[a])
    /\ \A a \in AttemptId : attempts[a].state \in AttemptTerminal \cup {"Absent"} =>
                            attempts'[a] = attempts[a]
    /\ reserved' = ReleaseReservations(A)

\* EndAttempts with the reservations of the attempts it ends.
LEMMA EndsAttempts ==
    ASSUME CoreInv, NEW A \in SUBSET AttemptId,
           \A a \in A : attempts[a].state \in AttemptOpen,
           NEW st \in AttemptTerminal,
           attempts' = EndAttempts(A, st), reserved' = ReleaseReservations(A)
    PROVE  AttemptsEnd(A)
<1>1. \A a \in AttemptId : attempts[a] \in AttemptRecord
  BY DEF CoreInv, TypeOK
<1>2. \A a \in AttemptId : attempts'[a] =
        IF a \in A THEN [attempts[a] EXCEPT !.state = st, !.holdsReservation = FALSE]
        ELSE attempts[a]
  BY DEF EndAttempts
<1>3. \A a \in AttemptId : a \in A => /\ attempts'[a].state = st
                                      /\ SameAttempt(attempts[a], attempts'[a])
  BY <1>1, <1>2 DEF AttemptRecord, SameAttempt
<1>4. \A a \in AttemptId : a \notin A => /\ SameAttempt(attempts[a], attempts'[a])
                                         /\ Proceeds(attempts[a], attempts'[a])
  BY <1>2 DEF SameAttempt, Proceeds
<1>5. AttemptOpen \cap (AttemptTerminal \cup {"Absent"}) = {}
  BY DEF AttemptOpen, AttemptInFlight, AttemptTerminal
<1> QED BY <1>2, <1>3, <1>4, <1>5 DEF AttemptsEnd

\* Returning the reservations of no attempt changes no counter.
LEMMA ReleaseNothing ==
    ASSUME TypeOK PROVE ReleaseReservations({}) = reserved
<1>1. \A p, k : {a \in {} : /\ attempts[a].population = p
                            /\ attempts[a].holdsReservation
                            /\ k \in KindsOf(attempts[a])} = {}
  OBVIOUS
<1>2. Cardinality({}) = 0
  BY FS_EmptySet
<1>3. \A p \in PopulationId, k \in BudgetKind :
         reserved[p][k] - Settled(p, k, Cardinality({})) = reserved[p][k]
  BY <1>2 DEF TypeOK, Settled
<1>4. ReleaseReservations({}) = [p \in PopulationId |-> [k \in BudgetKind |->
                                   reserved[p][k] - Settled(p, k, Cardinality({}))]]
  BY <1>1 DEF ReleaseReservations
<1>5. \A p \in PopulationId : reserved[p] \in [BudgetKind -> Nat]
  BY DEF TypeOK
<1>6. \A p \in PopulationId :
         [k \in BudgetKind |-> reserved[p][k] - Settled(p, k, Cardinality({}))] = reserved[p]
  BY <1>3, <1>5
<1>7. reserved = [p \in PopulationId |-> reserved[p]]
  BY DEF TypeOK
<1> QED BY <1>4, <1>6, <1>7

\* A step that touches no attempt and no reservation ends none.
LEMMA KeepsAttempts ==
    ASSUME CoreInv, UNCHANGED <<attempts, reserved>>
    PROVE  AttemptsEnd({})
<1>1. ReleaseReservations({}) = reserved
  BY ReleaseNothing DEF CoreInv
<1> QED BY <1>1 DEF AttemptsEnd, SameAttempt, Proceeds

\* A step that only moves attempts along ends none.
LEMMA MovesAttempts ==
    ASSUME CoreInv, UNCHANGED reserved,
           \A a \in AttemptId :
              \/ attempts'[a] = attempts[a]
              \/ /\ SameAttempt(attempts[a], attempts'[a])
                 /\ Proceeds(attempts[a], attempts'[a])
                 /\ attempts[a].state \notin AttemptTerminal \cup {"Absent"}
    PROVE  AttemptsEnd({})
<1>1. ReleaseReservations({}) = reserved
  BY ReleaseNothing DEF CoreInv
<1> QED BY <1>1 DEF AttemptsEnd, SameAttempt, Proceeds

\* The calls that end attempts: which ones each of them ends.
OrphanedBy(w) == {a \in AttemptId : /\ attempts[a].worker = w
                                    /\ attempts[a].state \in AttemptOpen}
LostWith(s) == {a \in AttemptId : /\ attempts[a].worker = s.worker
                                  /\ attempts[a].boot = s.boot
                                  /\ attempts[a].state \in AttemptOpen}
CutWith(p) == {a \in AttemptId : /\ attempts[a].population = p
                                 /\ attempts[a].state \in AttemptOpen}
InFlightAttempts == {a \in AttemptId : attempts[a].state \in AttemptInFlight}

\* register_worker ends the attempts of an incarnation it replaces.
LEMMA RegisterWorkerEnds ==
    ASSUME CoreInv, NEW w \in Worker, NEW b \in Boot, register_worker(w, b)
    PROVE  \/ UNCHANGED <<attempts, candidates, reserved>> /\ AttemptsEnd({})
           \/ AttemptsEnd(OrphanedBy(w)) /\ candidates' = ReopenSlots(OrphanedBy(w))
<1>1. CASE UNCHANGED <<attempts, candidates, reserved>>
  BY <1>1, KeepsAttempts
<1>2. CASE ReplaceIncarnation(w, b)
  <2>1. /\ attempts' = EndAttempts(OrphanedBy(w), "OutcomeUnknown")
        /\ reserved' = ReleaseReservations(OrphanedBy(w))
        /\ candidates' = ReopenSlots(OrphanedBy(w))
    BY <1>2 DEF ReplaceIncarnation, OrphanedBy
  <2>2. /\ OrphanedBy(w) \in SUBSET AttemptId /\ "OutcomeUnknown" \in AttemptTerminal
        /\ \A a \in OrphanedBy(w) : attempts[a].state \in AttemptOpen
    BY DEF AttemptTerminal, OrphanedBy
  <2> QED BY <2>1, <2>2, EndsAttempts
<1> QED BY <1>1, <1>2 DEF register_worker, FirstRegistration, SameIncarnation

\* worker_disconnected ends the attempts of the incarnation.
LEMMA WorkerDisconnectedEnds ==
    ASSUME CoreInv, NEW s, worker_disconnected(s)
    PROVE  AttemptsEnd(LostWith(s)) /\ candidates' = ReopenSlots(LostWith(s))
<1>1. /\ attempts' = EndAttempts(LostWith(s), "OutcomeUnknown")
      /\ reserved' = ReleaseReservations(LostWith(s))
      /\ candidates' = ReopenSlots(LostWith(s))
  BY DEF worker_disconnected, LostWith
<1>2. /\ LostWith(s) \in SUBSET AttemptId /\ "OutcomeUnknown" \in AttemptTerminal
      /\ \A a \in LostWith(s) : attempts[a].state \in AttemptOpen
  BY DEF AttemptTerminal, LostWith
<1> QED BY <1>1, <1>2, EndsAttempts

\* confirm_dispatch moves the attempt within flight.
LEMMA ConfirmDispatchEnds ==
    ASSUME CoreInv, NEW s, NEW a \in AttemptId, confirm_dispatch(s, a)
    PROVE  AttemptsEnd({})
<1> DEFINE g == populations[attempts[a].population].generation
<1>1. /\ attempts[a].state = "Authorized" /\ reserved' = reserved
      /\ attempts' = [attempts EXCEPT ![a].state = "Dispatched",
                          ![a].packagePopulation = g, ![a].packageTask = taskGeneration]
  BY DEF confirm_dispatch
<1> HIDE DEF g
<1>2. attempts \in [AttemptId -> AttemptRecord]
  BY DEF CoreInv, TypeOK
<1>3. \A b \in AttemptId : b # a => attempts'[b] = attempts[b]
  BY <1>1, <1>2
<1>4. SameAttempt(attempts[a], attempts'[a]) /\ attempts'[a].state = "Dispatched"
  BY <1>1, <1>2 DEF SameAttempt, AttemptRecord
<1>5. Proceeds(attempts[a], attempts'[a]) /\ attempts[a].state \notin AttemptTerminal \cup {"Absent"}
  BY <1>1, <1>4 DEF Proceeds, AttemptInFlight, AttemptTerminal
<1> QED BY <1>1, <1>3, <1>4, <1>5, MovesAttempts

\* acknowledge_attempt moves the attempt within flight.
LEMMA AcknowledgeAttemptEnds ==
    ASSUME CoreInv, NEW s, NEW a \in AttemptId, acknowledge_attempt(s, a)
    PROVE  AttemptsEnd({})
<1>1. /\ attempts[a].state = "Dispatched" /\ reserved' = reserved
      /\ attempts' = [attempts EXCEPT ![a].state = "Running"]
  BY DEF acknowledge_attempt, AcceptsAcknowledgement
<1>2. attempts \in [AttemptId -> AttemptRecord]
  BY DEF CoreInv, TypeOK
<1>3. \A b \in AttemptId : b # a => attempts'[b] = attempts[b]
  BY <1>1, <1>2
<1>4. SameAttempt(attempts[a], attempts'[a]) /\ attempts'[a].state = "Running"
  BY <1>1, <1>2 DEF SameAttempt, AttemptRecord
<1>5. Proceeds(attempts[a], attempts'[a]) /\ attempts[a].state \notin AttemptTerminal \cup {"Absent"}
  BY <1>1, <1>4 DEF Proceeds, AttemptInFlight, AttemptTerminal
<1> QED BY <1>1, <1>3, <1>4, <1>5, MovesAttempts

\* begin_evaluation moves published attempts on.
LEMMA BeginEvaluationEnds ==
    ASSUME CoreInv, NEW c, begin_evaluation(c)
    PROVE  AttemptsEnd({})
<1>1. /\ reserved' = reserved
      /\ attempts' = [a \in AttemptId |->
             IF attempts[a].candidate = c /\ attempts[a].state = "Published"
             THEN [attempts[a] EXCEPT !.state = "Evaluating"] ELSE attempts[a]]
  BY DEF begin_evaluation
<1>2. \A a \in AttemptId : attempts[a] \in AttemptRecord
  BY DEF CoreInv, TypeOK
<1>3. \A a \in AttemptId :
         \/ attempts'[a] = attempts[a]
         \/ /\ SameAttempt(attempts[a], attempts'[a])
            /\ attempts[a].state = "Published" /\ attempts'[a].state = "Evaluating"
  BY <1>1, <1>2 DEF SameAttempt, AttemptRecord
<1> QED BY <1>1, <1>3, MovesAttempts DEF Proceeds, AttemptTerminal

\* abandon_dispatch, cancel_attempt, report_attempt_failure and
\* force_attempt_outcome_unknown end the one attempt they name.
LEMMA OneAttemptEnds ==
    ASSUME CoreInv, NEW s, NEW a \in AttemptId,
           \/ abandon_dispatch(s, a) \/ report_attempt_failure(s, a)
           \/ cancel_attempt(a) \/ force_attempt_outcome_unknown(a)
    PROVE  AttemptsEnd({a})
<1>1. /\ attempts[a].state \in AttemptOpen
      /\ reserved' = ReleaseReservations({a})
      /\ \E st \in AttemptTerminal : attempts' = EndAttempts({a}, st)
  <2>1. {"Cancelled", "Failed", "OutcomeUnknown"} \subseteq AttemptTerminal
        /\ "Authorized" \in AttemptOpen
    BY DEF AttemptTerminal, AttemptOpen, AttemptInFlight
  <2>2. CASE abandon_dispatch(s, a)
    BY <2>1, <2>2, Zenon DEF abandon_dispatch
  <2>3. CASE report_attempt_failure(s, a)
    BY <2>1, <2>3, Zenon DEF report_attempt_failure
  <2>4. CASE cancel_attempt(a)
    BY <2>1, <2>4, Zenon DEF cancel_attempt
  <2>5. CASE force_attempt_outcome_unknown(a)
    BY <2>1, <2>5, Zenon DEF force_attempt_outcome_unknown
  <2> QED BY <2>2, <2>3, <2>4, <2>5
<1> QED BY <1>1, EndsAttempts

\* record_evaluation completes the attempts of a candidate it settles.
LEMMA RecordEvaluationEnds ==
    ASSUME CoreInv, NEW c \in CandidateId, NEW k, NEW kind, NEW outcome, NEW high,
           NEW g, NEW t, record_evaluation(c, k, kind, outcome, high, g, t)
    PROVE  \/ UNCHANGED <<attempts, candidates, reserved>> /\ AttemptsEnd({})
           \/ /\ AttemptsEnd(SettledBy({c}))
              /\ candidates' = [candidates EXCEPT ![c] = SettledCandidate(@)]
              /\ EvidenceComplete(evaluations', c)
<1>1. CASE UNCHANGED <<attempts, candidates, reserved>>
  BY <1>1, KeepsAttempts
<1>2. CASE /\ candidates' = [candidates EXCEPT ![c] = SettledCandidate(@)]
           /\ attempts' = EndAttempts(SettledBy({c}), "Completed")
           /\ reserved' = ReleaseReservations(SettledBy({c}))
           /\ EvidenceComplete(evaluations', c)
  <2>1. /\ SettledBy({c}) \in SUBSET AttemptId
        /\ \A a \in SettledBy({c}) : attempts[a].state \in AttemptOpen
        /\ "Completed" \in AttemptTerminal
    BY DEF SettledBy, AttemptOpen, AttemptInFlight, AttemptTerminal
  <2> QED BY <1>2, <2>1, EndsAttempts
<1> QED BY <1>1, <1>2 DEF record_evaluation

\* cancel_population ends every open attempt of the population.
LEMMA CancelPopulationEnds ==
    ASSUME CoreInv, NEW p, NEW g, cancel_population(p, g)
    PROVE  AttemptsEnd(CutWith(p))
<1>1. /\ attempts' = EndAttempts(CutWith(p), "Cancelled")
      /\ reserved' = ReleaseReservations(CutWith(p))
  BY DEF cancel_population, CutWith
<1>2. /\ CutWith(p) \in SUBSET AttemptId /\ "Cancelled" \in AttemptTerminal
      /\ \A a \in CutWith(p) : attempts[a].state \in AttemptOpen
  BY DEF AttemptTerminal, CutWith
<1> QED BY <1>1, <1>2, EndsAttempts

\* The candidates a revalidation settles: those whose evidence is complete.
RevalidatedSet(p) == {c \in CandidatesOf(p) : /\ candidates[c].state = "RevalidationRequired"
                                              /\ EvidenceComplete(evaluations, c)}

\* revalidate_population completes the attempts of the candidates it settles.
LEMMA RevalidatePopulationEnds ==
    ASSUME CoreInv, NEW p, NEW g, revalidate_population(p, g)
    PROVE  AttemptsEnd(SettledBy(RevalidatedSet(p)))
<1> DEFINE waiting == {c \in CandidatesOf(p) : candidates[c].state = "RevalidationRequired"}
           settled == {c \in waiting : EvidenceComplete(evaluations, c)}
<1>1. /\ attempts' = EndAttempts(SettledBy(settled), "Completed")
      /\ reserved' = ReleaseReservations(SettledBy(settled))
  BY DEF revalidate_population
<1>2. settled = RevalidatedSet(p)
  BY DEF RevalidatedSet
<1> HIDE DEF settled
<1>3. /\ SettledBy(settled) \in SUBSET AttemptId
      /\ \A a \in SettledBy(settled) : attempts[a].state \in AttemptOpen
      /\ "Completed" \in AttemptTerminal
  BY DEF SettledBy, AttemptOpen, AttemptInFlight, AttemptTerminal
<1>4. AttemptsEnd(SettledBy(settled))
  BY <1>1, <1>3, EndsAttempts
<1> QED BY <1>2, <1>4

\* recover ends every attempt in flight and leaves published ones alone.
LEMMA RecoverEnds ==
    ASSUME CoreInv, recover
    PROVE  AttemptsEnd(InFlightAttempts)
<1>1. /\ attempts' = [a \in AttemptId |-> RecoveredAttempt(attempts[a])]
      /\ reserved' = ReleaseReservations(InFlightAttempts)
  BY DEF recover, InFlightAttempts
<1>2. \A a \in AttemptId : attempts[a] \in AttemptRecord
  BY DEF CoreInv, TypeOK
<1>3. \A r \in AttemptRecord :
        /\ SameAttempt(r, RecoveredAttempt(r))
        /\ r.state \in AttemptInFlight => RecoveredAttempt(r).state \in AttemptTerminal
        /\ r.state \notin AttemptInFlight => RecoveredAttempt(r) = r
  BY DEF SameAttempt, RecoveredAttempt, AttemptRecord, AttemptInFlight, AttemptTerminal
<1>4. InFlightAttempts \in SUBSET AttemptId /\ \A a \in InFlightAttempts : attempts[a].state \in AttemptOpen
  BY DEF InFlightAttempts, AttemptOpen
<1>5. AttemptInFlight \cap (AttemptTerminal \cup {"Absent"}) = {}
  BY DEF AttemptInFlight, AttemptTerminal
<1> QED BY <1>1, <1>2, <1>3, <1>4, <1>5 DEF AttemptsEnd, Proceeds, InFlightAttempts

-----------------------------------------------------------------------------
(* Candidates. *)

\* Who a candidate is: fixed when its slot is made.
SameSlot(r, s) ==
    /\ s.population = r.population /\ s.populationGeneration = r.populationGeneration
    /\ s.taskGeneration = r.taskGeneration
    /\ s.lineage = r.lineage /\ s.parent = r.parent /\ s.depth = r.depth

\* Nothing but the state of the candidate changes.
OnlyState(r, s) ==
    /\ SameSlot(r, s)
    /\ s.attemptCount = r.attemptCount /\ s.output = r.output
    /\ s.selected = r.selected /\ s.retained = r.retained
    /\ s.state = r.state => s = r

\* The moves of candidates outside dispatch, publication and the decisions.
SlotMoves(r, s) ==
    \/ s.state = r.state
    \/ r.state = "Producing" /\ s.state = "Registered"
    \/ /\ r.state \in {"Registered", "Producing"}
       /\ s.state \in {"ProductionFailed", "ProductionCancelled"}
    \/ /\ r.state \in {"Published", "Evaluating"}
       /\ s.state \in {"Evaluating", "Evaluated", "RevalidationRequired",
                       "ProductionCancelled"}
    \/ r.state = "Evaluated" /\ s.state = "RevalidationRequired"
    \/ r.state = "RevalidationRequired" /\ s.state \in {"Evaluating", "Evaluated"}

\* A slot is not taken out of production behind the back of its attempts.
Vacated(c) ==
    \/ \E a \in AttemptId : /\ attempts[a].candidate = c
                            /\ attempts[a].state \in AttemptOpen
                            /\ attempts'[a].state \in AttemptTerminal
    \/ \A a \in AttemptId : attempts'[a].state \notin AttemptInFlight

\* Population p is in a new generation after the step.
Renewed(p) == p \in PopulationId => populations'[p].generation > populations[p].generation

\* What every call but authorize_attempt, publish_candidate, the two that make a
\* successor and the two commits does to candidate c.
WorksOn(c) ==
    LET r == candidates[c]
        s == candidates'[c]
    IN  /\ OnlyState(r, s)
        /\ SlotMoves(r, s)
        /\ r.state = "Producing" /\ s.state # "Producing" => Vacated(c)
        /\ r.state # "Evaluated" /\ s.state = "Evaluated" => EvidenceComplete(evaluations', c)
        /\ r.state = "Evaluated" /\ s.state # "Evaluated" => LivePopulation(r.population)
        /\ r.state = "RevalidationRequired" /\ s.state # r.state => Renewed(r.population)

CandidatesWork == \A c \in CandidateId : WorksOn(c)

\* An update of the state alone.
LEMMA StateUpdate ==
    ASSUME NEW r \in CandidateRecord, NEW st
    PROVE  /\ OnlyState(r, [r EXCEPT !.state = st])
           /\ [r EXCEPT !.state = st].state = st
<1>1. [r EXCEPT !.state = r.state] = r
  BY DEF CandidateRecord
<1>2. [r EXCEPT !.state = st].state = st
  BY DEF CandidateRecord
<1> QED BY <1>1, <1>2 DEF OnlyState, SameSlot, CandidateRecord

\* A candidate that is left alone.
LEMMA LeavesAlone ==
    ASSUME NEW c, candidates'[c] = candidates[c] PROVE WorksOn(c)
  BY DEF WorksOn, OnlyState, SameSlot, SlotMoves

\* A step that leaves the table of candidates alone.
LEMMA KeepsCandidates ==
    ASSUME UNCHANGED candidates PROVE CandidatesWork
  BY LeavesAlone DEF CandidatesWork

\* Slots are reopened where an attempt of theirs ends.
LEMMA ReopensSlots ==
    ASSUME CoreInv, NEW A, AttemptsEnd(A), candidates' = ReopenSlots(A)
    PROVE  CandidatesWork
<1> SUFFICES ASSUME NEW c \in CandidateId PROVE WorksOn(c)
  BY DEF CandidatesWork
<1>1. candidates[c] \in CandidateRecord
  BY DEF CoreInv, TypeOK
<1>2. CASE candidates'[c] = candidates[c]
  BY <1>2, LeavesAlone
<1>3. CASE candidates'[c] # candidates[c]
  <2>1. /\ A \cap AttemptsOf(c) # {}
        /\ candidates[c].state \in {"Producing", "Registered"}
        /\ candidates'[c] = [candidates[c] EXCEPT !.state = "Registered"]
    BY <1>3 DEF ReopenSlots
  <2>2. PICK a \in AttemptId : a \in A /\ attempts[a].candidate = c
    BY <2>1 DEF AttemptsOf
  <2>3. Vacated(c)
    BY <2>2 DEF Vacated, AttemptsEnd
  <2>4. OnlyState(candidates[c], candidates'[c]) /\ candidates'[c].state = "Registered"
    BY <1>1, <2>1, StateUpdate
  <2> QED BY <2>1, <2>3, <2>4 DEF WorksOn, SlotMoves
<1> QED BY <1>2, <1>3

\* The four calls that end one attempt.
LEMMA OneAttemptWorks ==
    ASSUME CoreInv, NEW s, NEW a \in AttemptId,
           \/ abandon_dispatch(s, a) \/ report_attempt_failure(s, a)
           \/ cancel_attempt(a) \/ force_attempt_outcome_unknown(a)
    PROVE  CandidatesWork
<1>1. AttemptsEnd({a})
  BY OneAttemptEnds
<1>2. CASE force_attempt_outcome_unknown(a)
  BY <1>1, <1>2, ReopensSlots DEF force_attempt_outcome_unknown
<1>3. CASE ~force_attempt_outcome_unknown(a)
  <2> DEFINE d == attempts[a].candidate
  <2>1. \/ candidates' = candidates
        \/ \E st \in {"Registered", "ProductionFailed", "ProductionCancelled"} :
             /\ candidates' = [candidates EXCEPT ![d].state = st]
             /\ candidates[d].state \in {"Producing", "Registered", "Published", "Evaluating"}
             /\ st = "Registered" => candidates[d].state \in {"Producing", "Registered"}
             /\ st = "ProductionFailed" => candidates[d].state \in {"Producing", "Registered"}
    <3>1. CASE abandon_dispatch(s, a)
      BY <3>1, Zenon DEF abandon_dispatch
    <3>2. CASE report_attempt_failure(s, a)
      BY <3>2 DEF report_attempt_failure
    <3>3. CASE cancel_attempt(a)
      BY <3>3 DEF cancel_attempt
    <3> QED BY <1>3, <3>1, <3>2, <3>3
  <2>2. Vacated(d)
    BY <1>1 DEF Vacated, AttemptsEnd
  <2> HIDE DEF d
  <2> SUFFICES ASSUME NEW c \in CandidateId PROVE WorksOn(c)
    BY DEF CandidatesWork
  <2>3. candidates \in [CandidateId -> CandidateRecord]
    BY DEF CoreInv, TypeOK
  <2>4. CASE candidates'[c] = candidates[c]
    BY <2>4, LeavesAlone
  <2>5. CASE candidates'[c] # candidates[c]
    <3>1. PICK st \in {"Registered", "ProductionFailed", "ProductionCancelled"} :
             /\ candidates' = [candidates EXCEPT ![d].state = st]
             /\ candidates[d].state \in {"Producing", "Registered", "Published", "Evaluating"}
             /\ st = "Registered" => candidates[d].state \in {"Producing", "Registered"}
             /\ st = "ProductionFailed" => candidates[d].state \in {"Producing", "Registered"}
      BY <2>1, <2>5
    <3>2. c = d /\ candidates'[c] = [candidates[c] EXCEPT !.state = st]
      BY <2>3, <2>5, <3>1
    <3>3. OnlyState(candidates[c], candidates'[c]) /\ candidates'[c].state = st
      BY <2>3, <3>2, StateUpdate
    <3> QED BY <2>2, <3>1, <3>2, <3>3 DEF WorksOn, SlotMoves
  <2> QED BY <2>4, <2>5
<1> QED BY <1>2, <1>3

\* begin_evaluation moves a published candidate on.
LEMMA BeginEvaluationWorks ==
    ASSUME CoreInv, NEW d \in CandidateId, begin_evaluation(d)
    PROVE  CandidatesWork
<1> SUFFICES ASSUME NEW c \in CandidateId PROVE WorksOn(c)
  BY DEF CandidatesWork
<1>1. /\ candidates[d].state \in {"Published", "Evaluating"}
      /\ candidates' = [candidates EXCEPT ![d].state = "Evaluating"]
  BY DEF begin_evaluation
<1>2. candidates \in [CandidateId -> CandidateRecord]
  BY DEF CoreInv, TypeOK
<1>3. CASE c # d
  <2>1. candidates'[c] = candidates[c]
    BY <1>1, <1>2, <1>3
  <2> QED BY <2>1, LeavesAlone
<1>4. CASE c = d
  <2>1. candidates'[c] = [candidates[c] EXCEPT !.state = "Evaluating"]
    BY <1>1, <1>2, <1>4
  <2>2. OnlyState(candidates[c], candidates'[c]) /\ candidates'[c].state = "Evaluating"
    BY <1>2, <2>1, StateUpdate
  <2> QED BY <1>1, <1>4, <2>2 DEF WorksOn, SlotMoves
<1> QED BY <1>3, <1>4

\* record_evaluation settles a candidate only on complete evidence.
LEMMA RecordEvaluationWorks ==
    ASSUME CoreInv, NEW d \in CandidateId, NEW k, NEW kind, NEW outcome, NEW high,
           NEW g, NEW t, record_evaluation(d, k, kind, outcome, high, g, t)
    PROVE  CandidatesWork
<1> SUFFICES ASSUME NEW c \in CandidateId PROVE WorksOn(c)
  BY DEF CandidatesWork
<1>1. \/ UNCHANGED candidates
      \/ /\ candidates' = [candidates EXCEPT ![d] = SettledCandidate(@)]
         /\ EvidenceComplete(evaluations', d)
  BY RecordEvaluationEnds
<1>2. candidates \in [CandidateId -> CandidateRecord]
  BY DEF CoreInv, TypeOK
<1>3. CASE candidates'[c] = candidates[c]
  BY <1>3, LeavesAlone
<1>4. CASE candidates'[c] # candidates[c]
  <2>1. /\ c = d /\ EvidenceComplete(evaluations', c)
        /\ candidates'[c] = SettledCandidate(candidates[c])
    BY <1>1, <1>2, <1>4
  <2>2. /\ candidates[c].state \in {"Published", "Evaluating"}
        /\ candidates'[c] = [candidates[c] EXCEPT !.state = "Evaluated"]
    BY <1>4, <2>1 DEF SettledCandidate
  <2>3. OnlyState(candidates[c], candidates'[c]) /\ candidates'[c].state = "Evaluated"
    BY <1>2, <2>2, StateUpdate
  <2> QED BY <2>1, <2>2, <2>3 DEF WorksOn, SlotMoves
<1> QED BY <1>3, <1>4

\* cancel_population cancels slots whose attempt it ends.
LEMMA CancelPopulationWorks ==
    ASSUME CoreInv, NEW p, NEW g, cancel_population(p, g)
    PROVE  CandidatesWork
<1> SUFFICES ASSUME NEW c \in CandidateId PROVE WorksOn(c)
  BY DEF CandidatesWork
<1>1. candidates' = [d \in CandidateId |->
           IF /\ CutWith(p) \cap AttemptsOf(d) # {}
              /\ candidates[d].state \in {"Registered", "Producing"}
           THEN [candidates[d] EXCEPT !.state = "ProductionCancelled"]
           ELSE candidates[d]]
  BY DEF cancel_population, CutWith
<1>2. AttemptsEnd(CutWith(p))
  BY CancelPopulationEnds
<1>3. candidates[c] \in CandidateRecord
  BY DEF CoreInv, TypeOK
<1>4. CASE candidates'[c] = candidates[c]
  BY <1>4, LeavesAlone
<1>5. CASE candidates'[c] # candidates[c]
  <2>1. /\ CutWith(p) \cap AttemptsOf(c) # {}
        /\ candidates[c].state \in {"Registered", "Producing"}
        /\ candidates'[c] = [candidates[c] EXCEPT !.state = "ProductionCancelled"]
    BY <1>1, <1>5
  <2>2. PICK a \in AttemptId : a \in CutWith(p) /\ attempts[a].candidate = c
    BY <2>1 DEF AttemptsOf
  <2>3. Vacated(c)
    BY <1>2, <2>2 DEF Vacated, AttemptsEnd
  <2>4. OnlyState(candidates[c], candidates'[c]) /\ candidates'[c].state = "ProductionCancelled"
    BY <1>3, <2>1, StateUpdate
  <2> QED BY <2>1, <2>3, <2>4 DEF WorksOn, SlotMoves
<1> QED BY <1>4, <1>5

\* request_population_revalidation takes candidates of a live population back.
LEMMA RequestRevalidationWorks ==
    ASSUME CoreInv, NEW p, request_population_revalidation(p)
    PROVE  CandidatesWork
<1> SUFFICES ASSUME NEW c \in CandidateId PROVE WorksOn(c)
  BY DEF CandidatesWork
<1>1. /\ LivePopulation(p)
      /\ candidates' = [d \in CandidateId |->
           IF /\ d \in CandidatesOf(p)
              /\ candidates[d].state \in {"Evaluated", "Published", "Evaluating"}
           THEN [candidates[d] EXCEPT !.state = "RevalidationRequired"]
           ELSE candidates[d]]
  BY DEF request_population_revalidation
<1>2. candidates[c] \in CandidateRecord
  BY DEF CoreInv, TypeOK
<1>3. CASE candidates'[c] = candidates[c]
  BY <1>3, LeavesAlone
<1>4. CASE candidates'[c] # candidates[c]
  <2>1. /\ candidates[c].population = p
        /\ candidates[c].state \in {"Evaluated", "Published", "Evaluating"}
        /\ candidates'[c] = [candidates[c] EXCEPT !.state = "RevalidationRequired"]
    BY <1>1, <1>4 DEF CandidatesOf
  <2>2. OnlyState(candidates[c], candidates'[c]) /\ candidates'[c].state = "RevalidationRequired"
    BY <1>2, <2>1, StateUpdate
  <2> QED BY <1>1, <2>1, <2>2 DEF WorksOn, SlotMoves
<1> QED BY <1>3, <1>4

\* revalidate_population brings candidates back, to Evaluated only on complete
\* evidence.
LEMMA RevalidatePopulationWorks ==
    ASSUME CoreInv, NEW p, NEW g, revalidate_population(p, g)
    PROVE  CandidatesWork
<1> DEFINE waiting == {c \in CandidatesOf(p) : candidates[c].state = "RevalidationRequired"}
           settled == {c \in waiting : EvidenceComplete(evaluations, c)}
<1> SUFFICES ASSUME NEW c \in CandidateId PROVE WorksOn(c)
  BY DEF CandidatesWork
<1>1. /\ evaluations' = evaluations
      /\ candidates' = [d \in CandidateId |->
           CASE d \in settled -> [candidates[d] EXCEPT !.state = "Evaluated"]
             [] d \in waiting \ settled -> [candidates[d] EXCEPT !.state = "Evaluating"]
             [] OTHER -> candidates[d]]
  BY DEF revalidate_population
<1>2. candidates[c] \in CandidateRecord
  BY DEF CoreInv, TypeOK
<1>r. c \in waiting => Renewed(candidates[c].population)
  <2>1. Renewed(p)
    <3> SUFFICES ASSUME p \in PopulationId
                 PROVE  populations'[p].generation > populations[p].generation
      BY DEF Renewed
    <3>1. PICK st : populations' = [populations EXCEPT ![p].state = st,
                                                       ![p].generation = @ + 1]
      BY Zenon DEF revalidate_population
    <3>2. populations \in [PopulationId -> PopulationRecord]
      BY DEF CoreInv, TypeOK
    <3> QED BY <3>1, <3>2 DEF PopulationRecord
  <2> QED BY <2>1 DEF CandidatesOf
<1>3. CASE c \in settled
  <2>1. /\ candidates'[c] = [candidates[c] EXCEPT !.state = "Evaluated"]
        /\ candidates[c].state = "RevalidationRequired" /\ EvidenceComplete(evaluations, c)
    BY <1>1, <1>3
  <2>2. OnlyState(candidates[c], candidates'[c]) /\ candidates'[c].state = "Evaluated"
    BY <1>2, <2>1, StateUpdate
  <2>3. EvidenceComplete(evaluations', c)
    BY <1>1, <2>1
  <2> QED BY <1>r, <1>3, <2>1, <2>2, <2>3 DEF WorksOn, SlotMoves
<1>4. CASE c \in waiting \ settled
  <2>1. /\ candidates'[c] = [candidates[c] EXCEPT !.state = "Evaluating"]
        /\ candidates[c].state = "RevalidationRequired"
    BY <1>1, <1>4
  <2>2. OnlyState(candidates[c], candidates'[c]) /\ candidates'[c].state = "Evaluating"
    BY <1>2, <2>1, StateUpdate
  <2> QED BY <1>r, <1>4, <2>1, <2>2 DEF WorksOn, SlotMoves
<1>5. CASE c \notin waiting
  <2>1. candidates'[c] = candidates[c]
    BY <1>1, <1>5
  <2> QED BY <2>1, LeavesAlone
<1> QED BY <1>3, <1>4, <1>5

\* recover reopens slots and sends published candidates to revalidation.
LEMMA RecoverWorks ==
    ASSUME CoreInv, recover
    PROVE  CandidatesWork
<1> SUFFICES ASSUME NEW c \in CandidateId PROVE WorksOn(c)
  BY DEF CandidatesWork
<1>1. candidates'[c] = RecoveredCandidate(c)
  BY DEF recover
<1>2. candidates[c] \in CandidateRecord
  BY DEF CoreInv, TypeOK
<1>3. Vacated(c)
  <2>1. AttemptsEnd(InFlightAttempts)
    BY RecoverEnds
  <2>2. AttemptInFlight \cap AttemptTerminal = {}
    BY DEF AttemptInFlight, AttemptTerminal
  <2>3. \A a \in AttemptId : attempts'[a].state \notin AttemptInFlight
    BY <2>1, <2>2 DEF AttemptsEnd, InFlightAttempts, Proceeds, AttemptInFlight
  <2> QED BY <2>3 DEF Vacated
<1>4. CASE candidates'[c] = candidates[c]
  BY <1>4, LeavesAlone
<1>5. CASE candidates'[c] # candidates[c]
  <2>1. \/ /\ candidates[c].state \in {"Registered", "Producing"}
           /\ candidates'[c] = [candidates[c] EXCEPT !.state = "Registered"]
        \/ /\ candidates[c].state \in {"Published", "Evaluating"}
           /\ candidates'[c] = [candidates[c] EXCEPT !.state = "RevalidationRequired"]
    BY <1>1, <1>5 DEF RecoveredCandidate
  <2>2. \A st : /\ OnlyState(candidates[c], [candidates[c] EXCEPT !.state = st])
                /\ [candidates[c] EXCEPT !.state = st].state = st
    BY <1>2, StateUpdate
  <2> QED BY <1>3, <2>1, <2>2 DEF WorksOn, SlotMoves
<1> QED BY <1>4, <1>5

-----------------------------------------------------------------------------
(* Populations. *)

\* An identity has a record exactly when its counter has passed it, and what
\* lies beyond the counter is blank.
CountersExact ==
    /\ \A p \in PopulationId : IF p <= ids.population THEN populations[p].state # "Absent"
                               ELSE populations[p] = NoPopulation
    /\ \A c \in CandidateId : IF c <= ids.candidate THEN candidates[c].state # "Absent"
                              ELSE candidates[c] = NoCandidate
    /\ \A a \in AttemptId : IF a <= ids.attempt THEN attempts[a].state # "Absent"
                            ELSE attempts[a] = NoAttempt

\* A record that does not exist is the blank one.
LEMMA AbsentIsBlank ==
    ASSUME CountersExact
    PROVE  /\ \A p \in PopulationId : populations[p].state = "Absent" =>
                                      populations[p] = NoPopulation
           /\ \A c \in CandidateId : candidates[c].state = "Absent" =>
                                     candidates[c] = NoCandidate
           /\ \A a \in AttemptId : attempts[a].state = "Absent" => attempts[a] = NoAttempt
  BY DEF CountersExact

\* A population is quiet after the step: nothing in it is open.
QuietAfter(p) ==
    \A a \in AttemptId : attempts'[a].population = p => attempts'[a].state \notin AttemptOpen

\* What every call but create_population, create_successor, advance_population
\* and commit_selection does to population p: it exists or not as before, keeps
\* what it was created with, never goes back in its generation and never leaves
\* a terminal state; it enters one only with a new generation and when nothing
\* of it is open any more, and Closed only by the closure contract.
PopulationKept(p) ==
    LET r == populations[p]
        s == populations'[p]
    IN  /\ s.taskGeneration = r.taskGeneration /\ s.policyGeneration = r.policyGeneration
        /\ s.index = r.index /\ s.seed = r.seed
        /\ r.state = "Absent" => s = r
        /\ r.state # "Absent" => s.state # "Absent"
        /\ s.generation >= r.generation
        /\ r.state \in PopulationTerminal =>
              /\ s.state = r.state
              /\ s.committedSelection = r.committedSelection
              /\ r.retentionCommitted => s.retentionCommitted
        /\ r.state \notin PopulationTerminal /\ s.state \in PopulationTerminal =>
              /\ s.generation > r.generation /\ QuietAfter(p)
              /\ s.state = "Closed" =>
                    /\ ClosureContract(p) /\ UNCHANGED <<attempts, candidates, reserved>>
                    /\ s.committedSelection = r.committedSelection
                    /\ s.retentionCommitted = r.retentionCommitted
        /\ \/ s.committedSelection = r.committedSelection
           \/ /\ epoch' > epoch /\ selections[p].state # "Committed"
              /\ s.state = "RevalidationRequired" /\ s.committedSelection = 0
              /\ r.committedSelection > 0

PopulationsKeep == \A p \in PopulationId : PopulationKept(p)

\* A population that is left alone.
LEMMA LeavesPopulation ==
    ASSUME CoreInv, NEW p \in PopulationId, populations'[p] = populations[p]
    PROVE  PopulationKept(p)
<1>1. populations[p].generation >= populations[p].generation
  BY DEF CoreInv, TypeOK, PopulationRecord
<1> QED BY <1>1 DEF PopulationKept

\* A step that leaves the table of populations alone.
LEMMA KeepsPopulations ==
    ASSUME CoreInv, UNCHANGED populations PROVE PopulationsKeep
  BY LeavesPopulation DEF PopulationsKeep

\* A change of the state within the states that are not terminal, with or
\* without a new generation.
LEMMA MovesPopulation ==
    ASSUME CoreInv, NEW p \in PopulationId,
           populations[p].state \notin PopulationTerminal \cup {"Absent"},
           NEW st, st \notin PopulationTerminal \cup {"Absent"},
           NEW g \in Nat, g >= populations[p].generation,
           populations'[p] = [populations[p] EXCEPT !.state = st, !.generation = g]
    PROVE  PopulationKept(p)
<1>1. populations[p] \in PopulationRecord
  BY DEF CoreInv, TypeOK
<1> DEFINE s == [populations[p] EXCEPT !.state = st, !.generation = g]
<1>2. /\ s.state = st /\ s.generation = g
      /\ s.taskGeneration = populations[p].taskGeneration
      /\ s.policyGeneration = populations[p].policyGeneration
      /\ s.index = populations[p].index /\ s.seed = populations[p].seed
      /\ s.committedSelection = populations[p].committedSelection
      /\ s.retentionCommitted = populations[p].retentionCommitted
  BY <1>1 DEF PopulationRecord
<1> HIDE DEF s
<1>3. populations'[p] = s
  BY DEF s
<1> QED BY <1>2, <1>3 DEF PopulationKept

\* start_population, request_population_revalidation, revalidate_population
\* and prepare_selection move the population within the states that are not
\* terminal.
LEMMA MovingCallsKeep ==
    ASSUME CoreInv, NEW q \in PopulationId, NEW g, NEW x,
           \/ start_population(q, g) \/ request_population_revalidation(q)
           \/ revalidate_population(q, g) \/ prepare_selection(x, q)
    PROVE  PopulationsKeep
<1> SUFFICES ASSUME NEW p \in PopulationId PROVE PopulationKept(p)
  BY DEF PopulationsKeep
<1>1. /\ populations \in [PopulationId -> PopulationRecord]
      /\ populations[q].generation \in Nat
  BY DEF CoreInv, TypeOK, PopulationRecord
<1>2. \E st \in {"Running", "Evaluating", "RevalidationRequired", "Selecting"} :
         /\ populations[q].state \notin PopulationTerminal \cup {"Absent"}
         /\ \/ populations' = [populations EXCEPT ![q].state = st]
            \/ populations' = [populations EXCEPT ![q].state = st,
                                                  ![q].generation = populations[q].generation + 1]
  <2>1. CASE start_population(q, g)
    BY <2>1 DEF start_population, PopulationTerminal
  <2>2. CASE request_population_revalidation(q)
    BY <2>2 DEF request_population_revalidation, LivePopulation
  <2>3. CASE revalidate_population(q, g)
    <3>1. /\ populations[q].state = "RevalidationRequired"
          /\ \E st \in {"Running", "Evaluating"} :
               populations' = [populations EXCEPT ![q].state = st,
                                                  ![q].generation = populations[q].generation + 1]
      BY <2>3, Zenon DEF revalidate_population
    <3> QED BY <3>1 DEF PopulationTerminal
  <2>4. CASE prepare_selection(x, q)
    <3>1. /\ populations[q].state \in {"Running", "Evaluating", "Selecting", "Advancing"}
          /\ populations' = [populations EXCEPT ![q].state = "Selecting"]
      BY <2>4 DEF prepare_selection
    <3> QED BY <3>1 DEF PopulationTerminal
  <2> QED BY <2>1, <2>2, <2>3, <2>4
<1>3. CASE p # q
  <2>1. populations'[p] = populations[p]
    BY <1>1, <1>2, <1>3
  <2> QED BY <2>1, LeavesPopulation
<1>4. CASE p = q
  <2>1. PICK st \in {"Running", "Evaluating", "RevalidationRequired", "Selecting"} :
           /\ populations[q].state \notin PopulationTerminal \cup {"Absent"}
           /\ \/ populations' = [populations EXCEPT ![q].state = st]
              \/ populations' = [populations EXCEPT ![q].state = st,
                                                    ![q].generation = populations[q].generation + 1]
    BY <1>2
  <2>2. st \notin PopulationTerminal \cup {"Absent"}
    BY DEF PopulationTerminal
  <2>3. \E h \in Nat : /\ h >= populations[q].generation
                       /\ populations'[q] = [populations[q] EXCEPT !.state = st, !.generation = h]
    <3>1. CASE populations' = [populations EXCEPT ![q].state = st]
      <4>1. populations[q] \in PopulationRecord
        BY <1>1
      <4>2. [populations[q] EXCEPT !.state = st]
              = [populations[q] EXCEPT !.state = st, !.generation = populations[q].generation]
        BY <4>1 DEF PopulationRecord
      <4>3. populations'[q] = [populations[q] EXCEPT !.state = st]
        BY <1>1, <3>1
      <4>4. populations[q].generation >= populations[q].generation
        BY <1>1
      <4> QED BY <1>1, <4>2, <4>3, <4>4, Zenon
    <3>2. CASE populations' = [populations EXCEPT ![q].state = st,
                                                  ![q].generation = populations[q].generation + 1]
      <4>1. populations'[q] = [populations[q] EXCEPT !.state = st,
                                                     !.generation = populations[q].generation + 1]
        BY <1>1, <3>2
      <4>2. /\ populations[q].generation + 1 \in Nat
            /\ populations[q].generation + 1 >= populations[q].generation
        BY <1>1
      <4> QED BY <4>1, <4>2, Zenon
    <3> QED BY <2>1, <3>1, <3>2
  <2> QED BY <1>4, <2>1, <2>2, <2>3, MovesPopulation
<1> QED BY <1>3, <1>4

\* publish_candidate moves a running population to Evaluating.
LEMMA PublishCandidateKeeps ==
    ASSUME CoreInv, NEW t, NEW a \in AttemptId, publish_candidate(t, a)
    PROVE  PopulationsKeep
<1> DEFINE q == attempts[a].population
<1> SUFFICES ASSUME NEW p \in PopulationId PROVE PopulationKept(p)
  BY DEF PopulationsKeep
<1>1. /\ populations \in [PopulationId -> PopulationRecord]
      /\ populations[p].generation \in Nat
  BY DEF CoreInv, TypeOK, PopulationRecord
<1>2. populations' = IF populations[q].state = "Running"
                     THEN [populations EXCEPT ![q].state = "Evaluating"] ELSE populations
  BY DEF publish_candidate
<1> HIDE DEF q
<1>3. CASE populations'[p] = populations[p]
  BY <1>3, LeavesPopulation
<1>4. CASE populations'[p] # populations[p]
  <2>1. /\ populations[p].state = "Running"
        /\ populations'[p] = [populations[p] EXCEPT !.state = "Evaluating"]
    BY <1>1, <1>2, <1>4
  <2>2. populations[p] \in PopulationRecord
    BY <1>1
  <2>3. populations'[p] = [populations[p] EXCEPT !.state = "Evaluating",
                                                 !.generation = populations[p].generation]
    BY <2>1, <2>2 DEF PopulationRecord
  <2>4. populations[p].generation >= populations[p].generation
    BY <1>1
  <2>5. "Evaluating" \notin PopulationTerminal \cup {"Absent"}
        /\ populations[p].state \notin PopulationTerminal \cup {"Absent"}
    BY <2>1 DEF PopulationTerminal
  <2> QED BY <1>1, <2>3, <2>4, <2>5, MovesPopulation
<1> QED BY <1>3, <1>4

\* cancel_population reaches its terminal state with every attempt ended.
LEMMA CancelPopulationKeeps ==
    ASSUME CoreInv, NEW q \in PopulationId, NEW g, cancel_population(q, g)
    PROVE  PopulationsKeep
<1> SUFFICES ASSUME NEW p \in PopulationId PROVE PopulationKept(p)
  BY DEF PopulationsKeep
<1>1. /\ LivePopulation(q)
      /\ populations' = IF PopulationLegal(populations[q].state, "Cancelled")
                        THEN [populations EXCEPT ![q].state = "Cancelled",
                                                 ![q].generation = populations[q].generation + 1]
                        ELSE populations
  BY DEF cancel_population
<1>2. populations \in [PopulationId -> PopulationRecord]
  BY DEF CoreInv, TypeOK
<1>3. CASE populations'[p] = populations[p]
  BY <1>3, LeavesPopulation
<1>4. CASE populations'[p] # populations[p]
  <2> DEFINE s == [populations[p] EXCEPT !.state = "Cancelled",
                                         !.generation = populations[p].generation + 1]
  <2>1. p = q /\ populations'[p] = s
    BY <1>1, <1>2, <1>4
  <2>2. /\ populations[p] \in PopulationRecord /\ populations[p].generation \in Nat
    BY <1>2 DEF PopulationRecord
  <2>3. /\ s.state = "Cancelled" /\ s.generation = populations[p].generation + 1
        /\ s.taskGeneration = populations[p].taskGeneration
        /\ s.policyGeneration = populations[p].policyGeneration
        /\ s.index = populations[p].index /\ s.seed = populations[p].seed
        /\ s.committedSelection = populations[p].committedSelection
    BY <2>2 DEF PopulationRecord
  <2> HIDE DEF s
  <2>4. QuietAfter(p)
    <3>1. AttemptsEnd(CutWith(p))
      BY <2>1, CancelPopulationEnds
    <3>2. AttemptOpen \cap AttemptTerminal = {}
      BY DEF AttemptOpen, AttemptInFlight, AttemptTerminal
    <3>3. ASSUME NEW a \in AttemptId, attempts'[a].population = p
          PROVE  attempts'[a].state \notin AttemptOpen
      <4>1. attempts[a].population = p
        BY <3>1, <3>3 DEF AttemptsEnd, SameAttempt
      <4>2. CASE a \in CutWith(p)
        BY <3>1, <3>2, <4>2 DEF AttemptsEnd
      <4>3. CASE a \notin CutWith(p)
        <5>1. attempts[a].state \notin AttemptOpen
          BY <4>1, <4>3 DEF CutWith
        <5> QED BY <3>1, <4>3, <5>1 DEF AttemptsEnd, Proceeds, AttemptOpen, AttemptInFlight
      <4> QED BY <4>2, <4>3
    <3> QED BY <3>3 DEF QuietAfter
  <2>5. populations[p].state \notin PopulationTerminal \cup {"Absent"}
    BY <1>1, <2>1 DEF LivePopulation
  <2> QED BY <2>1, <2>2, <2>3, <2>4, <2>5 DEF PopulationKept
<1> QED BY <1>3, <1>4

\* close_population closes by the closure contract.
LEMMA ClosePopulationKeeps ==
    ASSUME CoreInv, NEW q \in PopulationId, close_population(q)
    PROVE  PopulationsKeep
<1> SUFFICES ASSUME NEW p \in PopulationId PROVE PopulationKept(p)
  BY DEF PopulationsKeep
<1>1. /\ LivePopulation(q) /\ ClosureContract(q)
      /\ UNCHANGED <<attempts, candidates, reserved>>
      /\ populations' = [populations EXCEPT ![q].state = "Closed",
                                            ![q].generation = populations[q].generation + 1]
  BY DEF close_population
<1>2. populations \in [PopulationId -> PopulationRecord]
  BY DEF CoreInv, TypeOK
<1>3. CASE populations'[p] = populations[p]
  BY <1>3, LeavesPopulation
<1>4. CASE populations'[p] # populations[p]
  <2> DEFINE s == [populations[p] EXCEPT !.state = "Closed",
                                         !.generation = populations[p].generation + 1]
  <2>1. p = q /\ populations'[p] = s
    BY <1>1, <1>2, <1>4
  <2>2. populations[p] \in PopulationRecord /\ populations[p].generation \in Nat
    BY <1>2 DEF PopulationRecord
  <2>3. /\ s.state = "Closed" /\ s.generation = populations[p].generation + 1
        /\ s.taskGeneration = populations[p].taskGeneration
        /\ s.policyGeneration = populations[p].policyGeneration
        /\ s.index = populations[p].index /\ s.seed = populations[p].seed
        /\ s.committedSelection = populations[p].committedSelection
        /\ s.retentionCommitted = populations[p].retentionCommitted
    BY <2>2 DEF PopulationRecord
  <2> HIDE DEF s
  <2>4. QuietAfter(p)
    BY <1>1, <2>1 DEF QuietAfter, ClosureContract, AttemptTerminal, AttemptOpen, AttemptInFlight
  <2>5. populations[p].state \notin PopulationTerminal \cup {"Absent"}
    BY <1>1, <2>1 DEF LivePopulation
  <2> QED BY <1>1, <2>1, <2>2, <2>3, <2>4, <2>5 DEF PopulationKept
<1> QED BY <1>3, <1>4

\* commit_retention and prepare_promotion_request set marks of populations
\* that exist.
LEMMA MarkingCallsKeep ==
    ASSUME CoreInv, NEW x, NEW q,
           \/ commit_retention(x) /\ q = heldRetention[x].population
           \/ prepare_promotion_request(q),
           q \in PopulationId => populations[q].state # "Absent"
    PROVE  PopulationsKeep
<1> SUFFICES ASSUME NEW p \in PopulationId PROVE PopulationKept(p)
  BY DEF PopulationsKeep
<1>1. \/ \E g : populations' = [populations EXCEPT ![q].retentionCommitted = TRUE,
                                                   ![q].retentionSelection = g]
      \/ populations' = [populations EXCEPT ![q].promotionRequested = TRUE]
  BY Zenon DEF commit_retention, prepare_promotion_request
<1>2. populations \in [PopulationId -> PopulationRecord]
  BY DEF CoreInv, TypeOK
<1>3. CASE populations'[p] = populations[p]
  BY <1>3, LeavesPopulation
<1>4. CASE populations'[p] # populations[p]
  <2>1. /\ p = q
        /\ \/ \E g : populations'[p] = [populations[p] EXCEPT !.retentionCommitted = TRUE,
                                                              !.retentionSelection = g]
           \/ populations'[p] = [populations[p] EXCEPT !.promotionRequested = TRUE]
    BY <1>1, <1>2, <1>4
  <2>2. populations[p] \in PopulationRecord /\ populations[p].generation \in Nat
    BY <1>2 DEF PopulationRecord
  <2>3. /\ populations'[p].state = populations[p].state
        /\ populations'[p].generation = populations[p].generation
        /\ populations'[p].taskGeneration = populations[p].taskGeneration
        /\ populations'[p].policyGeneration = populations[p].policyGeneration
        /\ populations'[p].index = populations[p].index
        /\ populations'[p].seed = populations[p].seed
        /\ populations'[p].committedSelection = populations[p].committedSelection
        /\ populations[p].retentionCommitted => populations'[p].retentionCommitted
    BY <2>1, <2>2 DEF PopulationRecord
  <2>4. populations'[p].generation >= populations[p].generation
    BY <2>2, <2>3
  <2> QED BY <2>1, <2>3, <2>4, Zenon DEF PopulationKept
<1> QED BY <1>3, <1>4

\* recover keeps generations and terminal populations, and forgets a committed
\* selection only where another decision had replaced it.
LEMMA RecoverKeeps ==
    ASSUME CoreInv, recover
    PROVE  PopulationsKeep
<1> SUFFICES ASSUME NEW p \in PopulationId PROVE PopulationKept(p)
  BY DEF PopulationsKeep
<1> DEFINE r == populations[p]
           stale == [r EXCEPT !.state = "RevalidationRequired"]
<1>1. populations'[p] = RecoveredPopulation(p)
  BY DEF recover
<1>2. r \in PopulationRecord /\ r.generation \in Nat /\ r.committedSelection \in Nat
  BY DEF CoreInv, TypeOK, PopulationRecord
<1>3. epoch' > epoch
  <2>1. epoch' = epoch + 1 /\ epoch \in Nat
    BY Zenon DEF recover, CoreInv, TypeOK
  <2> QED BY <2>1
<1>4. \A h, k : LET s == [stale EXCEPT !.committedSelection = h, !.retentionCommitted = k]
                IN  /\ s.state = "RevalidationRequired" /\ s.generation = r.generation
                    /\ s.taskGeneration = r.taskGeneration
                    /\ s.policyGeneration = r.policyGeneration
                    /\ s.index = r.index /\ s.seed = r.seed
                    /\ s.committedSelection = h
  BY <1>2 DEF PopulationRecord
<1>5. /\ stale.state = "RevalidationRequired" /\ stale.generation = r.generation
      /\ stale.taskGeneration = r.taskGeneration
      /\ stale.policyGeneration = r.policyGeneration
      /\ stale.index = r.index /\ stale.seed = r.seed
      /\ stale.committedSelection = r.committedSelection
  BY <1>2 DEF PopulationRecord
<1>6. \/ populations'[p] = r
      \/ /\ r.state \notin PopulationTerminal \cup {"Absent"}
         /\ \/ populations'[p] = stale
            \/ /\ r.committedSelection > 0 /\ selections[p].state # "Committed"
               /\ populations'[p] = [stale EXCEPT !.committedSelection = 0,
                                                  !.retentionCommitted = FALSE]
  <2>1. CASE r.state \in PopulationTerminal \cup {"Absent", "Created"}
    BY <1>1, <2>1 DEF RecoveredPopulation
  <2>2. CASE /\ r.state \notin PopulationTerminal \cup {"Absent", "Created"}
             /\ r.committedSelection > 0 /\ selections[p].state # "Committed"
    <3>1. RecoveredPopulation(p) = [stale EXCEPT !.committedSelection = 0,
                                                 !.retentionCommitted = FALSE]
      BY <2>2 DEF RecoveredPopulation
    <3> QED BY <1>1, <2>2, <3>1, Zenon
  <2>3. CASE /\ r.state \notin PopulationTerminal \cup {"Absent", "Created"}
             /\ ~(r.committedSelection > 0 /\ selections[p].state # "Committed")
    <3>1. RecoveredPopulation(p) = stale
      BY <2>3 DEF RecoveredPopulation
    <3> QED BY <1>1, <2>3, <3>1, Zenon
  <2> QED BY <2>1, <2>2, <2>3
<1> HIDE DEF stale
<1>7. "RevalidationRequired" \notin PopulationTerminal \cup {"Absent"}
  BY DEF PopulationTerminal
<1>8. CASE populations'[p] = populations[p]
  BY <1>8, LeavesPopulation
<1>9. CASE r.state \notin PopulationTerminal \cup {"Absent"} /\ populations'[p] = stale
  BY <1>2, <1>5, <1>7, <1>9 DEF PopulationKept
<1>10. CASE /\ r.state \notin PopulationTerminal \cup {"Absent"}
            /\ r.committedSelection > 0 /\ selections[p].state # "Committed"
            /\ populations'[p] = [stale EXCEPT !.committedSelection = 0,
                                               !.retentionCommitted = FALSE]
  <2> DEFINE s == [stale EXCEPT !.committedSelection = 0, !.retentionCommitted = FALSE]
  <2>1. /\ s.state = "RevalidationRequired" /\ s.generation = r.generation
        /\ s.taskGeneration = r.taskGeneration
        /\ s.policyGeneration = r.policyGeneration
        /\ s.index = r.index /\ s.seed = r.seed
        /\ s.committedSelection = 0
    BY <1>4, Zenon
  <2> HIDE DEF s
  <2>2. populations'[p] = s
    BY <1>10 DEF s
  <2>3. s.generation >= r.generation
    BY <1>2, <2>1
  <2> QED BY <1>3, <1>7, <1>10, <2>1, <2>2, <2>3, Zenon DEF PopulationKept
<1> QED BY <1>6, <1>8, <1>9, <1>10

-----------------------------------------------------------------------------
(* Workers. *)

\* No attempt of the incarnation w had before the step is in flight after it.
FreedAfter(w) ==
    \A a \in AttemptId :
        attempts'[a].worker = w /\ attempts'[a].boot = workers[w].boot =>
        attempts'[a].state \notin AttemptInFlight

\* An attempt of w ends or is published in the step.
Delivers(w) ==
    \E a \in AttemptId : /\ attempts[a].worker = w
                         /\ attempts[a].state \in AttemptOpen
                         /\ attempts'[a].state \in AttemptTerminal \cup {"Published"}
                         /\ attempts'[a].state # attempts[a].state

\* What every call but authorize_attempt does to worker w: a new or a lost
\* incarnation leaves no attempt in flight behind; a worker that stays Busy
\* still has its attempt; a registration is one of this epoch; only a worker
\* that is registered, or that delivers, becomes Ready.
WorkerKept(w) ==
    LET r == workers[w]
        s == workers'[w]
    IN  /\ s.sessionGeneration >= r.sessionGeneration
        /\ r.state # "Absent" => s.state # "Absent"
        /\ s.boot # r.boot => r.state = "Absent" \/ FreedAfter(w)
        /\ s.state = "Offline" /\ r.state # "Offline" => FreedAfter(w)
        /\ s.state = "Busy" =>
              /\ r.state = "Busy" /\ s.active = r.active /\ s.boot = r.boot
              /\ \A a \in AttemptId :
                    /\ a = r.active /\ attempts[a].worker = w
                    /\ attempts[a].state \in AttemptInFlight
                    => attempts'[a].state \in AttemptInFlight \cup {"OutcomeUnknown"}
        /\ s.state = "Registered" =>
              \/ s.registeredEpoch = epoch'
              \/ r.state = "Registered" /\ s = r /\ epoch' = epoch
        /\ s.state = "Ready" =>
              \/ r.state = "Ready" \/ r.state = "Busy"
              \/ /\ r.state = "Registered" /\ s.registeredEpoch = r.registeredEpoch
                 /\ epoch' = epoch
              \/ Delivers(w)

WorkersKeep == \A w \in Worker : WorkerKept(w)

\* A worker that is left alone while other attempts end, and of its own at
\* most one that force_attempt_outcome_unknown ends.
LEMMA LeavesWorker ==
    ASSUME CoreInv, NEW w \in Worker, workers'[w] = workers[w], epoch' = epoch,
           NEW A, AttemptsEnd(A),
           \A a \in A : /\ a = workers[w].active /\ attempts[a].worker = w
                        /\ attempts[a].state \in AttemptInFlight
                        => attempts'[a].state = "OutcomeUnknown"
    PROVE  WorkerKept(w)
<1>1. workers[w].sessionGeneration >= workers[w].sessionGeneration
  BY DEF CoreInv, TypeOK, WorkerRecord
<1>2. \A a \in AttemptId : /\ a = workers[w].active /\ attempts[a].worker = w
                           /\ attempts[a].state \in AttemptInFlight
                           => attempts'[a].state \in AttemptInFlight \cup {"OutcomeUnknown"}
  BY DEF AttemptsEnd, Proceeds, AttemptInFlight
<1> QED BY <1>1, <1>2 DEF WorkerKept

\* A step that leaves workers and attempts alone.
LEMMA KeepsWorkers ==
    ASSUME CoreInv, UNCHANGED <<workers, attempts, reserved, epoch>>
    PROVE  WorkersKeep
  BY KeepsAttempts, LeavesWorker DEF WorkersKeep

\* A step that leaves the workers alone and ends no attempt in flight, unless
\* as OutcomeUnknown.
LEMMA KeepsWorkersEnding ==
    ASSUME CoreInv, UNCHANGED <<workers, epoch>>, NEW A, AttemptsEnd(A),
           \A a \in A : attempts[a].state \in AttemptInFlight =>
                        attempts'[a].state = "OutcomeUnknown"
    PROVE  WorkersKeep
  BY LeavesWorker DEF WorkersKeep

\* register_worker: the attempts of an incarnation that is replaced have ended,
\* and the new registration is one of this epoch.
LEMMA RegisterWorkerKeeps ==
    ASSUME CoreInv, NEW w \in Worker, NEW b \in Boot, register_worker(w, b)
    PROVE  WorkersKeep
<1> SUFFICES ASSUME NEW v \in Worker PROVE WorkerKept(v)
  BY DEF WorkersKeep
<1> DEFINE g == workers[w].sessionGeneration + 1
<1>1. workers \in [Worker -> WorkerRecord] /\ workers[w].sessionGeneration \in Nat
  BY DEF CoreInv, TypeOK, WorkerRecord
<1>2. epoch' = epoch
  BY DEF register_worker
<1>3. g >= workers[w].sessionGeneration
  BY <1>1
<1> HIDE DEF g
<1>4. CASE v # w
  <2>1. workers'[v] = workers[v]
    BY <1>1, <1>4 DEF register_worker, FirstRegistration, SameIncarnation,
                      ReplaceIncarnation, IssueSession
  <2>2. CASE AttemptsEnd({})
    BY <1>2, <2>1, <2>2, LeavesWorker
  <2>3. CASE AttemptsEnd(OrphanedBy(w))
    <3>1. \A a \in OrphanedBy(w) : attempts[a].worker # v
      BY <1>4 DEF OrphanedBy
    <3> QED BY <1>2, <2>1, <2>3, <3>1, LeavesWorker
  <2> QED BY <2>2, <2>3, RegisterWorkerEnds
<1>5. CASE v = w /\ FirstRegistration(w, b)
  <2>1. /\ workers[w].state = "Absent"
        /\ workers'[w] = [workers[w] EXCEPT !.state = "Registered", !.boot = b,
                                            !.registeredEpoch = epoch,
                                            !.sessionGeneration = g]
    BY <1>1, <1>5 DEF FirstRegistration, IssueSession, g
  <2>2. workers'[w].state = "Registered" /\ workers'[w].sessionGeneration = g
        /\ workers'[w].registeredEpoch = epoch
    BY <1>1, <2>1 DEF WorkerRecord
  <2> QED BY <1>2, <1>3, <1>5, <2>1, <2>2 DEF WorkerKept
<1>6. CASE v = w /\ SameIncarnation(w, b)
  <2>1. /\ workers[w].state \in {"Offline", "Rejected", "RevalidationRequired"}
        /\ workers'[w] = [workers[w] EXCEPT !.state =
                             IF workers[w].registeredEpoch # epoch
                             THEN "RevalidationRequired" ELSE "Registered",
                                            !.sessionGeneration = g]
    BY <1>1, <1>6 DEF SameIncarnation, IssueSession, g
  <2>2. /\ workers'[w].state \in {"RevalidationRequired", "Registered"}
        /\ workers'[w].state = "Registered" => workers[w].registeredEpoch = epoch
        /\ workers'[w].sessionGeneration = g /\ workers'[w].boot = workers[w].boot
        /\ workers'[w].registeredEpoch = workers[w].registeredEpoch
    BY <1>1, <2>1 DEF WorkerRecord
  <2> QED BY <1>2, <1>3, <1>6, <2>1, <2>2 DEF WorkerKept
<1>7. CASE v = w /\ ReplaceIncarnation(w, b)
  <2>1. /\ workers[w].state # "Absent"
        /\ workers'[w] = [workers[w] EXCEPT !.state = "Registered", !.boot = b,
                                            !.registeredEpoch = epoch, !.active = 0,
                                            !.sessionGeneration = g]
    BY <1>1, <1>7 DEF ReplaceIncarnation, IssueSession, g
  <2>2. workers'[w].state = "Registered" /\ workers'[w].sessionGeneration = g
        /\ workers'[w].registeredEpoch = epoch
    BY <1>1, <2>1 DEF WorkerRecord
  <2>3. FreedAfter(w)
    <3>1. attempts' = EndAttempts(OrphanedBy(w), "OutcomeUnknown")
      BY <1>7 DEF ReplaceIncarnation, OrphanedBy
    <3>2. \A a \in AttemptId : attempts[a] \in AttemptRecord
      BY DEF CoreInv, TypeOK
    <3> QED BY <3>1, <3>2 DEF FreedAfter, EndAttempts, OrphanedBy, AttemptOpen,
                              AttemptInFlight, AttemptRecord
  <2> QED BY <1>2, <1>3, <1>7, <2>1, <2>2, <2>3 DEF WorkerKept
<1> QED BY <1>4, <1>5, <1>6, <1>7 DEF register_worker

\* worker_ready, revalidate_worker and reject_worker_session touch one worker
\* and no attempt.
LEMMA SessionCallsKeep ==
    ASSUME CoreInv, NEW t \in sessions,
           worker_ready(t) \/ revalidate_worker(t) \/ reject_worker_session(t)
    PROVE  WorkersKeep
<1> SUFFICES ASSUME NEW v \in Worker PROVE WorkerKept(v)
  BY DEF WorkersKeep
<1> DEFINE w == t.worker
           g == workers[w].sessionGeneration + 1
<1>1. workers \in [Worker -> WorkerRecord] /\ w \in Worker
  BY DEF CoreInv, TypeOK, SessionAuthority
<1>2. workers[w].sessionGeneration \in Nat /\ workers[w] \in WorkerRecord
  BY <1>1 DEF WorkerRecord
<1>3. epoch' = epoch /\ UNCHANGED <<attempts, reserved>>
  BY DEF worker_ready, revalidate_worker, reject_worker_session
<1>4. g >= workers[w].sessionGeneration
      /\ workers[w].sessionGeneration >= workers[w].sessionGeneration
  BY <1>2
<1>5. \/ /\ workers' = [workers EXCEPT ![w].state = "Ready"]
         /\ workers[w].state \in {"Registered", "Ready"}
      \/ /\ workers' = [workers EXCEPT ![w].state = "Rejected"]
         /\ workers[w].state # "Absent"
      \/ workers' = [workers EXCEPT ![w] = [workers[w] EXCEPT !.state = "Registered",
                        !.registeredEpoch = epoch, !.sessionGeneration = g]]
  BY DEF worker_ready, AcceptsReady, revalidate_worker, reject_worker_session, IssueSession
<1> HIDE DEF w, g
<1>6. CASE v # w
  <2>1. workers'[v] = workers[v]
    BY <1>1, <1>5, <1>6
  <2> QED BY <1>3, <2>1, KeepsAttempts, LeavesWorker
<1>7. CASE v = w
  <2>1. \/ /\ workers'[w] = [workers[w] EXCEPT !.state = "Ready"]
           /\ workers[w].state \in {"Registered", "Ready"}
        \/ /\ workers'[w] = [workers[w] EXCEPT !.state = "Rejected"]
           /\ workers[w].state # "Absent"
        \/ workers'[w] = [workers[w] EXCEPT !.state = "Registered",
                              !.registeredEpoch = epoch, !.sessionGeneration = g]
    BY <1>1, <1>5
  <2>2. /\ workers'[w].boot = workers[w].boot
        /\ \/ /\ workers'[w].state = "Ready" /\ workers[w].state \in {"Registered", "Ready"}
              /\ workers'[w].sessionGeneration = workers[w].sessionGeneration
              /\ workers'[w].registeredEpoch = workers[w].registeredEpoch
           \/ /\ workers'[w].state = "Rejected"
              /\ workers'[w].sessionGeneration = workers[w].sessionGeneration
           \/ /\ workers'[w].state = "Registered" /\ workers'[w].registeredEpoch = epoch
              /\ workers'[w].sessionGeneration = g
    BY <1>2, <2>1 DEF WorkerRecord
  <2> QED BY <1>3, <1>4, <1>7, <2>2 DEF WorkerKept
<1> QED BY <1>6, <1>7

\* abandon_dispatch, cancel_attempt and cancel_population free the workers that
\* have one of the ended attempts active.
LEMMA FreesWorkers ==
    ASSUME CoreInv, epoch' = epoch, NEW A, AttemptsEnd(A), workers' = FreeWorkersOf(A)
    PROVE  WorkersKeep
<1> SUFFICES ASSUME NEW v \in Worker PROVE WorkerKept(v)
  BY DEF WorkersKeep
<1>1. workers[v] \in WorkerRecord /\ workers[v].sessionGeneration \in Nat
  BY DEF CoreInv, TypeOK, WorkerRecord
<1>2. workers[v].sessionGeneration >= workers[v].sessionGeneration
  BY <1>1
<1>3. CASE \E a \in A : attempts[a].worker = v /\ workers[v].active = a
  <2>1. workers'[v] = [workers[v] EXCEPT !.state = "Ready", !.active = 0]
    BY <1>3 DEF FreeWorkersOf
  <2>2. /\ workers'[v].state = "Ready" /\ workers'[v].boot = workers[v].boot
        /\ workers'[v].sessionGeneration = workers[v].sessionGeneration
    BY <1>1, <2>1 DEF WorkerRecord
  <2>3. Delivers(v)
    <3>1. AttemptOpen \cap AttemptTerminal = {}
      BY DEF AttemptOpen, AttemptInFlight, AttemptTerminal
    <3> QED BY <1>3, <3>1 DEF Delivers, AttemptsEnd
  <2> QED BY <1>2, <2>2, <2>3 DEF WorkerKept
<1>4. CASE ~\E a \in A : attempts[a].worker = v /\ workers[v].active = a
  <2>1. workers'[v] = workers[v]
    BY <1>4 DEF FreeWorkersOf
  <2> QED BY <1>4, <2>1, LeavesWorker
<1> QED BY <1>3, <1>4

\* publish_candidate and report_attempt_failure free the worker whose attempt
\* it is.
LEMMA FreesItsWorker ==
    ASSUME CoreInv, NEW t \in sessions, NEW a \in AttemptId,
           publish_candidate(t, a) \/ report_attempt_failure(t, a)
    PROVE  WorkersKeep
<1> DEFINE w == t.worker
<1> SUFFICES ASSUME NEW v \in Worker PROVE WorkerKept(v)
  BY DEF WorkersKeep
<1>1. workers \in [Worker -> WorkerRecord] /\ w \in Worker
  BY DEF CoreInv, TypeOK, SessionAuthority
<1>2. /\ workers[v] \in WorkerRecord
      /\ workers[v].sessionGeneration >= workers[v].sessionGeneration
  BY <1>1 DEF WorkerRecord
<1>3. /\ epoch' = epoch /\ workers' = FreeWorker(w)
      /\ attempts[a].worker = w /\ attempts[a].state \in AttemptOpen
  BY DEF publish_candidate, AcceptsPublication, report_attempt_failure, ValidOperation,
         AttemptOpen, AttemptInFlight
<1>4. /\ attempts'[a].state \in AttemptTerminal \cup {"Published"}
      /\ attempts'[a].state # attempts[a].state
      /\ \A b \in AttemptId : b # a => attempts'[b] = attempts[b]
  <2>1. attempts \in [AttemptId -> AttemptRecord]
    BY DEF CoreInv, TypeOK
  <2>2. CASE publish_candidate(t, a)
    <3>1. /\ attempts[a].state \in {"Running", "Dispatched"}
          /\ attempts' = [attempts EXCEPT ![a].state = "Published",
                                          ![a].holdsReservation = FALSE]
      BY <2>2 DEF publish_candidate, AcceptsPublication
    <3> QED BY <2>1, <3>1 DEF AttemptRecord
  <2>3. CASE report_attempt_failure(t, a)
    <3>1. attempts' = EndAttempts({a}, "Failed")
      BY <2>3 DEF report_attempt_failure
    <3> QED BY <1>3, <2>1, <3>1 DEF EndAttempts, AttemptRecord, AttemptTerminal,
                                    AttemptOpen, AttemptInFlight
  <2> QED BY <2>2, <2>3
<1> HIDE DEF w
<1>5. CASE v = w
  <2>1. workers'[v] = [workers[v] EXCEPT !.state = "Ready", !.active = 0]
    BY <1>1, <1>3, <1>5 DEF FreeWorker
  <2>2. /\ workers'[v].state = "Ready" /\ workers'[v].boot = workers[v].boot
        /\ workers'[v].sessionGeneration = workers[v].sessionGeneration
    BY <1>2, <2>1 DEF WorkerRecord
  <2>3. Delivers(v)
    BY <1>3, <1>4, <1>5 DEF Delivers
  <2> QED BY <1>2, <2>2, <2>3 DEF WorkerKept
<1>6. CASE v # w
  <2>1. workers'[v] = workers[v]
    BY <1>1, <1>3, <1>6 DEF FreeWorker
  <2>2. \A b \in AttemptId : /\ b = workers[v].active /\ attempts[b].worker = v
                             /\ attempts[b].state \in AttemptInFlight
                             => attempts'[b].state \in AttemptInFlight \cup {"OutcomeUnknown"}
    BY <1>3, <1>4, <1>6
  <2> QED BY <1>2, <1>3, <2>1, <2>2 DEF WorkerKept
<1> QED BY <1>5, <1>6

\* worker_disconnected leaves no attempt of the incarnation in flight.
LEMMA WorkerDisconnectedKeeps ==
    ASSUME CoreInv, NEW t \in sessions, worker_disconnected(t)
    PROVE  WorkersKeep
<1> DEFINE w == t.worker
<1> SUFFICES ASSUME NEW v \in Worker PROVE WorkerKept(v)
  BY DEF WorkersKeep
<1>1. workers \in [Worker -> WorkerRecord] /\ w \in Worker
  BY DEF CoreInv, TypeOK, SessionAuthority
<1>2. /\ workers[v] \in WorkerRecord
      /\ workers[v].sessionGeneration >= workers[v].sessionGeneration
  BY <1>1 DEF WorkerRecord
<1>3. /\ epoch' = epoch /\ t.boot = workers[w].boot
      /\ workers' = [workers EXCEPT ![w].state = "Offline", ![w].active = 0]
  BY DEF worker_disconnected, ValidSession
<1>4. AttemptsEnd(LostWith(t))
  BY WorkerDisconnectedEnds
<1>5. CASE v = w
  <2>1. workers'[v] = [workers[v] EXCEPT !.state = "Offline", !.active = 0]
    BY <1>1, <1>3, <1>5
  <2>2. /\ workers'[v].state = "Offline" /\ workers'[v].boot = workers[v].boot
        /\ workers'[v].sessionGeneration = workers[v].sessionGeneration
    BY <1>2, <2>1 DEF WorkerRecord
  <2>3. FreedAfter(v)
    <3>1. AttemptInFlight \cap AttemptTerminal = {}
      BY DEF AttemptInFlight, AttemptTerminal
    <3> SUFFICES ASSUME NEW a \in AttemptId, attempts'[a].worker = v,
                        attempts'[a].boot = workers[v].boot
                 PROVE  attempts'[a].state \notin AttemptInFlight
      BY DEF FreedAfter
    <3>2. attempts[a].worker = v /\ attempts[a].boot = t.boot
      BY <1>3, <1>4, <1>5 DEF AttemptsEnd, SameAttempt
    <3>3. CASE a \in LostWith(t)
      BY <1>4, <3>1, <3>3 DEF AttemptsEnd
    <3>4. CASE a \notin LostWith(t)
      <4>1. attempts[a].state \notin AttemptOpen
        BY <1>5, <3>2, <3>4 DEF LostWith
      <4> QED BY <1>4, <3>4, <4>1 DEF AttemptsEnd, Proceeds, AttemptOpen, AttemptInFlight
    <3> QED BY <3>3, <3>4
  <2> QED BY <1>2, <2>2, <2>3 DEF WorkerKept
<1>6. CASE v # w
  <2>1. workers'[v] = workers[v]
    BY <1>1, <1>3, <1>6
  <2>2. \A a \in LostWith(t) : attempts[a].worker # v
    BY <1>6 DEF LostWith
  <2> QED BY <1>3, <1>4, <2>1, <2>2, LeavesWorker
<1> QED BY <1>5, <1>6

\* recover declares every worker offline and leaves no attempt in flight.
LEMMA RecoverKeepsWorkers ==
    ASSUME CoreInv, recover
    PROVE  WorkersKeep
<1> SUFFICES ASSUME NEW v \in Worker PROVE WorkerKept(v)
  BY DEF WorkersKeep
<1>1. /\ workers[v] \in WorkerRecord
      /\ workers[v].sessionGeneration >= workers[v].sessionGeneration
  BY DEF CoreInv, TypeOK, WorkerRecord
<1>2. workers'[v] = IF workers[v].state = "Absent" THEN workers[v]
                    ELSE [workers[v] EXCEPT !.state = "Offline", !.active = 0]
  BY DEF recover
<1>3. FreedAfter(v)
  <2>1. AttemptsEnd(InFlightAttempts)
    BY RecoverEnds
  <2>2. AttemptInFlight \cap AttemptTerminal = {}
    BY DEF AttemptInFlight, AttemptTerminal
  <2> QED BY <2>1, <2>2 DEF FreedAfter, AttemptsEnd, InFlightAttempts, Proceeds, AttemptInFlight
<1>4. CASE workers[v].state = "Absent"
  BY <1>1, <1>2, <1>4 DEF WorkerKept
<1>5. CASE workers[v].state # "Absent"
  <2>1. workers'[v].state = "Offline" /\ workers'[v].boot = workers[v].boot
        /\ workers'[v].sessionGeneration = workers[v].sessionGeneration
    BY <1>1, <1>2, <1>5 DEF WorkerRecord
  <2> QED BY <1>1, <1>3, <2>1 DEF WorkerKept
<1> QED BY <1>4, <1>5

\* record_evaluation and revalidate_population complete attempts without
\* touching a worker, which is sound as long as none of them is in flight.
LEMMA SettlingKeepsWorkers ==
    ASSUME CoreInv, UNCHANGED <<workers, epoch>>, NEW C, AttemptsEnd(SettledBy(C)),
           \A a \in AttemptId : attempts[a].candidate \in C =>
                                attempts[a].state \notin AttemptInFlight
    PROVE  WorkersKeep
<1>1. \A a \in SettledBy(C) : attempts[a].state \notin AttemptInFlight
  BY DEF SettledBy
<1> QED BY <1>1, KeepsWorkersEnding

-----------------------------------------------------------------------------
(* The kinds of steps. *)

\* Evidence is only added, for an existing candidate of a live population that
\* is not finished, about the output it carries.
EvidenceGrows ==
    /\ evaluations \subseteq evaluations'
    /\ \A r \in evaluations' \ evaluations :
          /\ r.candidate \in CandidateId
          /\ candidates[r.candidate].state \notin CandidateFinished \cup {"Absent"}
          /\ LivePopulation(candidates[r.candidate].population)
          /\ r.about = candidates[r.candidate].output
          /\ r.kind # "WorkerSelfReport" => r.about # 0

\* A call that neither allocates an identity nor publishes nor commits.
WorkStep ==
    /\ UNCHANGED <<ids, consumed>>
    /\ \E A : AttemptsEnd(A)
    /\ CandidatesWork
    /\ PopulationsKeep
    /\ EvidenceGrows

\* record_evaluation adds the one record it is given.
LEMMA RecordEvaluationGrows ==
    ASSUME NEW c \in CandidateId, NEW k, NEW kind, NEW outcome, NEW high, NEW g, NEW t,
           record_evaluation(c, k, kind, outcome, high, g, t),
           kind # "WorkerSelfReport" => candidates[c].output # 0
    PROVE  EvidenceGrows
<1> DEFINE r == [candidate |-> c, key |-> k, kind |-> kind, outcome |-> outcome,
                 high |-> high, about |-> candidates[c].output]
<1>1. /\ evaluations' = evaluations \cup {r}
      /\ candidates[c].state \notin CandidateFinished \cup {"Absent"}
      /\ LivePopulation(candidates[c].population)
  BY DEF record_evaluation, AcceptsEvaluation
<1>2. r.candidate = c /\ r.kind = kind /\ r.about = candidates[c].output
  OBVIOUS
<1> HIDE DEF r
<1>3. \A e \in evaluations' \ evaluations : e = r
  BY <1>1
<1> QED BY <1>1, <1>2, <1>3 DEF EvidenceGrows

\* An evaluator's report and a worker's own are record_evaluation steps.
LEMMA ReportsAreRecords ==
    ASSUME NEW c \in CandidateId, EvaluatorReport(c) \/ SelfReport(c)
    PROVE  \E k, kind, outcome, high, g, t :
              /\ record_evaluation(c, k, kind, outcome, high, g, t)
              /\ kind # "WorkerSelfReport" => candidates[c].output # 0
  BY Zenon DEF EvaluatorReport, SelfReport

\* The calls of evaluators.
LEMMA EvaluatorCallsWork ==
    ASSUME CoreInv, EvaluatorCall PROVE WorkStep
<1>1. PICK c \in CandidateId : begin_evaluation(c) \/ EvaluatorReport(c) \/ SelfReport(c)
  BY DEF EvaluatorCall
<1>2. CASE begin_evaluation(c)
  <2>1. UNCHANGED <<ids, consumed, evaluations, populations>>
    BY <1>2 DEF begin_evaluation
  <2>2. EvidenceGrows
    BY <2>1 DEF EvidenceGrows
  <2> QED BY <1>2, <2>1, <2>2, BeginEvaluationEnds, BeginEvaluationWorks, KeepsPopulations
          DEF WorkStep
<1>3. CASE EvaluatorReport(c) \/ SelfReport(c)
  <2>1. PICK k, kind, outcome, high, g, t :
              /\ record_evaluation(c, k, kind, outcome, high, g, t)
              /\ kind # "WorkerSelfReport" => candidates[c].output # 0
    BY <1>3, ReportsAreRecords, Zenon
  <2>2. UNCHANGED <<ids, consumed, populations>>
    BY <2>1 DEF record_evaluation
  <2>3. EvidenceGrows
    BY <2>1, RecordEvaluationGrows, Zenon
  <2>4. CandidatesWork /\ PopulationsKeep
    BY <2>1, <2>2, RecordEvaluationWorks, KeepsPopulations
  <2>5. \E A : AttemptsEnd(A)
    <3>1. AttemptsEnd({}) \/ AttemptsEnd(SettledBy({c}))
      BY <2>1, RecordEvaluationEnds, Zenon
    <3> QED BY <3>1, Zenon
  <2> QED BY <2>2, <2>3, <2>4, <2>5 DEF WorkStep
<1> QED BY <1>1, <1>2, <1>3

\* The calls of workers, but authorize_attempt and publish_candidate.
LEMMA WorkerCallsWork ==
    ASSUME CoreInv, WorkerCall
    PROVE  \/ WorkStep
           \/ \E s \in sessions : authorize_attempt(s)
           \/ \E s \in sessions, a \in AttemptId : publish_candidate(s, a)
<1>1. ASSUME NEW w \in Worker, NEW b \in Boot, register_worker(w, b)
      PROVE  WorkStep
  <2>1. UNCHANGED <<ids, consumed, evaluations, populations>>
    BY <1>1 DEF register_worker
  <2>2. EvidenceGrows /\ PopulationsKeep
    BY <2>1, KeepsPopulations DEF EvidenceGrows
  <2>3. (\E A : AttemptsEnd(A)) /\ CandidatesWork
    <3>1. CASE UNCHANGED <<attempts, candidates, reserved>> /\ AttemptsEnd({})
      BY <3>1, KeepsCandidates, Zenon
    <3>2. CASE AttemptsEnd(OrphanedBy(w)) /\ candidates' = ReopenSlots(OrphanedBy(w))
      BY <3>2, ReopensSlots, Zenon
    <3> QED BY <1>1, <3>1, <3>2, RegisterWorkerEnds
  <2> QED BY <2>1, <2>2, <2>3 DEF WorkStep
<1>2. ASSUME NEW s \in sessions,
             worker_ready(s) \/ revalidate_worker(s) \/ reject_worker_session(s)
      PROVE  WorkStep
  <2>1. UNCHANGED <<ids, consumed, evaluations, populations, attempts, candidates, reserved>>
    BY <1>2 DEF worker_ready, revalidate_worker, reject_worker_session
  <2> QED BY <2>1, KeepsPopulations, KeepsAttempts, KeepsCandidates
          DEF WorkStep, EvidenceGrows
<1>3. ASSUME NEW s \in sessions, worker_disconnected(s)
      PROVE  WorkStep
  <2>1. UNCHANGED <<ids, consumed, evaluations, populations>>
    BY <1>3 DEF worker_disconnected
  <2>2. AttemptsEnd(LostWith(s)) /\ CandidatesWork
    BY <1>3, WorkerDisconnectedEnds, ReopensSlots
  <2> QED BY <2>1, <2>2, KeepsPopulations DEF WorkStep, EvidenceGrows
<1>4. ASSUME NEW s \in sessions, NEW a \in AttemptId,
             confirm_dispatch(s, a) \/ acknowledge_attempt(s, a)
      PROVE  WorkStep
  <2>1. UNCHANGED <<ids, consumed, evaluations, populations, candidates>>
    BY <1>4 DEF confirm_dispatch, acknowledge_attempt
  <2>2. AttemptsEnd({})
    BY <1>4, ConfirmDispatchEnds, AcknowledgeAttemptEnds
  <2> QED BY <2>1, <2>2, KeepsPopulations, KeepsCandidates DEF WorkStep, EvidenceGrows
<1>5. ASSUME NEW s \in sessions, NEW a \in AttemptId,
             abandon_dispatch(s, a) \/ report_attempt_failure(s, a)
      PROVE  WorkStep
  <2>1. UNCHANGED <<ids, consumed, evaluations, populations>>
    BY <1>5 DEF abandon_dispatch, report_attempt_failure
  <2> QED BY <1>5, <2>1, OneAttemptEnds, OneAttemptWorks, KeepsPopulations
          DEF WorkStep, EvidenceGrows
<1> QED BY <1>1, <1>2, <1>3, <1>4, <1>5 DEF WorkerCall

\* The calls of the operator, but create_population.
LEMMA OperatorCallsWork ==
    ASSUME CoreInv, OperatorCall PROVE WorkStep \/ create_population
<1>1. ASSUME revise_task \/ revise_policy
      PROVE  WorkStep
  <2>1. UNCHANGED <<ids, consumed, evaluations, populations, attempts, candidates, reserved>>
    BY <1>1 DEF revise_task, revise_policy
  <2> QED BY <2>1, KeepsPopulations, KeepsAttempts, KeepsCandidates
          DEF WorkStep, EvidenceGrows
<1>2. ASSUME NEW p \in PopulationId, NEW g, start_population(p, g)
      PROVE  WorkStep
  <2>1. UNCHANGED <<ids, consumed, evaluations, attempts, candidates, reserved>>
    BY <1>2 DEF start_population
  <2> QED BY <1>2, <2>1, MovingCallsKeep, KeepsAttempts, KeepsCandidates
          DEF WorkStep, EvidenceGrows
<1>3. ASSUME NEW p \in PopulationId, NEW g, cancel_population(p, g)
      PROVE  WorkStep
  <2>1. UNCHANGED <<ids, consumed, evaluations>>
    BY <1>3 DEF cancel_population
  <2> QED BY <1>3, <2>1, CancelPopulationKeeps, CancelPopulationEnds, CancelPopulationWorks
          DEF WorkStep, EvidenceGrows
<1>4. ASSUME NEW p \in PopulationId, NEW g, revalidate_population(p, g)
      PROVE  WorkStep
  <2>1. UNCHANGED <<ids, consumed, evaluations>>
    BY <1>4 DEF revalidate_population
  <2> QED BY <1>4, <2>1, MovingCallsKeep, RevalidatePopulationEnds, RevalidatePopulationWorks
          DEF WorkStep, EvidenceGrows
<1>5. ASSUME NEW p \in PopulationId, request_population_revalidation(p)
      PROVE  WorkStep
  <2>1. UNCHANGED <<ids, consumed, evaluations, attempts, reserved>>
    BY <1>5 DEF request_population_revalidation
  <2> QED BY <1>5, <2>1, MovingCallsKeep, KeepsAttempts, RequestRevalidationWorks
          DEF WorkStep, EvidenceGrows
<1>6. ASSUME NEW a \in AttemptId, cancel_attempt(a) \/ force_attempt_outcome_unknown(a)
      PROVE  WorkStep
  <2>1. UNCHANGED <<ids, consumed, evaluations, populations>>
    BY <1>6 DEF cancel_attempt, force_attempt_outcome_unknown
  <2> QED BY <1>6, <2>1, OneAttemptEnds, OneAttemptWorks, KeepsPopulations
          DEF WorkStep, EvidenceGrows
<1> QED BY <1>1, <1>2, <1>3, <1>4, <1>5, <1>6 DEF OperatorCall

\* The calls of controllers, but the commits and those that make a successor.
LEMMA ControllerCallsWork ==
    ASSUME CoreInv, CountersExact, ControllerCall
    PROVE  \/ WorkStep
           \/ \E x \in Controller : commit_selection(x) \/ commit_retention(x)
           \/ \E p \in PopulationId : create_successor(p) \/ advance_population(p)
<1>1. ASSUME NEW x \in Controller, NEW p \in PopulationId, prepare_selection(x, p)
      PROVE  WorkStep
  <2>1. UNCHANGED <<ids, consumed, evaluations, attempts, candidates, reserved>>
    BY <1>1 DEF prepare_selection
  <2> QED BY <1>1, <2>1, MovingCallsKeep, KeepsAttempts, KeepsCandidates
          DEF WorkStep, EvidenceGrows
<1>2. ASSUME NEW x \in Controller, NEW p \in PopulationId, prepare_retention(x, p)
      PROVE  WorkStep
  <2>1. UNCHANGED <<ids, consumed, evaluations, populations, attempts, candidates, reserved>>
    BY <1>2 DEF prepare_retention
  <2> QED BY <2>1, KeepsPopulations, KeepsAttempts, KeepsCandidates
          DEF WorkStep, EvidenceGrows
<1>3. ASSUME NEW p \in PopulationId, prepare_promotion_request(p)
      PROVE  WorkStep
  <2>1. UNCHANGED <<ids, consumed, evaluations, attempts, candidates, reserved>>
    BY <1>3 DEF prepare_promotion_request
  <2>2. populations[p].state # "Absent"
    <3>1. populations[p].committedSelection > 0
      BY <1>3 DEF prepare_promotion_request, SelectionCommitted
    <3> QED BY <3>1, AbsentIsBlank DEF NoPopulation
  <2> QED BY <1>3, <2>1, <2>2, MarkingCallsKeep, KeepsAttempts, KeepsCandidates
          DEF WorkStep, EvidenceGrows
<1>4. ASSUME NEW p \in PopulationId, close_population(p)
      PROVE  WorkStep
  <2>1. UNCHANGED <<ids, consumed, evaluations, attempts, candidates, reserved>>
    BY <1>4 DEF close_population
  <2> QED BY <1>4, <2>1, ClosePopulationKeeps, KeepsAttempts, KeepsCandidates
          DEF WorkStep, EvidenceGrows
<1> QED BY <1>1, <1>2, <1>3, <1>4 DEF ControllerCall

\* Every step is a work step or one of the seven calls that do more.
LEMMA StepKinds ==
    ASSUME CoreInv, CountersExact, [Next]_vars
    PROVE  \/ WorkStep
           \/ \E s \in sessions : authorize_attempt(s)
           \/ \E s \in sessions, a \in AttemptId : publish_candidate(s, a)
           \/ create_population
           \/ \E p \in PopulationId : create_successor(p) \/ advance_population(p)
           \/ \E x \in Controller : commit_selection(x)
           \/ \E x \in Controller : commit_retention(x)
<1>1. CASE recover
  <2>1. UNCHANGED <<ids, consumed, evaluations>>
    BY <1>1 DEF recover
  <2> QED BY <1>1, <2>1, RecoverEnds, RecoverWorks, RecoverKeeps DEF WorkStep, EvidenceGrows
<1>2. CASE UNCHANGED vars
  <2>1. UNCHANGED <<ids, consumed, evaluations, populations, attempts, candidates, reserved>>
    BY <1>2 DEF vars
  <2> QED BY <2>1, KeepsPopulations, KeepsAttempts, KeepsCandidates
          DEF WorkStep, EvidenceGrows
<1> QED BY <1>1, <1>2, WorkerCallsWork, EvaluatorCallsWork, OperatorCallsWork,
           ControllerCallsWork DEF Next

-----------------------------------------------------------------------------
(* The seven calls that do more. *)

\* Nothing but the state and the marks of the candidate changes.
SameOutput(r, s) ==
    SameSlot(r, s) /\ s.attemptCount = r.attemptCount /\ s.output = r.output

\* authorize_attempt takes slot c of population p, which has no open attempt ...
TakesSlot(p, c) ==
    /\ candidates[c].population = p
    /\ candidates[c].state \in {"Registered", "Producing"}
    /\ OpenAttemptsOf(c) = {}
    /\ SameSlot(candidates[c], candidates'[c])
    /\ candidates'[c].output = candidates[c].output
    /\ candidates[c].selected <=> candidates'[c].selected
    /\ ids'.candidate = ids.candidate
    /\ consumed' = consumed

\* ... or makes slot c, a child of the seed or the root of a lineage.
MakesSlot(p, c) ==
    /\ c = ids.candidate + 1 /\ ids'.candidate = c
    /\ candidates[c] = NoCandidate /\ candidates'[c].depth <= kMaxLineageDepth
    /\ LET seed == populations[p].seed
           s == candidates'[c]
       IN  /\ s.population = p /\ s.parent = seed /\ s.output = 0 /\ ~s.selected
           /\ s.populationGeneration = populations[p].generation
           /\ s.taskGeneration = populations[p].taskGeneration
           /\ seed = 0 => s.lineage = c /\ s.depth = 0
           /\ seed # 0 => /\ s.lineage = candidates[seed].lineage
                          /\ s.depth = candidates[seed].depth + 1
    /\ consumed' = [consumed EXCEPT ![p]["Candidates"] = consumed[p]["Candidates"] + 1]
    /\ HasCapacity(p, "Candidates")

\* What authorize_attempt does for session s: attempt a for slot c of p.
Authorizes(s, p, c, a) ==
    /\ a = ids.attempt + 1 /\ ids'.attempt = a /\ ids'.population = ids.population
    /\ attempts[a] = NoAttempt
    /\ ValidSession(s) /\ workers[s.worker].state = "Ready"
    /\ populations[p].state = "Running"
    /\ \A b \in AttemptId : b # a => attempts'[b] = attempts[b]
    /\ attempts'[a].state = "Authorized" /\ attempts'[a].holdsReservation
    /\ attempts'[a].population = p /\ attempts'[a].candidate = c
    /\ attempts'[a].worker = s.worker /\ attempts'[a].boot = s.boot
    /\ \A d \in CandidateId : d # c => candidates'[d] = candidates[d]
    /\ candidates'[c].state = "Producing"
    /\ TakesSlot(p, c) \/ MakesSlot(p, c)
    /\ workers' = [workers EXCEPT ![s.worker].state = "Busy", ![s.worker].active = a]
    /\ reserved' = Reserve(p, KindsOf(attempts'[a]))
    /\ \A k \in KindsOf(attempts'[a]) : HasCapacity(p, k)
    /\ UNCHANGED <<epoch, definitionVars, populations, evaluations, decisionVars, sessions>>

\* The attempt and the slot authorize_attempt stores.
LEMMA AuthorizeSlotDoes ==
    ASSUME CoreInv, CountersExact, NEW s \in sessions, NEW p \in PopulationId,
           NEW c \in CandidateId, NEW slot \in CandidateRecord, AuthorizeSlot(s, p, c, slot),
           NEW a, a = ids.attempt + 1
    PROVE  /\ a \in AttemptId /\ attempts[a] = NoAttempt
           /\ \A b \in AttemptId : b # a => attempts'[b] = attempts[b]
           /\ attempts'[a].state = "Authorized" /\ attempts'[a].holdsReservation
           /\ attempts'[a].population = p /\ attempts'[a].candidate = c
           /\ attempts'[a].worker = s.worker /\ attempts'[a].boot = s.boot
           /\ attempts'[a].retry = (slot.attemptCount > 0)
           /\ \A d \in CandidateId : d # c => candidates'[d] = candidates[d]
           /\ candidates'[c].state = "Producing"
           /\ SameSlot(slot, candidates'[c]) /\ candidates'[c].output = slot.output
           /\ candidates'[c].selected = slot.selected
           /\ workers' = [workers EXCEPT ![s.worker].state = "Busy", ![s.worker].active = a]
           /\ reserved' = Reserve(p, KindsOf(attempts'[a]))
<1> DEFINE retry == slot.attemptCount > 0
           attempt == [NoAttempt EXCEPT
                        !.state = "Authorized", !.population = p, !.candidate = c,
                        !.worker = s.worker, !.boot = s.boot,
                        !.retry = retry, !.holdsReservation = TRUE]
           n == slot.attemptCount + 1
<1>1. /\ a \in AttemptId
      /\ attempts' = [attempts EXCEPT ![a] = attempt]
      /\ candidates' = [candidates EXCEPT ![c] =
             [slot EXCEPT !.state = "Producing", !.attemptCount = n]]
      /\ workers' = [workers EXCEPT ![s.worker].state = "Busy", ![s.worker].active = a]
      /\ reserved' = Reserve(p, KindsOf(attempt))
  BY DEF AuthorizeSlot
<1> HIDE DEF n, retry
<1>2. /\ attempt.state = "Authorized" /\ attempt.holdsReservation
      /\ attempt.population = p /\ attempt.candidate = c
      /\ attempt.worker = s.worker /\ attempt.boot = s.boot /\ attempt.retry = retry
  BY DEF NoAttempt
<1> HIDE DEF attempt
<1>3. /\ attempts \in [AttemptId -> AttemptRecord]
      /\ candidates \in [CandidateId -> CandidateRecord]
  BY DEF CoreInv, TypeOK
<1>4. attempts'[a] = attempt /\ \A b \in AttemptId : b # a => attempts'[b] = attempts[b]
  BY <1>1, <1>3
<1>5. /\ candidates'[c] = [slot EXCEPT !.state = "Producing", !.attemptCount = n]
      /\ \A d \in CandidateId : d # c => candidates'[d] = candidates[d]
  BY <1>1, <1>3
<1>6. /\ candidates'[c].state = "Producing" /\ SameSlot(slot, candidates'[c])
      /\ candidates'[c].output = slot.output /\ candidates'[c].selected = slot.selected
  BY <1>5 DEF CandidateRecord, SameSlot
<1>7. attempts[a] = NoAttempt
  <2>1. ids.attempt \in Nat
    BY DEF CoreInv, TypeOK, IdCounters
  <2> QED BY <1>1, <2>1 DEF CountersExact
<1> QED BY <1>1, <1>2, <1>4, <1>5, <1>6, <1>7, Zenon DEF retry

\* authorize_attempt takes or makes a slot, and every kind it reserves has
\* capacity.
LEMMA AuthorizeAttemptDoes ==
    ASSUME CoreInv, CountersExact, NEW s \in sessions, authorize_attempt(s)
    PROVE  \E p \in PopulationId, c \in CandidateId, a \in AttemptId : Authorizes(s, p, c, a)
<1> DEFINE a == ids.attempt + 1
<1>0. TypeOK /\ ids \in IdCounters
  BY DEF CoreInv, TypeOK
<1>1. PICK p \in PopulationId :
         /\ DispatchPopulation(p)
         /\ \/ /\ DispatchVerdict(p) = "dispatch"
               /\ AuthorizeSlot(s, p, FirstSlot(p), candidates[FirstSlot(p)])
               /\ ids' = [ids EXCEPT !.attempt = @ + 1]
               /\ UNCHANGED consumed
            \/ /\ DispatchVerdict(p) = "create"
               /\ ids.candidate + 1 \in CandidateId
               /\ AuthorizeSlot(s, p, ids.candidate + 1, NewSlot(p, ids.candidate + 1))
               /\ ids' = [ids EXCEPT !.attempt = @ + 1, !.candidate = @ + 1]
               /\ consumed' = [consumed EXCEPT ![p]["Candidates"] = @ + 1]
  BY DEF authorize_attempt
<1>2. /\ ValidSession(s) /\ workers[s.worker].state = "Ready"
      /\ UNCHANGED <<epoch, definitionVars, populations, evaluations, decisionVars, sessions>>
  BY DEF authorize_attempt, AcceptsDispatch
<1>3. CASE DispatchVerdict(p) = "dispatch"
  <2> DEFINE c == FirstSlot(p)
  <2>1. /\ AuthorizeSlot(s, p, c, candidates[c])
        /\ ids' = [ids EXCEPT !.attempt = a]
        /\ UNCHANGED consumed
    BY <1>1, <1>3
  <2>2. /\ OpenSlots(p) # {} /\ populations[p].state = "Running"
        /\ \A k \in {"CandidateAttempts", "WorkerAssignments", "ActiveAttempts"} :
              HasCapacity(p, k)
        /\ candidates[c].attemptCount > 0 => HasCapacity(p, "Retries")
    BY <1>3 DEF DispatchVerdict
  <2>3. c \in OpenSlots(p) /\ c \in CandidateId
    <3>1. OpenSlots(p) \in SUBSET CandidateId /\ CandidateId \in SUBSET Nat
      BY DEF OpenSlots, CandidatesOf, CandidateId
    <3>2. \E d \in OpenSlots(p) : \A e \in OpenSlots(p) : d <= e
      BY <2>2, <3>1, LeastNatural, Zenon
    <3> QED BY <3>1, <3>2 DEF FirstSlot
  <2>4. /\ candidates[c].population = p /\ OpenAttemptsOf(c) = {}
        /\ candidates[c].state \in {"Registered", "Producing"}
        /\ candidates[c] \in CandidateRecord
    BY <1>0, <2>3 DEF OpenSlots, CandidatesOf, TypeOK
  <2> HIDE DEF c
  <2>5. /\ ids'.attempt = a /\ ids'.candidate = ids.candidate
        /\ ids'.population = ids.population
    BY <1>0, <2>1 DEF IdCounters
  <2> HIDE DEF a
  <2>6. /\ a \in AttemptId /\ attempts[a] = NoAttempt
        /\ \A b \in AttemptId : b # a => attempts'[b] = attempts[b]
        /\ attempts'[a].state = "Authorized" /\ attempts'[a].holdsReservation
        /\ attempts'[a].population = p /\ attempts'[a].candidate = c
        /\ attempts'[a].worker = s.worker /\ attempts'[a].boot = s.boot
        /\ attempts'[a].retry = (candidates[c].attemptCount > 0)
        /\ \A d \in CandidateId : d # c => candidates'[d] = candidates[d]
        /\ candidates'[c].state = "Producing"
        /\ SameSlot(candidates[c], candidates'[c])
        /\ candidates'[c].output = candidates[c].output
        /\ candidates'[c].selected = candidates[c].selected
        /\ workers' = [workers EXCEPT ![s.worker].state = "Busy", ![s.worker].active = a]
        /\ reserved' = Reserve(p, KindsOf(attempts'[a]))
    <3>1. a = ids.attempt + 1
      BY DEF a
    <3> QED BY <2>1, <2>3, <2>4, <3>1, AuthorizeSlotDoes
  <2>7. \A k \in KindsOf(attempts'[a]) : HasCapacity(p, k)
    BY <2>2, <2>6 DEF KindsOf
  <2>8. TakesSlot(p, c)
    BY <2>1, <2>4, <2>5, <2>6, Zenon DEF TakesSlot
  <2>9. a = ids.attempt + 1
    BY DEF a
  <2>10. Authorizes(s, p, c, a)
    BY <1>2, <2>2, <2>5, <2>6, <2>7, <2>8, <2>9, Zenon DEF Authorizes
  <2> QED BY <2>3, <2>6, <2>10
<1>4. CASE DispatchVerdict(p) = "create"
  <2> DEFINE c == ids.candidate + 1
  <2>1. /\ c \in CandidateId
        /\ AuthorizeSlot(s, p, c, NewSlot(p, c))
        /\ ids' = [ids EXCEPT !.attempt = a, !.candidate = c]
        /\ consumed' = [consumed EXCEPT ![p]["Candidates"] = consumed[p]["Candidates"] + 1]
    <3>1. /\ c \in CandidateId
          /\ AuthorizeSlot(s, p, c, NewSlot(p, c))
          /\ ids' = [ids EXCEPT !.attempt = a, !.candidate = c]
          /\ consumed' = [consumed EXCEPT ![p]["Candidates"] = @ + 1]
      BY <1>1, <1>4
    <3> QED BY <3>1, Zenon
  <2>2. /\ populations[p].state = "Running"
        /\ \A k \in BudgetKind \ {"Retries"} : HasCapacity(p, k)
    BY <1>4 DEF DispatchVerdict
  <2>3. NewSlot(p, c) \in CandidateRecord
    BY <1>0, <2>1, NewSlotType
  <2>4. candidates[c] = NoCandidate
    BY <1>0, <2>1 DEF CountersExact, IdCounters
  <2>5. /\ ids'.attempt = a /\ ids'.candidate = c
        /\ ids'.population = ids.population
    BY <1>0, <2>1 DEF IdCounters
  <2>6. c = ids.candidate + 1
    OBVIOUS
  <2> HIDE DEF a, c
  <2>7. /\ a \in AttemptId /\ attempts[a] = NoAttempt
        /\ \A b \in AttemptId : b # a => attempts'[b] = attempts[b]
        /\ attempts'[a].state = "Authorized" /\ attempts'[a].holdsReservation
        /\ attempts'[a].population = p /\ attempts'[a].candidate = c
        /\ attempts'[a].worker = s.worker /\ attempts'[a].boot = s.boot
        /\ attempts'[a].retry = (NewSlot(p, c).attemptCount > 0)
        /\ \A d \in CandidateId : d # c => candidates'[d] = candidates[d]
        /\ candidates'[c].state = "Producing"
        /\ SameSlot(NewSlot(p, c), candidates'[c])
        /\ candidates'[c].output = NewSlot(p, c).output
        /\ candidates'[c].selected = NewSlot(p, c).selected
        /\ workers' = [workers EXCEPT ![s.worker].state = "Busy", ![s.worker].active = a]
        /\ reserved' = Reserve(p, KindsOf(attempts'[a]))
    <3>1. a = ids.attempt + 1
      BY DEF a
    <3> QED BY <2>1, <2>3, <3>1, AuthorizeSlotDoes
  <2>8. LET slot == NewSlot(p, c)
            seed == populations[p].seed
        IN  /\ slot.population = p /\ slot.parent = seed /\ slot.output = 0
            /\ slot.selected = FALSE /\ slot.attemptCount = 0
            /\ slot.populationGeneration = populations[p].generation
            /\ slot.taskGeneration = populations[p].taskGeneration
            /\ seed = 0 => slot.lineage = c /\ slot.depth = 0
            /\ seed # 0 => /\ slot.lineage = candidates[seed].lineage
                           /\ slot.depth = candidates[seed].depth + 1
    BY DEF NewSlot, SlotDepth, NoCandidate
  <2>9. \A k \in KindsOf(attempts'[a]) : HasCapacity(p, k)
    <3>1. ~(NewSlot(p, c).attemptCount > 0)
      BY <2>8
    <3>2. ~attempts'[a].retry
      BY <2>7, <3>1, Zenon
    <3> QED BY <2>2, <3>2 DEF KindsOf, BudgetKind
  <2>10. HasCapacity(p, "Candidates")
    BY <2>2 DEF BudgetKind
  <2>11. MakesSlot(p, c)
    <3>1. SlotDepth(p) <= kMaxLineageDepth
      BY <1>4 DEF DispatchVerdict
    <3>2. NewSlot(p, c).depth = SlotDepth(p)
      BY DEF NewSlot, NoCandidate
    <3>3. candidates'[c].depth <= kMaxLineageDepth
      BY <2>7, <3>1, <3>2, Zenon DEF SameSlot
    <3> QED BY <2>1, <2>4, <2>5, <2>6, <2>7, <2>8, <2>10, <3>3, Zenon DEF MakesSlot, SameSlot
  <2>12. a = ids.attempt + 1
    BY DEF a
  <2>13. Authorizes(s, p, c, a)
    BY <1>2, <2>2, <2>5, <2>7, <2>9, <2>11, <2>12, Zenon DEF Authorizes
  <2> QED BY <2>1, <2>7, <2>13
<1> QED BY <1>1, <1>3, <1>4

\* What publish_candidate does to attempt a of slot c.
Publishes(s, a, c) ==
    /\ attempts[a].state \in {"Running", "Dispatched"}
    /\ attempts[a].worker = s.worker /\ LivePopulation(attempts[a].population)
    /\ attempts[a].candidate = c
    /\ candidates[c].output = 0 /\ candidates[c].state \in {"Producing", "Published"}
    /\ \A b \in AttemptId : b # a => attempts'[b] = attempts[b]
    /\ SameAttempt(attempts[a], attempts'[a])
    /\ attempts'[a].state = "Published" /\ ~attempts'[a].holdsReservation
    /\ \A d \in CandidateId : d # c => candidates'[d] = candidates[d]
    /\ SameSlot(candidates[c], candidates'[c])
    /\ candidates'[c].output = a /\ candidates'[c].state = "Published"
    /\ candidates[c].selected <=> candidates'[c].selected
    /\ UNCHANGED <<epoch, definitionVars, ids, evaluations, decisionVars>>

\* publish_candidate gives the slot its output.
LEMMA PublishCandidateDoes ==
    ASSUME CoreInv, NEW s, NEW a \in AttemptId, NEW c \in CandidateId,
           attempts[a].candidate = c, publish_candidate(s, a)
    PROVE  Publishes(s, a, c)
<1>1. /\ attempts[a].state \in {"Running", "Dispatched"}
      /\ attempts[a].worker = s.worker /\ LivePopulation(attempts[a].population)
      /\ candidates[c].output = 0 /\ CandidateLegal(candidates[c].state, "Published")
      /\ candidates' = [candidates EXCEPT ![c].output = a, ![c].state = "Published"]
      /\ attempts' = [attempts EXCEPT ![a].state = "Published",
                                      ![a].holdsReservation = FALSE]
      /\ UNCHANGED <<epoch, definitionVars, ids, evaluations, decisionVars>>
  BY DEF publish_candidate, AcceptsPublication, ValidOperation
<1>2. candidates[c].state \in {"Producing", "Published"}
  BY <1>1 DEF CandidateLegal, CandidateTransition
<1>3. /\ attempts \in [AttemptId -> AttemptRecord]
      /\ candidates \in [CandidateId -> CandidateRecord]
  BY DEF CoreInv, TypeOK
<1>4. /\ \A b \in AttemptId : b # a => attempts'[b] = attempts[b]
      /\ SameAttempt(attempts[a], attempts'[a])
      /\ attempts'[a].state = "Published" /\ ~attempts'[a].holdsReservation
  BY <1>1, <1>3 DEF AttemptRecord, SameAttempt
<1>5. /\ \A d \in CandidateId : d # c => candidates'[d] = candidates[d]
      /\ SameSlot(candidates[c], candidates'[c])
      /\ candidates'[c].output = a /\ candidates'[c].state = "Published"
      /\ candidates'[c].selected = candidates[c].selected
  BY <1>1, <1>3 DEF CandidateRecord, SameSlot
<1> QED BY <1>1, <1>2, <1>4, <1>5, Zenon DEF Publishes

\* A new population q of the given index that descends from seed.
MakesPopulation(q, index, seed) ==
    /\ q = ids.population + 1 /\ ids'.population = q /\ ids'.attempt = ids.attempt
    /\ populations[q] = NoPopulation
    /\ \A r \in PopulationId : r # q => populations'[r] = populations[r]
    /\ LET s == populations'[q]
       IN  /\ s.state = "Created" /\ s.generation = 1 /\ s.index = index /\ s.seed = seed
           /\ s.taskGeneration = taskGeneration /\ s.policyGeneration = policyGeneration
           /\ s.committedSelection = 0 /\ ~s.retentionCommitted
    /\ UNCHANGED <<epoch, definitionVars, attempts, evaluations, reserved, decisionVars,
                   workerVars>>

\* The record that makes it.
LEMMA NewPopulationDoes ==
    ASSUME CoreInv, CountersExact, NEW q \in PopulationId, NEW index, NEW seed,
           q = ids.population + 1, ids'.population = q, ids'.attempt = ids.attempt,
           populations' = [populations EXCEPT ![q] = NewPopulation(index, seed)],
           UNCHANGED <<epoch, definitionVars, attempts, evaluations, reserved, decisionVars,
                       workerVars>>
    PROVE  MakesPopulation(q, index, seed)
<1>1. populations \in [PopulationId -> PopulationRecord] /\ ids.population \in Nat
  BY DEF CoreInv, TypeOK, IdCounters
<1>2. populations[q] = NoPopulation
  BY <1>1 DEF CountersExact
<1>3. /\ \A r \in PopulationId : r # q => populations'[r] = populations[r]
      /\ populations'[q] = NewPopulation(index, seed)
  BY <1>1
<1>4. LET s == NewPopulation(index, seed)
      IN  /\ s.state = "Created" /\ s.generation = 1 /\ s.index = index /\ s.seed = seed
          /\ s.taskGeneration = taskGeneration /\ s.policyGeneration = policyGeneration
          /\ s.committedSelection = 0 /\ s.retentionCommitted = FALSE
  BY DEF NewPopulation, NoPopulation
<1> QED BY <1>2, <1>3, <1>4, Zenon DEF MakesPopulation

\* create_population makes a population without a seed.
LEMMA CreatePopulationDoes ==
    ASSUME CoreInv, CountersExact, create_population
    PROVE  \E q \in PopulationId : /\ MakesPopulation(q, 1, 0)
                                   /\ ids'.candidate = ids.candidate
                                   /\ UNCHANGED <<candidates, consumed>>
<1> DEFINE q == ids.population + 1
<1>1. /\ q \in PopulationId /\ ids' = [ids EXCEPT !.population = q]
      /\ populations' = [populations EXCEPT ![q] = NewPopulation(1, 0)]
      /\ UNCHANGED <<epoch, definitionVars, candidates, attempts, evaluations,
                     ledgerVars, decisionVars, workerVars>>
  BY DEF create_population
<1>2. /\ ids'.population = q /\ ids'.attempt = ids.attempt
      /\ ids'.candidate = ids.candidate
  BY <1>1 DEF CoreInv, TypeOK, IdCounters
<1>3. MakesPopulation(q, 1, 0)
  BY <1>1, <1>2, NewPopulationDoes
<1> QED BY <1>1, <1>2, <1>3

\* The elite candidate e of population q: the winner's output, one deeper.
MakesElite(q, e, w) ==
    /\ e = ids.candidate + 1 /\ ids'.candidate = e
    /\ candidates[e] = NoCandidate
    /\ \A d \in CandidateId : d # e => candidates'[d] = candidates[d]
    /\ LET s == candidates'[e]
       IN  /\ s.state = "Published" /\ s.population = q /\ s.populationGeneration = 1
           /\ s.taskGeneration = taskGeneration /\ s.parent = w
           /\ s.lineage = candidates[w].lineage /\ s.depth = candidates[w].depth + 1
           /\ s.output = candidates[w].output /\ ~s.selected
    /\ consumed' = [consumed EXCEPT ![q]["Candidates"] = consumed[q]["Candidates"] + 1]

\* What create_successor(p) and advance_population(p) do: successor q of p,
\* seeded with its winner.
Advances(p, q, w) ==
    /\ populations[p].state = "Closed"
    /\ selections[p].state = "Committed" /\ w = selections[p].selected
    /\ MakesPopulation(q, populations[p].index + 1, w)
    /\ \/ /\ populations[p].index < MaxGenerationDepth
          /\ \E e \in CandidateId : MakesElite(q, e, w)
       \/ ids'.candidate = ids.candidate /\ UNCHANGED <<candidates, consumed>>

\* create_population of a later index.
LEMMA CreateSuccessorDoes ==
    ASSUME CoreInv, CountersExact, NEW p \in PopulationId, create_successor(p)
    PROVE  \E q \in PopulationId, w \in CandidateId : Advances(p, q, w)
<1> DEFINE q == ids.population + 1
           w == selections[p].selected
           index == populations[p].index + 1
<1>1. /\ populations[p].state = "Closed"
      /\ selections[p].state = "Committed" /\ w # 0 /\ q \in PopulationId
      /\ populations' = [populations EXCEPT ![q] = NewPopulation(index, w)]
      /\ ids' = [ids EXCEPT !.population = q]
      /\ UNCHANGED <<candidates, consumed>>
      /\ UNCHANGED <<epoch, definitionVars, attempts, evaluations, reserved, decisionVars,
                     workerVars>>
  BY Zenon DEF create_successor, ledgerVars
<1>2. ids \in IdCounters /\ w \in CandidateId
  BY <1>1 DEF CoreInv, TypeOK, SelectionDecision
<1>3. /\ ids'.population = q /\ ids'.attempt = ids.attempt
      /\ ids'.candidate = ids.candidate
  BY <1>1, <1>2 DEF IdCounters
<1>4. MakesPopulation(q, index, w)
  BY <1>1, <1>3, NewPopulationDoes
<1>5. Advances(p, q, w)
  BY <1>1, <1>3, <1>4, Zenon DEF Advances
<1> QED BY <1>1, <1>2, <1>5

\* advance_population.
LEMMA AdvancePopulationDoes ==
    ASSUME CoreInv, CountersExact, NEW p \in PopulationId, advance_population(p)
    PROVE  \E q \in PopulationId, w \in CandidateId : Advances(p, q, w)
<1> DEFINE q == ids.population + 1
           w == selections[p].selected
           e == ids.candidate + 1
           index == populations[p].index + 1
<1>1. /\ populations[p].state = "Closed" /\ populations[p].index < MaxGenerationDepth
      /\ selections[p].state = "Committed" /\ w # 0 /\ q \in PopulationId
      /\ populations' = [populations EXCEPT ![q] = NewPopulation(index, w)]
      /\ \/ /\ e \in CandidateId
            /\ candidates' = [candidates EXCEPT ![e] = EliteCandidate(q, w)]
            /\ consumed' = [consumed EXCEPT ![q]["Candidates"] =
                                               consumed[q]["Candidates"] + 1]
            /\ ids' = [ids EXCEPT !.population = q, !.candidate = e]
         \/ /\ ids' = [ids EXCEPT !.population = q]
            /\ UNCHANGED <<candidates, consumed>>
      /\ UNCHANGED <<epoch, definitionVars, attempts, evaluations, reserved, decisionVars,
                     workerVars>>
  BY Zenon DEF advance_population
<1>2. /\ ids \in IdCounters /\ w \in CandidateId
      /\ candidates \in [CandidateId -> CandidateRecord]
  BY <1>1 DEF CoreInv, TypeOK, SelectionDecision
<1>3. /\ ids'.population = q /\ ids'.attempt = ids.attempt
      /\ ids' = [ids EXCEPT !.population = q, !.candidate = e] => ids'.candidate = e
      /\ ids' = [ids EXCEPT !.population = q] => ids'.candidate = ids.candidate
  BY <1>1, <1>2 DEF IdCounters
<1>4. e \in CandidateId => candidates[e] = NoCandidate
  BY <1>2 DEF CountersExact, IdCounters
<1>5. q = ids.population + 1 /\ e = ids.candidate + 1
  OBVIOUS
<1> HIDE DEF q, e, w, index
<1>6. MakesPopulation(q, index, w)
  BY <1>1, <1>3, <1>5, NewPopulationDoes
<1>7. CASE /\ e \in CandidateId
           /\ candidates' = [candidates EXCEPT ![e] = EliteCandidate(q, w)]
           /\ consumed' = [consumed EXCEPT ![q]["Candidates"] = consumed[q]["Candidates"] + 1]
           /\ ids'.candidate = e
  <2>1. /\ \A d \in CandidateId : d # e => candidates'[d] = candidates[d]
        /\ candidates'[e] = EliteCandidate(q, w)
    BY <1>2, <1>7
  <2>2. LET s == EliteCandidate(q, w)
        IN  /\ s.state = "Published" /\ s.population = q /\ s.populationGeneration = 1
            /\ s.taskGeneration = taskGeneration /\ s.parent = w
            /\ s.lineage = candidates[w].lineage /\ s.depth = candidates[w].depth + 1
            /\ s.output = candidates[w].output /\ s.selected = FALSE
    BY DEF EliteCandidate, NoCandidate
  <2>3. MakesElite(q, e, w)
    BY <1>4, <1>5, <1>7, <2>1, <2>2, Zenon DEF MakesElite
  <2>4. w = selections[p].selected /\ index = populations[p].index + 1
    BY DEF w, index
  <2>5. Advances(p, q, w)
    BY <1>1, <1>6, <1>7, <2>3, <2>4, Zenon DEF Advances
  <2> QED BY <1>1, <1>2, <2>5
<1>8. CASE ids'.candidate = ids.candidate /\ UNCHANGED <<candidates, consumed>>
  <2>1. w = selections[p].selected /\ index = populations[p].index + 1
    BY DEF w, index
  <2>2. Advances(p, q, w)
    BY <1>1, <1>6, <1>8, <2>1, Zenon DEF Advances
  <2> QED BY <1>1, <1>2, <2>2
<1> QED BY <1>1, <1>3, <1>7, <1>8

\* commit_selection takes the mark from every candidate of p but w.
Unmarks(p, w) ==
    \A c \in CandidateId : c # w =>
        /\ candidates[c].population # p => candidates'[c] = candidates[c]
        /\ candidates[c].population = p => /\ SameOutput(candidates[c], candidates'[c])
                                           /\ candidates'[c].state = candidates[c].state
                                           /\ ~candidates'[c].selected

\* The winner's transition was refused, or it is made.
RefusesWinner(d) ==
    /\ Unmarks(d.population, d.selected)
    /\ d.selected \in CandidateId => candidates'[d.selected] = candidates[d.selected]
    /\ UNCHANGED <<populations, selections>>
InstallsWinner(d) ==
    LET p == d.population
        w == d.selected
        g == populations[p].committedSelection + 1
    IN  /\ Unmarks(p, w)
        /\ w \in CandidateId =>
              /\ SameOutput(candidates[w], candidates'[w])
              /\ candidates'[w].state = "Selected" /\ candidates'[w].selected
              /\ candidates[w].state \in {"Published", "Evaluating", "Evaluated",
                                          "Selected", "Retained"}
              /\ candidates[w].state \in {"Published", "Evaluating"} =>
                    \A k \in Mandatory : RequirementComplete(evaluations, w, k)
        /\ \A q \in PopulationId : q # p => /\ populations'[q] = populations[q]
                                            /\ selections'[q] = selections[q]
        /\ p \in PopulationId =>
              /\ populations'[p] = [populations[p] EXCEPT !.committedSelection = g,
                                                          !.state = "Advancing"]
              /\ selections'[p] = [d EXCEPT !.state = "Committed", !.generation = g]

\* commit_selection installs the winner of the held decision or refuses it.
LEMMA CommitSelectionDoes ==
    ASSUME CoreInv, NEW x \in Controller, commit_selection(x)
    PROVE  /\ SelectionIsCurrent(heldSelection[x])
           /\ RefusesWinner(heldSelection[x]) \/ InstallsWinner(heldSelection[x])
           /\ UNCHANGED <<epoch, definitionVars, ids, attempts, evaluations, ledgerVars,
                          retentions, promotions, heldSelection, heldRetention, workerVars>>
<1> DEFINE d == heldSelection[x]
           p == d.population
           w == d.selected
           cleared == ClearMarks(p, w)
           g == populations[p].committedSelection + 1
<1>1. \/ candidates' = cleared /\ UNCHANGED <<populations, selections>>
      \/ /\ w # 0 => CandidateLegal(CaughtUp(w).state, "Selected")
         /\ candidates' = [c \in CandidateId |->
                IF c = w
                THEN [candidates[c] EXCEPT !.state = "Selected", !.selected = TRUE]
                ELSE cleared[c]]
         /\ populations' = [populations EXCEPT
                ![p].committedSelection = g, ![p].state = "Advancing"]
         /\ selections' = [selections EXCEPT
                ![p] = [d EXCEPT !.state = "Committed", !.generation = g]]
  BY Zenon DEF commit_selection
<1>2. /\ SelectionIsCurrent(d)
      /\ UNCHANGED <<epoch, definitionVars, ids, attempts, evaluations, ledgerVars,
                     retentions, promotions, heldSelection, heldRetention, workerVars>>
  BY Zenon DEF commit_selection
<1>3. /\ candidates \in [CandidateId -> CandidateRecord]
      /\ populations \in [PopulationId -> PopulationRecord]
      /\ selections \in [PopulationId -> SelectionDecision]
  BY DEF CoreInv, TypeOK
<1>4. \A r \in CandidateRecord : LET s == [r EXCEPT !.selected = FALSE]
                                 IN  SameOutput(r, s) /\ s.state = r.state /\ ~s.selected
  BY DEF CandidateRecord, SameOutput, SameSlot
<1>5. \A r \in CandidateRecord : LET s == [r EXCEPT !.state = "Selected", !.selected = TRUE]
                                 IN  SameOutput(r, s) /\ s.state = "Selected" /\ s.selected
  BY DEF CandidateRecord, SameOutput, SameSlot
<1>6. \A c \in CandidateId :
         /\ cleared[c] = IF candidates[c].population = p /\ c # w
                         THEN [candidates[c] EXCEPT !.selected = FALSE] ELSE candidates[c]
  BY DEF ClearMarks, CandidatesOf
<1> HIDE DEF cleared, g
<1>7. ASSUME \A c \in CandidateId : c # w => candidates'[c] = cleared[c]
      PROVE  Unmarks(p, w)
  <2> SUFFICES ASSUME NEW c \in CandidateId, c # w
               PROVE  /\ candidates[c].population # p => candidates'[c] = candidates[c]
                      /\ candidates[c].population = p =>
                            /\ SameOutput(candidates[c], candidates'[c])
                            /\ candidates'[c].state = candidates[c].state
                            /\ ~candidates'[c].selected
    BY DEF Unmarks
  <2>1. CASE candidates[c].population # p
    BY <1>6, <1>7, <2>1
  <2>2. CASE candidates[c].population = p
    <3>1. candidates'[c] = [candidates[c] EXCEPT !.selected = FALSE]
      BY <1>6, <1>7, <2>2
    <3> QED BY <1>3, <1>4, <2>2, <3>1
  <2> QED BY <2>1, <2>2
<1>8. CASE candidates' = cleared /\ UNCHANGED <<populations, selections>>
  <2>1. Unmarks(p, w)
    BY <1>7, <1>8
  <2>2. w \in CandidateId => candidates'[w] = candidates[w]
    BY <1>6, <1>8
  <2> QED BY <1>2, <1>8, <2>1, <2>2 DEF RefusesWinner
<1>9. CASE /\ w # 0 => CandidateLegal(CaughtUp(w).state, "Selected")
           /\ candidates' = [c \in CandidateId |->
                  IF c = w
                  THEN [candidates[c] EXCEPT !.state = "Selected", !.selected = TRUE]
                  ELSE cleared[c]]
           /\ populations' = [populations EXCEPT
                  ![p].committedSelection = g, ![p].state = "Advancing"]
           /\ selections' = [selections EXCEPT
                  ![p] = [d EXCEPT !.state = "Committed", !.generation = g]]
  <2>1. Unmarks(p, w)
    BY <1>7, <1>9
  <2>2. ASSUME w \in CandidateId
        PROVE  /\ SameOutput(candidates[w], candidates'[w])
               /\ candidates'[w].state = "Selected" /\ candidates'[w].selected
    <3>1. candidates'[w] = [candidates[w] EXCEPT !.state = "Selected", !.selected = TRUE]
      BY <1>9, <2>2
    <3> QED BY <1>3, <1>5, <2>2, <3>1
  <2>3. ASSUME w \in CandidateId
        PROVE  /\ candidates[w].state \in {"Published", "Evaluating", "Evaluated",
                                           "Selected", "Retained"}
               /\ candidates[w].state \in {"Published", "Evaluating"} =>
                     \A k \in Mandatory : RequirementComplete(evaluations, w, k)
    <3>1. w # 0
      BY <2>3 DEF CandidateId
    <3>2. CandidateLegal(CaughtUp(w).state, "Selected")
      BY <1>9, <3>1
    <3>3. CaughtUp(w).state \in {"Evaluated", "Selected", "Retained"}
      BY <3>2 DEF CandidateLegal, CandidateTransition
    <3>4. candidates[w] \in CandidateRecord
      BY <1>3, <2>3
    <3>5. CASE \A k \in Mandatory : RequirementComplete(evaluations, w, k)
      <4>1. CaughtUp(w) = SettledCandidate(candidates[w])
        BY <3>5, Zenon DEF CaughtUp
      <4> QED BY <3>3, <3>4, <3>5, <4>1 DEF SettledCandidate
    <3>6. CASE ~\A k \in Mandatory : RequirementComplete(evaluations, w, k)
      <4>1. CaughtUp(w) = candidates[w]
        BY <3>6, Zenon DEF CaughtUp
      <4> QED BY <3>3, <4>1
    <3> QED BY <3>5, <3>6
  <2>4. /\ \A q \in PopulationId : q # p => /\ populations'[q] = populations[q]
                                            /\ selections'[q] = selections[q]
        /\ p \in PopulationId =>
              /\ populations'[p] = [populations[p] EXCEPT !.committedSelection = g,
                                                          !.state = "Advancing"]
              /\ selections'[p] = [d EXCEPT !.state = "Committed", !.generation = g]
    BY <1>3, <1>9
  <2>5. InstallsWinner(d)
    BY <2>1, <2>2, <2>3, <2>4, Zenon DEF InstallsWinner, g
  <2> QED BY <1>2, <2>5
<1> QED BY <1>1, <1>8, <1>9

\* commit_retention retires candidates that are settled, and marks others.
Retires(d) ==
    \A c \in CandidateId :
        /\ c \notin d.retained /\ candidates[c].state = "Absent" =>
              candidates'[c] = candidates[c]
        /\ SameOutput(candidates[c], candidates'[c])
        /\ candidates[c].selected <=> candidates'[c].selected
        /\ \/ candidates'[c].state = candidates[c].state
           \/ /\ candidates'[c].state = "Retired"
              /\ candidates[c].state \in {"Evaluated", "RevalidationRequired", "Selected",
                                          "Retained"}

\* commit_retention.
LEMMA CommitRetentionDoes ==
    ASSUME CoreInv, NEW x \in Controller, commit_retention(x)
    PROVE  /\ RetentionIsCurrent(heldRetention[x]) /\ Retires(heldRetention[x])
           /\ UNCHANGED <<epoch, definitionVars, ids, attempts, evaluations, ledgerVars,
                          selections, promotions, heldSelection, heldRetention, workerVars>>
<1> DEFINE d == heldRetention[x]
           p == d.population
<1>1. candidates' = [c \in CandidateId |->
           CASE c \in d.retained -> [candidates[c] EXCEPT !.retained = TRUE]
             [] /\ c \in d.retired \ d.retained
                /\ c # selections[p].selected
                /\ CandidateLegal(candidates[c].state, "Retired") ->
                   [candidates[c] EXCEPT !.state = "Retired"]
             [] OTHER -> candidates[c]]
  BY Zenon DEF commit_retention
<1>2. /\ RetentionIsCurrent(d)
      /\ UNCHANGED <<epoch, definitionVars, ids, attempts, evaluations, ledgerVars,
                     selections, promotions, heldSelection, heldRetention, workerVars>>
  BY Zenon DEF commit_retention
<1> HIDE DEF d, p
<1>3. Retires(d)
  <2> SUFFICES ASSUME NEW c \in CandidateId
               PROVE  /\ c \notin d.retained /\ candidates[c].state = "Absent" =>
                            candidates'[c] = candidates[c]
                      /\ SameOutput(candidates[c], candidates'[c])
                      /\ candidates[c].selected <=> candidates'[c].selected
                      /\ \/ candidates'[c].state = candidates[c].state
                         \/ /\ candidates'[c].state = "Retired"
                            /\ candidates[c].state \in {"Evaluated", "RevalidationRequired",
                                                        "Selected", "Retained"}
    BY DEF Retires
  <2>1. candidates[c] \in CandidateRecord
    BY DEF CoreInv, TypeOK
  <2>2. CASE c \in d.retained
    <3>1. candidates'[c] = [candidates[c] EXCEPT !.retained = TRUE]
      BY <1>1, <2>2
    <3>2. SameOutput(candidates[c], candidates'[c])
          /\ candidates'[c].selected = candidates[c].selected
          /\ candidates'[c].state = candidates[c].state
      BY <2>1, <3>1 DEF CandidateRecord, SameOutput, SameSlot
    <3> QED BY <2>2, <3>2, Zenon
  <2>3. CASE /\ c \in d.retired \ d.retained /\ c # selections[p].selected
             /\ CandidateLegal(candidates[c].state, "Retired")
    <3>1. candidates'[c] = [candidates[c] EXCEPT !.state = "Retired"]
      BY <1>1, <2>3
    <3>2. SameOutput(candidates[c], candidates'[c])
          /\ candidates'[c].selected = candidates[c].selected
          /\ candidates'[c].state = "Retired"
      BY <2>1, <3>1 DEF CandidateRecord, SameOutput, SameSlot
    <3>3. candidates[c].state \in {"Evaluated", "RevalidationRequired", "Selected",
                                   "Retained", "Retired"}
      BY <2>3 DEF CandidateLegal, CandidateTransition
    <3>4. \/ candidates'[c].state = candidates[c].state
          \/ candidates[c].state \in {"Evaluated", "RevalidationRequired", "Selected",
                                      "Retained"}
      BY <3>2, <3>3
    <3>5. candidates[c].state # "Absent"
      BY <3>3
    <3> QED BY <3>2, <3>4, <3>5, Zenon
  <2>4. CASE /\ c \notin d.retained
             /\ ~(/\ c \in d.retired \ d.retained /\ c # selections[p].selected
                  /\ CandidateLegal(candidates[c].state, "Retired"))
    <3>1. candidates'[c] = candidates[c]
      BY <1>1, <2>4
    <3> QED BY <3>1, Zenon DEF SameOutput, SameSlot
  <2> QED BY <2>2, <2>3, <2>4
<1> QED BY <1>2, <1>3 DEF d
=============================================================================
