------------------------------ MODULE FoundryTypes ------------------------------
(***************************************************************************)
(* Type correctness of FoundryCore, and the agreement between the state of *)
(* an attempt and its reservation mark, for every value of the constants.  *)
(* First what the helpers that several handlers share return, then one     *)
(* lemma per handler that it preserves CoreInv, then the decisions, and    *)
(* the theorems about the whole specification.                             *)
(***************************************************************************)
EXTENDS FoundryCore, FiniteSetTheorems, WellFoundedInduction, TLAPS

\* Types alone are not inductive: confirm_dispatch reads the generation of the
\* attempt's population, so an attempt that exists must have one.  The second
\* conjunct is HeldWhileInFlight.
SoundAttempt ==
    {r \in AttemptRecord :
        /\ r.state # "Absent" => r.population \in PopulationId
        /\ r.holdsReservation <=> r.state \in AttemptInFlight}

\* prepare_selection counts evaluation records, so there are finitely many.
CoreInv ==
    /\ TypeOK
    /\ attempts \in [AttemptId -> SoundAttempt]
    /\ IsFiniteSet(evaluations)

-----------------------------------------------------------------------------
(* Numbers and cardinalities. *)

\* A nonempty set of naturals has a least element.
LEMMA LeastNatural ==
    ASSUME NEW T \in SUBSET Nat, T # {}
    PROVE  \E m \in T : \A n \in T : m <= n
<1> DEFINE LT == {ss \in Nat \X Nat : ss[1] < ss[2]}
<1>1. OpToRel(<, Nat) = LT
  BY Zenon DEF OpToRel
<1>2. IsWellFoundedOn(LT, Nat)
  BY <1>1, NatLessThanWellFounded, Zenon
<1>3. PICK x \in T : \A y \in T : ~ (<<y, x>> \in LT)
  <2> HIDE DEF LT
  <2> QED BY <1>2, WFMin, Zenon
<1>4. \A y \in T : ~ (y < x)
  BY <1>3
<1> QED BY <1>4

\* Sets of attempts and of candidates are finite.
LEMMA CardinalityOfAttempts ==
    ASSUME NEW S \in SUBSET AttemptId PROVE Cardinality(S) \in Nat
<1>1. IsFiniteSet(AttemptId)
  BY FS_Interval, BoundsAssumption DEF AttemptId
<1> QED BY <1>1, FS_Subset, FS_CardinalityType

\* A set of candidates is finite.
LEMMA CardinalityOfCandidates ==
    ASSUME NEW S \in SUBSET CandidateId
    PROVE  IsFiniteSet(S) /\ Cardinality(S) \in Nat
<1>1. IsFiniteSet(CandidateId)
  BY FS_Interval, BoundsAssumption DEF CandidateId
<1> QED BY <1>1, FS_Subset, FS_CardinalityType

-----------------------------------------------------------------------------
(* Records keep their type when a handler moves them to another state. *)

\* set_candidate_state_locked changes nothing but the state.
LEMMA CandidateStateType ==
    ASSUME NEW r \in CandidateRecord, NEW st \in CandidateState
    PROVE  [r EXCEPT !.state = st] \in CandidateRecord
  BY DEF CandidateRecord

\* Moving one candidate keeps the table of candidates well formed.
LEMMA CandidatesStateType ==
    ASSUME TypeOK, NEW c, NEW st \in CandidateState
    PROVE  [candidates EXCEPT ![c].state = st] \in [CandidateId -> CandidateRecord]
  BY CandidateStateType DEF TypeOK

\* settle_candidate_locked leaves a candidate record.
LEMMA SettledCandidateType ==
    ASSUME NEW r \in CandidateRecord PROVE SettledCandidate(r) \in CandidateRecord
  BY DEF SettledCandidate, CandidateRecord, CandidateState

\* A worker record stays one when its state and its attempt change.
LEMMA WorkerStateType ==
    ASSUME NEW r \in WorkerRecord, NEW st \in WorkerState
    PROVE  /\ [r EXCEPT !.state = st] \in WorkerRecord
           /\ \A a \in {0} \cup AttemptId :
                 [r EXCEPT !.state = st, !.active = a] \in WorkerRecord
  BY DEF WorkerRecord

\* set_population_state_locked, with and without the generation bump.
LEMMA PopulationStateType ==
    ASSUME NEW r \in PopulationRecord, NEW st \in PopulationState
    PROVE  /\ [r EXCEPT !.state = st] \in PopulationRecord
           /\ [r EXCEPT !.state = st, !.generation = @ + 1] \in PopulationRecord
<1>1. r.generation + 1 \in Nat
  BY DEF PopulationRecord
<1> QED BY <1>1 DEF PopulationRecord

\* An attempt changes its state without its mark only within the states in
\* flight, or within those after publication.
LEMMA MoveSoundAttempt ==
    ASSUME NEW r \in SoundAttempt, r.state # "Absent", NEW st \in AttemptState,
           r.state \in AttemptInFlight <=> st \in AttemptInFlight
    PROVE  /\ [r EXCEPT !.state = st] \in SoundAttempt
           /\ \A g, t \in Nat :
                [r EXCEPT !.state = st, !.packagePopulation = g, !.packageTask = t]
                  \in SoundAttempt
  BY DEF SoundAttempt, AttemptRecord

\* An attempt that leaves flight together with its mark stays sound.
LEMMA EndSoundAttempt ==
    ASSUME NEW r \in SoundAttempt, r.state # "Absent", NEW st \in AttemptState,
           st \notin AttemptInFlight
    PROVE  [r EXCEPT !.state = st, !.holdsReservation = FALSE] \in SoundAttempt
  BY DEF SoundAttempt, AttemptRecord

\* Sound attempts are attempt records.
LEMMA SoundIsTyped ==
    ASSUME NEW f \in [AttemptId -> SoundAttempt]
    PROVE  f \in [AttemptId -> AttemptRecord]
  BY DEF SoundAttempt

-----------------------------------------------------------------------------
(* The helpers of FoundryState. *)

\* release_attempt_reservations_locked never takes a counter below zero.
LEMMA ReleaseReservationsType ==
    ASSUME TypeOK, NEW A \in SUBSET AttemptId
    PROVE  ReleaseReservations(A) \in [PopulationId -> [BudgetKind -> Nat]]
<1> DEFINE returned(p, k) == {a \in A : /\ attempts[a].population = p
                                        /\ attempts[a].holdsReservation
                                        /\ k \in KindsOf(attempts[a])}
<1>1. ASSUME NEW p \in PopulationId, NEW k \in BudgetKind
      PROVE  reserved[p][k] - Settled(p, k, Cardinality(returned(p, k))) \in Nat
  <2>1. Cardinality(returned(p, k)) \in Nat
    BY CardinalityOfAttempts
  <2>2. reserved[p][k] \in Nat
    BY DEF TypeOK
  <2> HIDE DEF returned
  <2> QED BY <2>1, <2>2 DEF Settled
<1> QED BY <1>1 DEF ReleaseReservations

\* Ending attempts that are open leaves no mark behind.
LEMMA EndAttemptsType ==
    ASSUME CoreInv, NEW A, \A a \in A : attempts[a].state \in AttemptOpen,
           NEW st \in AttemptTerminal
    PROVE  EndAttempts(A, st) \in [AttemptId -> SoundAttempt]
<1>1. \A a \in AttemptId : attempts[a] \in SoundAttempt
  BY DEF CoreInv
<1>2. st \in AttemptState /\ st \notin AttemptInFlight
  BY DEF AttemptTerminal, AttemptState, AttemptInFlight
<1>3. \A a \in AttemptId : a \in A =>
        [attempts[a] EXCEPT !.state = st, !.holdsReservation = FALSE] \in SoundAttempt
  BY <1>1, <1>2, EndSoundAttempt DEF AttemptOpen, AttemptInFlight
<1> QED BY <1>1, <1>3 DEF EndAttempts

\* Reopening slots leaves candidate records.
LEMMA ReopenSlotsType ==
    ASSUME TypeOK, NEW A
    PROVE  ReopenSlots(A) \in [CandidateId -> CandidateRecord]
<1>1. \A c \in CandidateId : /\ candidates[c] \in CandidateRecord
                             /\ [candidates[c] EXCEPT !.state = "Registered"] \in CandidateRecord
  BY CandidateStateType DEF TypeOK, CandidateState
<1> QED BY <1>1 DEF ReopenSlots

\* Freeing the workers of ended attempts leaves worker records.
LEMMA FreeWorkersOfType ==
    ASSUME TypeOK, NEW A
    PROVE  FreeWorkersOf(A) \in [Worker -> WorkerRecord]
<1>1. \A w \in Worker : /\ workers[w] \in WorkerRecord
                        /\ [workers[w] EXCEPT !.state = "Ready", !.active = 0] \in WorkerRecord
  BY WorkerStateType DEF TypeOK, WorkerState
<1> QED BY <1>1 DEF FreeWorkersOf

\* Freeing one worker leaves worker records.
LEMMA FreeWorkerType ==
    ASSUME TypeOK, NEW w
    PROVE  FreeWorker(w) \in [Worker -> WorkerRecord]
  BY DEF TypeOK, FreeWorker, WorkerRecord, WorkerState

\* A registration ends with a well-formed worker and session authority.
LEMMA IssueSessionType ==
    ASSUME TypeOK, NEW w \in Worker, NEW r \in WorkerRecord, r.boot \in Boot,
           IssueSession(w, r)
    PROVE  /\ workers' \in [Worker -> WorkerRecord]
           /\ sessions' \in SUBSET SessionAuthority
<1>1. workers[w].sessionGeneration + 1 \in Nat
  BY DEF TypeOK, WorkerRecord
<1>2. workers' \in [Worker -> WorkerRecord]
  BY <1>1 DEF IssueSession, TypeOK, WorkerRecord
<1>3. sessions' \in SUBSET SessionAuthority
  BY <1>1 DEF IssueSession, TypeOK, SessionAuthority
<1> QED BY <1>2, <1>3

\* An identity is one of the values its counter may take.
LEMMA IdsAreCounts ==
    /\ PopulationId \subseteq 0..MaxPopulations
    /\ CandidateId \subseteq 0..MaxCandidates
    /\ AttemptId \subseteq 0..MaxAttempts
  BY BoundsAssumption DEF PopulationId, CandidateId, AttemptId

USE DEF definitionVars, ledgerVars, decisionVars, workerVars

-----------------------------------------------------------------------------
(* Worker sessions. *)

\* register_worker preserves CoreInv: the attempts of a replaced incarnation
\* lose their mark together with their state.
LEMMA RegisterWorkerType ==
    ASSUME CoreInv, NEW w \in Worker, NEW b \in Boot, register_worker(w, b)
    PROVE  CoreInv'
<1>0. TypeOK
  BY DEF CoreInv
<1>1. CASE FirstRegistration(w, b)
  <2> DEFINE r == [workers[w] EXCEPT !.state = "Registered", !.boot = b,
                                     !.registeredEpoch = epoch]
  <2>1. r \in WorkerRecord /\ r.boot \in Boot
    BY <1>0 DEF TypeOK, WorkerRecord, WorkerState
  <2>2. IssueSession(w, r)
    BY <1>1 DEF FirstRegistration
  <2> HIDE DEF r
  <2>3. workers' \in [Worker -> WorkerRecord] /\ sessions' \in SUBSET SessionAuthority
    BY <1>0, <2>1, <2>2, IssueSessionType
  <2> QED BY <1>1, <2>3 DEF CoreInv, TypeOK, register_worker, FirstRegistration
<1>2. CASE SameIncarnation(w, b)
  <2> DEFINE r == [workers[w] EXCEPT !.state =
                     IF workers[w].registeredEpoch # epoch
                     THEN "RevalidationRequired" ELSE "Registered"]
  <2>1. r \in WorkerRecord /\ r.boot \in Boot
    BY <1>0, <1>2 DEF SameIncarnation, TypeOK, WorkerRecord, WorkerState
  <2>2. IssueSession(w, r)
    BY <1>2 DEF SameIncarnation
  <2> HIDE DEF r
  <2>3. workers' \in [Worker -> WorkerRecord] /\ sessions' \in SUBSET SessionAuthority
    BY <1>0, <2>1, <2>2, IssueSessionType
  <2> QED BY <1>2, <2>3 DEF CoreInv, TypeOK, register_worker, SameIncarnation
<1>3. CASE ReplaceIncarnation(w, b)
  <2> DEFINE r == [workers[w] EXCEPT !.state = "Registered", !.boot = b,
                                     !.registeredEpoch = epoch, !.active = 0]
             orphaned == {a \in AttemptId : /\ attempts[a].worker = w
                                            /\ attempts[a].state \in AttemptOpen}
  <2>1. r \in WorkerRecord /\ r.boot \in Boot
    BY <1>0 DEF TypeOK, WorkerRecord, WorkerState
  <2>2. /\ IssueSession(w, r)
        /\ reserved' = ReleaseReservations(orphaned)
        /\ attempts' = EndAttempts(orphaned, "OutcomeUnknown")
        /\ candidates' = ReopenSlots(orphaned)
    BY <1>3 DEF ReplaceIncarnation
  <2>3. /\ orphaned \in SUBSET AttemptId /\ "OutcomeUnknown" \in AttemptTerminal
        /\ \A a \in orphaned : attempts[a].state \in AttemptOpen
    BY DEF AttemptTerminal
  <2> HIDE DEF r, orphaned
  <2>4. workers' \in [Worker -> WorkerRecord] /\ sessions' \in SUBSET SessionAuthority
    BY <1>0, <2>1, <2>2, IssueSessionType
  <2>5. /\ reserved' \in [PopulationId -> [BudgetKind -> Nat]]
        /\ attempts' \in [AttemptId -> SoundAttempt]
        /\ candidates' \in [CandidateId -> CandidateRecord]
    BY <1>0, <2>2, <2>3, ReleaseReservationsType, EndAttemptsType, ReopenSlotsType
  <2> QED BY <2>4, <2>5, SoundIsTyped DEF CoreInv, TypeOK, register_worker
<1> QED BY <1>1, <1>2, <1>3 DEF register_worker

\* worker_ready preserves CoreInv.
LEMMA WorkerReadyType ==
    ASSUME CoreInv, NEW s \in sessions, worker_ready(s)
    PROVE  CoreInv'
<1>1. workers' = [workers EXCEPT ![s.worker].state = "Ready"]
  BY DEF worker_ready
<1>2. workers' \in [Worker -> WorkerRecord]
  BY <1>1, WorkerStateType DEF CoreInv, TypeOK, WorkerState
<1> QED BY <1>2 DEF worker_ready, CoreInv, TypeOK

\* revalidate_worker preserves CoreInv: the new session names a real boot,
\* the one validate_worker_session compared.
LEMMA RevalidateWorkerType ==
    ASSUME CoreInv, NEW s \in sessions, revalidate_worker(s)
    PROVE  CoreInv'
<1> DEFINE r == [workers[s.worker] EXCEPT !.state = "Registered", !.registeredEpoch = epoch]
<1>0. TypeOK
  BY DEF CoreInv
<1>1. s.worker \in Worker /\ s.boot \in Boot
  BY <1>0 DEF TypeOK, SessionAuthority
<1>2. r \in WorkerRecord /\ r.boot \in Boot
  BY <1>0, <1>1 DEF TypeOK, WorkerRecord, WorkerState, revalidate_worker, ValidSession
<1>3. IssueSession(s.worker, r)
  BY DEF revalidate_worker
<1> HIDE DEF r
<1>4. workers' \in [Worker -> WorkerRecord] /\ sessions' \in SUBSET SessionAuthority
  BY <1>0, <1>1, <1>2, <1>3, IssueSessionType
<1> QED BY <1>4 DEF revalidate_worker, CoreInv, TypeOK

\* worker_disconnected preserves CoreInv: it ends every open attempt of the
\* incarnation, marks included.
LEMMA WorkerDisconnectedType ==
    ASSUME CoreInv, NEW s \in sessions, worker_disconnected(s)
    PROVE  CoreInv'
<1> DEFINE lost == {a \in AttemptId : /\ attempts[a].worker = s.worker
                                      /\ attempts[a].boot = s.boot
                                      /\ attempts[a].state \in AttemptOpen}
<1>0. TypeOK
  BY DEF CoreInv
<1>1. /\ reserved' = ReleaseReservations(lost)
      /\ attempts' = EndAttempts(lost, "OutcomeUnknown")
      /\ candidates' = ReopenSlots(lost)
      /\ workers' = [workers EXCEPT ![s.worker].state = "Offline", ![s.worker].active = 0]
  BY DEF worker_disconnected
<1>2. /\ lost \in SUBSET AttemptId /\ "OutcomeUnknown" \in AttemptTerminal
      /\ \A a \in lost : attempts[a].state \in AttemptOpen
  BY DEF AttemptTerminal
<1> HIDE DEF lost
<1>3. workers' \in [Worker -> WorkerRecord]
  BY <1>0, <1>1, WorkerStateType DEF TypeOK, WorkerState
<1>4. /\ reserved' \in [PopulationId -> [BudgetKind -> Nat]]
      /\ attempts' \in [AttemptId -> SoundAttempt]
      /\ candidates' \in [CandidateId -> CandidateRecord]
  BY <1>0, <1>1, <1>2, ReleaseReservationsType, EndAttemptsType, ReopenSlotsType
<1> QED BY <1>3, <1>4, SoundIsTyped DEF worker_disconnected, CoreInv, TypeOK

\* reject_worker_session preserves CoreInv.
LEMMA RejectWorkerSessionType ==
    ASSUME CoreInv, NEW s \in sessions, reject_worker_session(s)
    PROVE  CoreInv'
<1>1. workers' = [workers EXCEPT ![s.worker].state = "Rejected"]
  BY DEF reject_worker_session
<1>2. workers' \in [Worker -> WorkerRecord]
  BY <1>1, WorkerStateType DEF CoreInv, TypeOK, WorkerState
<1> QED BY <1>2 DEF reject_worker_session, CoreInv, TypeOK

-----------------------------------------------------------------------------
(* Dispatch. *)

\* The slot search returns a slot whenever there is one.
LEMMA FirstSlotType ==
    ASSUME NEW p, OpenSlots(p) # {}
    PROVE  FirstSlot(p) \in CandidateId
<1>1. OpenSlots(p) \in SUBSET CandidateId /\ CandidateId \in SUBSET Nat
  BY DEF OpenSlots, CandidatesOf, CandidateId
<1>2. \E c \in OpenSlots(p) : \A d \in OpenSlots(p) : c <= d
  BY <1>1, LeastNatural, Zenon
<1> QED BY <1>1, <1>2 DEF FirstSlot

\* A new slot is a candidate record, whether or not its population has a seed.
LEMMA NewSlotType ==
    ASSUME TypeOK, NEW p \in PopulationId, NEW c \in CandidateId
    PROVE  NewSlot(p, c) \in CandidateRecord
<1>1. populations[p] \in PopulationRecord
  BY DEF TypeOK
<1>2. \A d \in CandidateId : candidates[d] \in CandidateRecord
  BY DEF TypeOK
<1>3. populations[p].seed # 0 =>
        /\ candidates[populations[p].seed].lineage \in {0} \cup CandidateId
        /\ candidates[populations[p].seed].depth + 1 \in Nat
  BY <1>1, <1>2 DEF PopulationRecord, CandidateRecord
<1> QED BY <1>1, <1>3 DEF NewSlot, SlotDepth, NoCandidate, CandidateRecord, CandidateState,
                          PopulationRecord

\* A freshly authorized attempt is in flight and holds its reservations.
LEMMA NewAttemptType ==
    ASSUME NEW p \in PopulationId, NEW c \in CandidateId, NEW w \in Worker,
           NEW b \in Boot, NEW retry \in BOOLEAN
    PROVE  [NoAttempt EXCEPT !.state = "Authorized", !.population = p, !.candidate = c,
                             !.worker = w, !.boot = b, !.retry = retry,
                             !.holdsReservation = TRUE] \in SoundAttempt
  BY DEF NoAttempt, SoundAttempt, AttemptRecord, AttemptState, AttemptInFlight

\* An authorized attempt is a well-formed record, whichever way its slot came
\* about.
LEMMA AuthorizeSlotType ==
    ASSUME CoreInv, NEW s \in sessions, NEW p \in PopulationId, NEW c \in CandidateId,
           NEW slot \in CandidateRecord, AuthorizeSlot(s, p, c, slot)
    PROVE  /\ attempts' \in [AttemptId -> SoundAttempt]
           /\ candidates' \in [CandidateId -> CandidateRecord]
           /\ workers' \in [Worker -> WorkerRecord]
           /\ reserved' \in [PopulationId -> [BudgetKind -> Nat]]
           /\ ids.attempt + 1 \in AttemptId
<1> DEFINE a == ids.attempt + 1
           attempt == [NoAttempt EXCEPT
                        !.state = "Authorized", !.population = p, !.candidate = c,
                        !.worker = s.worker, !.boot = s.boot,
                        !.retry = slot.attemptCount > 0, !.holdsReservation = TRUE]
<1>0. TypeOK
  BY DEF CoreInv
<1>1. s.worker \in Worker /\ s.boot \in Boot
  BY <1>0 DEF TypeOK, SessionAuthority
<1>2. /\ a \in AttemptId
      /\ attempts' = [attempts EXCEPT ![a] = attempt]
      /\ candidates' = [candidates EXCEPT ![c] =
             [slot EXCEPT !.state = "Producing", !.attemptCount = @ + 1]]
      /\ workers' = [workers EXCEPT ![s.worker].state = "Busy", ![s.worker].active = a]
      /\ reserved' = Reserve(p, KindsOf(attempt))
  BY DEF AuthorizeSlot
<1>3. attempt \in SoundAttempt
  <2>1. (slot.attemptCount > 0) \in BOOLEAN
    OBVIOUS
  <2> QED BY <1>1, <2>1, NewAttemptType, Zenon
<1>4. [slot EXCEPT !.state = "Producing", !.attemptCount = @ + 1] \in CandidateRecord
  <2>1. slot.attemptCount + 1 \in Nat
    BY DEF CandidateRecord
  <2> QED BY <2>1 DEF CandidateRecord, CandidateState
<1> HIDE DEF attempt, a
<1>5. reserved' \in [PopulationId -> [BudgetKind -> Nat]]
  BY <1>0, <1>2 DEF Reserve, TypeOK
<1>6. workers' \in [Worker -> WorkerRecord]
  BY <1>0, <1>1, <1>2, WorkerStateType DEF TypeOK, WorkerState
<1>7. /\ attempts' \in [AttemptId -> SoundAttempt]
      /\ candidates' \in [CandidateId -> CandidateRecord]
  BY <1>2, <1>3, <1>4 DEF CoreInv, TypeOK
<1> QED BY <1>2, <1>5, <1>6, <1>7 DEF a

\* authorize_attempt preserves CoreInv.
LEMMA AuthorizeAttemptType ==
    ASSUME CoreInv, NEW s \in sessions, authorize_attempt(s)
    PROVE  CoreInv'
<1>0. TypeOK
  BY DEF CoreInv
<1>1. PICK p \in PopulationId :
         /\ DispatchPopulation(p)
         /\ \/ /\ DispatchVerdict(p) = "dispatch"
               /\ AuthorizeSlot(s, p, FirstSlot(p), candidates[FirstSlot(p)])
               /\ ids' = [ids EXCEPT !.attempt = @ + 1]
               /\ UNCHANGED consumed
            \/ /\ DispatchVerdict(p) = "create"
               /\ ids.candidate + 1 \in CandidateId
               /\ AuthorizeSlot(s, p, ids.candidate + 1, NewSlot(p, ids.candidate + 1))
               /\ ids' = [ids EXCEPT !.attempt = @ + 1, !.candidate = @ + 1]
               /\ consumed' = [consumed EXCEPT ![p]["Candidates"] = @ + 1]
  BY DEF authorize_attempt
<1>2. CASE DispatchVerdict(p) = "dispatch"
  <2>1. /\ AuthorizeSlot(s, p, FirstSlot(p), candidates[FirstSlot(p)])
        /\ ids' = [ids EXCEPT !.attempt = ids.attempt + 1]
        /\ UNCHANGED consumed
    BY <1>1, <1>2
  <2>2. OpenSlots(p) # {}
    BY <1>2 DEF DispatchVerdict
  <2>3. FirstSlot(p) \in CandidateId /\ candidates[FirstSlot(p)] \in CandidateRecord
    BY <1>0, <2>2, FirstSlotType DEF TypeOK
  <2>4. /\ attempts' \in [AttemptId -> SoundAttempt]
        /\ candidates' \in [CandidateId -> CandidateRecord]
        /\ workers' \in [Worker -> WorkerRecord]
        /\ reserved' \in [PopulationId -> [BudgetKind -> Nat]]
        /\ ids.attempt + 1 \in AttemptId
    BY <2>1, <2>3, AuthorizeSlotType
  <2>5. ids' \in IdCounters
    BY <1>0, <2>1, <2>4, IdsAreCounts DEF TypeOK, IdCounters
  <2> QED BY <2>1, <2>4, <2>5, SoundIsTyped DEF authorize_attempt, CoreInv, TypeOK
<1>3. CASE DispatchVerdict(p) = "create"
  <2>1. /\ ids.candidate + 1 \in CandidateId
        /\ AuthorizeSlot(s, p, ids.candidate + 1, NewSlot(p, ids.candidate + 1))
        /\ ids' = [ids EXCEPT !.attempt = ids.attempt + 1, !.candidate = ids.candidate + 1]
        /\ consumed' = [consumed EXCEPT ![p]["Candidates"] = @ + 1]
    BY <1>1, <1>3
  <2>2. NewSlot(p, ids.candidate + 1) \in CandidateRecord
    BY <1>0, <2>1, NewSlotType
  <2>3. /\ attempts' \in [AttemptId -> SoundAttempt]
        /\ candidates' \in [CandidateId -> CandidateRecord]
        /\ workers' \in [Worker -> WorkerRecord]
        /\ reserved' \in [PopulationId -> [BudgetKind -> Nat]]
        /\ ids.attempt + 1 \in AttemptId
    BY <2>1, <2>2, AuthorizeSlotType
  <2>4. consumed' \in [PopulationId -> [BudgetKind -> Nat]]
    BY <1>0, <2>1 DEF TypeOK, BudgetKind
  <2>5. ids' \in IdCounters
    BY <1>0, <2>1, <2>3, IdsAreCounts DEF TypeOK, IdCounters
  <2> QED BY <2>3, <2>4, <2>5, SoundIsTyped DEF authorize_attempt, CoreInv, TypeOK
<1> QED BY <1>1, <1>2, <1>3

\* confirm_dispatch preserves CoreInv: an authorized attempt has a population
\* whose generation the package can carry.
LEMMA ConfirmDispatchType ==
    ASSUME CoreInv, NEW s \in sessions, NEW a \in AttemptId, confirm_dispatch(s, a)
    PROVE  CoreInv'
<1> DEFINE g == populations[attempts[a].population].generation
<1>0. TypeOK
  BY DEF CoreInv
<1>1. /\ attempts' = [attempts EXCEPT ![a].state = "Dispatched",
                          ![a].packagePopulation = g, ![a].packageTask = taskGeneration]
      /\ attempts[a].state = "Authorized"
  BY DEF confirm_dispatch
<1>2. attempts[a] \in SoundAttempt /\ taskGeneration \in Nat
  BY DEF CoreInv, TypeOK
<1>3. g \in Nat
  BY <1>0, <1>1, <1>2 DEF SoundAttempt, TypeOK, PopulationRecord
<1> HIDE DEF g
<1>4. [attempts[a] EXCEPT !.state = "Dispatched", !.packagePopulation = g,
                          !.packageTask = taskGeneration] \in SoundAttempt
  BY <1>1, <1>2, <1>3, MoveSoundAttempt DEF AttemptState, AttemptInFlight
<1>5. attempts' \in [AttemptId -> SoundAttempt]
  BY <1>1, <1>4 DEF CoreInv
<1> QED BY <1>5, SoundIsTyped DEF confirm_dispatch, CoreInv, TypeOK

\* abandon_dispatch preserves CoreInv.
LEMMA AbandonDispatchType ==
    ASSUME CoreInv, NEW s \in sessions, NEW a \in AttemptId, abandon_dispatch(s, a)
    PROVE  CoreInv'
<1> DEFINE c == attempts[a].candidate
<1>0. TypeOK
  BY DEF CoreInv
<1>1. /\ reserved' = ReleaseReservations({a})
      /\ attempts' = EndAttempts({a}, "Cancelled")
      /\ attempts[a].state = "Authorized"
      /\ candidates' = IF candidates[c].state = "Producing"
                       THEN [candidates EXCEPT ![c].state = "Registered"]
                       ELSE candidates
      /\ workers' = FreeWorkersOf({a})
  BY DEF abandon_dispatch
<1>2. /\ attempts' \in [AttemptId -> SoundAttempt]
      /\ reserved' \in [PopulationId -> [BudgetKind -> Nat]]
      /\ workers' \in [Worker -> WorkerRecord]
  BY <1>0, <1>1, EndAttemptsType, ReleaseReservationsType, FreeWorkersOfType
     DEF AttemptOpen, AttemptInFlight, AttemptTerminal
<1>3. candidates' \in [CandidateId -> CandidateRecord]
  BY <1>0, <1>1, CandidateStateType DEF TypeOK, CandidateState
<1> QED BY <1>2, <1>3, SoundIsTyped DEF abandon_dispatch, CoreInv, TypeOK

\* acknowledge_attempt preserves CoreInv: the attempt stays in flight.
LEMMA AcknowledgeAttemptType ==
    ASSUME CoreInv, NEW s \in sessions, NEW a \in AttemptId, acknowledge_attempt(s, a)
    PROVE  CoreInv'
<1>1. attempts[a].state = "Dispatched" /\ attempts' = [attempts EXCEPT ![a].state = "Running"]
  BY DEF acknowledge_attempt, AcceptsAcknowledgement
<1>2. attempts' \in [AttemptId -> SoundAttempt]
  BY <1>1, MoveSoundAttempt DEF CoreInv, AttemptState, AttemptInFlight
<1> QED BY <1>2, SoundIsTyped DEF acknowledge_attempt, CoreInv, TypeOK

-----------------------------------------------------------------------------
(* Publication, evidence and the end of one attempt. *)

\* A publication charges only reservations that are open, so no counter
\* underflows, and takes the attempt's mark away with its state.
LEMMA PublishCandidateType ==
    ASSUME CoreInv, NEW s \in sessions, NEW a \in AttemptId, publish_candidate(s, a)
    PROVE  CoreInv'
<1> DEFINE c == attempts[a].candidate
           p == attempts[a].population
<1>0. TypeOK /\ attempts[a] \in SoundAttempt
  BY DEF CoreInv
<1>1. /\ attempts[a].state \in {"Running", "Dispatched"}
      /\ candidates' = [candidates EXCEPT ![c].output = a, ![c].state = "Published"]
      /\ attempts' = [attempts EXCEPT ![a].state = "Published",
                                      ![a].holdsReservation = FALSE]
      /\ reserved' = [reserved EXCEPT ![p] = [k \in BudgetKind |->
                          IF k \in ChargedKinds(a) THEN @[k] - 1 ELSE @[k]]]
      /\ consumed' = [consumed EXCEPT ![p] = [k \in BudgetKind |->
                          IF k \in ChargedKinds(a) THEN @[k] + 1 ELSE @[k]]]
      /\ workers' = FreeWorker(s.worker)
      /\ populations' = IF populations[p].state = "Running"
                        THEN [populations EXCEPT ![p].state = "Evaluating"]
                        ELSE populations
  BY DEF publish_candidate, AcceptsPublication
<1>2. [attempts[a] EXCEPT !.state = "Published", !.holdsReservation = FALSE] \in SoundAttempt
  BY <1>0, <1>1, EndSoundAttempt DEF AttemptState, AttemptInFlight
<1>3. attempts' \in [AttemptId -> SoundAttempt]
  BY <1>1, <1>2 DEF CoreInv
<1>4. p \in PopulationId
  BY <1>0, <1>1 DEF SoundAttempt
<1>5. /\ \A k \in ChargedKinds(a) : reserved[p][k] > 0
      /\ reserved[p] \in [BudgetKind -> Nat] /\ consumed[p] \in [BudgetKind -> Nat]
  BY <1>0, <1>4 DEF ChargedKinds, TypeOK
<1>6. candidates' \in [CandidateId -> CandidateRecord]
  <2>1. \A r \in CandidateRecord : [r EXCEPT !.output = a, !.state = "Published"] \in CandidateRecord
    BY DEF CandidateRecord, CandidateState
  <2> HIDE DEF c
  <2> QED BY <1>0, <1>1, <2>1 DEF TypeOK
<1>7. populations' \in [PopulationId -> PopulationRecord]
  BY <1>0, <1>1, PopulationStateType DEF TypeOK, PopulationState
<1>8. workers' \in [Worker -> WorkerRecord]
  BY <1>0, <1>1, FreeWorkerType
<1> HIDE DEF p, c
<1>9. reserved' \in [PopulationId -> [BudgetKind -> Nat]]
  <2>1. [k \in BudgetKind |-> IF k \in ChargedKinds(a) THEN reserved[p][k] - 1
                             ELSE reserved[p][k]] \in [BudgetKind -> Nat]
    BY <1>5
  <2> QED BY <1>0, <1>1, <1>4, <2>1, Zenon DEF TypeOK
<1>10. consumed' \in [PopulationId -> [BudgetKind -> Nat]]
  <2>1. [k \in BudgetKind |-> IF k \in ChargedKinds(a) THEN consumed[p][k] + 1
                             ELSE consumed[p][k]] \in [BudgetKind -> Nat]
    BY <1>5
  <2> QED BY <1>0, <1>1, <1>4, <2>1, Zenon DEF TypeOK
<1> QED BY <1>3, <1>6, <1>7, <1>8, <1>9, <1>10, SoundIsTyped
           DEF publish_candidate, CoreInv, TypeOK

\* report_attempt_failure preserves CoreInv.
LEMMA ReportAttemptFailureType ==
    ASSUME CoreInv, NEW s \in sessions, NEW a \in AttemptId, report_attempt_failure(s, a)
    PROVE  CoreInv'
<1> DEFINE c == attempts[a].candidate
<1>0. TypeOK
  BY DEF CoreInv
<1>1. /\ attempts[a].state \in AttemptOpen
      /\ reserved' = ReleaseReservations({a})
      /\ attempts' = EndAttempts({a}, "Failed")
      /\ workers' = FreeWorker(s.worker)
      /\ \E st \in {"Registered", "ProductionFailed"} :
            candidates' = IF candidates[c].state \in {"Producing", "Registered"}
                          THEN [candidates EXCEPT ![c].state = st] ELSE candidates
  BY Zenon DEF report_attempt_failure
<1>2. /\ attempts' \in [AttemptId -> SoundAttempt]
      /\ reserved' \in [PopulationId -> [BudgetKind -> Nat]]
      /\ workers' \in [Worker -> WorkerRecord]
  BY <1>0, <1>1, EndAttemptsType, ReleaseReservationsType, FreeWorkerType
     DEF AttemptTerminal
<1>3. candidates' \in [CandidateId -> CandidateRecord]
  <2> HIDE DEF c
  <2>1. \A st \in {"Registered", "ProductionFailed", "ProductionCancelled"} :
          [candidates EXCEPT ![c].state = st] \in [CandidateId -> CandidateRecord]
    BY <1>0, CandidatesStateType DEF CandidateState
  <2>2. candidates \in [CandidateId -> CandidateRecord]
    BY <1>0 DEF TypeOK
  <2> QED BY <1>1, <2>1, <2>2
<1> QED BY <1>2, <1>3, SoundIsTyped DEF report_attempt_failure, CoreInv, TypeOK

\* begin_evaluation preserves CoreInv: only attempts out of flight move.
LEMMA BeginEvaluationType ==
    ASSUME CoreInv, NEW c \in CandidateId, begin_evaluation(c)
    PROVE  CoreInv'
<1>1. /\ candidates' = [candidates EXCEPT ![c].state = "Evaluating"]
      /\ attempts' = [a \in AttemptId |->
             IF attempts[a].candidate = c /\ attempts[a].state = "Published"
             THEN [attempts[a] EXCEPT !.state = "Evaluating"] ELSE attempts[a]]
  BY DEF begin_evaluation
<1>2. candidates' \in [CandidateId -> CandidateRecord]
  BY <1>1, CandidateStateType DEF CoreInv, TypeOK, CandidateState
<1>3. \A a \in AttemptId :
        /\ attempts[a] \in SoundAttempt
        /\ attempts[a].state = "Published" =>
             [attempts[a] EXCEPT !.state = "Evaluating"] \in SoundAttempt
  BY MoveSoundAttempt DEF CoreInv, AttemptState, AttemptInFlight
<1>4. attempts' \in [AttemptId -> SoundAttempt]
  BY <1>1, <1>3
<1> QED BY <1>2, <1>4, SoundIsTyped DEF begin_evaluation, CoreInv, TypeOK

\* record_evaluation preserves CoreInv: the attempts it completes give their
\* reservations back, those still in flight included.
LEMMA RecordEvaluationType ==
    ASSUME CoreInv, NEW c \in CandidateId, NEW k \in Requirement \cup SelfReportKey,
           NEW kind \in {"Reference", "WorkerSelfReport"},
           NEW outcome \in {"Pass", "NotPass"}, NEW high \in BOOLEAN, NEW g, NEW t,
           record_evaluation(c, k, kind, outcome, high, g, t)
    PROVE  CoreInv'
<1> DEFINE record == [candidate |-> c, key |-> k, kind |-> kind,
                      outcome |-> outcome, high |-> high,
                      about |-> candidates[c].output]
<1>0. TypeOK
  BY DEF CoreInv
<1>1. record \in EvaluationRecord
  BY <1>0 DEF TypeOK, EvaluationRecord, CandidateRecord
<1>2. evaluations' = evaluations \cup {record}
  BY DEF record_evaluation
<1> HIDE DEF record
<1>3. evaluations' \subseteq EvaluationRecord /\ IsFiniteSet(evaluations')
  <2>1. IsFiniteSet(evaluations)
    BY DEF CoreInv
  <2>2. IsFiniteSet(evaluations')
    BY <1>2, <2>1, FS_AddElement
  <2> QED BY <1>0, <1>1, <1>2, <2>2 DEF TypeOK
<1>4. /\ SettledBy({c}) \in SUBSET AttemptId
      /\ \A a \in SettledBy({c}) : attempts[a].state \in AttemptOpen
      /\ "Completed" \in AttemptTerminal
  BY DEF SettledBy, AttemptOpen, AttemptInFlight, AttemptTerminal
<1>5. \/ /\ candidates' = [candidates EXCEPT ![c] = SettledCandidate(@)]
         /\ attempts' = EndAttempts(SettledBy({c}), "Completed")
         /\ reserved' = ReleaseReservations(SettledBy({c}))
      \/ UNCHANGED <<candidates, attempts, reserved>>
  BY DEF record_evaluation
<1>6. /\ attempts' \in [AttemptId -> SoundAttempt]
      /\ reserved' \in [PopulationId -> [BudgetKind -> Nat]]
      /\ candidates' \in [CandidateId -> CandidateRecord]
  <2>1. CASE UNCHANGED <<candidates, attempts, reserved>>
    BY <2>1 DEF CoreInv, TypeOK
  <2>2. CASE /\ candidates' = [candidates EXCEPT ![c] = SettledCandidate(@)]
             /\ attempts' = EndAttempts(SettledBy({c}), "Completed")
             /\ reserved' = ReleaseReservations(SettledBy({c}))
    <3>1. candidates[c] \in CandidateRecord
      BY <1>0 DEF TypeOK
    <3>2. SettledCandidate(candidates[c]) \in CandidateRecord
      BY <3>1, SettledCandidateType
    <3>3. candidates' \in [CandidateId -> CandidateRecord]
      BY <1>0, <2>2, <3>2 DEF TypeOK
    <3> QED BY <1>0, <1>4, <2>2, <3>3, EndAttemptsType, ReleaseReservationsType
  <2> QED BY <1>5, <2>1, <2>2
<1> QED BY <1>3, <1>6, SoundIsTyped DEF record_evaluation, CoreInv, TypeOK

\* cancel_attempt preserves CoreInv.
LEMMA CancelAttemptType ==
    ASSUME CoreInv, NEW a \in AttemptId, cancel_attempt(a)
    PROVE  CoreInv'
<1> DEFINE c == attempts[a].candidate
<1>0. TypeOK
  BY DEF CoreInv
<1>1. /\ attempts[a].state \in AttemptOpen
      /\ reserved' = ReleaseReservations({a})
      /\ attempts' = EndAttempts({a}, "Cancelled")
      /\ workers' = FreeWorkersOf({a})
      /\ \/ candidates' = [candidates EXCEPT ![c].state = "ProductionCancelled"]
         \/ candidates' = candidates
  BY Zenon DEF cancel_attempt
<1>2. /\ attempts' \in [AttemptId -> SoundAttempt]
      /\ reserved' \in [PopulationId -> [BudgetKind -> Nat]]
      /\ workers' \in [Worker -> WorkerRecord]
  BY <1>0, <1>1, EndAttemptsType, ReleaseReservationsType, FreeWorkersOfType
     DEF AttemptTerminal
<1>3. candidates' \in [CandidateId -> CandidateRecord]
  <2> HIDE DEF c
  <2>1. \A st \in {"Registered", "ProductionFailed", "ProductionCancelled"} :
          [candidates EXCEPT ![c].state = st] \in [CandidateId -> CandidateRecord]
    BY <1>0, CandidatesStateType DEF CandidateState
  <2>2. candidates \in [CandidateId -> CandidateRecord]
    BY <1>0 DEF TypeOK
  <2> QED BY <1>1, <2>1, <2>2
<1> QED BY <1>2, <1>3, SoundIsTyped DEF cancel_attempt, CoreInv, TypeOK

\* force_attempt_outcome_unknown preserves CoreInv.
LEMMA ForceOutcomeUnknownType ==
    ASSUME CoreInv, NEW a \in AttemptId, force_attempt_outcome_unknown(a)
    PROVE  CoreInv'
<1>0. TypeOK
  BY DEF CoreInv
<1>1. /\ attempts[a].state \in AttemptOpen
      /\ reserved' = ReleaseReservations({a})
      /\ attempts' = EndAttempts({a}, "OutcomeUnknown")
      /\ candidates' = ReopenSlots({a})
  BY DEF force_attempt_outcome_unknown
<1>2. /\ attempts' \in [AttemptId -> SoundAttempt]
      /\ reserved' \in [PopulationId -> [BudgetKind -> Nat]]
      /\ candidates' \in [CandidateId -> CandidateRecord]
  BY <1>0, <1>1, EndAttemptsType, ReleaseReservationsType, ReopenSlotsType
     DEF AttemptTerminal
<1> QED BY <1>2, SoundIsTyped DEF force_attempt_outcome_unknown, CoreInv, TypeOK

-----------------------------------------------------------------------------
(* Definitions and the lifecycle of populations. *)

\* Revisions of the task and the policy preserve CoreInv.
LEMMA ReviseType ==
    ASSUME CoreInv, revise_task \/ revise_policy
    PROVE  CoreInv'
  BY DEF revise_task, revise_policy, CoreInv, TypeOK

\* A new population is a population record.
LEMMA NewPopulationType ==
    ASSUME TypeOK, NEW index \in Nat, NEW seed \in {0} \cup CandidateId
    PROVE  NewPopulation(index, seed) \in PopulationRecord
  BY DEF TypeOK, NewPopulation, NoPopulation, PopulationRecord, PopulationState

\* create_population preserves CoreInv.
LEMMA CreatePopulationType ==
    ASSUME CoreInv, create_population
    PROVE  CoreInv'
<1> DEFINE p == ids.population + 1
<1>0. TypeOK
  BY DEF CoreInv
<1>1. /\ p \in PopulationId
      /\ populations' = [populations EXCEPT ![p] = NewPopulation(1, 0)]
      /\ ids' = [ids EXCEPT !.population = p]
  BY DEF create_population
<1> HIDE DEF p
<1>2. populations' \in [PopulationId -> PopulationRecord]
  BY <1>0, <1>1, NewPopulationType DEF TypeOK
<1>3. ids' \in IdCounters
  BY <1>0, <1>1, IdsAreCounts DEF TypeOK, IdCounters
<1> QED BY <1>2, <1>3 DEF create_population, CoreInv, TypeOK

\* start_population preserves CoreInv.
LEMMA StartPopulationType ==
    ASSUME CoreInv, NEW p \in PopulationId, NEW g, start_population(p, g)
    PROVE  CoreInv'
<1>1. populations' = [populations EXCEPT ![p].state = "Running", ![p].generation = @ + 1]
  BY DEF start_population
<1>2. populations' \in [PopulationId -> PopulationRecord]
  BY <1>1, PopulationStateType DEF CoreInv, TypeOK, PopulationState
<1> QED BY <1>2 DEF start_population, CoreInv, TypeOK

\* cancel_population preserves CoreInv, also when the transition of the
\* population is refused after its attempts were cancelled.
LEMMA CancelPopulationType ==
    ASSUME CoreInv, NEW p \in PopulationId, NEW g, cancel_population(p, g)
    PROVE  CoreInv'
<1> DEFINE cut == {a \in AttemptId : /\ attempts[a].population = p
                                     /\ attempts[a].state \in AttemptOpen}
<1>0. TypeOK
  BY DEF CoreInv
<1>1. /\ reserved' = ReleaseReservations(cut)
      /\ attempts' = EndAttempts(cut, "Cancelled")
      /\ candidates' = [c \in CandidateId |->
             IF /\ cut \cap AttemptsOf(c) # {}
                /\ candidates[c].state \in {"Registered", "Producing"}
             THEN [candidates[c] EXCEPT !.state = "ProductionCancelled"]
             ELSE candidates[c]]
      /\ workers' = FreeWorkersOf(cut)
      /\ populations' =
             IF PopulationLegal(populations[p].state, "Cancelled")
             THEN [populations EXCEPT ![p].state = "Cancelled",
                                      ![p].generation = @ + 1]
             ELSE populations
  BY DEF cancel_population
<1>2. /\ cut \in SUBSET AttemptId /\ "Cancelled" \in AttemptTerminal
      /\ \A a \in cut : attempts[a].state \in AttemptOpen
  BY DEF AttemptTerminal
<1> HIDE DEF cut
<1>3. /\ attempts' \in [AttemptId -> SoundAttempt]
      /\ reserved' \in [PopulationId -> [BudgetKind -> Nat]]
      /\ workers' \in [Worker -> WorkerRecord]
  BY <1>0, <1>1, <1>2, EndAttemptsType, ReleaseReservationsType, FreeWorkersOfType
<1>4. candidates' \in [CandidateId -> CandidateRecord]
  BY <1>0, <1>1, CandidateStateType DEF TypeOK, CandidateState
<1>5. populations' \in [PopulationId -> PopulationRecord]
  BY <1>0, <1>1, PopulationStateType DEF TypeOK, PopulationState
<1> QED BY <1>3, <1>4, <1>5, SoundIsTyped DEF cancel_population, CoreInv, TypeOK

\* request_population_revalidation preserves CoreInv.
LEMMA RequestRevalidationType ==
    ASSUME CoreInv, NEW p \in PopulationId, request_population_revalidation(p)
    PROVE  CoreInv'
<1>0. TypeOK
  BY DEF CoreInv
<1>1. /\ populations' = [populations EXCEPT ![p].state = "RevalidationRequired",
                                            ![p].generation = @ + 1]
      /\ candidates' = [c \in CandidateId |->
             IF /\ c \in CandidatesOf(p)
                /\ candidates[c].state \in {"Evaluated", "Published", "Evaluating"}
             THEN [candidates[c] EXCEPT !.state = "RevalidationRequired"]
             ELSE candidates[c]]
  BY DEF request_population_revalidation
<1>2. candidates' \in [CandidateId -> CandidateRecord]
  BY <1>0, <1>1, CandidateStateType DEF TypeOK, CandidateState
<1>3. populations' \in [PopulationId -> PopulationRecord]
  BY <1>0, <1>1, PopulationStateType DEF TypeOK, PopulationState
<1> QED BY <1>2, <1>3 DEF request_population_revalidation, CoreInv, TypeOK

\* revalidate_population preserves CoreInv: the attempts of the candidates it
\* settles lose their marks.
LEMMA RevalidatePopulationType ==
    ASSUME CoreInv, NEW p \in PopulationId, NEW g, revalidate_population(p, g)
    PROVE  CoreInv'
<1>0. TypeOK
  BY DEF CoreInv
<1> DEFINE waiting == {c \in CandidatesOf(p) : candidates[c].state = "RevalidationRequired"}
           settled == {c \in waiting : EvidenceComplete(evaluations, c)}
           underEvaluation == {c \in CandidatesOf(p) \ settled :
                                  candidates[c].state \in {"RevalidationRequired",
                                                           "Published", "Evaluating"}}
<1>1. /\ candidates' = [c \in CandidateId |->
             CASE c \in settled -> [candidates[c] EXCEPT !.state = "Evaluated"]
               [] c \in waiting \ settled -> [candidates[c] EXCEPT !.state = "Evaluating"]
               [] OTHER -> candidates[c]]
      /\ attempts' = EndAttempts(SettledBy(settled), "Completed")
      /\ reserved' = ReleaseReservations(SettledBy(settled))
      /\ populations' = [populations EXCEPT
             ![p].state = IF underEvaluation # {} THEN "Evaluating" ELSE "Running",
             ![p].generation = @ + 1]
  BY DEF revalidate_population
<1> HIDE DEF waiting, settled, underEvaluation
<1>2. /\ SettledBy(settled) \in SUBSET AttemptId
      /\ \A a \in SettledBy(settled) : attempts[a].state \in AttemptOpen
      /\ "Completed" \in AttemptTerminal
  BY DEF SettledBy, AttemptOpen, AttemptInFlight, AttemptTerminal
<1>3. /\ attempts' \in [AttemptId -> SoundAttempt]
      /\ reserved' \in [PopulationId -> [BudgetKind -> Nat]]
  BY <1>0, <1>1, <1>2, EndAttemptsType, ReleaseReservationsType
<1>4. candidates' \in [CandidateId -> CandidateRecord]
  BY <1>0, <1>1, CandidateStateType DEF TypeOK, CandidateState
<1>5. populations' \in [PopulationId -> PopulationRecord]
  BY <1>0, <1>1, PopulationStateType DEF TypeOK, PopulationState
<1> QED BY <1>3, <1>4, <1>5, SoundIsTyped DEF revalidate_population, CoreInv, TypeOK

\* close_population preserves CoreInv.
LEMMA ClosePopulationType ==
    ASSUME CoreInv, NEW p \in PopulationId, close_population(p)
    PROVE  CoreInv'
<1>1. populations' = [populations EXCEPT ![p].state = "Closed", ![p].generation = @ + 1]
  BY DEF close_population
<1>2. populations' \in [PopulationId -> PopulationRecord]
  BY <1>1, PopulationStateType DEF CoreInv, TypeOK, PopulationState
<1> QED BY <1>2 DEF close_population, CoreInv, TypeOK

-----------------------------------------------------------------------------
(* Restart. *)

\* The placeholders for records that do not exist are records of their type.
LEMMA NoRecordsType ==
    /\ NoPopulation \in PopulationRecord /\ NoCandidate \in CandidateRecord
    /\ NoAttempt \in SoundAttempt /\ NoWorker \in WorkerRecord
    /\ NoSelection \in SelectionDecision /\ NoRetention \in RetentionDecision
<1>1. NoCandidate \in CandidateRecord
  BY DEF NoCandidate, CandidateRecord, CandidateState
<1>2. NoSelectionDigest \in SelectionDigest
  BY <1>1 DEF NoSelectionDigest, SelectionDigest
<1>3. NoSelection \in SelectionDecision
  BY <1>2 DEF NoSelection, SelectionDecision
<1>4. NoRetention \in RetentionDecision
  BY <1>2 DEF NoRetention, RetentionDecision, RetentionDigest
<1>5. NoAttempt \in SoundAttempt
  BY DEF NoAttempt, SoundAttempt, AttemptRecord, AttemptState, AttemptInFlight
<1> QED BY <1>1, <1>3, <1>4, <1>5 DEF NoPopulation, PopulationRecord, PopulationState,
                                       NoWorker, WorkerRecord, WorkerState

\* recover preserves CoreInv: every attempt it takes out of flight loses its
\* mark, and the decisions it drops leave no dangling record.
LEMMA RecoverType ==
    ASSUME CoreInv, recover
    PROVE  CoreInv'
<1> DEFINE inFlight == {a \in AttemptId : attempts[a].state \in AttemptInFlight}
<1>0. TypeOK
  BY DEF CoreInv
<1>1. /\ epoch' = epoch + 1
      /\ workers' = [w \in Worker |->
             IF workers[w].state = "Absent" THEN workers[w]
             ELSE [workers[w] EXCEPT !.state = "Offline", !.active = 0]]
      /\ reserved' = ReleaseReservations(inFlight)
      /\ attempts' = [a \in AttemptId |-> RecoveredAttempt(attempts[a])]
      /\ candidates' = [c \in CandidateId |-> RecoveredCandidate(c)]
      /\ selections' = [p \in PopulationId |->
             IF selections[p].state = "Committed" THEN selections[p] ELSE NoSelection]
      /\ retentions' = [p \in PopulationId |->
             IF retentions[p].state = "Committed" THEN retentions[p] ELSE NoRetention]
      /\ populations' = [p \in PopulationId |-> RecoveredPopulation(p)]
      /\ heldSelection' = [x \in Controller |-> NoSelection]
      /\ heldRetention' = [x \in Controller |-> NoRetention]
  BY DEF recover
<1>2. reserved' \in [PopulationId -> [BudgetKind -> Nat]]
  BY <1>0, <1>1, ReleaseReservationsType
<1>3. workers' \in [Worker -> WorkerRecord]
  BY <1>0, <1>1, WorkerStateType DEF TypeOK, WorkerState
<1>4. attempts' \in [AttemptId -> SoundAttempt]
  <2>1. \A r \in SoundAttempt : RecoveredAttempt(r) \in SoundAttempt
    BY EndSoundAttempt DEF RecoveredAttempt, AttemptState, AttemptInFlight, SoundAttempt
  <2> QED BY <1>1, <2>1 DEF CoreInv
<1>5. candidates' \in [CandidateId -> CandidateRecord]
  <2>1. \A c \in CandidateId : RecoveredCandidate(c) \in CandidateRecord
    BY <1>0, CandidateStateType DEF TypeOK, RecoveredCandidate, CandidateState
  <2> QED BY <1>1, <2>1
<1>6. populations' \in [PopulationId -> PopulationRecord]
  <2>1. ASSUME NEW p \in PopulationId
        PROVE  RecoveredPopulation(p) \in PopulationRecord
    <3> DEFINE r == populations[p]
               stale == [r EXCEPT !.state = "RevalidationRequired"]
    <3>1. r \in PopulationRecord
      BY <1>0 DEF TypeOK
    <3>2. stale \in PopulationRecord
      BY <3>1, PopulationStateType DEF PopulationState
    <3> HIDE DEF stale
    <3>3. [stale EXCEPT !.committedSelection = 0, !.retentionCommitted = FALSE]
            \in PopulationRecord
      BY <3>2 DEF PopulationRecord
    <3> QED BY <3>1, <3>2, <3>3 DEF RecoveredPopulation, stale
  <2> QED BY <1>1, <2>1
<1>7. /\ selections' \in [PopulationId -> SelectionDecision]
      /\ retentions' \in [PopulationId -> RetentionDecision]
      /\ heldSelection' \in [Controller -> SelectionDecision]
      /\ heldRetention' \in [Controller -> RetentionDecision]
  BY <1>0, <1>1, NoRecordsType DEF TypeOK
<1>8. epoch' \in Nat
  <2>1. epoch \in Nat /\ epoch' = epoch + 1
    BY <1>0, Zenon DEF TypeOK, recover
  <2> QED BY <2>1
<1> QED BY <1>2, <1>3, <1>4, <1>5, <1>6, <1>7, <1>8, SoundIsTyped
           DEF recover, CoreInv, TypeOK

-----------------------------------------------------------------------------
(* Ranking. *)

\* Products and sums of integers are integers (the provers need to be told).
LEMMA IntegerArithmetic ==
    ASSUME NEW i \in Int, NEW j \in Int
    PROVE  i * j \in Int /\ i + j \in Int /\ i - j \in Int
  OBVIOUS

\* The weighted score of a candidate is a number: every factor is.
LEMMA ScoreType ==
    ASSUME CoreInv, NEW c \in CandidateId PROVE Score(c) \in Int
<1> DEFINE high == {r \in evaluations : r.candidate = c /\ r.key \in Optional /\ r.high}
           complete == {k \in Requirement : RequirementComplete(evaluations, c, k)}
           common == Cardinality(Optional) * Cardinality(Requirement)
           unit == IF common = 0 THEN 1 ELSE common
<1>1. IsFiniteSet(Optional) /\ IsFiniteSet(Requirement) /\ IsFiniteSet(evaluations)
  BY EvaluatorAssumption, FS_Union DEF Requirement, CoreInv
<1>2. Cardinality(Optional) \in Int /\ Cardinality(Requirement) \in Int
  BY <1>1, FS_CardinalityType
<1>3. Cardinality(high) \in Int
  <2>1. IsFiniteSet(high)
    BY <1>1, FS_Subset
  <2> QED BY <2>1, FS_CardinalityType
<1>4. Cardinality(complete) \in Int
  <2>1. IsFiniteSet(complete)
    BY <1>1, FS_Subset
  <2> QED BY <2>1, FS_CardinalityType
<1>5. /\ QualityWeight \in Int /\ CompletenessWeight \in Int /\ DepthWeight \in Int
      /\ candidates[c].depth \in Int
  BY PolicyAssumption DEF CoreInv, TypeOK, CandidateRecord
<1>6. common \in Int
  BY <1>2, IntegerArithmetic
<1> HIDE DEF high, complete, common
<1>7. unit \in Int
  BY <1>6
<1> HIDE DEF unit
<1>8. /\ QualityWeight * Cardinality(high) \in Int
      /\ CompletenessWeight * Cardinality(complete) \in Int
      /\ DepthWeight * candidates[c].depth \in Int
  BY <1>3, <1>4, <1>5, IntegerArithmetic
<1>9. /\ QualityWeight * Cardinality(high) * Cardinality(Requirement) \in Int
      /\ CompletenessWeight * Cardinality(complete) * Cardinality(Optional) \in Int
      /\ DepthWeight * candidates[c].depth * unit \in Int
  BY <1>2, <1>7, <1>8, IntegerArithmetic
<1>10. Score(c) = QualityWeight * Cardinality(high) * Cardinality(Requirement)
                  + CompletenessWeight * Cardinality(complete) * Cardinality(Optional)
                  - DepthWeight * candidates[c].depth * unit
  BY Zenon DEF Score, high, complete, common, unit
<1> QED BY <1>9, <1>10, IntegerArithmetic

\* Ranking is a strict order, so a nonempty set of participants has a front:
\* the one with fewest candidates before it has none.
LEMMA RankingHasFront ==
    ASSUME CoreInv, NEW p, Participants(p) # {}
    PROVE  \E c \in CandidateId : Ranking(p)[c] = 1
<1> DEFINE S == Participants(p)
           Before(c) == {d \in S : RanksBefore(d, c)}
           T == {Cardinality(Before(c)) : c \in S}
<1>1. S \in SUBSET CandidateId /\ S # {} /\ CandidateId \in SUBSET Int
  BY DEF Participants, CandidatesOf, CandidateId
<1>2. \A c \in CandidateId : Score(c) \in Int
  BY ScoreType
<1>3. \A c, d, e \in CandidateId :
         /\ ~RanksBefore(c, c)
         /\ RanksBefore(c, d) /\ RanksBefore(d, e) => RanksBefore(c, e)
  BY <1>1, <1>2 DEF RanksBefore
<1>4. Ranking(p) = [c \in CandidateId |-> IF c \in S THEN 1 + Cardinality(Before(c)) ELSE 0]
  BY DEF Ranking
<1>5. \A c : Before(c) \in SUBSET CandidateId /\ Before(c) \in SUBSET S
  BY <1>1
<1>6. \A c : IsFiniteSet(Before(c)) /\ Cardinality(Before(c)) \in Nat
  BY <1>5, CardinalityOfCandidates
<1>7. \A c, d \in S : d \in Before(c) => /\ Before(d) \in SUBSET Before(c)
                                         /\ d \notin Before(d)
  BY <1>1, <1>3
<1>8. \A c, d : d \in Before(c) => d \in S
  OBVIOUS
<1> HIDE DEF S, Before
<1>9. T \in SUBSET Nat /\ T # {}
  BY <1>1, <1>6
<1>10. PICK m \in T : \A n \in T : m <= n
  BY <1>9, LeastNatural, Zenon
<1>11. PICK c \in S : m = Cardinality(Before(c))
  BY <1>10
<1>12. \A d \in S : Cardinality(Before(c)) <= Cardinality(Before(d))
  BY <1>10, <1>11
<1>13. Before(c) = {}
  <2> SUFFICES ASSUME NEW d \in Before(c) PROVE FALSE
    OBVIOUS
  <2>1. d \in S
    BY <1>8
  <2>2. Before(d) \in SUBSET Before(c) /\ d \notin Before(d)
    BY <1>7, <2>1
  <2>3. /\ Cardinality(Before(d)) <= Cardinality(Before(c))
        /\ Cardinality(Before(c)) = Cardinality(Before(d)) => Before(c) = Before(d)
    BY <1>6, <2>2, FS_Subset
  <2>4. Cardinality(Before(c)) = Cardinality(Before(d))
    BY <1>6, <1>12, <2>1, <2>3
  <2> QED BY <2>2, <2>3, <2>4
<1>14. Cardinality(Before(c)) = 0
  BY <1>13, FS_EmptySet
<1> QED BY <1>1, <1>4, <1>11, <1>14

\* The ranking is a numbering of candidates.
LEMMA RankingType ==
    ASSUME NEW p PROVE Ranking(p) \in [CandidateId -> Nat]
<1>1. \A c : Cardinality({d \in Participants(p) : RanksBefore(d, c)}) \in Nat
  BY CardinalityOfCandidates DEF Participants, CandidatesOf
<1> QED BY <1>1 DEF Ranking

\* The digest of the state a selection is computed from.
LEMMA SelectionStateDigestType ==
    ASSUME TypeOK, NEW p \in PopulationId
    PROVE  SelectionStateDigest(p) \in SelectionDigest
<1>1. [c \in CandidateId |-> IF c \in CandidatesOf(p) THEN candidates[c] ELSE NoCandidate]
         \in [CandidateId -> CandidateRecord]
  BY NoRecordsType DEF TypeOK
<1>2. {r \in evaluations : r.candidate \in CandidatesOf(p)} \in SUBSET EvaluationRecord
  BY DEF TypeOK
<1>3. populations[p].generation \in Nat /\ taskGeneration \in Nat /\ policyGeneration \in Nat
  BY DEF TypeOK, PopulationRecord
<1> QED BY <1>1, <1>2, <1>3 DEF SelectionStateDigest, SelectionDigest

-----------------------------------------------------------------------------
(* Decisions. *)

\* prepare_selection preserves CoreInv: a decision that is not Impossible
\* names a candidate.
LEMMA PrepareSelectionType ==
    ASSUME CoreInv, NEW x \in Controller, NEW p \in PopulationId, prepare_selection(x, p)
    PROVE  CoreInv'
<1> DEFINE selected == IF Participants(p) = {} THEN 0
                       ELSE CHOOSE c \in CandidateId : Ranking(p)[c] = 1
           decision == [
             state |-> IF Participants(p) = {} THEN "Impossible" ELSE "Prepared",
             population |-> p, populationGeneration |-> populations[p].generation,
             taskGeneration |-> taskGeneration, policyGeneration |-> policyGeneration,
             generation |-> 0, selected |-> selected,
             rank |-> Ranking(p), digest |-> SelectionStateDigest(p)]
<1>0. TypeOK
  BY DEF CoreInv
<1>1. /\ selections' = [selections EXCEPT ![p] = decision]
      /\ heldSelection' = [heldSelection EXCEPT ![x] = decision]
      /\ populations' = [populations EXCEPT ![p].state = "Selecting"]
  BY DEF prepare_selection
<1>2. selected \in {0} \cup CandidateId
  BY RankingHasFront
<1>3. /\ Ranking(p) \in [CandidateId -> Nat]
      /\ SelectionStateDigest(p) \in SelectionDigest
      /\ populations[p].generation \in Nat
      /\ taskGeneration \in Nat /\ policyGeneration \in Nat
  BY <1>0, RankingType, SelectionStateDigestType DEF TypeOK, PopulationRecord
<1> HIDE DEF selected
<1>4. decision \in SelectionDecision
  BY <1>2, <1>3 DEF SelectionDecision
<1> HIDE DEF decision
<1>5. /\ selections' \in [PopulationId -> SelectionDecision]
      /\ heldSelection' \in [Controller -> SelectionDecision]
  BY <1>0, <1>1, <1>4 DEF TypeOK
<1>6. populations' \in [PopulationId -> PopulationRecord]
  BY <1>0, <1>1, PopulationStateType DEF TypeOK, PopulationState
<1> QED BY <1>5, <1>6 DEF prepare_selection, CoreInv, TypeOK

\* Clearing the marks of earlier winners leaves candidate records.
LEMMA ClearMarksType ==
    ASSUME TypeOK, NEW p, NEW w
    PROVE  ClearMarks(p, w) \in [CandidateId -> CandidateRecord]
<1>1. \A r \in CandidateRecord : [r EXCEPT !.selected = FALSE] \in CandidateRecord
  BY DEF CandidateRecord
<1> QED BY <1>1 DEF ClearMarks, TypeOK

\* commit_selection preserves CoreInv, whether the transition of the winner
\* is accepted or refused.
LEMMA CommitSelectionType ==
    ASSUME CoreInv, NEW x \in Controller, commit_selection(x)
    PROVE  CoreInv'
<1> DEFINE d == heldSelection[x]
           p == d.population
           w == d.selected
           cleared == ClearMarks(p, w)
           generation == populations[p].committedSelection + 1
<1>0. TypeOK
  BY DEF CoreInv
<1>1. \/ candidates' = cleared /\ UNCHANGED <<populations, selections>>
      \/ /\ candidates' = [c \in CandidateId |->
                IF c = w
                THEN [candidates[c] EXCEPT !.state = "Selected", !.selected = TRUE]
                ELSE cleared[c]]
         /\ populations' = [populations EXCEPT
                ![p].committedSelection = generation, ![p].state = "Advancing"]
         /\ selections' = [selections EXCEPT
                ![p] = [d EXCEPT !.state = "Committed", !.generation = generation]]
  BY Zenon DEF commit_selection
<1>2. cleared \in [CandidateId -> CandidateRecord]
  BY <1>0, ClearMarksType
<1>3. \A c \in CandidateId :
        [candidates[c] EXCEPT !.state = "Selected", !.selected = TRUE] \in CandidateRecord
  <2>1. \A r \in CandidateRecord :
          [r EXCEPT !.state = "Selected", !.selected = TRUE] \in CandidateRecord
    BY DEF CandidateRecord, CandidateState
  <2> QED BY <1>0, <2>1 DEF TypeOK
<1>4. d \in SelectionDecision
  BY <1>0 DEF TypeOK
<1>5. p \in PopulationId => generation \in Nat
  <2> HIDE DEF p
  <2> QED BY <1>0 DEF TypeOK, PopulationRecord
<1>6. \A g \in Nat : [d EXCEPT !.state = "Committed", !.generation = g] \in SelectionDecision
  <2>1. \A r \in SelectionDecision, g \in Nat :
          [r EXCEPT !.state = "Committed", !.generation = g] \in SelectionDecision
    BY DEF SelectionDecision
  <2> QED BY <1>4, <2>1, Zenon
<1>7. \A r \in PopulationRecord, g \in Nat :
        [r EXCEPT !.committedSelection = g, !.state = "Advancing"] \in PopulationRecord
  BY DEF PopulationRecord, PopulationState
<1> HIDE DEF d, p, w, cleared, generation
<1>8. candidates' \in [CandidateId -> CandidateRecord]
  BY <1>1, <1>2, <1>3
<1>9. /\ populations' \in [PopulationId -> PopulationRecord]
      /\ selections' \in [PopulationId -> SelectionDecision]
  <2>1. /\ populations \in [PopulationId -> PopulationRecord]
        /\ selections \in [PopulationId -> SelectionDecision]
    BY <1>0 DEF TypeOK
  <2>2. CASE p \in PopulationId
    <3>1. /\ [populations[p] EXCEPT !.committedSelection = generation,
                                    !.state = "Advancing"] \in PopulationRecord
          /\ [d EXCEPT !.state = "Committed", !.generation = generation] \in SelectionDecision
      BY <1>5, <1>6, <1>7, <2>1, <2>2
    <3> QED BY <1>1, <2>1, <3>1
  <2>3. CASE p \notin PopulationId
    BY <1>1, <2>1, <2>3
  <2> QED BY <2>2, <2>3
<1> QED BY <1>8, <1>9 DEF commit_selection, CoreInv, TypeOK

\* prepare_retention preserves CoreInv.
LEMMA PrepareRetentionType ==
    ASSUME CoreInv, NEW x \in Controller, NEW p \in PopulationId, prepare_retention(x, p)
    PROVE  CoreInv'
<1> DEFINE kept == RetainedSet(selections[p])
           decision == [
             state |-> "Prepared", population |-> p,
             populationGeneration |-> populations[p].generation,
             policyGeneration |-> policyGeneration,
             selectionGeneration |-> selections[p].generation,
             retained |-> kept, retired |-> CandidatesOf(p) \ kept,
             digest |-> RetentionStateDigest(p)]
<1>0. TypeOK
  BY DEF CoreInv
<1>1. /\ \/ retentions' = [retentions EXCEPT ![p] = retentions[p]]
         \/ retentions' = [retentions EXCEPT ![p] = decision]
      /\ heldRetention' = [heldRetention EXCEPT ![x] = retentions'[p]]
  BY Zenon DEF prepare_retention
<1>2. kept \in SUBSET CandidateId /\ CandidatesOf(p) \ kept \in SUBSET CandidateId
  BY DEF RetainedSet, CandidatesOf
<1>3. /\ populations[p].generation \in Nat /\ policyGeneration \in Nat
      /\ selections[p].generation \in Nat /\ selections[p].digest \in SelectionDigest
  BY <1>0 DEF TypeOK, PopulationRecord, SelectionDecision
<1>4. RetentionStateDigest(p) \in RetentionDigest
  BY <1>3 DEF RetentionStateDigest, RetentionDigest
<1> HIDE DEF kept
<1>5. decision \in RetentionDecision
  BY <1>2, <1>3, <1>4 DEF RetentionDecision
<1> HIDE DEF decision
<1>6. retentions' \in [PopulationId -> RetentionDecision]
  BY <1>0, <1>1, <1>5 DEF TypeOK
<1>7. heldRetention' \in [Controller -> RetentionDecision]
  BY <1>0, <1>1, <1>6 DEF TypeOK
<1> QED BY <1>6, <1>7 DEF prepare_retention, CoreInv, TypeOK

\* commit_retention preserves CoreInv.
LEMMA CommitRetentionType ==
    ASSUME CoreInv, NEW x \in Controller, commit_retention(x)
    PROVE  CoreInv'
<1> DEFINE d == heldRetention[x]
           p == d.population
<1>0. TypeOK
  BY DEF CoreInv
<1>1. /\ candidates' = [c \in CandidateId |->
             CASE c \in d.retained -> [candidates[c] EXCEPT !.retained = TRUE]
               [] /\ c \in d.retired \ d.retained
                  /\ c # selections[p].selected
                  /\ CandidateLegal(candidates[c].state, "Retired") ->
                     [candidates[c] EXCEPT !.state = "Retired"]
               [] OTHER -> candidates[c]]
      /\ populations' = [populations EXCEPT
             ![p].retentionCommitted = TRUE,
             ![p].retentionSelection = d.selectionGeneration]
      /\ retentions' = [retentions EXCEPT ![p] = [d EXCEPT !.state = "Committed"]]
  BY Zenon DEF commit_retention
<1>2. d \in RetentionDecision
  BY <1>0 DEF TypeOK
<1> HIDE DEF d, p
<1>3. \A r \in CandidateRecord : /\ [r EXCEPT !.retained = TRUE] \in CandidateRecord
                                 /\ [r EXCEPT !.state = "Retired"] \in CandidateRecord
  BY DEF CandidateRecord, CandidateState
<1>4. candidates' \in [CandidateId -> CandidateRecord]
  BY <1>0, <1>1, <1>3 DEF TypeOK
<1>5. /\ [d EXCEPT !.state = "Committed"] \in RetentionDecision
      /\ d.selectionGeneration \in Nat
  BY <1>2 DEF RetentionDecision
<1>6. retentions' \in [PopulationId -> RetentionDecision]
  BY <1>0, <1>1, <1>5 DEF TypeOK
<1>7. \A r \in PopulationRecord, g \in Nat :
        [r EXCEPT !.retentionCommitted = TRUE, !.retentionSelection = g] \in PopulationRecord
  BY DEF PopulationRecord
<1>8. populations' \in [PopulationId -> PopulationRecord]
  BY <1>0, <1>1, <1>5, <1>7 DEF TypeOK
<1> QED BY <1>4, <1>6, <1>8 DEF commit_retention, CoreInv, TypeOK

\* prepare_promotion_request preserves CoreInv.
LEMMA PreparePromotionType ==
    ASSUME CoreInv, NEW p \in PopulationId, prepare_promotion_request(p)
    PROVE  CoreInv'
<1> DEFINE w == selections[p].selected
           eligible == /\ \A k \in Mandatory : RequirementPassed(evaluations, w, k)
                       /\ candidates[w].taskGeneration = taskGeneration
                       /\ candidates[w].selected
           request == [population |-> p, candidate |-> w,
                       selectionGeneration |-> selections[p].generation,
                       eligible |-> eligible]
<1>0. TypeOK
  BY DEF CoreInv
<1>1. /\ w # 0
      /\ promotions' = promotions \cup {request}
      /\ populations' = [populations EXCEPT ![p].promotionRequested = TRUE]
  BY DEF prepare_promotion_request
<1>2. w \in CandidateId /\ selections[p].generation \in Nat
  BY <1>0, <1>1 DEF TypeOK, SelectionDecision
<1>3. eligible \in BOOLEAN
  BY Zenon
<1> HIDE DEF eligible, w
<1>4. request \in PromotionRequest
  BY <1>2, <1>3, Zenon DEF PromotionRequest
<1> HIDE DEF request
<1>5. promotions' \subseteq PromotionRequest
  BY <1>0, <1>1, <1>4 DEF TypeOK
<1>6. \A r \in PopulationRecord : [r EXCEPT !.promotionRequested = TRUE] \in PopulationRecord
  BY DEF PopulationRecord
<1>7. populations' \in [PopulationId -> PopulationRecord]
  BY <1>0, <1>1, <1>6 DEF TypeOK
<1> QED BY <1>5, <1>7 DEF prepare_promotion_request, CoreInv, TypeOK

\* create_population of a later index preserves CoreInv.
LEMMA CreateSuccessorType ==
    ASSUME CoreInv, NEW p \in PopulationId, create_successor(p)
    PROVE  CoreInv'
<1> DEFINE q == ids.population + 1
           w == selections[p].selected
           index == populations[p].index + 1
<1>0. TypeOK
  BY DEF CoreInv
<1>1. /\ w # 0 /\ q \in PopulationId
      /\ populations' = [populations EXCEPT ![q] = NewPopulation(index, w)]
      /\ ids' = [ids EXCEPT !.population = q]
  BY Zenon DEF create_successor
<1>2. w \in CandidateId /\ index \in Nat
  BY <1>0, <1>1 DEF TypeOK, SelectionDecision, PopulationRecord
<1> HIDE DEF q, w, index
<1>3. populations' \in [PopulationId -> PopulationRecord]
  <2>1. NewPopulation(index, w) \in PopulationRecord
    BY <1>0, <1>2, NewPopulationType
  <2> QED BY <1>0, <1>1, <2>1 DEF TypeOK
<1>4. ids' \in IdCounters
  BY <1>0, <1>1, IdsAreCounts DEF TypeOK, IdCounters
<1> QED BY <1>3, <1>4 DEF create_successor, CoreInv, TypeOK

\* advance_population preserves CoreInv, with and without an elite candidate.
LEMMA AdvancePopulationType ==
    ASSUME CoreInv, NEW p \in PopulationId, advance_population(p)
    PROVE  CoreInv'
<1> DEFINE q == ids.population + 1
           w == selections[p].selected
           e == ids.candidate + 1
           index == populations[p].index + 1
<1>0. TypeOK
  BY DEF CoreInv
<1>1. /\ w # 0 /\ q \in PopulationId
      /\ populations' = [populations EXCEPT ![q] = NewPopulation(index, w)]
      /\ \/ /\ e \in CandidateId
            /\ candidates' = [candidates EXCEPT ![e] = EliteCandidate(q, w)]
            /\ consumed' = [consumed EXCEPT ![q]["Candidates"] = @ + 1]
            /\ ids' = [ids EXCEPT !.population = q, !.candidate = e]
         \/ /\ ids' = [ids EXCEPT !.population = q]
            /\ UNCHANGED <<candidates, consumed>>
  BY Zenon DEF advance_population
<1>2. w \in CandidateId /\ index \in Nat
  BY <1>0, <1>1 DEF TypeOK, SelectionDecision, PopulationRecord
<1>3. ids \in IdCounters
  BY <1>0 DEF TypeOK
<1> HIDE DEF q, w, e, index
<1>4. populations' \in [PopulationId -> PopulationRecord]
  <2>1. NewPopulation(index, w) \in PopulationRecord
    BY <1>0, <1>2, NewPopulationType
  <2> QED BY <1>0, <1>1, <2>1 DEF TypeOK
<1>5. EliteCandidate(q, w) \in CandidateRecord
  <2>1. candidates[w] \in CandidateRecord
    BY <1>0, <1>2 DEF TypeOK
  <2>2. candidates[w].depth + 1 \in Nat
    BY <2>1 DEF CandidateRecord
  <2> QED BY <1>0, <1>1, <1>2, <2>1, <2>2
          DEF EliteCandidate, NoCandidate, CandidateRecord, CandidateState, TypeOK
<1>6. candidates' \in [CandidateId -> CandidateRecord]
  BY <1>0, <1>1, <1>5 DEF TypeOK
<1>7. consumed' \in [PopulationId -> [BudgetKind -> Nat]]
  BY <1>0, <1>1 DEF TypeOK, BudgetKind
<1>8. ids' \in IdCounters
  BY <1>1, <1>3, IdsAreCounts DEF IdCounters
<1> QED BY <1>4, <1>6, <1>7, <1>8 DEF advance_population, CoreInv, TypeOK

-----------------------------------------------------------------------------
(* The specification. *)

\* A new core satisfies CoreInv.
LEMMA InitCoreInv == Init => CoreInv
<1> SUFFICES ASSUME Init PROVE CoreInv
  OBVIOUS
<1>1. /\ attempts \in [AttemptId -> SoundAttempt]
      /\ populations \in [PopulationId -> PopulationRecord]
      /\ candidates \in [CandidateId -> CandidateRecord]
      /\ workers \in [Worker -> WorkerRecord]
      /\ selections \in [PopulationId -> SelectionDecision]
      /\ retentions \in [PopulationId -> RetentionDecision]
      /\ heldSelection \in [Controller -> SelectionDecision]
      /\ heldRetention \in [Controller -> RetentionDecision]
  BY NoRecordsType DEF Init
<1>2. ids \in IdCounters
  BY BoundsAssumption DEF Init, IdCounters
<1>3. IsFiniteSet(evaluations)
  BY FS_EmptySet DEF Init
<1> QED BY <1>1, <1>2, <1>3, SoundIsTyped DEF Init, CoreInv, TypeOK

\* No call of a worker breaks CoreInv.
LEMMA WorkerCallInv == ASSUME CoreInv, WorkerCall PROVE CoreInv'
  BY RegisterWorkerType, WorkerReadyType, RevalidateWorkerType, WorkerDisconnectedType,
     RejectWorkerSessionType, AuthorizeAttemptType, ConfirmDispatchType,
     AbandonDispatchType, AcknowledgeAttemptType, PublishCandidateType,
     ReportAttemptFailureType DEF WorkerCall

\* No report of an evaluator or of a worker on itself breaks CoreInv.
LEMMA EvaluatorCallInv == ASSUME CoreInv, EvaluatorCall PROVE CoreInv'
<1> SUFFICES ASSUME NEW c \in CandidateId,
                    begin_evaluation(c) \/ EvaluatorReport(c) \/ SelfReport(c)
             PROVE  CoreInv'
  BY DEF EvaluatorCall
<1>1. CASE begin_evaluation(c)
  BY <1>1, BeginEvaluationType
<1>2. CASE EvaluatorReport(c)
  <2>1. PICK k \in Requirement, outcome \in {"Pass", "NotPass"},
             g \in {candidates[c].populationGeneration,
                    populations[candidates[c].population].generation},
             t \in {candidates[c].taskGeneration, taskGeneration} :
           record_evaluation(c, k, "Reference", outcome,
                             k \in Optional /\ outcome = "Pass", g, t)
    BY <1>2, Zenon DEF EvaluatorReport
  <2>2. (k \in Optional /\ outcome = "Pass") \in BOOLEAN
    BY Zenon
  <2> QED BY <2>1, <2>2, RecordEvaluationType, Zenon
<1>3. CASE SelfReport(c)
  <2>1. PICK k \in SelfReportKey, a \in AttemptsOf(c), outcome \in {"Pass", "NotPass"} :
           record_evaluation(c, k, "WorkerSelfReport", outcome, FALSE,
                             attempts[a].packagePopulation, attempts[a].packageTask)
    BY <1>3, Zenon DEF SelfReport
  <2> QED BY <2>1, RecordEvaluationType, Zenon
<1> QED BY <1>1, <1>2, <1>3

\* No call of the operator breaks CoreInv.
LEMMA OperatorCallInv == ASSUME CoreInv, OperatorCall PROVE CoreInv'
  BY ReviseType, CreatePopulationType, StartPopulationType, CancelPopulationType,
     RevalidatePopulationType, RequestRevalidationType, CancelAttemptType,
     ForceOutcomeUnknownType DEF OperatorCall

\* No decision breaks CoreInv.
LEMMA ControllerCallInv == ASSUME CoreInv, ControllerCall PROVE CoreInv'
  BY PrepareSelectionType, PrepareRetentionType, CommitSelectionType, CommitRetentionType,
     PreparePromotionType, ClosePopulationType, CreateSuccessorType, AdvancePopulationType
     DEF ControllerCall

\* CoreInv is inductive.
LEMMA NextCoreInv == CoreInv /\ [Next]_vars => CoreInv'
<1> SUFFICES ASSUME CoreInv, [Next]_vars PROVE CoreInv'
  OBVIOUS
<1>1. CASE Next
  BY <1>1, WorkerCallInv, EvaluatorCallInv, OperatorCallInv, ControllerCallInv, RecoverType
     DEF Next
<1>2. CASE UNCHANGED vars
  BY <1>2 DEF vars, CoreInv, TypeOK
<1> QED BY <1>1, <1>2

\* Every table of the core always holds records of its type: whatever the
\* limits, keys and numbers of workers are, no budget counter underflows, no
\* handler reads a record that does not exist, and a population that has
\* participants always has a front of its ranking to select.
THEOREM TypeCorrect == Spec => []TypeOK
<1>1. CoreInv => TypeOK
  BY DEF CoreInv
<1> QED BY <1>1, InitCoreInv, NextCoreInv, PTL DEF Spec

\* On every path an attempt can take, it holds its reservations exactly while
\* it is in flight.
THEOREM MarksAgree == Spec => []HeldWhileInFlight
<1>1. CoreInv => HeldWhileInFlight
  BY DEF CoreInv, SoundAttempt, HeldWhileInFlight
<1> QED BY <1>1, InitCoreInv, NextCoreInv, PTL DEF Spec
=============================================================================
