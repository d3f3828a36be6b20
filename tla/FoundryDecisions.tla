---------------------------- MODULE FoundryDecisions ----------------------------
(***************************************************************************)
(* The budget ledger and the decisions of FoundryCore, for every value of  *)
(* the constants.  The first part: reservations belong to attempts in      *)
(* flight, no limit is exceeded, each output is charged once, and a closed *)
(* population stays quiescent.                                             *)
(*                                                                         *)
(* The second part: selection, retention and succession.  A decision is    *)
(* prepared under the lock, kept by a controller while other calls run,    *)
(* and committed later.  The proofs show that its digest determines it:    *)
(* the ranking, the winner and the retained set are functions of the       *)
(* digest alone, so a digest that is found unchanged vouches for the whole *)
(* decision.                                                               *)
(***************************************************************************)
EXTENDS FoundrySlots

USE DEF definitionVars, ledgerVars, decisionVars, workerVars

-----------------------------------------------------------------------------
(* Reservations. *)

\* The holders of a reservation after the step.
HoldersAfter(p, k) == {a \in AttemptId : /\ attempts'[a].population = p
                                         /\ attempts'[a].holdsReservation
                                         /\ k \in KindsOf(attempts'[a])}

\* An attempt holds its reservations exactly while it is in flight, before and
\* after a step.
LEMMA HoldsInFlight ==
    ASSUME CoreInv, [Next]_vars, NEW a \in AttemptId
    PROVE  /\ attempts[a].holdsReservation <=> attempts[a].state \in AttemptInFlight
           /\ attempts'[a].holdsReservation <=> attempts'[a].state \in AttemptInFlight
<1>1. attempts \in [AttemptId -> SoundAttempt] /\ attempts' \in [AttemptId -> SoundAttempt]
  BY NextCoreInv DEF CoreInv
<1>2. attempts[a] \in SoundAttempt /\ attempts'[a] \in SoundAttempt
  BY <1>1
<1> QED BY <1>2, Zenon DEF SoundAttempt

\* A set of attempts is finite.
LEMMA AttemptsAreFinite ==
    ASSUME NEW S \in SUBSET AttemptId PROVE IsFiniteSet(S)
<1>1. IsFiniteSet(AttemptId)
  BY FS_Interval, BoundsAssumption DEF AttemptId
<1> QED BY <1>1, FS_Subset

\* Removing the part of a set of attempts that lies in A.
LEMMA CardinalityWithout ==
    ASSUME NEW S \in SUBSET AttemptId, NEW A
    PROVE  /\ Cardinality(S \ A) = Cardinality(S) - Cardinality(S \cap A)
           /\ Cardinality(S \cap A) <= Cardinality(S)
           /\ Cardinality(S) \in Nat /\ Cardinality(S \cap A) \in Nat
           /\ Cardinality(S \ A) \in Nat
<1>2. /\ S \cap A \in SUBSET S /\ S \ A \in SUBSET AttemptId
      /\ S \ (S \cap A) = S \ A /\ S \cap (S \cap A) = S \cap A
  OBVIOUS
<1>3. IsFiniteSet(S)
  BY AttemptsAreFinite
<1>4. IsFiniteSet(S \cap A) /\ Cardinality(S \cap A) <= Cardinality(S)
  BY <1>2, <1>3, FS_Subset
<1>5. Cardinality(S \ (S \cap A)) = Cardinality(S) - Cardinality(S \cap (S \cap A))
  BY <1>3, <1>4, FS_Difference
<1> QED BY <1>2, <1>4, <1>5, CardinalityOfAttempts

\* A work step returns exactly what the attempts it ends hold.
LEMMA WorkStepAccounts ==
    ASSUME CoreInv, ReservationsAccounted, [Next]_vars, NEW A, AttemptsEnd(A),
           NEW p \in PopulationId, NEW k \in BudgetKind
    PROVE  /\ reserved'[p][k] = Cardinality(HoldersAfter(p, k))
           /\ reserved'[p][k] <= reserved[p][k]
<1> DEFINE returned == {a \in A : /\ attempts[a].population = p
                                  /\ attempts[a].holdsReservation
                                  /\ k \in KindsOf(attempts[a])}
<1>1. returned = Holders(p, k) \cap A
  BY DEF AttemptsEnd, Holders
<1>2. HoldersAfter(p, k) = Holders(p, k) \ A
  <2> SUFFICES ASSUME NEW a \in AttemptId
               PROVE  /\ attempts'[a].population = attempts[a].population
                      /\ KindsOf(attempts'[a]) = KindsOf(attempts[a])
                      /\ attempts'[a].holdsReservation <=>
                            attempts[a].holdsReservation /\ a \notin A
    BY DEF HoldersAfter, Holders
  <2>1. /\ SameAttempt(attempts[a], attempts'[a])
        /\ a \in A => attempts'[a].state \in AttemptTerminal
        /\ a \in A \/ Proceeds(attempts[a], attempts'[a])
    BY DEF AttemptsEnd
  <2>2. attempts'[a].state \in AttemptInFlight <=>
           attempts[a].state \in AttemptInFlight /\ a \notin A
    BY <2>1 DEF Proceeds, AttemptInFlight, AttemptTerminal
  <2>3. KindsOf(attempts'[a]) = KindsOf(attempts[a])
    BY <2>1, Zenon DEF KindsOf, SameAttempt
  <2> QED BY <2>1, <2>2, <2>3, HoldsInFlight, Zenon DEF SameAttempt
<1>3. reserved'[p][k] = reserved[p][k] - Settled(p, k, Cardinality(returned))
  BY Zenon DEF AttemptsEnd, ReleaseReservations
<1>4. reserved[p][k] = Cardinality(Holders(p, k)) /\ Holders(p, k) \in SUBSET AttemptId
  BY DEF ReservationsAccounted, Holders
<1> HIDE DEF returned
<1>5. /\ Cardinality(Holders(p, k) \ A) =
            Cardinality(Holders(p, k)) - Cardinality(Holders(p, k) \cap A)
      /\ Cardinality(Holders(p, k) \cap A) <= Cardinality(Holders(p, k))
      /\ Cardinality(Holders(p, k)) \in Nat /\ Cardinality(Holders(p, k) \cap A) \in Nat
  BY <1>4, CardinalityWithout
<1> QED BY <1>1, <1>2, <1>3, <1>4, <1>5 DEF Settled

\* authorize_attempt reserves for the one attempt it makes.
LEMMA AuthorizeAccounts ==
    ASSUME CoreInv, ReservationsAccounted, [Next]_vars, NEW s, NEW q \in PopulationId,
           NEW c, NEW a \in AttemptId, Authorizes(s, q, c, a),
           NEW p \in PopulationId, NEW k \in BudgetKind
    PROVE  /\ reserved'[p][k] = Cardinality(HoldersAfter(p, k))
           /\ reserved'[p][k] = IF p = q /\ k \in KindsOf(attempts'[a])
                                THEN reserved[p][k] + 1 ELSE reserved[p][k]
<1>1. /\ attempts[a].holdsReservation = FALSE /\ attempts'[a].holdsReservation
      /\ attempts'[a].population = q
      /\ \A b \in AttemptId : b # a => attempts'[b] = attempts[b]
      /\ reserved' = Reserve(q, KindsOf(attempts'[a]))
  BY DEF Authorizes, NoAttempt
<1>2. reserved \in [PopulationId -> [BudgetKind -> Nat]]
  BY DEF CoreInv, TypeOK
<1>3. reserved'[p][k] = IF p = q /\ k \in KindsOf(attempts'[a])
                        THEN reserved[p][k] + 1 ELSE reserved[p][k]
  BY <1>1, <1>2 DEF Reserve
<1>4. HoldersAfter(p, k) = IF p = q /\ k \in KindsOf(attempts'[a])
                           THEN Holders(p, k) \cup {a} ELSE Holders(p, k)
  BY <1>1 DEF HoldersAfter, Holders
<1>5. a \notin Holders(p, k) /\ Holders(p, k) \in SUBSET AttemptId
  BY <1>1 DEF Holders
<1>6. IsFiniteSet(Holders(p, k))
  BY <1>5, AttemptsAreFinite
<1>7. Cardinality(Holders(p, k) \cup {a}) = Cardinality(Holders(p, k)) + 1
  BY <1>5, <1>6, FS_AddElement
<1> QED BY <1>3, <1>4, <1>7 DEF ReservationsAccounted

\* publish_candidate charges every reservation of its attempt.
LEMMA PublishAccounts ==
    ASSUME CoreInv, ReservationsAccounted, [Next]_vars, NEW s, NEW a \in AttemptId,
           NEW c, publish_candidate(s, a), Publishes(s, a, c),
           NEW p \in PopulationId, NEW k \in BudgetKind
    PROVE  /\ reserved'[p][k] = Cardinality(HoldersAfter(p, k))
           /\ IF p = attempts[a].population /\ k \in KindsOf(attempts[a])
              THEN /\ reserved'[p][k] = reserved[p][k] - 1
                   /\ consumed'[p][k] = consumed[p][k] + 1
              ELSE reserved'[p][k] = reserved[p][k] /\ consumed'[p][k] = consumed[p][k]
<1> DEFINE q == attempts[a].population
<1>1. /\ attempts[a].state \in AttemptInFlight /\ ~attempts'[a].holdsReservation
      /\ \A b \in AttemptId : b # a => attempts'[b] = attempts[b]
  BY DEF Publishes, AttemptInFlight
<1>2. attempts[a].holdsReservation
  BY <1>1, HoldsInFlight
<1>3. /\ reserved' = [reserved EXCEPT ![q] = [kk \in BudgetKind |->
                         IF kk \in ChargedKinds(a) THEN @[kk] - 1 ELSE @[kk]]]
      /\ consumed' = [consumed EXCEPT ![q] = [kk \in BudgetKind |->
                         IF kk \in ChargedKinds(a) THEN @[kk] + 1 ELSE @[kk]]]
  BY Zenon DEF publish_candidate
<1>4. /\ reserved \in [PopulationId -> [BudgetKind -> Nat]]
      /\ consumed \in [PopulationId -> [BudgetKind -> Nat]]
  BY DEF CoreInv, TypeOK
<1>5. Holders(p, k) \in SUBSET AttemptId /\ IsFiniteSet(Holders(p, k))
  BY AttemptsAreFinite DEF Holders
<1>6. a \in Holders(p, k) <=> p = q /\ k \in KindsOf(attempts[a])
  BY <1>2 DEF Holders
<1>7. HoldersAfter(p, k) = Holders(p, k) \ {a}
  BY <1>1 DEF HoldersAfter, Holders
<1>8. Cardinality(Holders(p, k) \ {a}) = IF a \in Holders(p, k) THEN Cardinality(Holders(p, k)) - 1
                                         ELSE Cardinality(Holders(p, k))
  BY <1>5, FS_RemoveElement
<1>9. p = q /\ k \in KindsOf(attempts[a]) => k \in ChargedKinds(a)
  <2> SUFFICES ASSUME p = q, k \in KindsOf(attempts[a]) PROVE reserved[q][k] > 0
    BY <1>2 DEF ChargedKinds
  <2>1. Cardinality(Holders(p, k)) \in Nat /\ Cardinality(Holders(p, k)) # 0
    BY <1>5, <1>6, FS_EmptySet, FS_CardinalityType
  <2> QED BY <2>1 DEF ReservationsAccounted
<1>10. k \in ChargedKinds(a) => k \in KindsOf(attempts[a])
  BY DEF ChargedKinds
<1> HIDE DEF q
<1>11. IF p = q /\ k \in KindsOf(attempts[a])
       THEN reserved'[p][k] = reserved[p][k] - 1 /\ consumed'[p][k] = consumed[p][k] + 1
       ELSE reserved'[p][k] = reserved[p][k] /\ consumed'[p][k] = consumed[p][k]
  BY <1>3, <1>4, <1>9, <1>10
<1> QED BY <1>6, <1>7, <1>8, <1>11 DEF ReservationsAccounted, q

\* Every step keeps the accounts.
LEMMA NextAccounts ==
    ASSUME CoreInv, RefInv, ReservationsAccounted, [Next]_vars PROVE ReservationsAccounted'
<1> SUFFICES ASSUME NEW p \in PopulationId, NEW k \in BudgetKind
             PROVE  reserved'[p][k] = Cardinality(HoldersAfter(p, k))
  BY DEF ReservationsAccounted, Holders, HoldersAfter
<1>1. WorkStep => reserved'[p][k] = Cardinality(HoldersAfter(p, k))
  BY WorkStepAccounts DEF WorkStep
<1>2. UNCHANGED <<attempts, reserved>> => reserved'[p][k] = Cardinality(HoldersAfter(p, k))
  BY DEF ReservationsAccounted, Holders, HoldersAfter
<1>3. /\ \A q \in PopulationId : Creates(q) => UNCHANGED <<attempts, reserved>>
      /\ \A r, q \in PopulationId, w \in CandidateId :
            Advances(r, q, w) => UNCHANGED <<attempts, reserved>>
      /\ \A x \in Controller : CommitsSelection(x) \/ CommitsRetention(x) =>
                               UNCHANGED <<attempts, reserved>>
  BY DEF Creates, Advances, MakesPopulation, CommitsSelection, CommitsRetention
<1> QED BY <1>1, <1>2, <1>3, AuthorizeAccounts, PublishAccounts, StepCases

-----------------------------------------------------------------------------
(* Limits. *)

\* A population that does not exist has not been charged.
FreshLedger == \A p \in PopulationId : populations[p].state = "Absent" =>
                  \A k \in BudgetKind : consumed[p][k] = 0

\* A population that does not exist holds no reservation.
LEMMA AbsentReservesNothing ==
    ASSUME CoreInv, RefInv, ReservationsAccounted, NEW p \in PopulationId,
           populations[p].state = "Absent", NEW k \in BudgetKind
    PROVE  reserved[p][k] = 0
<1>1. \A a \in AttemptId : attempts[a].population # p
  BY AbsentIsBlank DEF RefInv, TableRefs, AttemptRef, CandidateRef, KnownCandidate,
                       ExistingPopulation, NoAttempt, PopulationId
<1>2. Holders(p, k) = {}
  BY <1>1 DEF Holders
<1> QED BY <1>2, FS_EmptySet DEF ReservationsAccounted

\* The ledger after a step, by the kind of the step.
LEMMA LedgerStep ==
    ASSUME CoreInv, RefInv, ReservationsAccounted, [Next]_vars,
           NEW p \in PopulationId, NEW k \in BudgetKind
    PROVE  \/ consumed'[p][k] = consumed[p][k] /\ reserved'[p][k] <= reserved[p][k]
           \/ /\ HasCapacity(p, k) /\ populations[p].state = "Running"
              /\ reserved'[p][k] + consumed'[p][k] = InUse(p, k) + 1
           \/ /\ LivePopulation(p)
              /\ reserved'[p][k] = reserved[p][k] - 1 /\ consumed'[p][k] = consumed[p][k] + 1
           \/ /\ populations[p].state = "Absent" /\ populations'[p].state # "Absent"
              /\ k = "Candidates"
              /\ reserved'[p][k] = reserved[p][k] /\ consumed'[p][k] = consumed[p][k] + 1
<1>0. /\ reserved[p][k] \in Nat /\ consumed[p][k] \in Nat
      /\ consumed \in [PopulationId -> [BudgetKind -> Nat]]
  BY DEF CoreInv, TypeOK
<1>1. CASE WorkStep
  BY <1>1, WorkStepAccounts DEF WorkStep
<1>2. ASSUME NEW s \in sessions, NEW q \in PopulationId, NEW c \in CandidateId,
             NEW a \in AttemptId, Authorizes(s, q, c, a)
      PROVE  \/ consumed'[p][k] = consumed[p][k] /\ reserved'[p][k] <= reserved[p][k]
             \/ /\ HasCapacity(p, k) /\ populations[p].state = "Running"
                /\ reserved'[p][k] + consumed'[p][k] = InUse(p, k) + 1
  <2>1. reserved'[p][k] = IF p = q /\ k \in KindsOf(attempts'[a])
                          THEN reserved[p][k] + 1 ELSE reserved[p][k]
    BY <1>2, AuthorizeAccounts
  <2>2. /\ \A kk \in KindsOf(attempts'[a]) : HasCapacity(q, kk)
        /\ populations[q].state = "Running"
        /\ TakesSlot(q, c) \/ MakesSlot(q, c)
    BY <1>2 DEF Authorizes
  <2>3. "Candidates" \notin KindsOf(attempts'[a])
    BY DEF KindsOf
  <2>4. \/ consumed'[p][k] = consumed[p][k]
        \/ /\ p = q /\ k = "Candidates" /\ HasCapacity(p, k)
           /\ consumed'[p][k] = consumed[p][k] + 1
    BY <1>0, <2>2 DEF TakesSlot, MakesSlot
  <2>5. CASE p = q /\ k \in KindsOf(attempts'[a])
    <3>1. reserved'[p][k] = reserved[p][k] + 1 /\ HasCapacity(p, k) /\ k # "Candidates"
      BY <2>1, <2>2, <2>3, <2>5
    <3> QED BY <1>0, <2>2, <2>4, <2>5, <3>1 DEF InUse
  <2>6. CASE ~(p = q /\ k \in KindsOf(attempts'[a]))
    <3>1. reserved'[p][k] = reserved[p][k]
      BY <2>1, <2>6
    <3>2. reserved'[p][k] <= reserved[p][k]
      BY <1>0, <3>1
    <3>3. ASSUME p = q, HasCapacity(p, k), consumed'[p][k] = consumed[p][k] + 1
          PROVE  /\ HasCapacity(p, k) /\ populations[p].state = "Running"
                 /\ reserved'[p][k] + consumed'[p][k] = InUse(p, k) + 1
      <4>1. populations[p].state = "Running"
        BY <2>2, <3>3
      <4>2. reserved'[p][k] + consumed'[p][k] = InUse(p, k) + 1
        BY <1>0, <3>1, <3>3 DEF InUse
      <4> QED BY <3>3, <4>1, <4>2
    <3> QED BY <2>4, <3>2, <3>3
  <2> QED BY <2>5, <2>6
<1>3. ASSUME NEW s \in sessions, NEW a \in AttemptId, NEW c \in CandidateId,
             publish_candidate(s, a), Publishes(s, a, c)
      PROVE  \/ consumed'[p][k] = consumed[p][k] /\ reserved'[p][k] <= reserved[p][k]
             \/ /\ LivePopulation(p)
                /\ reserved'[p][k] = reserved[p][k] - 1 /\ consumed'[p][k] = consumed[p][k] + 1
  <2>1. LivePopulation(attempts[a].population)
    BY <1>3 DEF Publishes
  <2> QED BY <1>0, <1>3, <2>1, PublishAccounts
<1>4. UNCHANGED ledgerVars => consumed'[p][k] = consumed[p][k] /\ reserved'[p][k] <= reserved[p][k]
  BY <1>0
<1>5. /\ \A q \in PopulationId : Creates(q) => UNCHANGED ledgerVars
      /\ \A x \in Controller : CommitsSelection(x) \/ CommitsRetention(x) => UNCHANGED ledgerVars
  BY DEF Creates, MakesPopulation, CommitsSelection, CommitsRetention
<1>6. ASSUME NEW r \in PopulationId, NEW q \in PopulationId, NEW w \in CandidateId,
             Advances(r, q, w)
      PROVE  \/ consumed'[p][k] = consumed[p][k] /\ reserved'[p][k] <= reserved[p][k]
             \/ /\ populations[p].state = "Absent" /\ populations'[p].state # "Absent"
                /\ k = "Candidates"
                /\ reserved'[p][k] = reserved[p][k] /\ consumed'[p][k] = consumed[p][k] + 1
  <2>1. /\ populations[q].state = "Absent" /\ populations'[q].state # "Absent"
        /\ reserved' = reserved
    BY <1>6 DEF Advances, MakesPopulation, NoPopulation
  <2>2. \/ consumed' = consumed
        \/ consumed' = [consumed EXCEPT ![q]["Candidates"] = consumed[q]["Candidates"] + 1]
    BY <1>6 DEF Advances, MakesElite
  <2> QED BY <1>0, <2>1, <2>2
<1> QED BY <1>1, <1>2, <1>3, <1>4, <1>5, <1>6, StepCases

\* Every step keeps new ledgers empty and every kind within its limit.
LEMMA NextLimits ==
    ASSUME CoreInv, RefInv, ReservationsAccounted, FreshLedger, WithinLimits, [Next]_vars
    PROVE  FreshLedger' /\ WithinLimits'
<1> SUFFICES ASSUME NEW p \in PopulationId, NEW k \in BudgetKind
             PROVE  /\ populations'[p].state = "Absent" => consumed'[p][k] = 0
                    /\ reserved'[p][k] + consumed'[p][k] <= Limit[k]
  BY DEF FreshLedger, WithinLimits, InUse
<1>1. /\ reserved[p][k] \in Nat /\ consumed[p][k] \in Nat
      /\ reserved'[p][k] \in Nat /\ consumed'[p][k] \in Nat
  BY NextCoreInv DEF CoreInv, TypeOK
<1>2. /\ Limit[k] \in Nat /\ Limit["Candidates"] >= 1
      /\ reserved[p][k] + consumed[p][k] <= Limit[k]
  BY PolicyAssumption DEF WithinLimits, InUse, BudgetKind
<1>3. /\ populations[p].state = "Absent" => consumed[p][k] = 0 /\ reserved[p][k] = 0
      /\ populations[p].state # "Absent" => populations'[p].state # "Absent"
  BY AbsentReservesNothing, NextRefInv DEF FreshLedger, Endures
<1>4. \/ consumed'[p][k] = consumed[p][k] /\ reserved'[p][k] <= reserved[p][k]
      \/ /\ HasCapacity(p, k) /\ populations[p].state = "Running"
         /\ reserved'[p][k] + consumed'[p][k] = InUse(p, k) + 1
      \/ /\ LivePopulation(p)
         /\ reserved'[p][k] = reserved[p][k] - 1 /\ consumed'[p][k] = consumed[p][k] + 1
      \/ /\ populations[p].state = "Absent" /\ populations'[p].state # "Absent"
         /\ k = "Candidates"
         /\ reserved'[p][k] = reserved[p][k] /\ consumed'[p][k] = consumed[p][k] + 1
  BY LedgerStep
<1>5. populations'[p].state = "Absent" => consumed'[p][k] = 0
  BY <1>3, <1>4 DEF LivePopulation
<1>6. reserved'[p][k] + consumed'[p][k] <= Limit[k]
  BY <1>1, <1>2, <1>3, <1>4 DEF HasCapacity, InUse
<1> QED BY <1>5, <1>6

-----------------------------------------------------------------------------
(* Charges. *)

\* The candidates of p that carry the output of one of their own attempts,
\* before and after the step.
Produced(p) == {c \in CandidatesOf(p) : \E a \in AttemptsOf(c) : candidates[c].output = a}
ProducedAfter(p) ==
    {c \in CandidateId : /\ candidates'[c].population = p
                         /\ \E a \in AttemptId : /\ attempts'[a].candidate = c
                                                 /\ candidates'[c].output = a}
ChargedKind == {"CandidateAttempts", "WorkerAssignments", "ActiveAttempts"}

\* ChargedPerOutput in terms of Produced.
LEMMA ChargedIsProduced ==
    ChargedPerOutput <=> \A p \in PopulationId, k \in ChargedKind :
                            consumed[p][k] = Cardinality(Produced(p))
  BY DEF ChargedPerOutput, Produced, ChargedKind

\* A step that changes no output, no population and no owner of either.
LEMMA KeepsProduced ==
    ASSUME CoreInv, RefInv, NEW p \in PopulationId,
           \A a \in AttemptId : attempts'[a].candidate = attempts[a].candidate,
           \A c \in CandidateId : candidates[c].state # "Absent" =>
              /\ candidates'[c].population = candidates[c].population
              /\ candidates'[c].output = candidates[c].output
    PROVE  ProducedAfter(p) = Produced(p)
<1>1. \A a \in AttemptId, c \in CandidateId : attempts[a].candidate = c =>
                                              candidates[c].state # "Absent"
  BY AbsentIsBlank DEF RefInv, TableRefs, AttemptRef, KnownCandidate, NoAttempt, CandidateId
<1> QED BY <1>1 DEF ProducedAfter, Produced, CandidatesOf, AttemptsOf

\* What a step does to the outputs and to what they are charged to.
LEMMA ProducedStep ==
    ASSUME CoreInv, RefInv, SlotInv, ReservationsAccounted, [Next]_vars, NEW p \in PopulationId
    PROVE  \/ /\ ProducedAfter(p) = Produced(p)
              /\ \A k \in ChargedKind : consumed'[p][k] = consumed[p][k]
           \/ /\ \E c \in CandidateId : c \notin Produced(p) /\ ProducedAfter(p) = Produced(p) \cup {c}
              /\ \A k \in ChargedKind : consumed'[p][k] = consumed[p][k] + 1
<1>0. /\ consumed \in [PopulationId -> [BudgetKind -> Nat]]
      /\ ChargedKind \subseteq BudgetKind /\ "Candidates" \notin ChargedKind
  BY DEF CoreInv, TypeOK, ChargedKind, BudgetKind
<1>1. CASE WorkStep
  <2>1. \A a \in AttemptId : attempts'[a].candidate = attempts[a].candidate
    BY <1>1 DEF WorkStep, AttemptsEnd, SameAttempt
  <2>2. \A c \in CandidateId : /\ candidates'[c].population = candidates[c].population
                               /\ candidates'[c].output = candidates[c].output
    BY <1>1 DEF WorkStep, CandidatesWork, WorksOn, OnlyState, SameSlot
  <2>3. consumed' = consumed
    BY <1>1 DEF WorkStep
  <2> QED BY <2>1, <2>2, <2>3, KeepsProduced
<1>2. ASSUME NEW s \in sessions, NEW q \in PopulationId, NEW c \in CandidateId,
             NEW a \in AttemptId, Authorizes(s, q, c, a)
      PROVE  /\ ProducedAfter(p) = Produced(p)
             /\ \A k \in ChargedKind : consumed'[p][k] = consumed[p][k]
  <2>1. /\ attempts[a] = NoAttempt /\ attempts'[a].candidate = c
        /\ \A b \in AttemptId : b # a => attempts'[b] = attempts[b]
        /\ \A d \in CandidateId : d # c => candidates'[d] = candidates[d]
        /\ TakesSlot(q, c) \/ MakesSlot(q, c)
    BY <1>2 DEF Authorizes
  <2>2. candidates'[c].output = 0 /\ candidates[c].output = 0
    BY <2>1 DEF TakesSlot, MakesSlot, SlotInv, SlotOutput, Unproduced, NoCandidate
  <2>3. 0 \notin AttemptId /\ NoAttempt.candidate = 0 /\ 0 \notin CandidateId
    BY DEF AttemptId, CandidateId, NoAttempt
  <2>4. ProducedAfter(p) = Produced(p)
    <3>1. c \notin ProducedAfter(p) /\ c \notin Produced(p)
      BY <2>2, <2>3 DEF ProducedAfter, Produced, CandidatesOf, AttemptsOf
    <3>2. \A d \in CandidateId : d # c => (d \in ProducedAfter(p) <=> d \in Produced(p))
      BY <2>1, <2>3 DEF ProducedAfter, Produced, CandidatesOf, AttemptsOf
    <3> QED BY <3>1, <3>2 DEF ProducedAfter, Produced, CandidatesOf
  <2>5. \A k \in ChargedKind : consumed'[p][k] = consumed[p][k]
    BY <1>0, <2>1 DEF TakesSlot, MakesSlot
  <2> QED BY <2>4, <2>5
<1>3. ASSUME NEW s \in sessions, NEW a \in AttemptId, NEW c \in CandidateId,
             publish_candidate(s, a), Publishes(s, a, c)
      PROVE  \/ /\ ProducedAfter(p) = Produced(p)
                /\ \A k \in ChargedKind : consumed'[p][k] = consumed[p][k]
             \/ /\ \E d \in CandidateId :
                      d \notin Produced(p) /\ ProducedAfter(p) = Produced(p) \cup {d}
                /\ \A k \in ChargedKind : consumed'[p][k] = consumed[p][k] + 1
  <2>1. /\ attempts[a].candidate = c /\ attempts'[a].candidate = c
        /\ attempts[a].state # "Absent"
        /\ \A b \in AttemptId : b # a => attempts'[b] = attempts[b]
        /\ \A d \in CandidateId : d # c => candidates'[d] = candidates[d]
        /\ candidates'[c].population = candidates[c].population
        /\ candidates'[c].output = a /\ candidates[c].output = 0
    BY <1>3 DEF Publishes, SameAttempt, SameSlot
  <2>2. candidates[c].population = attempts[a].population
    BY <2>1 DEF RefInv, TableRefs, AttemptRef
  <2>3. ChargedKind \subseteq KindsOf(attempts[a])
    BY DEF ChargedKind, KindsOf
  <2>4. c \notin Produced(p)
    BY <2>1 DEF Produced, AttemptsOf, AttemptId
  <2>5. \A d \in CandidateId : d # c => (d \in ProducedAfter(p) <=> d \in Produced(p))
    BY <2>1 DEF ProducedAfter, Produced, CandidatesOf, AttemptsOf
  <2>6. c \in ProducedAfter(p) <=> p = attempts[a].population
    BY <2>1, <2>2 DEF ProducedAfter
  <2>7. ProducedAfter(p) \subseteq CandidateId /\ Produced(p) \subseteq CandidateId
    BY DEF ProducedAfter, Produced, CandidatesOf
  <2>8. CASE p = attempts[a].population
    <3>1. \A k \in ChargedKind : consumed'[p][k] = consumed[p][k] + 1
      BY <1>0, <1>3, <2>3, <2>8, PublishAccounts
    <3>2. ProducedAfter(p) = Produced(p) \cup {c}
      BY <2>4, <2>5, <2>6, <2>7, <2>8
    <3> QED BY <2>4, <3>1, <3>2
  <2>9. CASE p # attempts[a].population
    <3>1. \A k \in ChargedKind : consumed'[p][k] = consumed[p][k]
      BY <1>0, <1>3, <2>9, PublishAccounts
    <3>2. ProducedAfter(p) = Produced(p)
      BY <2>4, <2>5, <2>6, <2>7, <2>9
    <3> QED BY <3>1, <3>2
  <2> QED BY <2>8, <2>9
<1>4. ASSUME MarksOnly, \A c \in CandidateId : candidates[c].state # "Absent" =>
                           SameSlot(candidates[c], candidates'[c])
      PROVE  ProducedAfter(p) = Produced(p)
  BY <1>4, KeepsProduced DEF MarksOnly, SameSlot
<1>5. ASSUME NEW x \in Controller, CommitsSelection(x) \/ CommitsRetention(x)
      PROVE  /\ ProducedAfter(p) = Produced(p)
             /\ \A k \in ChargedKind : consumed'[p][k] = consumed[p][k]
  <2>1. MarksOnly /\ consumed' = consumed
    BY <1>5, CommitsSelectionMarks, CommitsRetentionMarks DEF CommitsSelection, CommitsRetention
  <2> QED BY <1>4, <2>1, NextRefInv DEF Endures
<1>6. ASSUME NEW q \in PopulationId, NEW index, NEW w, MakesPopulation(q, index, w),
             \/ UNCHANGED <<candidates, consumed>>
             \/ \E e \in CandidateId : MakesElite(q, e, w)
      PROVE  /\ ProducedAfter(p) = Produced(p)
             /\ \A k \in ChargedKind : consumed'[p][k] = consumed[p][k]
  <2>1. attempts' = attempts
    BY <1>6 DEF MakesPopulation
  <2>2. \A c \in CandidateId : candidates[c].state # "Absent" => candidates'[c] = candidates[c]
    BY <1>6 DEF MakesElite, NoCandidate
  <2>3. \A k \in ChargedKind : consumed'[p][k] = consumed[p][k]
    BY <1>0, <1>6 DEF MakesElite
  <2> QED BY <2>1, <2>2, <2>3, KeepsProduced
<1>7. /\ \A q : Creates(q) => MakesPopulation(q, 1, 0) /\ UNCHANGED <<candidates, consumed>>
      /\ \A r, q, w : Advances(r, q, w) =>
            /\ MakesPopulation(q, populations[r].index + 1, w)
            /\ \/ UNCHANGED <<candidates, consumed>>
               \/ \E e \in CandidateId : MakesElite(q, e, w)
  BY DEF Creates, Advances
<1> QED BY <1>1, <1>2, <1>3, <1>5, <1>6, <1>7, StepCases

\* Every step charges what it produces.
LEMMA NextCharges ==
    ASSUME CoreInv, RefInv, SlotInv, ReservationsAccounted, ChargedPerOutput, [Next]_vars
    PROVE  ChargedPerOutput'
<1> SUFFICES ASSUME NEW p \in PopulationId, NEW k \in ChargedKind
             PROVE  consumed'[p][k] = Cardinality(ProducedAfter(p))
  BY DEF ChargedPerOutput, ProducedAfter, ChargedKind, CandidatesOf, AttemptsOf
<1>1. consumed[p][k] = Cardinality(Produced(p))
  BY ChargedIsProduced
<1>2. Produced(p) \in SUBSET CandidateId
  BY DEF Produced, CandidatesOf
<1>3. IsFiniteSet(Produced(p))
  BY <1>2, CardinalityOfCandidates
<1>4. \A c : c \notin Produced(p) => Cardinality(Produced(p) \cup {c}) = Cardinality(Produced(p)) + 1
  BY <1>3, FS_AddElement
<1> QED BY <1>1, <1>4, ProducedStep

-----------------------------------------------------------------------------
(* Closed populations. *)

\* A candidate of a population that has ended does not become unresolved again.
LEMMA ResolvedStaysResolved ==
    ASSUME WorkInv, [Next]_vars, NEW p \in PopulationId,
           populations[p].state \in PopulationTerminal,
           NEW c \in CandidateId, candidates[c].population = p, candidates[c].state # "Absent",
           candidates[c].state \notin CandidateUnresolved
    PROVE  candidates'[c].state \notin CandidateUnresolved
<1> USE DEF WorkInv
<1>0. ~LivePopulation(p)
  BY DEF LivePopulation
<1>1. CASE WorkStep
  <2>1. /\ SlotMoves(candidates[c], candidates'[c])
        /\ candidates[c].state = "Evaluated" => candidates'[c].state = "Evaluated"
    BY <1>0, <1>1 DEF WorkStep, CandidatesWork, WorksOn
  <2> QED BY <2>1 DEF SlotMoves, CandidateUnresolved
<1>2. ASSUME NEW s \in sessions, NEW q \in PopulationId, NEW d \in CandidateId,
             NEW a \in AttemptId, Authorizes(s, q, d, a)
      PROVE  candidates'[c].state \notin CandidateUnresolved
  <2>1. c # d
    BY <1>2 DEF Authorizes, TakesSlot, MakesSlot, NoCandidate, CandidateUnresolved
  <2> QED BY <1>2, <2>1 DEF Authorizes
<1>3. ASSUME NEW s \in sessions, NEW a \in AttemptId, NEW d \in CandidateId, Publishes(s, a, d)
      PROVE  candidates'[c].state \notin CandidateUnresolved
  <2>1. c # d
    BY <1>3 DEF Publishes, CandidateUnresolved
  <2> QED BY <1>3, <2>1 DEF Publishes
<1>4. ASSUME NEW q \in PopulationId, NEW index, NEW w, MakesPopulation(q, index, w),
             UNCHANGED candidates \/ \E e \in CandidateId : MakesElite(q, e, w)
      PROVE  candidates'[c].state \notin CandidateUnresolved
  BY <1>4 DEF MakesElite, NoCandidate
<1>5. ASSUME NEW x \in Controller, CommitsSelection(x)
      PROVE  candidates'[c].state \notin CandidateUnresolved
  <2>1. \/ RefusesWinner(heldSelection[x]) \/ InstallsWinner(heldSelection[x])
    BY <1>5 DEF CommitsSelection
  <2>2. \/ candidates'[c].state = candidates[c].state \/ candidates'[c].state = "Selected"
    BY <2>1 DEF RefusesWinner, InstallsWinner, Unmarks
  <2> QED BY <2>2 DEF CandidateUnresolved
<1>6. ASSUME NEW x \in Controller, CommitsRetention(x)
      PROVE  candidates'[c].state \notin CandidateUnresolved
  <2>1. candidates'[c].state = candidates[c].state \/ candidates'[c].state = "Retired"
    BY <1>6 DEF CommitsRetention, Retires
  <2> QED BY <2>1 DEF CandidateUnresolved
<1>7. /\ \A q : Creates(q) => MakesPopulation(q, 1, 0) /\ UNCHANGED candidates
      /\ \A r, q, w : Advances(r, q, w) =>
            /\ MakesPopulation(q, populations[r].index + 1, w)
            /\ UNCHANGED candidates \/ \E e \in CandidateId : MakesElite(q, e, w)
  BY DEF Creates, Advances
<1> QED BY <1>1, <1>2, <1>3, <1>4, <1>5, <1>6, <1>7, StepCases

\* Only running populations get attempts.
LEMMA NewAttemptIsLive ==
    ASSUME WorkInv, [Next]_vars, NEW a \in AttemptId, NEW p \in PopulationId,
           attempts'[a].population = p, populations[p].state \in PopulationTerminal
    PROVE  attempts[a].population = p
<1>1. ASSUME NEW s, NEW q, NEW c, NEW b \in AttemptId, Authorizes(s, q, c, b)
      PROVE  attempts[a].population = p
  BY <1>1 DEF Authorizes, PopulationTerminal
<1>2. CASE AttemptsCarryOn
  BY <1>2 DEF AttemptsCarryOn, SameAttempt
<1> QED BY <1>1, <1>2, StepFlight DEF WorkInv

\* How a population comes to be Closed.
LEMMA ClosedStep ==
    ASSUME WorkInv, [Next]_vars, NEW p \in PopulationId, populations'[p].state = "Closed"
    PROVE  \/ populations[p].state = "Closed"
           \/ /\ ClosureContract(p) /\ UNCHANGED <<attempts, candidates, reserved>>
              /\ PopulationKept(p) /\ populations[p].state # "Absent"
<1> USE DEF WorkInv
<1>1. CASE populations[p].state = "Absent"
  <2>2. WorkStep \/ PopulationsKeep => populations'[p] = populations[p]
    BY <1>1 DEF WorkStep, PopulationsKeep, PopulationKept
  <2>3. \A s, q, c, a : Authorizes(s, q, c, a) => populations' = populations
    BY DEF Authorizes
  <2>4. \A q \in PopulationId : \A index, w : MakesPopulation(q, index, w) =>
           populations'[p] = populations[p] \/ populations'[p].state = "Created"
    BY DEF MakesPopulation
  <2>5. ASSUME NEW x \in Controller, CommitsSelection(x) PROVE populations'[p] = populations[p]
    <3>1. heldSelection[x].population # p
      BY <1>1, <2>5 DEF CommitsSelection, ExistingPopulation
    <3> QED BY <2>5, <3>1, Zenon DEF CommitsSelection, RefusesWinner, InstallsWinner
  <2>6. \A x : CommitsRetention(x) => populations'[p] = populations[p]
    BY <2>2 DEF CommitsRetention
  <2>7. /\ \A q : Creates(q) => MakesPopulation(q, 1, 0)
        /\ \A r, q, w : Advances(r, q, w) => MakesPopulation(q, populations[r].index + 1, w)
    BY DEF Creates, Advances
  <2>8. populations'[p] = populations[p] \/ populations'[p].state = "Created"
    BY <2>2, <2>3, <2>4, <2>5, <2>6, <2>7, StepCases
  <2> QED BY <1>1, <2>8
<1>2. CASE populations[p].state # "Absent"
  <2>1. ~\E x \in Controller : InstallsIn(x, p)
    BY InstallsInDoes
  <2>2. PopulationKept(p)
    BY <1>2, <2>1, StepPopulations
  <2>3. populations[p].state \in PopulationTerminal => populations[p].state = "Closed"
    BY <2>2 DEF PopulationKept
  <2>4. populations[p].state \notin PopulationTerminal =>
           ClosureContract(p) /\ UNCHANGED <<attempts, candidates, reserved>>
    BY <2>2 DEF PopulationKept, PopulationTerminal
  <2> QED BY <1>2, <2>2, <2>3, <2>4
<1> QED BY <1>1, <1>2

\* Every step keeps closed populations quiescent.
LEMMA NextQuiescent ==
    ASSUME WorkInv, ReservationsAccounted, ClosedIsQuiescent, [Next]_vars
    PROVE  ClosedIsQuiescent'
<1> SUFFICES ASSUME NEW p \in PopulationId, populations'[p].state = "Closed"
             PROVE  /\ \A a \in AttemptId : attempts'[a].population = p =>
                                            attempts'[a].state \in AttemptTerminal
                    /\ \A k \in BudgetKind : reserved'[p][k] = 0
                    /\ \A c \in CandidateId : candidates'[c].population = p =>
                                              candidates'[c].state \notin CandidateUnresolved
  BY DEF ClosedIsQuiescent, CandidatesOf
<1>1. CASE populations[p].state = "Closed"
  <2>0. populations[p].state \in PopulationTerminal
    BY <1>1 DEF PopulationTerminal
  <2>1. \A a \in AttemptId : attempts'[a].population = p => attempts'[a].state \in AttemptTerminal
    <3> SUFFICES ASSUME NEW a \in AttemptId, attempts'[a].population = p
                 PROVE  attempts'[a].state \in AttemptTerminal
      OBVIOUS
    <3>1. attempts[a].population = p
      BY <2>0, NewAttemptIsLive
    <3>2. attempts[a].state \in AttemptTerminal
      BY <1>1, <3>1 DEF ClosedIsQuiescent
    <3> QED BY <3>2, RefusesLateResults DEF LateStep
  <2>2. \A k \in BudgetKind : HoldersAfter(p, k) = {}
    BY <2>1, HoldsInFlight, AttemptStatesApart DEF HoldersAfter, WorkInv
  <2>3. \A k \in BudgetKind : reserved'[p][k] = 0
    <3>1. ReservationsAccounted'
      BY NextAccounts DEF WorkInv
    <3>2. \A k \in BudgetKind : reserved'[p][k] = Cardinality(HoldersAfter(p, k))
      BY <3>1 DEF ReservationsAccounted, Holders, HoldersAfter
    <3> QED BY <2>2, <3>2, FS_EmptySet
  <2>4. \A c \in CandidateId : candidates'[c].population = p =>
                               candidates'[c].state \notin CandidateUnresolved
    <3> SUFFICES ASSUME NEW c \in CandidateId, candidates'[c].population = p
                 PROVE  candidates'[c].state \notin CandidateUnresolved
      OBVIOUS
    <3>1. candidates[c].population = p
      BY <2>0, RefusesLateResults DEF LateStep, CandidatesOf
    <3>2. candidates[c].state # "Absent"
      BY <3>1, AbsentIsBlank DEF WorkInv, RefInv, TableRefs, NoCandidate, PopulationId
    <3>3. candidates[c].state \notin CandidateUnresolved
      BY <1>1, <3>1 DEF ClosedIsQuiescent, CandidatesOf
    <3> QED BY <2>0, <3>1, <3>2, <3>3, ResolvedStaysResolved
  <2> QED BY <2>1, <2>3, <2>4
<1>2. CASE ClosureContract(p) /\ UNCHANGED <<attempts, candidates, reserved>>
  BY <1>2 DEF ClosureContract, CandidatesOf
<1> QED BY <1>1, <1>2, ClosedStep

-----------------------------------------------------------------------------
(* Theorems. *)

\* What ReservationsAccounted, WithinLimits, ChargedPerOutput and
\* ClosedIsQuiescent need besides each other: a new population starts with an
\* empty ledger, which advance_population charges the elite to.
BudgetInv == /\ WorkInv
             /\ ReservationsAccounted /\ FreshLedger /\ WithinLimits
             /\ ChargedPerOutput /\ ClosedIsQuiescent

\* A core without populations.
LEMMA InitBudgetInv == Init => BudgetInv
<1> SUFFICES ASSUME Init PROVE BudgetInv
  OBVIOUS
<1>1. WorkInv
  BY InitWorkInv
<1>2. /\ \A a \in AttemptId : attempts[a].population = 0 /\ attempts[a].candidate = 0
      /\ \A c \in CandidateId : candidates[c].population = 0
      /\ 0 \notin PopulationId
  BY DEF Init, NoAttempt, NoCandidate, PopulationId
<1>3. \A p \in PopulationId, k \in BudgetKind : reserved[p][k] = 0 /\ consumed[p][k] = 0
  BY DEF Init
<1>4. ReservationsAccounted
  <2>1. \A p \in PopulationId, k \in BudgetKind : Holders(p, k) = {}
    BY <1>2 DEF Holders
  <2> QED BY <1>3, <2>1, FS_EmptySet DEF ReservationsAccounted
<1>5. WithinLimits
  BY <1>3, PolicyAssumption DEF WithinLimits, InUse
<1>6. ChargedPerOutput
  <2>1. \A p \in PopulationId : Produced(p) = {}
    BY <1>2 DEF Produced, CandidatesOf
  <2>2. ChargedKind \subseteq BudgetKind
    BY DEF ChargedKind, BudgetKind
  <2> QED BY <1>3, <2>1, <2>2, FS_EmptySet, ChargedIsProduced
<1>7. ClosedIsQuiescent
  BY DEF Init, NoPopulation, ClosedIsQuiescent
<1> QED BY <1>1, <1>3, <1>4, <1>5, <1>6, <1>7 DEF BudgetInv, FreshLedger

\* Every step preserves it.
LEMMA NextBudgetInv == BudgetInv /\ [Next]_vars => BudgetInv'
<1> SUFFICES ASSUME BudgetInv, [Next]_vars PROVE BudgetInv'
  OBVIOUS
<1>1. WorkInv' /\ ClosedIsQuiescent'
  BY NextWorkInv, NextQuiescent DEF BudgetInv
<1>2. ReservationsAccounted' /\ FreshLedger' /\ WithinLimits' /\ ChargedPerOutput'
  BY NextAccounts, NextLimits, NextCharges DEF BudgetInv, WorkInv
<1> QED BY <1>1, <1>2 DEF BudgetInv

\* On each of the nine paths an attempt can end on, exactly what it reserved
\* is returned or charged, once.
THEOREM NothingReservedIsLost == Spec => []ReservationsAccounted
<1>1. BudgetInv => ReservationsAccounted
  BY DEF BudgetInv
<1> QED BY <1>1, InitBudgetInv, NextBudgetInv, PTL DEF Spec

\* No kind of budget exceeds its limit, although authorize_attempt checks some
\* kinds before it reserves others and the elite is charged unchecked.
THEOREM LimitsHold == Spec => []WithinLimits
<1>1. BudgetInv => WithinLimits
  BY DEF BudgetInv
<1> QED BY <1>1, InitBudgetInv, NextBudgetInv, PTL DEF Spec

\* A population is charged once for each output its workers delivered.
THEOREM EachOutputChargedOnce == Spec => []ChargedPerOutput
<1>1. BudgetInv => ChargedPerOutput
  BY DEF BudgetInv
<1> QED BY <1>1, InitBudgetInv, NextBudgetInv, PTL DEF Spec

\* Nothing is open in a closed population, and nothing is opened in it again.
THEOREM ClosedForGood == Spec => []ClosedIsQuiescent
<1>1. BudgetInv => ClosedIsQuiescent
  BY DEF BudgetInv
<1> QED BY <1>1, InitBudgetInv, NextBudgetInv, PTL DEF Spec

-----------------------------------------------------------------------------
(* What a digest determines. *)

\* The states of a candidate that takes part in a selection.
Competing == {"Published", "Evaluating", "Evaluated", "Selected", "Retained"}

\* Score, from evidence E and the depth of the candidate.
ScoreOf(E, c, depth) ==
    LET high == {r \in E : r.candidate = c /\ r.key \in Optional /\ r.high}
        complete == {k \in Requirement : RequirementComplete(E, c, k)}
        common == Cardinality(Optional) * Cardinality(Requirement)
    IN    QualityWeight * Cardinality(high) * Cardinality(Requirement)
        + CompletenessWeight * Cardinality(complete) * Cardinality(Optional)
        - DepthWeight * depth * (IF common = 0 THEN 1 ELSE common)

\* No mandatory gate excludes c, by evidence E.
PassesGates(E, c) ==
    \A k \in Mandatory : \/ RequirementPassed(E, c, k)
                         \/ /\ ~RequireCompleteMandatory
                            /\ ~RequirementComplete(E, c, k)

\* Participants, Ranking and the winner, from the digest D of the state.
DigestParticipants(D) ==
    {c \in CandidateId : /\ D.candidates[c].state \in Competing
                         /\ D.candidates[c].taskGeneration = D.taskGeneration
                         /\ PassesGates(D.evidence, c)}
DigestScore(D, c) == ScoreOf(D.evidence, c, D.candidates[c].depth)
DigestRanksBefore(D, c, d) ==
    \/ DigestScore(D, c) > DigestScore(D, d)
    \/ DigestScore(D, c) = DigestScore(D, d) /\ c < d
DigestRanking(D) ==
    [c \in CandidateId |->
        IF c \in DigestParticipants(D)
        THEN 1 + Cardinality({d \in DigestParticipants(D) : DigestRanksBefore(D, d, c)})
        ELSE 0]
DigestWinner(D) == WinnerOf(DigestRanking(D), DigestParticipants(D))

\* Only the records about a candidate count for its score and its gates.
LEMMA ScoreOfSame ==
    ASSUME NEW E, NEW F, NEW c, NEW n,
           \A r : r \in E /\ r.candidate = c <=> r \in F /\ r.candidate = c
    PROVE  /\ ScoreOf(E, c, n) = ScoreOf(F, c, n)
           /\ PassesGates(E, c) <=> PassesGates(F, c)
<1>1. \A k : RequirementRecords(E, c, k) = RequirementRecords(F, c, k)
  BY DEF RequirementRecords
<1>2. {r \in E : r.candidate = c /\ r.key \in Optional /\ r.high}
        = {r \in F : r.candidate = c /\ r.key \in Optional /\ r.high}
  BY Zenon
<1>3. {k \in Requirement : RequirementComplete(E, c, k)}
        = {k \in Requirement : RequirementComplete(F, c, k)}
  BY <1>1, Zenon DEF RequirementComplete
<1>4. ScoreOf(E, c, n) = ScoreOf(F, c, n)
  BY <1>2, <1>3, Zenon DEF ScoreOf
<1>5. PassesGates(E, c) <=> PassesGates(F, c)
  BY <1>1, Zenon DEF PassesGates, RequirementPassed, RequirementComplete
<1> QED BY <1>4, <1>5

\* Digests that agree on what the ranking reads give the same ranking.
LEMMA RankingOfSame ==
    ASSUME NEW D, NEW C,
           DigestParticipants(D) = DigestParticipants(C),
           \A c \in DigestParticipants(D) : DigestScore(D, c) = DigestScore(C, c)
    PROVE  /\ DigestRanking(D) = DigestRanking(C)
           /\ DigestWinner(D) = DigestWinner(C)
<1>1. \A c \in DigestParticipants(D) :
        {d \in DigestParticipants(D) : DigestRanksBefore(D, d, c)}
          = {d \in DigestParticipants(C) : DigestRanksBefore(C, d, c)}
  BY Zenon DEF DigestRanksBefore
<1>2. DigestRanking(D) = DigestRanking(C)
  BY <1>1, Zenon DEF DigestRanking
<1> QED BY <1>2, Zenon DEF DigestWinner

\* The digest of the current state determines the current ranking.
LEMMA RankingFromDigest ==
    ASSUME CoreInv, NEW p \in PopulationId
    PROVE  /\ Participants(p) = DigestParticipants(SelectionStateDigest(p))
           /\ Ranking(p) = DigestRanking(SelectionStateDigest(p))
<1> DEFINE D == SelectionStateDigest(p)
<1>1. /\ \A c \in CandidateId : D.candidates[c] = IF c \in CandidatesOf(p) THEN candidates[c]
                                                 ELSE NoCandidate
      /\ D.taskGeneration = taskGeneration
      /\ D.evidence = {r \in evaluations : r.candidate \in CandidatesOf(p)}
  BY DEF SelectionStateDigest
<1> HIDE DEF D
<1>2. ASSUME NEW c \in CandidatesOf(p)
      PROVE  /\ Score(c) = DigestScore(D, c)
             /\ PassesGates(evaluations, c) <=> PassesGates(D.evidence, c)
  <2>1. c \in CandidateId /\ D.candidates[c] = candidates[c]
    BY <1>1, <1>2 DEF CandidatesOf
  <2>2. \A r : r \in evaluations /\ r.candidate = c <=> r \in D.evidence /\ r.candidate = c
    BY <1>1, <1>2, Zenon
  <2>3. Score(c) = ScoreOf(evaluations, c, candidates[c].depth)
    BY Zenon DEF Score, ScoreOf
  <2>4. /\ ScoreOf(evaluations, c, candidates[c].depth)
             = ScoreOf(D.evidence, c, candidates[c].depth)
        /\ PassesGates(evaluations, c) <=> PassesGates(D.evidence, c)
    <3>1. \A n : /\ ScoreOf(evaluations, c, n) = ScoreOf(D.evidence, c, n)
                 /\ PassesGates(evaluations, c) <=> PassesGates(D.evidence, c)
      BY <2>2, ScoreOfSame
    <3> QED BY <3>1, Zenon
  <2> QED BY <2>1, <2>3, <2>4, Zenon DEF DigestScore
<1>3. Participants(p) = DigestParticipants(D)
  <2>1. ASSUME NEW c \in CandidateId
        PROVE  c \in Participants(p) <=> c \in DigestParticipants(D)
    <3>1. CASE c \in CandidatesOf(p)
      <4>1. D.candidates[c] = candidates[c]
        BY <1>1, <3>1
      <4>2. c \in Participants(p) <=>
              /\ candidates[c].state \in Competing
              /\ candidates[c].taskGeneration = taskGeneration
              /\ PassesGates(evaluations, c)
        BY <3>1, Zenon DEF Participants, Competing, PassesGates
      <4> QED BY <1>1, <1>2, <3>1, <4>1, <4>2, Zenon DEF DigestParticipants
    <3>2. CASE c \notin CandidatesOf(p)
      <4>1. D.candidates[c].state \notin Competing
        BY <1>1, <3>2 DEF NoCandidate, Competing
      <4> QED BY <3>2, <4>1, Zenon DEF DigestParticipants, Participants
    <3> QED BY <3>1, <3>2
  <2>2. Participants(p) \subseteq CandidateId /\ DigestParticipants(D) \subseteq CandidateId
    BY DEF Participants, DigestParticipants, CandidatesOf
  <2> QED BY <2>1, <2>2, Zenon
<1>4. \A c \in Participants(p) : Score(c) = DigestScore(D, c)
  BY <1>2, Zenon DEF Participants
<1>5. \A c \in Participants(p) :
        {d \in Participants(p) : RanksBefore(d, c)}
          = {d \in DigestParticipants(D) : DigestRanksBefore(D, d, c)}
  BY <1>3, <1>4, Zenon DEF RanksBefore, DigestRanksBefore
<1>6. Ranking(p) = DigestRanking(D)
  BY <1>3, <1>5, Zenon DEF Ranking, DigestRanking
<1> QED BY <1>3, <1>6 DEF D

-----------------------------------------------------------------------------
(* Decisions and the state they were computed from. *)

\* The records about candidates of population p.
EvidenceOf(p) == {r \in evaluations : r.candidate \in CandidatesOf(p)}

\* A decision is the one its digest determines.
Derived(d) ==
    d.state # "None" => /\ d.rank = DigestRanking(d.digest)
                        /\ d.selected = DigestWinner(d.digest)
                        /\ d.digest.taskGeneration = d.taskGeneration

\* The slots and the evidence in the digest of a decision are still there.
Remembers(d) ==
    d.state # "None" =>
        /\ \A c \in CandidateId : d.digest.candidates[c].state # "Absent" =>
              /\ candidates[c].state # "Absent" /\ candidates[c].population = d.population
              /\ SameSlot(d.digest.candidates[c], candidates[c])
        /\ d.digest.evidence \subseteq EvidenceOf(d.population)

\* Remembers, in the tables after the step.
RemembersAfter(d) ==
    d.state # "None" =>
        /\ \A c \in CandidateId : d.digest.candidates[c].state # "Absent" =>
              /\ candidates'[c].state # "Absent" /\ candidates'[c].population = d.population
              /\ SameSlot(d.digest.candidates[c], candidates'[c])
        /\ \A r \in d.digest.evidence : /\ r \in evaluations' /\ r.candidate \in CandidateId
                                        /\ candidates'[r.candidate].population = d.population

\* Every decision, stored or held; only a committed one has a generation.
DecisionInv ==
    /\ \A p \in PopulationId :
          /\ Derived(selections[p]) /\ Remembers(selections[p])
          /\ selections[p].generation > 0 <=> selections[p].state = "Committed"
    /\ \A x \in Controller : Derived(heldSelection[x]) /\ Remembers(heldSelection[x])

\* No step takes evidence back, and what it adds is about a known candidate.
LEMMA EvidenceStays ==
    ASSUME CoreInv, RefInv, [Next]_vars
    PROVE  evaluations \subseteq evaluations'
<1>1. CASE WorkStep
  BY <1>1 DEF WorkStep, EvidenceGrows
<1>2. ASSUME NEW s, NEW p, NEW c, NEW a, Authorizes(s, p, c, a)
      PROVE  evaluations' = evaluations
  BY <1>2 DEF Authorizes
<1>3. ASSUME NEW s, NEW a, NEW c, Publishes(s, a, c) PROVE evaluations' = evaluations
  BY <1>3 DEF Publishes
<1>4. ASSUME NEW q, NEW i, NEW w, MakesPopulation(q, i, w) PROVE evaluations' = evaluations
  BY <1>4 DEF MakesPopulation
<1>5. ASSUME NEW x, CommitsSelection(x) \/ CommitsRetention(x)
      PROVE  evaluations' = evaluations
  BY <1>5 DEF CommitsSelection, CommitsRetention
<1>6. \/ WorkStep \/ evaluations' = evaluations
  BY <1>2, <1>3, <1>4, <1>5, StepCases, Zenon DEF Creates, Advances
<1> QED BY <1>1, <1>6

\* What a decision remembers stays in the tables.
LEMMA MemoryEndures ==
    ASSUME RefInv, Endures, evaluations \subseteq evaluations', NEW d, Remembers(d)
    PROVE  RemembersAfter(d)
<1> SUFFICES ASSUME d.state # "None" PROVE RemembersAfter(d)
  BY Zenon DEF RemembersAfter
<1>1. ASSUME NEW c \in CandidateId, d.digest.candidates[c].state # "Absent"
      PROVE  /\ candidates'[c].state # "Absent" /\ candidates'[c].population = d.population
             /\ SameSlot(d.digest.candidates[c], candidates'[c])
  <2>1. /\ candidates[c].state # "Absent" /\ candidates[c].population = d.population
        /\ SameSlot(d.digest.candidates[c], candidates[c])
    BY <1>1, Zenon DEF Remembers
  <2>2. candidates'[c].state # "Absent" /\ SameSlot(candidates[c], candidates'[c])
    BY <2>1, Zenon DEF Endures
  <2> QED BY <2>1, <2>2 DEF SameSlot
<1>2. ASSUME NEW r \in d.digest.evidence
      PROVE  /\ r \in evaluations' /\ r.candidate \in CandidateId
             /\ candidates'[r.candidate].population = d.population
  <2>1. /\ r \in evaluations /\ r.candidate \in CandidateId
        /\ candidates[r.candidate].population = d.population
    BY Zenon DEF Remembers, EvidenceOf, CandidatesOf
  <2>2. candidates[r.candidate].state # "Absent"
    BY <2>1 DEF RefInv, TableRefs, KnownCandidate
  <2> QED BY <2>1, <2>2 DEF Endures, SameSlot
<1> QED BY <1>1, <1>2, Zenon DEF RemembersAfter

\* A prepared decision is determined by its digest, which describes the state.
LEMMA PreparedIsDerived ==
    ASSUME CoreInv, RefInv, NEW d, NEW p \in PopulationId, PreparedSelection(d, p)
    PROVE  Derived(d) /\ Remembers(d)
<1>1. /\ d.population = p /\ d.taskGeneration = taskGeneration
      /\ d.rank = Ranking(p) /\ d.digest = SelectionStateDigest(p)
      /\ d.selected = WinnerOf(Ranking(p), Participants(p))
  BY Zenon DEF PreparedSelection
<1>2. /\ d.digest.candidates = [c \in CandidateId |->
            IF c \in CandidatesOf(p) THEN candidates[c] ELSE NoCandidate]
      /\ d.digest.taskGeneration = taskGeneration
      /\ d.digest.evidence = EvidenceOf(p)
  BY <1>1 DEF SelectionStateDigest, EvidenceOf
<1>3. Derived(d)
  BY <1>1, <1>2, RankingFromDigest, Zenon DEF Derived, DigestWinner
<1>4. ASSUME NEW c \in CandidateId, d.digest.candidates[c].state # "Absent"
      PROVE  /\ candidates[c].state # "Absent" /\ candidates[c].population = d.population
             /\ SameSlot(d.digest.candidates[c], candidates[c])
  <2>1. c \in CandidatesOf(p) /\ d.digest.candidates[c] = candidates[c]
    BY <1>2, <1>4 DEF NoCandidate
  <2>2. candidates[c].population = p
    BY <2>1 DEF CandidatesOf
  <2> QED BY <1>1, <1>4, <2>1, <2>2, Zenon DEF SameSlot
<1> QED BY <1>1, <1>2, <1>3, <1>4, Zenon DEF Remembers

\* What a committing call stores is the decision with its new state.
LEMMA CommittedIsDerived ==
    ASSUME CoreInv, NEW x \in Controller, NEW p \in PopulationId, InstallsIn(x, p)
    PROVE  LET d == heldSelection[x]
               s == selections'[p]
           IN  /\ s.state = "Committed" /\ s.generation = populations[p].committedSelection + 1
               /\ s.population = p /\ s.selected = d.selected /\ s.rank = d.rank
               /\ s.digest = d.digest /\ s.taskGeneration = d.taskGeneration
               /\ d.state # "None" /\ d.digest = SelectionStateDigest(p)
               /\ d.populationGeneration = populations[p].generation
               /\ d.taskGeneration = populations[p].taskGeneration
<1> DEFINE d == heldSelection[x]
           g == populations[p].committedSelection + 1
<1>1. d \in SelectionDecision
  BY DEF CoreInv, TypeOK
<1>2. /\ selections'[p] = [d EXCEPT !.state = "Committed", !.generation = g]
      /\ d.population = p
  BY Zenon DEF InstallsIn, InstallsWinner
<1>3. /\ d.state # "None" /\ d.digest = SelectionStateDigest(p)
      /\ d.populationGeneration = populations[p].generation
      /\ d.taskGeneration = populations[p].taskGeneration
  BY <1>2, Zenon DEF InstallsIn, CommitsSelection, SelectionIsCurrent
<1> HIDE DEF d, g
<1>4. /\ selections'[p].state = "Committed" /\ selections'[p].generation = g
      /\ selections'[p].population = p /\ selections'[p].selected = d.selected
      /\ selections'[p].rank = d.rank /\ selections'[p].digest = d.digest
      /\ selections'[p].taskGeneration = d.taskGeneration
  BY <1>1, <1>2 DEF SelectionDecision
<1> QED BY <1>3, <1>4, Zenon DEF d, g

\* DecisionInv is inductive.
LEMMA NextDecisionInv ==
    ASSUME CoreInv, RefInv, HeldInv, DecisionInv, [Next]_vars
    PROVE  DecisionInv'
<1>1. Endures /\ evaluations \subseteq evaluations'
  BY NextRefInv, EvidenceStays
<1>2. \A d : Remembers(d) => RemembersAfter(d)
  BY <1>1, MemoryEndures
<1>3. RemembersAfter(NoSelection) /\ Derived(NoSelection) /\ NoSelection.generation = 0
      /\ NoSelection.state = "None"
  BY DEF RemembersAfter, Derived, NoSelection
<1>4. \A d : \A p \in PopulationId : PreparedSelection(d, p) => Derived(d) /\ RemembersAfter(d)
  BY <1>2, PreparedIsDerived
<1>5. ASSUME NEW p \in PopulationId
      PROVE  /\ Derived(selections'[p]) /\ RemembersAfter(selections'[p])
             /\ selections'[p].generation > 0 <=> selections'[p].state = "Committed"
  <2>1. CASE selections'[p] = selections[p]
    BY <1>2, <2>1, Zenon DEF DecisionInv
  <2>2. CASE selections'[p] = NoSelection
    BY <1>3, <2>2
  <2>3. CASE PreparedSelection(selections'[p], p)
    <3>1. selections'[p].generation = 0 /\ selections'[p].state # "Committed"
      BY <2>3 DEF PreparedSelection
    <3> QED BY <1>4, <2>3, <3>1
  <2>4. ASSUME NEW x \in Controller, InstallsIn(x, p)
        PROVE  /\ Derived(selections'[p]) /\ RemembersAfter(selections'[p])
               /\ selections'[p].generation > 0 <=> selections'[p].state = "Committed"
    <3> DEFINE d == heldSelection[x]
               s == selections'[p]
    <3>1. /\ s.state = "Committed" /\ s.generation = populations[p].committedSelection + 1
          /\ s.population = p /\ s.selected = d.selected /\ s.rank = d.rank
          /\ s.digest = d.digest /\ s.taskGeneration = d.taskGeneration
          /\ d.state # "None"
      BY <2>4, CommittedIsDerived, Zenon
    <3>2. d.population = p
      BY <2>4, Zenon DEF InstallsIn
    <3>3. Derived(d) /\ RemembersAfter(d)
      BY <1>2, Zenon DEF DecisionInv
    <3>4. populations[p].committedSelection \in Nat
      BY DEF CoreInv, TypeOK, PopulationRecord
    <3> HIDE DEF d, s
    <3>5. s.generation > 0
      BY <3>1, <3>4
    <3>6. Derived(s)
      BY <3>1, <3>3, Zenon DEF Derived
    <3>7. RemembersAfter(s)
      BY <3>1, <3>2, <3>3, Zenon DEF RemembersAfter
    <3> QED BY <3>1, <3>5, <3>6, <3>7, Zenon DEF s
  <2> QED BY <2>1, <2>2, <2>3, <2>4, SelectionSources, Zenon DEF InstallsIn
<1>6. ASSUME NEW x \in Controller
      PROVE  Derived(heldSelection'[x]) /\ RemembersAfter(heldSelection'[x])
  <2>1. CASE heldSelection'[x] = heldSelection[x]
    BY <1>2, <2>1, Zenon DEF DecisionInv
  <2>2. CASE heldSelection'[x] = NoSelection
    BY <1>3, <2>2
  <2>3. ASSUME NEW p \in PopulationId, PreparedSelection(heldSelection'[x], p)
        PROVE  Derived(heldSelection'[x]) /\ RemembersAfter(heldSelection'[x])
    BY <1>4, <2>3
  <2> QED BY <2>1, <2>2, <2>3, SelectionSources, Zenon
<1>7. ASSUME NEW d, RemembersAfter(d)
      PROVE  d.state # "None" =>
               /\ \A c \in CandidateId : d.digest.candidates[c].state # "Absent" =>
                     /\ candidates'[c].state # "Absent" /\ candidates'[c].population = d.population
                     /\ SameSlot(d.digest.candidates[c], candidates'[c])
               /\ d.digest.evidence \subseteq EvidenceOf(d.population)'
  <2> HAVE d.state # "None"
  <2>1. d.digest.evidence \subseteq
          {r \in evaluations' : r.candidate \in {c \in CandidateId :
                                                    candidates'[c].population = d.population}}
    BY <1>7, Zenon DEF RemembersAfter
  <2> QED BY <1>7, <2>1, Zenon DEF RemembersAfter, EvidenceOf, CandidatesOf
<1> QED BY <1>5, <1>6, <1>7, Zenon DEF DecisionInv, Derived, Remembers

\* Init satisfies DecisionInv.
LEMMA InitDecisionInv == Init => DecisionInv
<1> SUFFICES ASSUME Init PROVE DecisionInv
  OBVIOUS
<1>1. /\ \A p \in PopulationId : selections[p] = NoSelection
      /\ \A x \in Controller : heldSelection[x] = NoSelection
  BY DEF Init
<1>2. Derived(NoSelection) /\ Remembers(NoSelection)
      /\ NoSelection.generation = 0 /\ NoSelection.state = "None"
  BY DEF Remembers, Derived, NoSelection
<1>3. NoSelection.generation > 0 <=> NoSelection.state = "Committed"
  BY <1>2
<1> QED BY <1>1, <1>2, <1>3, Zenon DEF DecisionInv

-----------------------------------------------------------------------------
(* The ranking a commit installs. *)

\* A population that does not exist has committed nothing, and one that is
\* made in a step has not either.
LEMMA NothingCommittedYet ==
    ASSUME CoreInv, RefInv, [Next]_vars, NEW p \in PopulationId, populations[p].state = "Absent"
    PROVE  /\ populations[p] = NoPopulation
           /\ populations'[p].committedSelection = 0 /\ populations'[p].state # "Closed"
<1>1. populations[p] = NoPopulation
  BY AbsentIsBlank DEF RefInv, TableRefs
<1>2. /\ NoPopulation.committedSelection = 0 /\ NoPopulation.state # "Closed"
  BY DEF NoPopulation
<1>3. CASE PopulationsKeep
  BY <1>1, <1>2, <1>3, Zenon DEF PopulationsKeep, PopulationKept
<1>4. CASE populations' = populations
  BY <1>1, <1>2, <1>4
<1>5. ASSUME NEW q \in PopulationId, NEW i, NEW w, MakesPopulation(q, i, w)
      PROVE  populations'[p].committedSelection = 0 /\ populations'[p].state # "Closed"
  <2>1. p # q => populations'[p] = populations[p]
    BY <1>5, Zenon DEF MakesPopulation
  <2>2. populations'[q].committedSelection = 0 /\ populations'[q].state = "Created"
    BY <1>5, Zenon DEF MakesPopulation
  <2> QED BY <1>1, <1>2, <2>1, <2>2
<1>6. ASSUME NEW x \in Controller, CommitsSelection(x)
      PROVE  populations'[p] = populations[p]
  <2>1. heldSelection[x].population # p
    BY <1>6, Zenon DEF CommitsSelection, ExistingPopulation
  <2> QED BY <1>6, <2>1, Zenon DEF CommitsSelection, RefusesWinner, InstallsWinner
<1>7. /\ WorkStep => PopulationsKeep
      /\ \A x : CommitsRetention(x) => PopulationsKeep
      /\ \A s, q, c, a : Authorizes(s, q, c, a) => populations' = populations
      /\ \A q : Creates(q) => MakesPopulation(q, 1, 0)
      /\ \A r, q, w : Advances(r, q, w) => MakesPopulation(q, populations[r].index + 1, w)
  <2>1. WorkStep => PopulationsKeep
    BY DEF WorkStep
  <2>2. \A x : CommitsRetention(x) => PopulationsKeep
    BY Zenon DEF CommitsRetention
  <2>3. ASSUME NEW s, NEW q, NEW c, NEW a, Authorizes(s, q, c, a)
        PROVE  populations' = populations
    BY <2>3 DEF Authorizes
  <2>4. \A q : Creates(q) => MakesPopulation(q, 1, 0)
    BY Zenon DEF Creates
  <2>5. \A r, q, w : Advances(r, q, w) => MakesPopulation(q, populations[r].index + 1, w)
    BY Zenon DEF Advances
  <2> QED BY <2>1, <2>2, <2>3, <2>4, <2>5, Zenon
<1>8. \/ PopulationsKeep \/ populations' = populations \/ populations'[p] = populations[p]
      \/ populations'[p].committedSelection = 0 /\ populations'[p].state # "Closed"
  BY <1>5, <1>6, <1>7, StepCases, Zenon
<1> QED BY <1>1, <1>2, <1>3, <1>4, <1>8

\* CommitsCurrentRanking, as a relation between two states.
RankingStep ==
    \A p \in PopulationId :
        populations'[p].committedSelection > populations[p].committedSelection =>
          /\ selections'[p].rank = Ranking(p)
          /\ \A c \in CandidateId :
               candidates'[c].population = p /\ candidates'[c].selected
               => Ranking(p)[c] = 1

\* The decision a commit installs is the one that would be prepared now.
LEMMA InstallsCurrent ==
    ASSUME CoreInv, DecisionInv, NEW x \in Controller, NEW p \in PopulationId, InstallsIn(x, p)
    PROVE  LET d == heldSelection[x]
           IN  d.rank = Ranking(p) /\ d.selected = WinnerOf(Ranking(p), Participants(p))
<1> DEFINE d == heldSelection[x]
<1>1. d.state # "None" /\ d.digest = SelectionStateDigest(p)
  BY CommittedIsDerived, Zenon
<1>2. Derived(d)
  BY DEF DecisionInv
<1> HIDE DEF d
<1>3. d.rank = DigestRanking(d.digest) /\ d.selected = DigestWinner(d.digest)
  BY <1>1, <1>2, Zenon DEF Derived
<1>4. d.rank = Ranking(p) /\ d.selected = WinnerOf(Ranking(p), Participants(p))
  BY <1>1, <1>3, RankingFromDigest, Zenon DEF DigestWinner
<1> QED BY <1>4 DEF d

\* The only candidate of p that is marked after a commit is its winner.
LEMMA OnlyWinnerMarked ==
    ASSUME NEW x \in Controller, NEW p \in PopulationId, InstallsIn(x, p),
           NEW c \in CandidateId, candidates'[c].population = p, candidates'[c].selected
    PROVE  c = heldSelection[x].selected
<1> SUFFICES ASSUME c # heldSelection[x].selected PROVE FALSE
  OBVIOUS
<1>1. Unmarks(p, heldSelection[x].selected)
  BY Zenon DEF InstallsIn, InstallsWinner
<1>2. CASE candidates[c].population = p
  BY <1>1, <1>2, Zenon DEF Unmarks
<1>3. CASE candidates[c].population # p
  <2>1. candidates'[c] = candidates[c]
    BY <1>1, <1>3, Zenon DEF Unmarks
  <2> QED BY <1>3, <2>1
<1> QED BY <1>2, <1>3

\* Every step satisfies RankingStep.
LEMMA CommitsRanking ==
    ASSUME CoreInv, RefInv, DecisionInv, [Next]_vars PROVE RankingStep
<1> SUFFICES ASSUME NEW p \in PopulationId,
                    populations'[p].committedSelection > populations[p].committedSelection
             PROVE  /\ selections'[p].rank = Ranking(p)
                    /\ \A c \in CandidateId :
                         candidates'[c].population = p /\ candidates'[c].selected
                         => Ranking(p)[c] = 1
  BY Zenon DEF RankingStep
<1>1. populations[p].committedSelection \in Nat /\ populations[p].state # "Absent"
  <2>1. populations[p].committedSelection \in Nat
    BY DEF CoreInv, TypeOK, PopulationRecord
  <2>2. populations[p].state = "Absent" => populations'[p].committedSelection = 0
    BY NothingCommittedYet
  <2> QED BY <2>1, <2>2
<1>2. ~PopulationKept(p)
  <2> SUFFICES ASSUME PopulationKept(p) PROVE FALSE
    OBVIOUS
  <2>1. \/ populations'[p].committedSelection = populations[p].committedSelection
        \/ populations'[p].committedSelection = 0
    BY Zenon DEF PopulationKept
  <2> QED BY <1>1, <2>1
<1>3. PICK x \in Controller : InstallsIn(x, p)
  BY <1>1, <1>2, StepPopulations
<1> DEFINE w == WinnerOf(Ranking(p), Participants(p))
<1>4. heldSelection[x].rank = Ranking(p) /\ heldSelection[x].selected = w
  BY <1>3, InstallsCurrent, Zenon
<1>5. selections'[p].rank = Ranking(p)
  BY <1>3, <1>4, CommittedIsDerived, Zenon
<1>6. ASSUME NEW c \in CandidateId, candidates'[c].population = p, candidates'[c].selected
      PROVE  Ranking(p)[c] = 1
  <2>1. c = w
    BY <1>3, <1>4, <1>6, OnlyWinnerMarked
  <2>2. c # 0
    BY DEF CandidateId
  <2>3. IF w = 0 THEN Participants(p) = {}
        ELSE w \in CandidateId /\ w \in Participants(p) /\ Ranking(p)[w] = 1
    BY WinnerIsFront, Zenon
  <2> HIDE DEF w
  <2> QED BY <2>1, <2>2, <2>3
<1> QED BY <1>5, <1>6

-----------------------------------------------------------------------------
(* The winner's mark. *)

\* The states a marked candidate may be in.
Honoured == {"Selected", "Retained", "Retired"}
\* The states that follow a complete evaluation.
Judged == {"Evaluated", "Selected", "Retained"}

\* A committing call installs c as the winner of its population.
Installs(c) == \E x \in Controller : /\ InstallsIn(x, candidates[c].population)
                                     /\ c = heldSelection[x].selected
\* A committing call of c's population has another winner.
Passes(c) == \E x \in Controller : /\ CommitsSelection(x)
                                   /\ heldSelection[x].population = candidates[c].population
                                   /\ c # heldSelection[x].selected

\* What a step that does not install c may do to its mark and its state.
MarkKept(c) ==
    LET r == candidates[c]
        s == candidates'[c]
    IN  /\ s.selected => r.selected
        /\ r.selected => s.selected \/ Passes(c)
        /\ r.state \in Honoured => s.state = r.state \/ s.state = "Retired"
        /\ r.selected => r.state \in Honoured
        /\ s.state \in Judged => s.state = r.state \/ EvidenceComplete(evaluations', c)

\* A mark is given by a commit only, and its bearer stays honoured.
LEMMA MarkStep ==
    ASSUME CoreInv, RefInv, [Next]_vars, NEW c \in CandidateId,
           candidates[c].selected => candidates[c].state \in Honoured
    PROVE  Installs(c) \/ MarkKept(c)
<1> DEFINE r == candidates[c]
           s == candidates'[c]
<1>0. ASSUME s = r PROVE MarkKept(c)
  BY <1>0, Zenon DEF MarkKept
<1>1. CASE WorkStep
  <2>1. WorksOn(c)
    BY <1>1 DEF WorkStep, CandidatesWork
  <2>2. s.selected = r.selected
    BY <2>1, Zenon DEF WorksOn, OnlyState
  <2>3. SlotMoves(r, s)
    BY <2>1, Zenon DEF WorksOn
  <2>4. r.state # "Evaluated" /\ s.state = "Evaluated" => EvidenceComplete(evaluations', c)
    BY <2>1, Zenon DEF WorksOn
  <2> HIDE DEF r, s
  <2>5. r.state \in Honoured => s.state = r.state
    BY <2>3 DEF SlotMoves, Honoured
  <2>6. s.state \in Judged => s.state = r.state \/ s.state = "Evaluated"
    BY <2>3 DEF SlotMoves, Judged
  <2>7. s.state \in Judged => s.state = r.state \/ EvidenceComplete(evaluations', c)
    BY <2>4, <2>6
  <2> QED BY <2>2, <2>5, <2>7, Zenon DEF MarkKept, r, s
<1>2. ASSUME s.state \in {"Producing", "Published"}, ~s.selected,
             r.state \notin Honoured
      PROVE  MarkKept(c)
  <2>1. s.state \notin Judged
    BY <1>2 DEF Judged
  <2> QED BY <1>2, <2>1, Zenon DEF MarkKept
<1>3. ASSUME NEW t, NEW p, NEW d, NEW a, Authorizes(t, p, d, a)
      PROVE  MarkKept(c)
  <2>1. CASE d # c
    BY <1>0, <1>3, <2>1, Zenon DEF Authorizes
  <2>2. CASE d = c
    <3>1. s.state = "Producing" /\ (TakesSlot(p, c) \/ MakesSlot(p, c))
      BY <1>3, <2>2, Zenon DEF Authorizes
    <3>2. CASE TakesSlot(p, c)
      <4>1. r.state \notin Honoured
        BY <3>2 DEF TakesSlot, Honoured
      <4>2. ~s.selected
        BY <3>2, <4>1, Zenon DEF TakesSlot
      <4> QED BY <1>2, <3>1, <4>1, <4>2
    <3>3. CASE MakesSlot(p, c)
      <4>1. r.state \notin Honoured
        BY <3>3 DEF MakesSlot, Honoured, NoCandidate
      <4>2. ~s.selected
        BY <3>3, Zenon DEF MakesSlot
      <4> QED BY <1>2, <3>1, <4>1, <4>2
    <3> QED BY <3>1, <3>2, <3>3
  <2> QED BY <2>1, <2>2
<1>4. ASSUME NEW t, NEW a, NEW d, Publishes(t, a, d)
      PROVE  MarkKept(c)
  <2>1. CASE d # c
    BY <1>0, <1>4, <2>1, Zenon DEF Publishes
  <2>2. CASE d = c
    <3>1. r.state \notin Honoured
      BY <1>4, <2>2 DEF Publishes, Honoured
    <3>2. s.state = "Published" /\ ~s.selected
      BY <1>4, <2>2, <3>1, Zenon DEF Publishes
    <3> QED BY <1>2, <3>1, <3>2
  <2> QED BY <2>1, <2>2
<1>5. ASSUME NEW q, NEW e, NEW w, MakesElite(q, e, w)
      PROVE  MarkKept(c)
  <2>1. CASE e # c
    BY <1>0, <1>5, <2>1, Zenon DEF MakesElite
  <2>2. CASE e = c
    <3>1. r.state \notin Honoured
      BY <1>5, <2>2 DEF MakesElite, Honoured, NoCandidate
    <3>2. s.state = "Published" /\ ~s.selected
      BY <1>5, <2>2, Zenon DEF MakesElite
    <3> QED BY <1>2, <3>1, <3>2
  <2> QED BY <2>1, <2>2
<1>6. ASSUME NEW x \in Controller, CommitsSelection(x)
      PROVE  Installs(c) \/ MarkKept(c)
  <2> DEFINE d == heldSelection[x]
  <2>1. d.population \in PopulationId /\ SelectionRef(d) /\ d.state # "None"
    BY <1>6, Zenon DEF CommitsSelection, ExistingPopulation, SelectionIsCurrent
  <2>2. CASE c = d.selected
    <3>1. r.population = d.population
      BY <2>1, <2>2, Zenon DEF SelectionRef
    <3>2. CASE InstallsWinner(d)
      BY <1>6, <2>2, <3>1, <3>2, Zenon DEF Installs, InstallsIn
    <3>3. CASE RefusesWinner(d)
      BY <1>0, <2>2, <3>3, Zenon DEF RefusesWinner
    <3> QED BY <1>6, <3>2, <3>3, Zenon DEF CommitsSelection
  <2>3. CASE c # d.selected
    <3>1. Unmarks(d.population, d.selected)
      BY <1>6, Zenon DEF CommitsSelection, RefusesWinner, InstallsWinner
    <3>2. CASE r.population # d.population
      BY <1>0, <2>3, <3>1, <3>2, Zenon DEF Unmarks
    <3>3. CASE r.population = d.population
      <4>1. Passes(c)
        BY <1>6, <2>3, <3>3, Zenon DEF Passes
      <4>2. s.state = r.state /\ ~s.selected
        BY <2>3, <3>1, <3>3, Zenon DEF Unmarks
      <4> QED BY <4>1, <4>2, Zenon DEF MarkKept
    <3> QED BY <3>2, <3>3
  <2> QED BY <2>2, <2>3
<1>7. ASSUME NEW x \in Controller, CommitsRetention(x)
      PROVE  MarkKept(c)
  <2>1. Retires(heldRetention[x])
    BY <1>7, Zenon DEF CommitsRetention
  <2>2. /\ r.selected <=> s.selected
        /\ s.state = r.state \/ s.state = "Retired"
    BY <2>1, Zenon DEF Retires
  <2>3. "Retired" \notin Judged
    BY DEF Judged
  <2> HIDE DEF r, s
  <2>4. s.state \in Judged => s.state = r.state
    BY <2>2, <2>3
  <2> QED BY <2>2, <2>4, Zenon DEF MarkKept, r, s
<1>8. \A q : Creates(q) => s = r
  BY Zenon DEF Creates
<1>9. \A p, q, w : Advances(p, q, w) => s = r \/ \E e : MakesElite(q, e, w)
  BY Zenon DEF Advances
<1> HIDE DEF r, s
<1> QED BY <1>0, <1>1, <1>3, <1>4, <1>5, <1>6, <1>7, <1>8, <1>9, StepCases, Zenon

\* What is known of marked candidates: a judged candidate has a verdict on
\* every mandatory gate, and a marked one passed them all, is honoured and is
\* the only one of its population.
MarkInv ==
    /\ \A c \in CandidateId : candidates[c].state \in Judged =>
          \A k \in Mandatory : RequirementComplete(evaluations, c, k)
    /\ WinnerPassedEveryGate
    /\ \A c \in CandidateId : candidates[c].selected => candidates[c].state \in Honoured
    /\ \A c, d \in CandidateId :
          /\ candidates[c].population = candidates[d].population
          /\ candidates[c].selected /\ candidates[d].selected
          => c = d

\* The winner a commit installs has passed every mandatory gate.
LEMMA InstalledHasPassed ==
    ASSUME CoreInv, DecisionInv, MarkInv, NEW c \in CandidateId, Installs(c)
    PROVE  /\ \A k \in Mandatory : RequirementPassed(evaluations, c, k)
           /\ candidates'[c].state = "Selected" /\ candidates'[c].selected
           /\ candidates'[c].population = candidates[c].population
           /\ candidates[c].population \in PopulationId
<1> DEFINE p == candidates[c].population
<1>1. PICK x \in Controller : InstallsIn(x, p) /\ c = heldSelection[x].selected
  BY Zenon DEF Installs
<1>2. p \in PopulationId
  BY <1>1, Zenon DEF InstallsIn, CommitsSelection, ExistingPopulation
<1>3. /\ SameOutput(candidates[c], candidates'[c])
      /\ candidates'[c].state = "Selected" /\ candidates'[c].selected
      /\ candidates[c].state \in {"Published", "Evaluating"} \cup Judged
      /\ candidates[c].state \in {"Published", "Evaluating"} =>
            \A k \in Mandatory : RequirementComplete(evaluations, c, k)
  <2>1. /\ SameOutput(candidates[c], candidates'[c])
        /\ candidates'[c].state = "Selected" /\ candidates'[c].selected
        /\ candidates[c].state \in {"Published", "Evaluating", "Evaluated",
                                    "Selected", "Retained"}
        /\ candidates[c].state \in {"Published", "Evaluating"} =>
              \A k \in Mandatory : RequirementComplete(evaluations, c, k)
    BY <1>1, Zenon DEF InstallsIn, InstallsWinner
  <2> QED BY <2>1 DEF Judged
<1>4. c \in Participants(p)
  <2>1. c = WinnerOf(Ranking(p), Participants(p))
    BY <1>1, <1>2, InstallsCurrent, Zenon
  <2>2. c # 0
    BY DEF CandidateId
  <2> QED BY <2>1, <2>2, WinnerIsFront, Zenon
<1>5. \A k \in Mandatory : RequirementComplete(evaluations, c, k)
  BY <1>3, Zenon DEF MarkInv
<1>6. \A k \in Mandatory : RequirementPassed(evaluations, c, k)
  BY <1>4, <1>5, Zenon DEF Participants
<1> QED BY <1>2, <1>3, <1>6 DEF SameOutput, SameSlot

\* MarkInv is inductive.
LEMMA NextMarkInv ==
    ASSUME CoreInv, RefInv, DecisionInv, MarkInv, [Next]_vars PROVE MarkInv'
<1>1. evaluations \subseteq evaluations'
  BY EvidenceStays
<1>2. \A c, k : RequirementComplete(evaluations, c, k) => RequirementComplete(evaluations', c, k)
  BY <1>1 DEF RequirementComplete, RequirementRecords
<1>3. \A c \in CandidateId : Installs(c) \/ MarkKept(c)
  BY MarkStep, Zenon DEF MarkInv
<1>4. ASSUME NEW c \in CandidateId, candidates'[c].state \in Judged, NEW k \in Mandatory
      PROVE  RequirementComplete(evaluations', c, k)
  <2>1. CASE Installs(c)
    BY <1>2, <2>1, InstalledHasPassed, Zenon DEF RequirementPassed
  <2>2. CASE candidates'[c].state = candidates[c].state
    BY <1>2, <1>4, <2>2, Zenon DEF MarkInv
  <2>3. CASE EvidenceComplete(evaluations', c)
    BY <2>3, Zenon DEF EvidenceComplete, Requirement
  <2> QED BY <1>3, <1>4, <2>1, <2>2, <2>3, Zenon DEF MarkKept
<1>5. ASSUME NEW c \in CandidateId, candidates'[c].selected, NEW k \in Mandatory
      PROVE  \E r \in evaluations' : /\ r.candidate = c /\ r.key = k
                                     /\ r.kind # "WorkerSelfReport" /\ r.outcome = "Pass"
  <2>1. CASE Installs(c)
    <3>1. RequirementPassed(evaluations, c, k)
      BY <2>1, InstalledHasPassed
    <3>2. PICK r \in RequirementRecords(evaluations, c, k) : r.outcome = "Pass"
      BY <3>1 DEF RequirementPassed, RequirementComplete
    <3> QED BY <1>1, <3>2 DEF RequirementRecords
  <2>2. CASE MarkKept(c)
    <3>1. candidates[c].selected
      BY <1>5, <2>2, Zenon DEF MarkKept
    <3>2. PICK r \in evaluations : /\ r.candidate = c /\ r.key = k
                                   /\ r.kind # "WorkerSelfReport" /\ r.outcome = "Pass"
      <4>1. WinnerPassedEveryGate
        BY DEF MarkInv
      <4> QED BY <3>1, <4>1 DEF WinnerPassedEveryGate
    <3> QED BY <1>1, <3>2
  <2> QED BY <1>3, <2>1, <2>2
<1>6. ASSUME NEW c \in CandidateId, candidates'[c].selected
      PROVE  candidates'[c].state \in Honoured
  <2>1. "Selected" \in Honoured /\ "Retired" \in Honoured
    BY DEF Honoured
  <2>2. CASE Installs(c)
    BY <2>1, <2>2, InstalledHasPassed
  <2>3. CASE MarkKept(c)
    <3>1. /\ candidates[c].selected
          /\ candidates[c].state \in Honoured =>
                candidates'[c].state = candidates[c].state \/ candidates'[c].state = "Retired"
          /\ candidates[c].selected => candidates[c].state \in Honoured
      BY <1>6, <2>3, Zenon DEF MarkKept
    <3> QED BY <2>1, <3>1, Zenon
  <2> QED BY <1>3, <2>2, <2>3
<1>7. ASSUME NEW c \in CandidateId, NEW d \in CandidateId,
             candidates'[c].population = candidates'[d].population,
             candidates'[c].selected, candidates'[d].selected
      PROVE  c = d
  <2>1. ASSUME NEW e \in CandidateId, NEW f \in CandidateId, Installs(e),
               candidates'[f].population = candidates'[e].population,
               candidates'[f].selected
        PROVE  e = f
    <3>1. PICK x \in Controller : /\ InstallsIn(x, candidates[e].population)
                                  /\ e = heldSelection[x].selected
      BY <2>1, Zenon DEF Installs
    <3>2. /\ candidates'[e].population = candidates[e].population
          /\ candidates[e].population \in PopulationId
      BY <2>1, InstalledHasPassed
    <3>3. f = heldSelection[x].selected
      BY <2>1, <3>1, <3>2, OnlyWinnerMarked
    <3> QED BY <3>1, <3>3
  <2>2. CASE Installs(c) \/ Installs(d)
    BY <1>7, <2>1, <2>2
  <2>3. CASE MarkKept(c) /\ MarkKept(d)
    <3>1. candidates[c].selected /\ candidates[d].selected
      BY <1>7, <2>3, Zenon DEF MarkKept
    <3>2. candidates[c].state # "Absent" /\ candidates[d].state # "Absent"
      <4>1. candidates[c].state \in Honoured /\ candidates[d].state \in Honoured
        BY <3>1, Zenon DEF MarkInv
      <4> QED BY <4>1 DEF Honoured
    <3>3. /\ candidates'[c].population = candidates[c].population
          /\ candidates'[d].population = candidates[d].population
      BY <3>2, NextRefInv DEF Endures, SameSlot
    <3> QED BY <1>7, <3>1, <3>3, Zenon DEF MarkInv
  <2> QED BY <1>3, <2>2, <2>3
<1> QED BY <1>4, <1>5, <1>6, <1>7, Zenon DEF MarkInv, WinnerPassedEveryGate

\* Init satisfies MarkInv.
LEMMA InitMarkInv == Init => MarkInv
<1> SUFFICES ASSUME Init PROVE MarkInv
  OBVIOUS
<1>1. \A c \in CandidateId : ~candidates[c].selected /\ candidates[c].state = "Absent"
  BY DEF Init, NoCandidate
<1>2. "Absent" \notin Judged
  BY DEF Judged
<1>3. \A c \in CandidateId : candidates[c].state \notin Judged
  BY <1>1, <1>2
<1> QED BY <1>1, <1>3, Zenon DEF MarkInv, WinnerPassedEveryGate

-----------------------------------------------------------------------------
(* Competing decisions.  A commit clears the marks of earlier winners before *)
(* it may refuse its own winner, so a refused commit could leave a population *)
(* without the winner its stored decision names.  It does not: the decision  *)
(* that is refused has the same winner.  Within one generation a candidate   *)
(* only moves from before the competition into it and out of it, and         *)
(* evidence only grows; a decision that was prepared before a commit and is  *)
(* still current after it has therefore been current all the time.           *)

\* Before, in and after the competition.
Stage(st) == IF st \in {"Absent", "Registered", "Producing"} THEN 0
             ELSE IF st \in Competing THEN 1 ELSE 2

\* The stage of c as far as population p is concerned, before and after a step.
StageIn(p, c) == IF candidates[c].population = p THEN Stage(candidates[c].state) ELSE 0
StageAfter(p, c) == IF candidates'[c].population = p THEN Stage(candidates'[c].state) ELSE 0

\* A candidate does not go back in a step without a new generation.
LEMMA StagesGrow ==
    ASSUME CoreInv, RefInv, [Next]_vars, NEW p \in PopulationId,
           populations'[p].generation = populations[p].generation, NEW c \in CandidateId
    PROVE  StageIn(p, c) <= StageAfter(p, c)
<1> DEFINE r == candidates[c]
           s == candidates'[c]
<1>0. \A st : Stage(st) \in 0..2
  BY DEF Stage
<1>1. CASE r.population # p
  <2>1. StageIn(p, c) = 0 /\ StageAfter(p, c) \in 0..2
    BY <1>0, <1>1 DEF StageIn, StageAfter
  <2> QED BY <2>1
<1>2. CASE r.population = p
  <2>1. r.state # "Absent"
    <3>1. r.state = "Absent" => r = NoCandidate
      BY AbsentIsBlank DEF RefInv, TableRefs
    <3>2. NoCandidate.population \notin PopulationId
      BY DEF NoCandidate, PopulationId
    <3> QED BY <1>2, <3>1, <3>2
  <2>2. s.population = p
    BY <1>2, <2>1, NextRefInv DEF Endures, SameSlot
  <2>3. SUFFICES Stage(r.state) <= Stage(s.state)
    BY <1>2, <2>2, Zenon DEF StageIn, StageAfter
  <2>s. ASSUME s.state = r.state PROVE Stage(r.state) <= Stage(s.state)
    BY <1>0, <2>s
  <2>4. CASE WorkStep
    <3>1. SlotMoves(r, s)
      BY <2>4, Zenon DEF WorkStep, CandidatesWork, WorksOn
    <3>2. r.state = "RevalidationRequired" /\ s.state # r.state => Renewed(r.population)
      BY <2>4, Zenon DEF WorkStep, CandidatesWork, WorksOn
    <3>3. ~Renewed(r.population)
      BY <1>2 DEF CoreInv, TypeOK, PopulationRecord, Renewed
    <3> HIDE DEF r, s
    <3> QED BY <3>1, <3>2, <3>3 DEF SlotMoves, Stage, Competing
  <2>5. ASSUME NEW t, NEW q, NEW d, NEW a, Authorizes(t, q, d, a)
        PROVE  Stage(r.state) <= Stage(s.state)
    <3>1. CASE d # c
      BY <1>0, <2>5, <3>1 DEF Authorizes
    <3>2. CASE d = c
      <4>1. TakesSlot(q, c) \/ MakesSlot(q, c)
        BY <2>5, <3>2, Zenon DEF Authorizes
      <4>2. r.state \in {"Registered", "Producing"}
        BY <2>1, <4>1 DEF TakesSlot, MakesSlot, NoCandidate
      <4>3. Stage(r.state) = 0
        BY <4>2 DEF Stage
      <4> QED BY <1>0, <4>3
    <3> QED BY <3>1, <3>2
  <2>6. ASSUME NEW t, NEW a, NEW d, Publishes(t, a, d)
        PROVE  Stage(r.state) <= Stage(s.state)
    <3>1. CASE d # c
      BY <1>0, <2>6, <3>1 DEF Publishes
    <3>2. CASE d = c
      <4>1. r.state \in {"Producing", "Published"} /\ s.state = "Published"
        BY <2>6, <3>2, Zenon DEF Publishes
      <4> QED BY <4>1 DEF Stage, Competing
    <3> QED BY <3>1, <3>2
  <2>7. ASSUME NEW q, NEW e, NEW w, MakesElite(q, e, w)
        PROVE  s = r
    BY <2>1, <2>7 DEF MakesElite, NoCandidate
  <2>8. ASSUME NEW x \in Controller, CommitsSelection(x)
        PROVE  Stage(r.state) <= Stage(s.state)
    <3> DEFINE d == heldSelection[x]
    <3>1. CASE c # d.selected
      <4>1. Unmarks(d.population, d.selected)
        BY <2>8, Zenon DEF CommitsSelection, RefusesWinner, InstallsWinner
      <4>2. s.state = r.state
        BY <3>1, <4>1 DEF Unmarks
      <4> QED BY <2>s, <4>2
    <3>2. CASE c = d.selected
      <4>1. s = r \/ (r.state \in Competing /\ s.state = "Selected")
        <5>1. CASE RefusesWinner(d)
          BY <3>2, <5>1, Zenon DEF RefusesWinner
        <5>2. CASE InstallsWinner(d)
          BY <3>2, <5>2, Zenon DEF InstallsWinner, Competing
        <5> QED BY <2>8, <5>1, <5>2, Zenon DEF CommitsSelection
      <4> HIDE DEF r, s
      <4>2. r.state \in Competing /\ s.state = "Selected" => Stage(r.state) <= Stage(s.state)
        BY DEF Stage, Competing
      <4> QED BY <2>s, <4>1, <4>2
    <3> QED BY <3>1, <3>2
  <2>9. ASSUME NEW x \in Controller, CommitsRetention(x)
        PROVE  Stage(r.state) <= Stage(s.state)
    <3>1. s.state = r.state \/ s.state = "Retired"
      BY <2>9, Zenon DEF CommitsRetention, Retires
    <3>2. Stage("Retired") = 2
      BY DEF Stage, Competing
    <3> QED BY <1>0, <2>s, <3>1, <3>2
  <2>10. /\ \A q : Creates(q) => s = r
         /\ \A o, q, w : Advances(o, q, w) => s = r \/ \E e : MakesElite(q, e, w)
    BY Zenon DEF Creates, Advances
  <2> HIDE DEF r, s
  <2> QED BY <2>s, <2>4, <2>5, <2>6, <2>7, <2>8, <2>9, <2>10, StepCases, Zenon
<1> QED BY <1>1, <1>2

\* The state is in the generation of decision d, with the evidence and the
\* competitors of its digest.
Matches(d) ==
    LET p == d.population IN
    /\ d.state # "None" /\ d.populationGeneration = populations[p].generation
    /\ d.taskGeneration = populations[p].taskGeneration
    /\ d.digest.evidence = EvidenceOf(p)
    /\ \A c \in CandidateId : Stage(d.digest.candidates[c].state) = StageIn(p, c)

\* A held decision is never ahead of the state it was prepared in.
NotAhead(d) ==
    LET p == d.population IN
    d.state # "None" /\ d.populationGeneration = populations[p].generation =>
        \A c \in CandidateId : Stage(d.digest.candidates[c].state) <= StageIn(p, c)

\* While a held decision matches, a committed one has the same winner.
Agrees(d) ==
    Matches(d) /\ selections[d.population].state = "Committed" =>
        d.selected = selections[d.population].selected

\* Held decisions agree with the committed one, whose winner bears the mark.
WinnerInv ==
    /\ \A x \in Controller : NotAhead(heldSelection[x]) /\ Agrees(heldSelection[x])
    /\ \A p \in PopulationId :
          selections[p].state = "Committed" /\ selections[p].selected # 0 =>
          candidates[selections[p].selected].selected

\* The winner of a decision that matches is the front of the current ranking.
LEMMA MatchingWinner ==
    ASSUME CoreInv, RefInv, NEW d, Derived(d), Remembers(d), Matches(d),
           d.population \in PopulationId, d.taskGeneration = taskGeneration
    PROVE  d.selected = WinnerOf(Ranking(d.population), Participants(d.population))
<1> DEFINE p == d.population
           D == d.digest
           C == SelectionStateDigest(p)
<1>1. /\ \A c \in CandidateId : C.candidates[c] = IF c \in CandidatesOf(p) THEN candidates[c]
                                                 ELSE NoCandidate
      /\ C.taskGeneration = taskGeneration
      /\ C.evidence = EvidenceOf(p)
  BY DEF SelectionStateDigest, EvidenceOf
<1>2. /\ d.state # "None" /\ D.evidence = EvidenceOf(p)
      /\ \A c \in CandidateId : Stage(D.candidates[c].state) = StageIn(p, c)
  BY Zenon DEF Matches
<1>3. D.taskGeneration = taskGeneration /\ d.selected = DigestWinner(D)
  BY <1>2, Zenon DEF Derived
<1>4. \A c \in CandidateId : D.candidates[c].state # "Absent" =>
         candidates[c].population = p /\ SameSlot(D.candidates[c], candidates[c])
  BY <1>2, Zenon DEF Remembers
<1> HIDE DEF D, C, p
<1>5. \A st : st \in Competing <=> Stage(st) = 1
  BY DEF Stage, Competing
<1>6. ASSUME NEW c \in CandidateId
      PROVE  D.candidates[c].state \in Competing <=> C.candidates[c].state \in Competing
  <2>1. StageIn(p, c) = Stage(C.candidates[c].state)
    <3>1. CASE c \in CandidatesOf(p)
      BY <1>1, <3>1 DEF CandidatesOf, StageIn
    <3>2. CASE c \notin CandidatesOf(p)
      <4>1. StageIn(p, c) = 0
        BY <3>2 DEF StageIn, CandidatesOf
      <4>2. Stage(NoCandidate.state) = 0
        BY DEF NoCandidate, Stage
      <4> QED BY <1>1, <3>2, <4>1, <4>2
    <3> QED BY <3>1, <3>2
  <2> QED BY <1>2, <1>5, <2>1
<1>7. ASSUME NEW c \in CandidateId, D.candidates[c].state \in Competing
      PROVE  /\ D.candidates[c].taskGeneration = C.candidates[c].taskGeneration
             /\ D.candidates[c].depth = C.candidates[c].depth
  <2>1. D.candidates[c].state # "Absent"
    BY <1>7 DEF Competing
  <2>2. candidates[c].population = p /\ SameSlot(D.candidates[c], candidates[c])
    BY <1>4, <2>1
  <2>3. C.candidates[c] = candidates[c]
    BY <1>1, <2>2 DEF CandidatesOf
  <2> QED BY <2>2, <2>3 DEF SameSlot
<1>8. DigestParticipants(D) = DigestParticipants(C)
  <2>1. D.evidence = C.evidence /\ D.taskGeneration = C.taskGeneration
    BY <1>1, <1>2, <1>3
  <2>2. ASSUME NEW c \in CandidateId
        PROVE  c \in DigestParticipants(D) <=> c \in DigestParticipants(C)
    BY <1>6, <1>7, <2>1, Zenon DEF DigestParticipants
  <2>3. DigestParticipants(D) \subseteq CandidateId /\ DigestParticipants(C) \subseteq CandidateId
    BY DEF DigestParticipants
  <2> QED BY <2>2, <2>3, Zenon
<1>9. \A c \in DigestParticipants(D) : DigestScore(D, c) = DigestScore(C, c)
  <2> SUFFICES ASSUME NEW c \in DigestParticipants(D)
               PROVE  DigestScore(D, c) = DigestScore(C, c)
    OBVIOUS
  <2>1. c \in CandidateId /\ D.candidates[c].state \in Competing
    BY Zenon DEF DigestParticipants
  <2>2. D.candidates[c].depth = C.candidates[c].depth /\ D.evidence = C.evidence
    BY <1>1, <1>2, <1>7, <2>1
  <2> QED BY <2>2, Zenon DEF DigestScore
<1>10. DigestWinner(D) = DigestWinner(C)
  BY <1>8, <1>9, RankingOfSame
<1>11. DigestWinner(C) = WinnerOf(Ranking(p), Participants(p))
  <2>1. p \in PopulationId
    BY DEF p
  <2> QED BY <2>1, RankingFromDigest, Zenon DEF DigestWinner, C
<1> QED BY <1>3, <1>10, <1>11 DEF p

\* A current decision matches.
LEMMA CurrentMatches ==
    ASSUME CoreInv, DecisionInv, NEW x \in Controller, SelectionIsCurrent(heldSelection[x]),
           heldSelection[x].population \in PopulationId
    PROVE  /\ Matches(heldSelection[x])
           /\ heldSelection[x].taskGeneration = taskGeneration
<1> DEFINE d == heldSelection[x]
           p == d.population
<1>1. /\ d.state \in {"Prepared", "Impossible"}
      /\ d.populationGeneration = populations[p].generation
      /\ d.taskGeneration = populations[p].taskGeneration
      /\ d.digest = SelectionStateDigest(p)
  BY Zenon DEF SelectionIsCurrent
<1>2. d.digest.taskGeneration = d.taskGeneration
  <2>1. Derived(d)
    BY DEF DecisionInv
  <2>2. d.state # "None"
    BY <1>1
  <2> QED BY <2>1, <2>2, Zenon DEF Derived
<1> HIDE DEF d
<1>3. /\ \A c \in CandidateId : d.digest.candidates[c] = IF c \in CandidatesOf(p)
                                                        THEN candidates[c] ELSE NoCandidate
      /\ d.digest.taskGeneration = taskGeneration
      /\ d.digest.evidence = EvidenceOf(p)
  BY <1>1 DEF SelectionStateDigest, EvidenceOf
<1>4. Stage(NoCandidate.state) = 0
  BY DEF NoCandidate, Stage
<1>5. \A c \in CandidateId : Stage(d.digest.candidates[c].state) = StageIn(p, c)
  BY <1>3, <1>4 DEF StageIn, CandidatesOf
<1>6. d.state # "None"
  BY <1>1
<1>7. Matches(d)
  BY <1>1, <1>3, <1>5, <1>6, Zenon DEF Matches
<1> QED BY <1>2, <1>3, <1>7 DEF d

\* Matches, in the tables after the step.
MatchesAfter(d) ==
    LET p == d.population IN
    /\ d.state # "None" /\ d.populationGeneration = populations'[p].generation
    /\ d.taskGeneration = populations'[p].taskGeneration
    /\ d.digest.evidence = {r \in evaluations' : r.candidate \in {c \in CandidateId :
                                                    candidates'[c].population = p}}
    /\ \A c \in CandidateId : Stage(d.digest.candidates[c].state) = StageAfter(p, c)

\* A held decision that is in the generation of the state after a step was in
\* that of the state before.
LEMMA HeldGeneration ==
    ASSUME WorkInv, [Next]_vars, NEW x \in Controller, heldSelection[x].state # "None",
           heldSelection[x].populationGeneration
             = populations'[heldSelection[x].population].generation
    PROVE  LET p == heldSelection[x].population
           IN  /\ p \in PopulationId
               /\ heldSelection[x].populationGeneration = populations[p].generation
               /\ populations'[p].generation = populations[p].generation
               /\ populations'[p].taskGeneration = populations[p].taskGeneration
<1> DEFINE d == heldSelection[x]
           p == d.population
<1>0. d.state # "None" /\ d.populationGeneration = populations'[p].generation
  OBVIOUS
<1>1. ExistingPopulation(p)
  <2>1. SelectionRef(d)
    BY DEF WorkInv, RefInv, DecisionRefs
  <2> QED BY <2>1, Zenon DEF SelectionRef
<1>2. d.populationGeneration <= populations[p].generation
  BY Zenon DEF WorkInv, HeldInv, HeldDecision
<1>3. populations'[p].generation >= populations[p].generation
  BY <1>1, GenerationsGrow DEF GenerationStep, ExistingPopulation
<1>4. /\ populations'[p].taskGeneration = populations[p].taskGeneration
  BY <1>1, NextRefInv DEF Endures, ExistingPopulation, WorkInv
<1>5. populations[p].generation \in Nat /\ d.populationGeneration \in Nat
  BY <1>1 DEF WorkInv, CoreInv, TypeOK, PopulationRecord, SelectionDecision, ExistingPopulation
<1>6. p \in PopulationId
  BY <1>1 DEF ExistingPopulation
<1> HIDE DEF d, p
<1>7. d.populationGeneration = populations[p].generation
  BY <1>0, <1>2, <1>3, <1>5
<1> QED BY <1>0, <1>4, <1>6, <1>7, Zenon DEF d, p

\* A decision that matches after a step matched before it.
LEMMA MatchedBefore ==
    ASSUME WorkInv, DecisionInv, [Next]_vars, NEW x \in Controller,
           NotAhead(heldSelection[x]), MatchesAfter(heldSelection[x])
    PROVE  Matches(heldSelection[x])
<1> DEFINE d == heldSelection[x]
           p == d.population
<1>1. /\ d.state # "None" /\ d.populationGeneration = populations'[p].generation
      /\ d.taskGeneration = populations'[p].taskGeneration
      /\ d.digest.evidence = {r \in evaluations' : r.candidate \in {c \in CandidateId :
                                                      candidates'[c].population = p}}
      /\ \A c \in CandidateId : Stage(d.digest.candidates[c].state) = StageAfter(p, c)
  BY Zenon DEF MatchesAfter
<1>2. /\ p \in PopulationId
      /\ d.populationGeneration = populations[p].generation
      /\ populations'[p].generation = populations[p].generation
      /\ populations'[p].taskGeneration = populations[p].taskGeneration
  BY <1>1, HeldGeneration, Zenon
<1>3. d.digest.evidence \subseteq EvidenceOf(p)
  BY <1>1, Zenon DEF DecisionInv, Remembers
<1>4. EvidenceOf(p) \subseteq d.digest.evidence
  <2>1. EvidenceOf(p) \subseteq {r \in evaluations' : r.candidate \in {c \in CandidateId :
                                                         candidates'[c].population = p}}
    <3> SUFFICES ASSUME NEW r \in EvidenceOf(p)
                 PROVE  r \in evaluations' /\ r.candidate \in CandidateId
                        /\ candidates'[r.candidate].population = p
      BY Zenon
    <3>1. r \in evaluations /\ r.candidate \in CandidateId
          /\ candidates[r.candidate].population = p
      BY Zenon DEF EvidenceOf, CandidatesOf
    <3>2. candidates[r.candidate].state # "Absent"
      BY <3>1 DEF WorkInv, RefInv, TableRefs, KnownCandidate
    <3>3. candidates'[r.candidate].population = p
      BY <3>1, <3>2, NextRefInv DEF Endures, SameSlot, WorkInv
    <3> QED BY <3>1, <3>3, EvidenceStays DEF WorkInv
  <2> QED BY <1>1, <2>1, Zenon
<1>5. \A c \in CandidateId : Stage(d.digest.candidates[c].state) <= StageIn(p, c)
  BY <1>1, <1>2, Zenon DEF NotAhead
<1>6. \A c \in CandidateId : StageIn(p, c) <= StageAfter(p, c)
  BY <1>2, StagesGrow DEF WorkInv
<1> HIDE DEF d, p
<1>7. ASSUME NEW c \in CandidateId
      PROVE  Stage(d.digest.candidates[c].state) = StageIn(p, c)
  <2>1. \A st : Stage(st) \in 0..2
    BY DEF Stage
  <2>2. StageIn(p, c) \in 0..2
    BY <2>1 DEF StageIn
  <2>3. Stage(d.digest.candidates[c].state) \in 0..2
    BY <2>1
  <2> QED BY <1>1, <1>5, <1>6, <2>2, <2>3
<1>8. d.digest.evidence = EvidenceOf(p)
  BY <1>3, <1>4
<1> QED BY <1>1, <1>2, <1>7, <1>8, Zenon DEF Matches, d, p

\* A commit that installs a winner installs that of every decision that matches.
LEMMA InstallsAgree ==
    ASSUME WorkInv, DecisionInv, NEW x \in Controller, NEW y \in Controller,
           NEW p \in PopulationId, InstallsIn(y, p),
           Matches(heldSelection[x]), heldSelection[x].population = p
    PROVE  heldSelection[x].selected = heldSelection[y].selected
<1> DEFINE d == heldSelection[x]
           e == heldSelection[y]
<1>1. SelectionIsCurrent(e) /\ e.population = p
  BY Zenon DEF InstallsIn, CommitsSelection
<1>2. Matches(e) /\ e.taskGeneration = taskGeneration
  BY <1>1, CurrentMatches DEF WorkInv
<1>3. /\ d.taskGeneration = populations[p].taskGeneration
      /\ e.taskGeneration = populations[p].taskGeneration
  BY <1>1, <1>2, Zenon DEF Matches
<1>4. d.taskGeneration = taskGeneration
  BY <1>2, <1>3
<1>5. /\ Derived(d) /\ Remembers(d) /\ Derived(e) /\ Remembers(e)
  BY Zenon DEF DecisionInv
<1>6. d.selected = WinnerOf(Ranking(p), Participants(p))
  BY <1>4, <1>5, MatchingWinner, Zenon DEF WorkInv
<1>7. e.selected = WinnerOf(Ranking(p), Participants(p))
  BY <1>1, <1>2, <1>5, MatchingWinner, Zenon DEF WorkInv
<1> QED BY <1>6, <1>7

\* Agrees, in the tables after the step.
AgreesAfter(d) ==
    MatchesAfter(d) /\ selections'[d.population].state = "Committed" =>
        d.selected = selections'[d.population].selected
NotAheadAfter(d) ==
    LET p == d.population IN
    d.state # "None" /\ d.populationGeneration = populations'[p].generation =>
        \A c \in CandidateId : Stage(d.digest.candidates[c].state) <= StageAfter(p, c)

\* A decision that is still held after a step.
LEMMA HeldAgrees ==
    ASSUME WorkInv, DecisionInv, WinnerInv, [Next]_vars, NEW x \in Controller
    PROVE  NotAheadAfter(heldSelection[x]) /\ AgreesAfter(heldSelection[x])
<1> DEFINE d == heldSelection[x]
           p == d.population
<1>1. NotAhead(d) /\ Agrees(d)
  BY Zenon DEF WinnerInv
<1>2. NotAheadAfter(d)
  <2> SUFFICES ASSUME d.state # "None", d.populationGeneration = populations'[p].generation,
                      NEW c \in CandidateId
               PROVE  Stage(d.digest.candidates[c].state) <= StageAfter(p, c)
    BY Zenon DEF NotAheadAfter
  <2>1. /\ p \in PopulationId /\ d.populationGeneration = populations[p].generation
        /\ populations'[p].generation = populations[p].generation
    BY HeldGeneration, Zenon
  <2>2. Stage(d.digest.candidates[c].state) <= StageIn(p, c)
    BY <1>1, <2>1, Zenon DEF NotAhead
  <2>3. StageIn(p, c) <= StageAfter(p, c)
    BY <2>1, StagesGrow DEF WorkInv
  <2>4. \A st : Stage(st) \in 0..2
    BY DEF Stage
  <2>5. StageIn(p, c) \in 0..2 /\ StageAfter(p, c) \in 0..2
    BY <2>4 DEF StageIn, StageAfter
  <2> HIDE DEF d, p
  <2> QED BY <2>2, <2>3, <2>4, <2>5
<1>3. AgreesAfter(d)
  <2> SUFFICES ASSUME MatchesAfter(d), selections'[p].state = "Committed"
               PROVE  d.selected = selections'[p].selected
    BY Zenon DEF AgreesAfter
  <2>1. Matches(d)
    BY <1>1, MatchedBefore
  <2>2. p \in PopulationId
    BY <2>1, HeldGeneration, Zenon DEF MatchesAfter
  <2>3. CASE selections'[p] = selections[p]
    BY <1>1, <2>1, <2>3, Zenon DEF Agrees
  <2>4. ASSUME NEW y \in Controller, InstallsIn(y, p)
        PROVE  d.selected = selections'[p].selected
    <3>1. selections'[p].selected = heldSelection[y].selected
      BY <2>2, <2>4, CommittedIsDerived, Zenon DEF WorkInv
    <3> QED BY <2>1, <2>2, <2>4, <3>1, InstallsAgree, Zenon
  <2>5. selections'[p] # NoSelection /\ ~PreparedSelection(selections'[p], p)
    BY DEF NoSelection, PreparedSelection
  <2> QED BY <2>2, <2>3, <2>4, <2>5, SelectionSources, Zenon DEF InstallsIn, WorkInv
<1> QED BY <1>2, <1>3

\* A decision that was prepared in a step.
LEMMA NewAgrees ==
    ASSUME WorkInv, [Next]_vars, NEW x \in Controller, NEW p \in PopulationId,
           prepare_selection(x, p), NEW d, d = heldSelection'[x]
    PROVE  NotAheadAfter(d) /\ AgreesAfter(d)
<1>1. /\ PreparedSelection(d, p) /\ d = selections'[p]
      /\ UNCHANGED candidates
  BY PrepareSelectionDoes DEF WorkInv
<1>2. /\ d.population = p /\ d.digest = SelectionStateDigest(p)
      /\ selections'[p].state # "Committed"
  BY <1>1 DEF PreparedSelection
<1>3. AgreesAfter(d)
  BY <1>2, Zenon DEF AgreesAfter
<1>4. \A c \in CandidateId : Stage(d.digest.candidates[c].state) = StageAfter(p, c)
  <2>1. d.digest.candidates = [c \in CandidateId |-> IF c \in CandidatesOf(p)
                                                     THEN candidates[c] ELSE NoCandidate]
    BY <1>2 DEF SelectionStateDigest
  <2>2. Stage(NoCandidate.state) = 0
    BY DEF NoCandidate, Stage
  <2> QED BY <1>1, <2>1, <2>2 DEF StageAfter, CandidatesOf
<1>5. \A st : Stage(st) \in 0..2
  BY DEF Stage
<1>6. \A c \in CandidateId : Stage(d.digest.candidates[c].state) <= StageAfter(p, c)
  BY <1>4, <1>5
<1> QED BY <1>2, <1>3, <1>6, Zenon DEF NotAheadAfter

\* The winner of a committed decision keeps its mark.
LEMMA WinnerKeepsMark ==
    ASSUME WorkInv, DecisionInv, MarkInv, WinnerInv, [Next]_vars, NEW p \in PopulationId,
           selections'[p].state = "Committed", selections'[p].selected # 0
    PROVE  candidates'[selections'[p].selected].selected
<1> DEFINE w == selections'[p].selected
<1>1. w \in CandidateId
  BY NextCoreInv DEF WorkInv, CoreInv, TypeOK, SelectionDecision
<1>2. ASSUME NEW x \in Controller, InstallsIn(x, p)
      PROVE  candidates'[w].selected
  <2>1. w = heldSelection[x].selected
    BY <1>2, CommittedIsDerived, Zenon DEF WorkInv
  <2> QED BY <1>1, <1>2, <2>1, Zenon DEF InstallsIn, InstallsWinner
<1>3. CASE selections'[p] = selections[p]
  <2>1. /\ selections[p].state = "Committed" /\ w = selections[p].selected
        /\ selections[p].selected # 0
    BY <1>3
  <2>2. candidates[w].selected
    BY <2>1, Zenon DEF WinnerInv
  <2>3. candidates[w].population = p
    <3>1. /\ SelectionRef(selections[p])
          /\ selections[p].state # "None" => selections[p].population = p
      BY DEF WorkInv, RefInv, DecisionRefs
    <3>2. selections[p].state # "None"
      BY <2>1
    <3> QED BY <1>1, <2>1, <3>1, <3>2, Zenon DEF SelectionRef
  <2>4. Installs(w) \/ MarkKept(w)
    BY <1>1, MarkStep, Zenon DEF MarkInv, WorkInv
  <2>5. CASE Installs(w)
    BY <1>1, <2>5, InstalledHasPassed DEF WorkInv
  <2>6. CASE MarkKept(w)
    <3> SUFFICES ASSUME Passes(w) PROVE candidates'[w].selected
      BY <2>2, <2>6, Zenon DEF MarkKept
    <3>1. PICK x \in Controller : /\ CommitsSelection(x)
                                  /\ heldSelection[x].population = p
                                  /\ w # heldSelection[x].selected
      BY <2>3, Zenon DEF Passes
    <3>2. CASE InstallsWinner(heldSelection[x])
      BY <1>2, <3>1, <3>2, Zenon DEF InstallsIn
    <3>3. CASE RefusesWinner(heldSelection[x])
      <4>1. SelectionIsCurrent(heldSelection[x])
        BY <3>1, Zenon DEF CommitsSelection
      <4>2. Matches(heldSelection[x])
        BY <3>1, <4>1, CurrentMatches DEF WorkInv
      <4>3. heldSelection[x].selected = selections[p].selected
        BY <2>1, <3>1, <4>2, Zenon DEF WinnerInv, Agrees
      <4> QED BY <2>1, <3>1, <4>3
    <3> QED BY <3>1, <3>2, <3>3, Zenon DEF CommitsSelection
  <2> QED BY <2>4, <2>5, <2>6
<1>4. selections'[p] # NoSelection /\ ~PreparedSelection(selections'[p], p)
  BY DEF NoSelection, PreparedSelection
<1> QED BY <1>2, <1>3, <1>4, SelectionSources, Zenon DEF InstallsIn, WorkInv

\* WinnerInv is inductive.
LEMMA NextWinnerInv ==
    ASSUME WorkInv, DecisionInv, MarkInv, WinnerInv, [Next]_vars PROVE WinnerInv'
<1>1. ASSUME NEW x \in Controller
      PROVE  NotAheadAfter(heldSelection'[x]) /\ AgreesAfter(heldSelection'[x])
  <2>1. CASE heldSelection'[x] = heldSelection[x]
    BY <2>1, HeldAgrees
  <2>2. CASE heldSelection'[x] = NoSelection
    <3>1. NoSelection.state = "None"
      BY DEF NoSelection
    <3> QED BY <2>2, <3>1, Zenon DEF NotAheadAfter, AgreesAfter, MatchesAfter
  <2>3. ASSUME NEW p \in PopulationId, prepare_selection(x, p)
        PROVE  NotAheadAfter(heldSelection'[x]) /\ AgreesAfter(heldSelection'[x])
    BY <2>3, NewAgrees
  <2> QED BY <2>1, <2>2, <2>3, SelectionSources, Zenon DEF WorkInv
<1>2. ASSUME NEW x \in Controller
      PROVE  NotAhead(heldSelection[x])' /\ Agrees(heldSelection[x])'
  <2>1. NotAhead(heldSelection[x])'
    BY <1>1, Zenon DEF NotAhead, NotAheadAfter, StageIn, StageAfter
  <2>2. Matches(heldSelection[x])' => MatchesAfter(heldSelection'[x])
    BY Zenon DEF Matches, MatchesAfter, StageIn, StageAfter, EvidenceOf, CandidatesOf
  <2>3. Agrees(heldSelection[x])'
    BY <1>1, <2>2, Zenon DEF Agrees, AgreesAfter
  <2> QED BY <2>1, <2>3
<1> QED BY <1>2, WinnerKeepsMark, Zenon DEF WinnerInv

\* Init satisfies WinnerInv.
LEMMA InitWinnerInv == Init => WinnerInv
<1> SUFFICES ASSUME Init PROVE WinnerInv
  OBVIOUS
<1>1. /\ \A p \in PopulationId : selections[p] = NoSelection
      /\ \A x \in Controller : heldSelection[x] = NoSelection
      /\ NoSelection.state = "None" /\ NoSelection.state # "Committed"
  BY DEF Init, NoSelection
<1> QED BY <1>1, Zenon DEF WinnerInv, NotAhead, Agrees, Matches

-----------------------------------------------------------------------------
(* Closure and succession. *)

\* A closed population has a committed selection and a committed retention.
ClosedInv == \A p \in PopulationId : populations[p].state = "Closed" =>
                populations[p].committedSelection > 0 /\ populations[p].retentionCommitted

\* ClosedInv is inductive.
LEMMA NextClosedInv ==
    ASSUME WorkInv, ClosedInv, [Next]_vars PROVE ClosedInv'
<1> SUFFICES ASSUME NEW p \in PopulationId, populations'[p].state = "Closed"
             PROVE  /\ populations'[p].committedSelection > 0
                    /\ populations'[p].retentionCommitted
  BY Zenon DEF ClosedInv
<1>1. populations[p].state # "Absent"
  BY NothingCommittedYet DEF WorkInv
<1>2. ~\E x \in Controller : InstallsIn(x, p)
  <2> SUFFICES ASSUME NEW x \in Controller, InstallsIn(x, p) PROVE FALSE
    OBVIOUS
  <2>1. populations'[p].state = "Advancing"
    BY InstallsInDoes, Zenon DEF WorkInv
  <2> QED BY <2>1
<1>3. PopulationKept(p)
  BY <1>1, <1>2, StepPopulations DEF WorkInv
<1>4. CASE populations[p].state = "Closed"
  <2>1. "Closed" \in PopulationTerminal
    BY DEF PopulationTerminal
  <2>2. /\ populations'[p].committedSelection = populations[p].committedSelection
        /\ populations[p].retentionCommitted => populations'[p].retentionCommitted
    BY <1>3, <1>4, <2>1, Zenon DEF PopulationKept
  <2> QED BY <1>4, <2>2, Zenon DEF ClosedInv
<1>5. CASE populations[p].state # "Closed"
  <2>1. ClosureContract(p)
    BY <1>5, ClosedStep
  <2>2. populations[p].committedSelection > 0 /\ populations[p].retentionCommitted
    BY <2>1, Zenon DEF ClosureContract
  <2>3. populations[p].state \notin PopulationTerminal
    <3> SUFFICES ASSUME populations[p].state \in PopulationTerminal PROVE FALSE
      OBVIOUS
    <3>1. populations'[p].state = populations[p].state
      BY <1>3, Zenon DEF PopulationKept
    <3> QED BY <1>5, <3>1
  <2>4. "Closed" \in PopulationTerminal
    BY DEF PopulationTerminal
  <2>5. /\ populations'[p].committedSelection = populations[p].committedSelection
        /\ populations'[p].retentionCommitted = populations[p].retentionCommitted
    BY <1>3, <2>3, <2>4, Zenon DEF PopulationKept
  <2> QED BY <2>2, <2>5
<1> QED BY <1>4, <1>5

\* w is the winner, with output, of a closed population; i is the generation
\* index of the population that follows it.
SoundSeed(w, i) ==
    /\ w \in CandidateId /\ candidates[w].state # "Absent"
    /\ candidates[w].selected /\ candidates[w].output # 0
    /\ candidates[w].population \in PopulationId
    /\ populations[candidates[w].population].state = "Closed"
    /\ i = populations[candidates[w].population].index + 1

\* SoundSeed, in the tables after the step.
SoundSeedAfter(w, i) ==
    /\ w \in CandidateId /\ candidates'[w].state # "Absent"
    /\ candidates'[w].selected /\ candidates'[w].output # 0
    /\ candidates'[w].population \in PopulationId
    /\ populations'[candidates'[w].population].state = "Closed"
    /\ i = populations'[candidates'[w].population].index + 1

\* Populations and candidates continue a winner of a closed population.
SeedInv ==
    /\ \A p \in PopulationId : populations[p].state # "Absent" /\ populations[p].seed # 0 =>
          SoundSeed(populations[p].seed, populations[p].index)
    /\ \A c \in CandidateId : candidates[c].parent # 0 =>
          SoundSeed(candidates[c].parent, populations[candidates[c].population].index)

\* A winner that is built upon stays the winner, with the output it has.
LEMMA SeedEndures ==
    ASSUME WorkInv, [Next]_vars, NEW w, NEW i, SoundSeed(w, i)
    PROVE  SoundSeedAfter(w, i)
<1> DEFINE p == candidates[w].population
<1>1. /\ w \in CandidateId /\ candidates[w].state # "Absent"
      /\ candidates[w].selected /\ candidates[w].output # 0
      /\ p \in PopulationId /\ populations[p].state = "Closed"
      /\ i = populations[p].index + 1
  BY DEF SoundSeed
<1>2. /\ candidates'[w].state # "Absent" /\ candidates'[w].population = p
      /\ populations'[p].index = populations[p].index
  BY <1>1, NextRefInv DEF Endures, SameSlot, WorkInv
<1>3. populations[p].state \in PopulationTerminal
  BY <1>1 DEF PopulationTerminal
<1>4. /\ populations'[p].state = populations[p].state
      /\ candidates'[w].output = candidates[w].output
      /\ candidates'[w].selected = candidates[w].selected
  BY <1>1, <1>2, <1>3, RefusesLateResults, Zenon DEF LateStep
<1> HIDE DEF p
<1>5. populations'[p].state = "Closed" /\ candidates'[w].output # 0 /\ candidates'[w].selected
  BY <1>1, <1>4, Zenon
<1> QED BY <1>1, <1>2, <1>5, Zenon DEF SoundSeedAfter

\* The winner that a successor continues is a sound seed.
LEMMA AdvancesSoundly ==
    ASSUME WorkInv, WinnerInv, NEW p \in PopulationId, NEW q \in PopulationId,
           NEW w \in CandidateId, Advances(p, q, w), KnownCandidate(w),
           candidates[w].population = p
    PROVE  SoundSeed(w, populations[p].index + 1)
<1>1. /\ populations[p].state = "Closed"
      /\ selections[p].state = "Committed" /\ w = selections[p].selected
  BY Zenon DEF Advances
<1>2. w # 0 /\ selections[p].state # "None"
  BY <1>1 DEF CandidateId
<1>3. candidates[w].selected
  BY <1>1, <1>2, Zenon DEF WinnerInv
<1>4. candidates[w].output # 0
  <2>1. WinnerOutput(selections[p])
    BY DEF WorkInv, SlotInv
  <2> QED BY <1>1, <1>2, <2>1 DEF WinnerOutput
<1>5. candidates[w].state # "Absent"
  BY DEF KnownCandidate
<1> QED BY <1>1, <1>3, <1>4, <1>5, Zenon DEF SoundSeed

\* A population that is made in a step.
LEMMA NewPopulationIsSound ==
    ASSUME WorkInv, WinnerInv, [Next]_vars, NEW p \in PopulationId,
           populations[p].state = "Absent", populations'[p].seed # 0
    PROVE  SoundSeed(populations'[p].seed, populations'[p].index)
<1>1. populations[p] = NoPopulation /\ NoPopulation.seed = 0
  BY NothingCommittedYet DEF NoPopulation, WorkInv
<1>2. CASE PopulationsKeep
  <2>1. populations'[p] = populations[p]
    BY <1>2, Zenon DEF PopulationsKeep, PopulationKept
  <2> QED BY <1>1, <2>1
<1>3. ASSUME NEW x \in Controller, CommitsSelection(x)
      PROVE  populations'[p] = populations[p]
  <2>1. heldSelection[x].population # p
    BY <1>3, Zenon DEF CommitsSelection, ExistingPopulation
  <2> QED BY <1>3, <2>1, Zenon DEF CommitsSelection, RefusesWinner, InstallsWinner
<1>4. ASSUME NEW q \in PopulationId, NEW i, NEW w, MakesPopulation(q, i, w)
      PROVE  \/ populations'[p] = populations[p]
             \/ populations'[p].index = i /\ populations'[p].seed = w
  <2>1. p # q => populations'[p] = populations[p]
    BY <1>4, Zenon DEF MakesPopulation
  <2>2. populations'[q].index = i /\ populations'[q].seed = w
    BY <1>4, Zenon DEF MakesPopulation
  <2> QED BY <2>1, <2>2
<1>5. ASSUME NEW q \in PopulationId, Creates(q)
      PROVE  \/ populations'[p] = populations[p]
             \/ populations'[p].index = 1 /\ populations'[p].seed = 0
  <2>1. MakesPopulation(q, 1, 0)
    BY <1>5, Zenon DEF Creates
  <2> QED BY <1>4, <2>1
<1>6. ASSUME NEW o \in PopulationId, NEW q \in PopulationId, NEW w \in CandidateId,
             Advances(o, q, w), KnownCandidate(w), candidates[w].population = o
      PROVE  \/ populations'[p] = populations[p]
             \/ SoundSeed(populations'[p].seed, populations'[p].index)
  <2>1. SoundSeed(w, populations[o].index + 1)
    BY <1>6, AdvancesSoundly
  <2>2. MakesPopulation(q, populations[o].index + 1, w)
    BY <1>6, Zenon DEF Advances
  <2>3. \/ populations'[p] = populations[p]
        \/ populations'[p].index = populations[o].index + 1 /\ populations'[p].seed = w
    BY <1>4, <2>2
  <2> QED BY <2>1, <2>3, Zenon
<1>7. ASSUME NEW s, NEW q, NEW c, NEW a, Authorizes(s, q, c, a)
      PROVE  populations'[p] = populations[p]
  BY <1>7 DEF Authorizes
<1>8. /\ WorkStep => PopulationsKeep
      /\ \A x : CommitsRetention(x) => PopulationsKeep
  <2>1. WorkStep => PopulationsKeep
    BY DEF WorkStep
  <2>2. \A x : CommitsRetention(x) => PopulationsKeep
    BY Zenon DEF CommitsRetention
  <2> QED BY <2>1, <2>2
<1>9. \/ PopulationsKeep \/ populations'[p] = populations[p] \/ populations'[p].seed = 0
      \/ SoundSeed(populations'[p].seed, populations'[p].index)
  BY <1>3, <1>5, <1>6, <1>7, <1>8, StepCases, Zenon DEF WorkInv
<1> QED BY <1>1, <1>2, <1>9

\* The parent a candidate is given in a step: the seed of its population, or
\* for an elite the winner that is continued.
LEMMA NewParentIsSound ==
    ASSUME WorkInv, WinnerInv, SeedInv, [Next]_vars, NEW c \in CandidateId,
           candidates[c].state = "Absent", candidates'[c].parent # 0
    PROVE  SoundSeed(candidates'[c].parent, populations'[candidates'[c].population].index)
<1> DEFINE s == candidates'[c]
           Sound == SoundSeed(s.parent, populations'[s.population].index)
<1>1. candidates[c] = NoCandidate /\ NoCandidate.parent = 0
  BY AbsentIsBlank DEF WorkInv, RefInv, TableRefs, NoCandidate
<1>2. ASSUME SameSlot(candidates[c], s) PROVE FALSE
  BY <1>1, <1>2 DEF SameSlot
<1>3. s # candidates[c]
  BY <1>1
<1>4. ~WorkStep
  <2>1. WorkStep => SameSlot(candidates[c], s)
    BY Zenon DEF WorkStep, CandidatesWork, WorksOn, OnlyState
  <2> QED BY <1>2, <2>1
<1>5. ASSUME NEW t \in sessions, NEW p \in PopulationId, NEW d \in CandidateId,
             NEW a \in AttemptId, Authorizes(t, p, d, a)
      PROVE  Sound
  <2>1. d = c
    BY <1>3, <1>5, Zenon DEF Authorizes
  <2>2. MakesSlot(p, c) /\ populations' = populations /\ populations[p].state = "Running"
    <3>1. ~TakesSlot(p, c)
      BY <1>2, Zenon DEF TakesSlot
    <3> QED BY <1>5, <2>1, <3>1 DEF Authorizes
  <2>3. s.population = p /\ s.parent = populations[p].seed
    BY <2>2, Zenon DEF MakesSlot
  <2>4. populations[p].state # "Absent"
    BY <2>2
  <2> QED BY <2>2, <2>3, <2>4, Zenon DEF SeedInv
<1>6. ASSUME NEW t, NEW a, NEW d, Publishes(t, a, d)
      PROVE  FALSE
  <2>1. d = c
    BY <1>3, <1>6, Zenon DEF Publishes
  <2> QED BY <1>2, <1>6, <2>1, Zenon DEF Publishes
<1>7. ~\E q : Creates(q)
  BY <1>3, Zenon DEF Creates
<1>8. ASSUME NEW p \in PopulationId, NEW q \in PopulationId, NEW w \in CandidateId,
             Advances(p, q, w), KnownCandidate(w), candidates[w].population = p
      PROVE  Sound
  <2>1. SoundSeed(w, populations[p].index + 1)
    BY <1>8, AdvancesSoundly
  <2>2. populations'[q].index = populations[p].index + 1
    BY <1>8, Zenon DEF Advances, MakesPopulation
  <2>3. PICK e \in CandidateId : MakesElite(q, e, w)
    BY <1>3, <1>8, Zenon DEF Advances
  <2>4. e = c
    BY <1>3, <2>3, Zenon DEF MakesElite
  <2>5. s.population = q /\ s.parent = w
    BY <2>3, <2>4, Zenon DEF MakesElite
  <2> QED BY <2>1, <2>2, <2>5, Zenon
<1>9. ASSUME NEW x \in Controller, CommitsSelection(x)
      PROVE  FALSE
  <2> DEFINE d == heldSelection[x]
  <2>1. c # d.selected
    <3>1. SelectionRef(d) /\ d.state # "None"
      BY <1>9, Zenon DEF CommitsSelection, SelectionIsCurrent
    <3> QED BY <3>1, Zenon DEF SelectionRef
  <2>2. Unmarks(d.population, d.selected)
    BY <1>9, Zenon DEF CommitsSelection, RefusesWinner, InstallsWinner
  <2>3. SameOutput(candidates[c], s)
    BY <1>3, <2>1, <2>2, Zenon DEF Unmarks
  <2> QED BY <1>2, <2>3, Zenon DEF SameOutput
<1>10. ASSUME NEW x \in Controller, CommitsRetention(x)
       PROVE  FALSE
  <2>1. SameOutput(candidates[c], s)
    BY <1>10, Zenon DEF CommitsRetention, Retires
  <2> QED BY <1>2, <2>1, Zenon DEF SameOutput
<1> HIDE DEF Sound
<1>11. Sound
  BY <1>4, <1>5, <1>6, <1>7, <1>8, <1>9, <1>10, StepCases, Zenon DEF WorkInv
<1> QED BY <1>11 DEF Sound

\* SeedInv is inductive.
LEMMA NextSeedInv ==
    ASSUME WorkInv, WinnerInv, SeedInv, [Next]_vars PROVE SeedInv'
<1>0. Endures
  BY NextRefInv DEF WorkInv
<1>1. ASSUME NEW p \in PopulationId, populations'[p].seed # 0
      PROVE  SoundSeedAfter(populations'[p].seed, populations'[p].index)
  <2>1. SoundSeed(populations'[p].seed, populations'[p].index)
    <3>1. CASE populations[p].state = "Absent"
      BY <1>1, <3>1, NewPopulationIsSound
    <3>2. CASE populations[p].state # "Absent"
      <4>1. /\ populations'[p].seed = populations[p].seed
            /\ populations'[p].index = populations[p].index
        BY <1>0, <3>2 DEF Endures
      <4> QED BY <1>1, <3>2, <4>1, Zenon DEF SeedInv
    <3> QED BY <3>1, <3>2
  <2> QED BY <2>1, SeedEndures
<1>2. ASSUME NEW c \in CandidateId, candidates'[c].parent # 0
      PROVE  SoundSeedAfter(candidates'[c].parent,
                            populations'[candidates'[c].population].index)
  <2>1. SoundSeed(candidates'[c].parent, populations'[candidates'[c].population].index)
    <3>1. CASE candidates[c].state = "Absent"
      BY <1>2, <3>1, NewParentIsSound
    <3>2. CASE candidates[c].state # "Absent"
      <4>1. /\ candidates'[c].parent = candidates[c].parent
            /\ candidates'[c].population = candidates[c].population
        BY <1>0, <3>2 DEF Endures, SameSlot
      <4>2. ExistingPopulation(candidates[c].population)
        BY <3>2, Zenon DEF WorkInv, RefInv, TableRefs, CandidateRef
      <4>3. populations'[candidates[c].population].index
              = populations[candidates[c].population].index
        BY <1>0, <4>2 DEF Endures, ExistingPopulation
      <4> QED BY <1>2, <4>1, <4>3, Zenon DEF SeedInv
    <3> QED BY <3>1, <3>2
  <2> QED BY <2>1, SeedEndures
<1> QED BY <1>1, <1>2, Zenon DEF SeedInv, SoundSeed, SoundSeedAfter

\* A candidate is not deeper than its population is in the succession, nor than
\* a snapshot may say.
DepthInv ==
    \A c \in CandidateId :
        /\ candidates[c].depth <= kMaxLineageDepth
        /\ candidates[c].state # "Absent" =>
              candidates[c].depth <= populations[candidates[c].population].index

\* A slot is not made too deep, and an elite's population is advanced before it is.
LEMMA NewDepthFits ==
    ASSUME WorkInv, DepthInv, [Next]_vars, NEW c \in CandidateId,
           candidates[c].state = "Absent"
    PROVE  candidates'[c].depth <= kMaxLineageDepth
<1> DEFINE s == candidates'[c]
           Fits == s.depth <= kMaxLineageDepth
<1>1. candidates[c].depth <= kMaxLineageDepth
  BY DEF DepthInv
<1>2. ASSUME SameSlot(candidates[c], s) PROVE Fits
  BY <1>1, <1>2, Zenon DEF SameSlot
<1>3. ASSUME s = candidates[c] PROVE Fits
  BY <1>1, <1>3
<1>4. ASSUME WorkStep PROVE Fits
  BY <1>2, <1>4, Zenon DEF WorkStep, CandidatesWork, WorksOn, OnlyState
<1>5. ASSUME NEW t \in sessions, NEW p \in PopulationId, NEW d \in CandidateId,
             NEW a \in AttemptId, Authorizes(t, p, d, a)
      PROVE  Fits
  BY <1>2, <1>3, <1>5, Zenon DEF Authorizes, TakesSlot, MakesSlot
<1>6. ASSUME NEW t, NEW a, NEW d, Publishes(t, a, d) PROVE Fits
  BY <1>2, <1>3, <1>6, Zenon DEF Publishes
<1>7. ASSUME NEW q, Creates(q) PROVE Fits
  BY <1>3, <1>7, Zenon DEF Creates
<1>8. ASSUME NEW p \in PopulationId, NEW q \in PopulationId, NEW w \in CandidateId,
             Advances(p, q, w), KnownCandidate(w), candidates[w].population = p
      PROVE  Fits
  <2>1. CASE candidates' = candidates
    BY <1>3, <2>1
  <2>2. ASSUME NEW e \in CandidateId, MakesElite(q, e, w),
               populations[p].index < MaxGenerationDepth
        PROVE  Fits
    <3>1. CASE e # c
      BY <1>3, <2>2, <3>1, Zenon DEF MakesElite
    <3>2. CASE e = c
      <4>1. s.depth = candidates[w].depth + 1
        BY <2>2, <3>2, Zenon DEF MakesElite
      <4>2. candidates[w].depth <= populations[p].index
        BY <1>8, Zenon DEF DepthInv, KnownCandidate
      <4>3. candidates[w].depth \in Nat /\ populations[p].index \in Nat
        BY DEF WorkInv, CoreInv, TypeOK, CandidateRecord, PopulationRecord
      <4> QED BY <2>2, <4>1, <4>2, <4>3, PolicyAssumption DEF kMaxLineageDepth
    <3> QED BY <3>1, <3>2
  <2> QED BY <1>8, <2>1, <2>2, Zenon DEF Advances
<1>9. ASSUME NEW x \in Controller, CommitsSelection(x) PROVE Fits
  <2> DEFINE d == heldSelection[x]
  <2>1. c # d.selected
    <3>1. SelectionRef(d) /\ d.state # "None"
      BY <1>9, Zenon DEF CommitsSelection, SelectionIsCurrent
    <3> QED BY <3>1, Zenon DEF SelectionRef
  <2>2. Unmarks(d.population, d.selected)
    BY <1>9, Zenon DEF CommitsSelection, RefusesWinner, InstallsWinner
  <2>3. SameOutput(candidates[c], s) \/ s = candidates[c]
    BY <2>1, <2>2, Zenon DEF Unmarks
  <2> QED BY <1>2, <1>3, <2>3, Zenon DEF SameOutput
<1>10. ASSUME NEW x \in Controller, CommitsRetention(x) PROVE Fits
  BY <1>2, <1>10, Zenon DEF CommitsRetention, Retires, SameOutput
<1> HIDE DEF Fits
<1>11. Fits
  BY <1>4, <1>5, <1>6, <1>7, <1>8, <1>9, <1>10, StepCases, Zenon DEF WorkInv
<1> QED BY <1>11 DEF Fits

\* DepthInv is inductive: the depth of a new candidate follows from its parent's
\* (LineageOf), whose population comes before.
LEMMA NextDepthInv ==
    ASSUME WorkInv, WinnerInv, SeedInv, DepthInv, [Next]_vars PROVE DepthInv'
<1>0. Endures /\ WorkInv'
  BY NextRefInv, NextWorkInv DEF WorkInv
<1>1. ASSUME NEW c \in CandidateId PROVE candidates'[c].depth <= kMaxLineageDepth
  <2>1. CASE candidates[c].state # "Absent"
    BY <1>0, <2>1, Zenon DEF Endures, SameSlot, DepthInv
  <2> QED BY <2>1, NewDepthFits
<1>2. ASSUME NEW c \in CandidateId, candidates'[c].state # "Absent"
      PROVE  candidates'[c].depth <= populations'[candidates'[c].population].index
  <2> DEFINE p == candidates'[c].population
             w == candidates'[c].parent
  <2>1. CASE candidates[c].state # "Absent"
    <3>1. candidates'[c].population = candidates[c].population
          /\ candidates'[c].depth = candidates[c].depth
      BY <1>0, <2>1 DEF Endures, SameSlot
    <3>2. ExistingPopulation(candidates[c].population)
      BY <2>1, Zenon DEF WorkInv, RefInv, TableRefs, CandidateRef
    <3>3. populations'[candidates[c].population].index
            = populations[candidates[c].population].index
      BY <1>0, <3>2 DEF Endures, ExistingPopulation
    <3> QED BY <2>1, <3>1, <3>3, Zenon DEF DepthInv
  <2>2. CASE candidates[c].state = "Absent"
    <3>1. CandidateRef(c)'
      BY <1>0, <1>2, Zenon DEF WorkInv, RefInv, TableRefs
    <3>2. CASE w = 0
      <4>1. candidates'[c].depth = 0
        BY <3>1, <3>2 DEF CandidateRef, LineageOf
      <4>2. populations'[p].index \in Nat
        BY <1>0, <3>1 DEF WorkInv, CoreInv, TypeOK, PopulationRecord, CandidateRef,
                          ExistingPopulation
      <4> QED BY <4>1, <4>2
    <3>3. CASE w # 0
      <4>1. SoundSeed(w, populations'[p].index)
        BY <2>2, <3>3, NewParentIsSound
      <4> DEFINE o == candidates[w].population
      <4>2. /\ w \in CandidateId /\ candidates[w].state # "Absent"
            /\ o \in PopulationId /\ populations'[p].index = populations[o].index + 1
        BY <4>1 DEF SoundSeed
      <4>3. candidates[w].depth <= populations[o].index
        BY <4>2, Zenon DEF DepthInv
      <4>4. candidates'[c].depth = candidates'[w].depth + 1
        BY <3>1, <3>3 DEF CandidateRef, LineageOf
      <4>5. candidates'[w].depth = candidates[w].depth
        BY <1>0, <4>2, Zenon DEF Endures, SameSlot
      <4>6. candidates[w].depth \in Nat /\ populations[o].index \in Nat
        BY <4>2 DEF WorkInv, CoreInv, TypeOK, CandidateRecord, PopulationRecord
      <4> QED BY <4>2, <4>3, <4>4, <4>5, <4>6
    <3> QED BY <3>2, <3>3
  <2> QED BY <2>1, <2>2
<1> QED BY <1>1, <1>2 DEF DepthInv

\* Init satisfies ClosedInv, SeedInv and DepthInv.
LEMMA InitSeedInv == Init => ClosedInv /\ SeedInv /\ DepthInv
<1> SUFFICES ASSUME Init PROVE ClosedInv /\ SeedInv /\ DepthInv
  OBVIOUS
<1>1. /\ \A p \in PopulationId : populations[p].state = "Absent"
      /\ \A c \in CandidateId : candidates[c].parent = 0
      /\ \A c \in CandidateId : candidates[c].state = "Absent" /\ candidates[c].depth = 0
  BY DEF Init, NoPopulation, NoCandidate
<1>2. ClosedInv
  BY <1>1 DEF ClosedInv
<1>3. DepthInv
  BY <1>1 DEF DepthInv, kMaxLineageDepth
<1> QED BY <1>1, <1>2, <1>3, Zenon DEF SeedInv

\* A child continues its parent, as LineageOf says, and the parent is sound.
LEMMA SeedsMakeLineages == WorkInv /\ SeedInv /\ DepthInv => LineageSound
<1> SUFFICES ASSUME WorkInv, SeedInv, DepthInv, NEW c \in CandidateId,
                    candidates[c].parent # 0
             PROVE  LET parent == candidates[candidates[c].parent]
                        predecessor == populations[parent.population]
                    IN  /\ candidates[c].lineage = parent.lineage
                        /\ candidates[c].depth = parent.depth + 1
                        /\ parent.selected /\ parent.output # 0
                        /\ predecessor.state = "Closed"
                        /\ populations[candidates[c].population].index = predecessor.index + 1
  BY Zenon DEF LineageSound, DepthInv
<1>1. SoundSeed(candidates[c].parent, populations[candidates[c].population].index)
  BY Zenon DEF SeedInv
<1>2. LineageOf(c)
  <2>1. NoCandidate.parent = 0
    BY DEF NoCandidate
  <2>2. candidates[c].state # "Absent"
    BY <2>1, AbsentIsBlank DEF WorkInv, RefInv, TableRefs
  <2> QED BY <2>2, Zenon DEF WorkInv, RefInv, TableRefs, CandidateRef
<1>3. /\ candidates[c].lineage = candidates[candidates[c].parent].lineage
      /\ candidates[c].depth = candidates[candidates[c].parent].depth + 1
  BY <1>2 DEF LineageOf
<1> QED BY <1>1, <1>3, Zenon DEF SoundSeed

-----------------------------------------------------------------------------
(* Retention.  What is retained follows from the ranking and the lineages,   *)
(* and both are in the digest of the selection.                              *)

\* Keeps and RetainedSet, from the digest D of a selection.
DigestKeeps(D, c, kept) ==
    /\ \/ RetainSelected /\ c = DigestWinner(D)
       \/ Cardinality(kept) < RetainTopK
    /\ Cardinality(kept) < MaxRetained
    /\ Cardinality({d \in kept : D.candidates[d].lineage = D.candidates[c].lineage})
         < MaxPerLineage
DigestRetained(D) ==
    LET rank == DigestRanking(D)
        ranked == {c \in CandidateId : rank[c] > 0}
        better(c) == {d \in ranked : rank[d] < rank[c]}
    IN  ranked \cap CHOOSE R \in SUBSET ranked :
            \A c \in ranked : c \in R <=> DigestKeeps(D, c, R \cap better(c))

\* What is retained for a selection is determined by its digest: no candidate
\* changes its lineage, so it does not matter when the set is computed.
LEMMA RetainedFromDigest ==
    ASSUME NEW sel, sel.state # "None", Derived(sel), Remembers(sel)
    PROVE  RetainedSet(sel) = DigestRetained(sel.digest)
<1> DEFINE D == sel.digest
           rank == DigestRanking(D)
           ranked == {c \in CandidateId : rank[c] > 0}
           better(c) == {d \in ranked : rank[d] < rank[c]}
<1>1. sel.rank = rank /\ sel.selected = DigestWinner(D)
  BY Zenon DEF Derived
<1>2. \A c \in ranked : candidates[c].lineage = D.candidates[c].lineage
  <2> SUFFICES ASSUME NEW c \in ranked
               PROVE  candidates[c].lineage = D.candidates[c].lineage
    OBVIOUS
  <2>1. c \in CandidateId /\ c \in DigestParticipants(D)
    <3>1. c \in CandidateId /\ rank[c] > 0
      OBVIOUS
    <3>2. c \notin DigestParticipants(D) => rank[c] = 0
      BY <3>1, Zenon DEF DigestRanking
    <3> HIDE DEF rank
    <3> QED BY <3>1, <3>2
  <2>2. D.candidates[c].state # "Absent"
    <3>1. D.candidates[c].state \in Competing
      BY <2>1, Zenon DEF DigestParticipants
    <3> QED BY <3>1 DEF Competing
  <2>3. SameSlot(D.candidates[c], candidates[c])
    BY <2>1, <2>2, Zenon DEF Remembers
  <2> QED BY <2>3, Zenon DEF SameSlot
<1>3. ASSUME NEW c \in ranked, NEW kept \in SUBSET ranked
      PROVE  Keeps(sel, c, kept) <=> DigestKeeps(D, c, kept)
  <2>1. {d \in kept : candidates[d].lineage = candidates[c].lineage}
          = {d \in kept : D.candidates[d].lineage = D.candidates[c].lineage}
    BY <1>2, <1>3, Zenon
  <2> QED BY <1>1, <2>1, Zenon DEF Keeps, DigestKeeps
<1>4. \A R \in SUBSET ranked : \A c \in ranked : R \cap better(c) \in SUBSET ranked
  BY Zenon
<1> HIDE DEF rank
<1>5. \A R \in SUBSET ranked :
         (\A c \in ranked : c \in R <=> Keeps(sel, c, R \cap better(c)))
         <=> (\A c \in ranked : c \in R <=> DigestKeeps(D, c, R \cap better(c)))
  <2> HIDE DEF ranked, better, D
  <2> QED BY <1>3, <1>4, Zenon
<1>6. RetainedSet(sel) = ranked \cap CHOOSE R \in SUBSET ranked :
         \A c \in ranked : c \in R <=> Keeps(sel, c, R \cap better(c))
  BY <1>1, Zenon DEF RetainedSet
<1>7. DigestRetained(D) = ranked \cap CHOOSE R \in SUBSET ranked :
         \A c \in ranked : c \in R <=> DigestKeeps(D, c, R \cap better(c))
  BY Zenon DEF DigestRetained, rank
<1>8. (CHOOSE R \in SUBSET ranked : \A c \in ranked : c \in R <=> Keeps(sel, c, R \cap better(c)))
    = (CHOOSE R \in SUBSET ranked : \A c \in ranked : c \in R <=> DigestKeeps(D, c, R \cap better(c)))
  <2> HIDE DEF ranked, better, D
  <2> QED BY <1>5, Zenon
<1> QED BY <1>6, <1>7, <1>8, Zenon

\* Where a retention that is stored or held after a step comes from.
LEMMA RetentionSources ==
    ASSUME CoreInv, RefInv, [Next]_vars
    PROVE  /\ \A p \in PopulationId :
                 \/ retentions'[p] = retentions[p]
                 \/ retentions'[p] = NoRetention
                 \/ PreparedRetention(retentions'[p], p) /\ SelectionCommitted(p)
                 \/ \E x \in Controller :
                      /\ RetentionIsCurrent(heldRetention[x])
                      /\ heldRetention[x].population = p
                      /\ retentions'[p] = [heldRetention[x] EXCEPT !.state = "Committed"]
           /\ \A x \in Controller :
                 \/ heldRetention'[x] = heldRetention[x]
                 \/ heldRetention'[x] = NoRetention
                 \/ \E p \in PopulationId :
                      \/ heldRetention'[x] = retentions[p]
                      \/ PreparedRetention(heldRetention'[x], p) /\ SelectionCommitted(p)
<1>1. ASSUME NEW x \in Controller, NEW q \in PopulationId, prepare_retention(x, q)
      PROVE  /\ \A p \in PopulationId :
                   \/ retentions'[p] = retentions[p]
                   \/ PreparedRetention(retentions'[p], p) /\ SelectionCommitted(p)
             /\ \A y \in Controller :
                   \/ heldRetention'[y] = heldRetention[y]
                   \/ heldRetention'[y] = retentions[q]
                   \/ PreparedRetention(heldRetention'[y], q) /\ SelectionCommitted(q)
  <2>1. /\ \/ retentions'[q] = retentions[q]
           \/ PreparedRetention(retentions'[q], q)
        /\ heldRetention'[x] = retentions'[q]
        /\ \A p \in PopulationId : p # q => retentions'[p] = retentions[p]
        /\ \A y \in Controller : y # x => heldRetention'[y] = heldRetention[y]
        /\ SelectionCommitted(q)
    BY <1>1, PrepareRetentionDoes
  <2> QED BY <2>1, Zenon
<1>2. ASSUME NEW x \in Controller, commit_retention(x)
      PROVE  /\ UNCHANGED heldRetention
             /\ \A p \in PopulationId :
                   \/ retentions'[p] = retentions[p]
                   \/ /\ RetentionIsCurrent(heldRetention[x])
                      /\ heldRetention[x].population = p
                      /\ retentions'[p] = [heldRetention[x] EXCEPT !.state = "Committed"]
  <2>1. /\ RetentionIsCurrent(heldRetention[x]) /\ UNCHANGED heldRetention
        /\ retentions' = [retentions EXCEPT ![heldRetention[x].population] =
                             [heldRetention[x] EXCEPT !.state = "Committed"]]
    BY <1>2, Zenon DEF commit_retention
  <2>2. retentions \in [PopulationId -> RetentionDecision]
    BY DEF CoreInv, TypeOK
  <2> QED BY <2>1, <2>2, Zenon
<1>3. CASE recover
  BY <1>3, Zenon DEF recover
<1>4. ASSUME \/ \E x \in Controller, p \in PopulationId : prepare_selection(x, p)
             \/ \E x \in Controller : commit_selection(x)
             \/ \E p \in PopulationId : prepare_promotion_request(p)
      PROVE  UNCHANGED <<retentions, heldRetention>>
  BY <1>4 DEF prepare_selection, commit_selection, prepare_promotion_request
<1>5. CASE UNCHANGED <<retentions, heldRetention>>
  BY <1>5
<1>6. CASE \E x \in Controller, p \in PopulationId : prepare_retention(x, p)
  BY <1>1, <1>6, Zenon
<1>7. CASE \E x \in Controller : commit_retention(x)
  BY <1>2, <1>7, Zenon
<1> QED BY <1>3, <1>4, <1>5, <1>6, <1>7, DecisionKinds

\* A retention is the one its digest determines, for a selection that was
\* committed: generation 0 is that of a decision that never was.
RetentionDerived(r) ==
    r.state # "None" =>
        /\ r.selectionGeneration = r.digest.selectionGeneration
        /\ r.selectionGeneration > 0
        /\ r.retained = DigestRetained(r.digest.selection)

\* Every retention, stored or held.
RetentionInv == /\ \A p \in PopulationId : RetentionDerived(retentions[p])
                /\ \A x \in Controller : RetentionDerived(heldRetention[x])

\* A retention is prepared for the committed selection, as it is stored.
LEMMA PreparedRetentionIsDerived ==
    ASSUME DecisionInv, NEW p \in PopulationId, SelectionCommitted(p), NEW r,
           PreparedRetention(r, p)
    PROVE  RetentionDerived(r)
<1>1. selections[p].state # "None" /\ selections[p].generation > 0
  <2>1. selections[p].state = "Committed"
    BY DEF SelectionCommitted
  <2> QED BY <2>1, Zenon DEF DecisionInv
<1>2. RetainedSet(selections[p]) = DigestRetained(selections[p].digest)
  <2>1. Derived(selections[p]) /\ Remembers(selections[p])
    BY DEF DecisionInv
  <2> QED BY <1>1, <2>1, RetainedFromDigest
<1>3. /\ r.selectionGeneration = selections[p].generation
      /\ r.retained = RetainedSet(selections[p])
      /\ r.digest = RetentionStateDigest(p)
  BY Zenon DEF PreparedRetention
<1>4. /\ r.digest.selectionGeneration = selections[p].generation
      /\ r.digest.selection = selections[p].digest
  BY <1>3 DEF RetentionStateDigest
<1> QED BY <1>1, <1>2, <1>3, <1>4, Zenon DEF RetentionDerived

\* RetentionInv is inductive.
LEMMA NextRetentionInv ==
    ASSUME CoreInv, RefInv, DecisionInv, RetentionInv, [Next]_vars PROVE RetentionInv'
<1>1. RetentionDerived(NoRetention)
  BY DEF RetentionDerived, NoRetention
<1>2. ASSUME NEW x \in Controller, RetentionIsCurrent(heldRetention[x])
      PROVE  RetentionDerived([heldRetention[x] EXCEPT !.state = "Committed"])
  <2> DEFINE d == heldRetention[x]
             r == [d EXCEPT !.state = "Committed"]
  <2>1. d.state # "None" /\ RetentionDerived(d)
    BY <1>2, Zenon DEF RetentionIsCurrent, RetentionInv
  <2>2. d \in RetentionDecision
    BY DEF CoreInv, TypeOK
  <2> HIDE DEF d
  <2>3. /\ r.selectionGeneration = d.selectionGeneration /\ r.digest = d.digest
        /\ r.retained = d.retained
    BY <2>2 DEF RetentionDecision
  <2> HIDE DEF r
  <2>4. RetentionDerived(r)
    BY <2>1, <2>3, Zenon DEF RetentionDerived
  <2> QED BY <2>4 DEF d, r
<1>3. ASSUME NEW p \in PopulationId PROVE RetentionDerived(retentions'[p])
  <2>1. CASE retentions'[p] = retentions[p]
    BY <2>1, Zenon DEF RetentionInv
  <2>2. CASE retentions'[p] = NoRetention
    BY <1>1, <2>2
  <2>3. CASE PreparedRetention(retentions'[p], p) /\ SelectionCommitted(p)
    BY <2>3, PreparedRetentionIsDerived
  <2>4. ASSUME NEW x \in Controller, RetentionIsCurrent(heldRetention[x]),
               retentions'[p] = [heldRetention[x] EXCEPT !.state = "Committed"]
        PROVE  RetentionDerived(retentions'[p])
    <3>1. RetentionDerived([heldRetention[x] EXCEPT !.state = "Committed"])
      BY <1>2, <2>4
    <3> QED BY <2>4, <3>1, Zenon
  <2> QED BY <2>1, <2>2, <2>3, <2>4, RetentionSources, Zenon
<1>4. ASSUME NEW x \in Controller PROVE RetentionDerived(heldRetention'[x])
  <2>1. CASE heldRetention'[x] = heldRetention[x]
    BY <2>1, Zenon DEF RetentionInv
  <2>2. CASE heldRetention'[x] = NoRetention
    BY <1>1, <2>2
  <2>3. ASSUME NEW p \in PopulationId, heldRetention'[x] = retentions[p]
        PROVE  RetentionDerived(heldRetention'[x])
    BY <2>3, Zenon DEF RetentionInv
  <2>4. ASSUME NEW p \in PopulationId, PreparedRetention(heldRetention'[x], p),
               SelectionCommitted(p)
        PROVE  RetentionDerived(heldRetention'[x])
    BY <2>4, PreparedRetentionIsDerived
  <2> QED BY <2>1, <2>2, <2>3, <2>4, RetentionSources, Zenon
<1> QED BY <1>3, <1>4, Zenon DEF RetentionInv, RetentionDerived

\* Init satisfies RetentionInv.
LEMMA InitRetentionInv == Init => RetentionInv
<1> SUFFICES ASSUME Init PROVE RetentionInv
  OBVIOUS
<1>1. /\ \A p \in PopulationId : retentions[p] = NoRetention
      /\ \A x \in Controller : heldRetention[x] = NoRetention
  BY DEF Init
<1>2. RetentionDerived(NoRetention)
  BY DEF RetentionDerived, NoRetention
<1> QED BY <1>1, <1>2, Zenon DEF RetentionInv

\* CommitsCurrentRetention, as a relation between two states.
RetentionStep ==
    \A p \in PopulationId :
        retentions'[p].state = "Committed" /\ retentions'[p] # retentions[p] =>
          /\ selections[p].state = "Committed"
          /\ selections[p].generation = populations[p].committedSelection
          /\ retentions'[p].retained = RetainedSet(selections[p])

\* Every step satisfies RetentionStep: that the stored selection is committed
\* is not asked again, but its generation is compared, and only a committed
\* selection has the one a retention was prepared for.
LEMMA CommitsRetained ==
    ASSUME CoreInv, RefInv, DecisionInv, RetentionInv, [Next]_vars PROVE RetentionStep
<1> SUFFICES ASSUME NEW p \in PopulationId, retentions'[p].state = "Committed",
                    retentions'[p] # retentions[p]
             PROVE  /\ selections[p].state = "Committed"
                    /\ selections[p].generation = populations[p].committedSelection
                    /\ retentions'[p].retained = RetainedSet(selections[p])
  BY Zenon DEF RetentionStep
<1>1. NoRetention.state # "Committed" /\ ~PreparedRetention(retentions'[p], p)
  BY DEF NoRetention, PreparedRetention
<1>2. PICK x \in Controller :
         /\ RetentionIsCurrent(heldRetention[x]) /\ heldRetention[x].population = p
         /\ retentions'[p] = [heldRetention[x] EXCEPT !.state = "Committed"]
  BY <1>1, RetentionSources, Zenon
<1> DEFINE d == heldRetention[x]
<1>3. /\ d.state # "None" /\ d.digest = RetentionStateDigest(p)
      /\ d.selectionGeneration = populations[p].committedSelection
      /\ selections[p].state # "None"
  BY <1>2, Zenon DEF RetentionIsCurrent
<1>4. RetentionDerived(d) /\ d \in RetentionDecision
  BY Zenon DEF RetentionInv, CoreInv, TypeOK
<1>5. retentions'[p].retained = d.retained
  BY <1>2, <1>4 DEF RetentionDecision
<1> HIDE DEF d
<1>6. /\ d.selectionGeneration = d.digest.selectionGeneration /\ d.selectionGeneration > 0
      /\ d.retained = DigestRetained(d.digest.selection)
  BY <1>3, <1>4, Zenon DEF RetentionDerived
<1>7. /\ d.digest.selectionGeneration = selections[p].generation
      /\ d.digest.selection = selections[p].digest
  BY <1>3 DEF RetentionStateDigest
<1>8. selections[p].state = "Committed"
  BY <1>6, <1>7, Zenon DEF DecisionInv
<1>9. RetainedSet(selections[p]) = DigestRetained(selections[p].digest)
  BY <1>3, RetainedFromDigest, Zenon DEF DecisionInv
<1> QED BY <1>3, <1>5, <1>6, <1>7, <1>8, <1>9, Zenon

-----------------------------------------------------------------------------
(* Theorems. *)

\* Everything the proofs know of decisions, together.
SelectionInv == /\ WorkInv
                /\ DecisionInv /\ MarkInv /\ WinnerInv
                /\ ClosedInv /\ SeedInv /\ DepthInv /\ RetentionInv

\* A core that has decided nothing.
LEMMA InitSelectionInv == Init => SelectionInv
  BY InitWorkInv, InitDecisionInv, InitMarkInv, InitWinnerInv, InitSeedInv,
     InitRetentionInv DEF SelectionInv

\* Every step preserves it.
LEMMA NextSelectionInv == SelectionInv /\ [Next]_vars => SelectionInv'
<1> SUFFICES ASSUME SelectionInv, [Next]_vars PROVE SelectionInv'
  OBVIOUS
<1>1. WorkInv' /\ ClosedInv' /\ SeedInv' /\ WinnerInv'
  BY NextWorkInv, NextClosedInv, NextSeedInv, NextWinnerInv DEF SelectionInv
<1>2. DecisionInv' /\ MarkInv' /\ RetentionInv' /\ DepthInv'
  BY NextDecisionInv, NextMarkInv, NextRetentionInv, NextDepthInv DEF SelectionInv, WorkInv
<1> QED BY <1>1, <1>2 DEF SelectionInv

\* The audit finds nothing: its clauses are among the invariants.
LEMMA SelectionIsAudited == SelectionInv => AuditClean
<1> SUFFICES ASSUME SelectionInv PROVE AuditClean
  OBVIOUS
<1>1. \A c \in CandidateId : candidates[c].selected =>
         candidates[c].state \in {"Selected", "Retained", "Retired"}
  BY Zenon DEF SelectionInv, MarkInv, Honoured
<1>2. ASSUME NEW c \in CandidateId, candidates[c].parent # 0
      PROVE  candidates[c].parent # c /\ candidates[candidates[c].parent].state # "Absent"
  <2>1. NoCandidate.parent = 0
    BY DEF NoCandidate
  <2>2. candidates[c].state # "Absent"
    BY <1>2, <2>1, AbsentIsBlank DEF SelectionInv, WorkInv, RefInv, TableRefs
  <2>3. LineageOf(c)
    BY <2>2, Zenon DEF SelectionInv, WorkInv, RefInv, TableRefs, CandidateRef
  <2> QED BY <1>2, <2>3 DEF LineageOf, KnownCandidate
<1> QED BY <1>1, <1>2, Zenon DEF AuditClean, SelectionInv, ClosedInv, MarkInv, WinnerInv

\* The mark of a winner rests on authoritative evidence for every mandatory
\* gate, however evidence, decisions, revalidations and restarts interleave.
THEOREM MarksAreEarned == Spec => []WinnerPassedEveryGate
<1>1. SelectionInv => WinnerPassedEveryGate
  BY DEF SelectionInv, MarkInv
<1> QED BY <1>1, InitSelectionInv, NextSelectionInv, PTL DEF Spec

\* FoundryCore::audit reports nothing in any state; in particular a commit
\* that clears earlier marks and then refuses its winner leaves no committed
\* decision without a marked winner.
THEOREM AuditFindsNothing == Spec => []AuditClean
<1> QED BY SelectionIsAudited, InitSelectionInv, NextSelectionInv, PTL DEF Spec

\* Children continue the lineage of the winner of a closed predecessor, which
\* stays its winner, and no succession makes a candidate too deep to be saved.
THEOREM ChildrenContinueWinners == Spec => []LineageSound
<1>1. SelectionInv => LineageSound
  BY SeedsMakeLineages DEF SelectionInv
<1> QED BY <1>1, InitSelectionInv, NextSelectionInv, PTL DEF Spec

\* A commit installs the ranking of the state it commits in, although it was
\* computed before other calls could intervene.
THEOREM CommitsAreCurrent == Spec => CommitsCurrentRanking
<1>1. SelectionInv /\ [Next]_vars => [RankingStep]_vars
  BY CommitsRanking DEF SelectionInv, WorkInv
<1> QED BY <1>1, InitSelectionInv, NextSelectionInv, PTL DEF Spec, CommitsCurrentRanking,
                                                            RankingStep

\* A retention is only committed for the selection that is committed now, and
\* retains what that selection implies.
THEOREM RetentionsAreCurrent == Spec => CommitsCurrentRetention
<1>1. SelectionInv /\ [Next]_vars => [RetentionStep]_vars
  BY CommitsRetained DEF SelectionInv, WorkInv
<1> QED BY <1>1, InitSelectionInv, NextSelectionInv, PTL DEF Spec, CommitsCurrentRetention,
                                                            RetentionStep
=============================================================================
