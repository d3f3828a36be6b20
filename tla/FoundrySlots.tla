------------------------------ MODULE FoundrySlots ------------------------------
(***************************************************************************)
(* What the records of FoundryCore say of each other, for every value of   *)
(* the constants. First the references: no table ever names a record that  *)
(* does not exist, so that what validate_semantics demands of an image     *)
(* holds of every state the core can be saved in. Then slots, attempts,    *)
(* workers and restarts: one open attempt per slot, evidence that stays    *)
(* about the output it was made for, workers that own what they work on,   *)
(* and late results that change nothing.                                   *)
(***************************************************************************)
EXTENDS FoundrySteps

USE DEF definitionVars, ledgerVars, decisionVars, workerVars

\* p is the identity of a population that was created.
ExistingPopulation(p) == p \in PopulationId /\ populations[p].state # "Absent"

\* An attempt is about a candidate, in the population of the candidate.
AttemptRef(a) ==
    /\ KnownCandidate(attempts[a].candidate)
    /\ attempts[a].population = candidates[attempts[a].candidate].population
    /\ attempts[a].worker \in Worker /\ attempts[a].boot \in Boot

\* A root names its lineage; a child continues its parent's, one deeper.
LineageOf(c) ==
    LET r == candidates[c] IN
    IF r.parent = 0 THEN r.depth = 0 /\ r.lineage = c
    ELSE /\ r.parent # c /\ KnownCandidate(r.parent)
         /\ r.depth = candidates[r.parent].depth + 1
         /\ r.lineage = candidates[r.parent].lineage

\* A candidate is in a population, and its output is of an attempt.
CandidateRef(c) ==
    /\ ExistingPopulation(candidates[c].population)
    /\ LineageOf(c)
    /\ candidates[c].output # 0 => attempts[candidates[c].output].state # "Absent"

PopulationRef(p) == populations[p].seed = 0 \/ KnownCandidate(populations[p].seed)

\* References among the tables, and identities that only grow.
TableRefs ==
    /\ CountersExact
    /\ \A a \in AttemptId : attempts[a].state # "Absent" => AttemptRef(a)
    /\ \A c \in CandidateId : candidates[c].state # "Absent" => CandidateRef(c)
    /\ \A p \in PopulationId : populations[p].state # "Absent" => PopulationRef(p)
    /\ \A r \in evaluations : KnownCandidate(r.candidate)

-----------------------------------------------------------------------------
(* What every step leaves alone. *)

\* A record that exists goes on existing, with the identity it was made with.
Endures ==
    /\ \A p \in PopulationId : populations[p].state # "Absent" =>
          /\ populations'[p].state # "Absent"
          /\ populations'[p].seed = populations[p].seed
          /\ populations'[p].index = populations[p].index
          /\ populations'[p].taskGeneration = populations[p].taskGeneration
          /\ populations'[p].policyGeneration = populations[p].policyGeneration
    /\ \A c \in CandidateId : candidates[c].state # "Absent" =>
          candidates'[c].state # "Absent" /\ SameSlot(candidates[c], candidates'[c])
    /\ \A a \in AttemptId : attempts[a].state # "Absent" =>
          attempts'[a].state # "Absent" /\ SameAttempt(attempts[a], attempts'[a])

\* Moves of candidates outside dispatch never make or unmake one.
LEMMA SlotMovesExist ==
    ASSUME NEW r, NEW s, SlotMoves(r, s)
    PROVE  s.state = "Absent" <=> r.state = "Absent"
  BY DEF SlotMoves

\* Neither does what an attempt may do.
LEMMA AttemptsEndExist ==
    ASSUME NEW A, AttemptsEnd(A), NEW a \in AttemptId
    PROVE  attempts'[a].state = "Absent" <=> attempts[a].state = "Absent"
<1>1. "Absent" \notin AttemptOpen \cup AttemptTerminal \cup AttemptInFlight
  BY DEF AttemptOpen, AttemptInFlight, AttemptTerminal
<1> QED BY <1>1 DEF AttemptsEnd, Proceeds

\* The calls that do no more keep every record.
LEMMA WorkStepEndures ==
    ASSUME WorkStep PROVE Endures
<1>1. PICK A : AttemptsEnd(A)
  BY DEF WorkStep
<1>2. \A a \in AttemptId : attempts[a].state # "Absent" =>
         attempts'[a].state # "Absent" /\ SameAttempt(attempts[a], attempts'[a])
  BY <1>1, AttemptsEndExist DEF AttemptsEnd
<1>3. \A c \in CandidateId : candidates[c].state # "Absent" =>
         candidates'[c].state # "Absent" /\ SameSlot(candidates[c], candidates'[c])
  BY SlotMovesExist DEF WorkStep, CandidatesWork, WorksOn, OnlyState
<1> QED BY <1>2, <1>3 DEF WorkStep, PopulationsKeep, PopulationKept, Endures

\* Records that existed refer to existing records after the step, too.
LEMMA RefsEndure ==
    ASSUME TableRefs, Endures
    PROVE  /\ \A p : ExistingPopulation(p) => ExistingPopulation(p)'
           /\ \A c : KnownCandidate(c) => KnownCandidate(c)'
           /\ \A a \in AttemptId : attempts[a].state # "Absent" => AttemptRef(a)'
           /\ \A c \in CandidateId :
                 /\ candidates[c].state # "Absent"
                 /\ candidates'[c].output = candidates[c].output
                 /\ candidates[c].output \in {0} \cup AttemptId
                 => CandidateRef(c)'
           /\ \A p \in PopulationId : populations[p].state # "Absent" => PopulationRef(p)'
<1>1. \A p : ExistingPopulation(p) => ExistingPopulation(p)'
  BY DEF ExistingPopulation, Endures
<1>2. \A c : KnownCandidate(c) => KnownCandidate(c)'
  BY DEF KnownCandidate, Endures
<1>3. ASSUME NEW a \in AttemptId, attempts[a].state # "Absent" PROVE AttemptRef(a)'
  <2>1. AttemptRef(a) /\ SameAttempt(attempts[a], attempts'[a])
    BY <1>3 DEF TableRefs, Endures
  <2>2. /\ KnownCandidate(attempts[a].candidate)
        /\ candidates'[attempts[a].candidate].population
             = candidates[attempts[a].candidate].population
    BY <2>1 DEF AttemptRef, KnownCandidate, Endures, SameSlot
  <2> QED BY <1>2, <2>1, <2>2 DEF AttemptRef, SameAttempt, KnownCandidate
<1>4. ASSUME NEW c \in CandidateId, candidates[c].state # "Absent",
             candidates'[c].output = candidates[c].output,
             candidates[c].output \in {0} \cup AttemptId
      PROVE  CandidateRef(c)'
  <2>1. CandidateRef(c) /\ SameSlot(candidates[c], candidates'[c])
    BY <1>4 DEF TableRefs, Endures
  <2>2. ExistingPopulation(candidates[c].population)'
    BY <1>1, <2>1 DEF CandidateRef, SameSlot, ExistingPopulation
  <2>3. LineageOf(c)'
    <3>1. CASE candidates[c].parent = 0
      BY <2>1, <3>1 DEF CandidateRef, LineageOf, SameSlot
    <3>2. CASE candidates[c].parent # 0
      <4> DEFINE e == candidates[c].parent
      <4>1. /\ e # c /\ KnownCandidate(e)
            /\ candidates[c].depth = candidates[e].depth + 1
            /\ candidates[c].lineage = candidates[e].lineage
        BY <2>1, <3>2 DEF CandidateRef, LineageOf
      <4>2. candidates'[e].depth = candidates[e].depth
            /\ candidates'[e].lineage = candidates[e].lineage
        BY <4>1 DEF KnownCandidate, Endures, SameSlot
      <4> QED BY <1>2, <2>1, <3>2, <4>1, <4>2 DEF LineageOf, SameSlot, KnownCandidate
    <3> QED BY <3>1, <3>2
  <2>4. candidates'[c].output # 0 => attempts'[candidates'[c].output].state # "Absent"
    BY <1>4, <2>1 DEF CandidateRef, Endures
  <2> QED BY <2>2, <2>3, <2>4 DEF CandidateRef
<1>5. \A p \in PopulationId : populations[p].state # "Absent" => PopulationRef(p)'
  BY <1>2 DEF TableRefs, PopulationRef, Endures
<1> QED BY <1>1, <1>2, <1>3, <1>4, <1>5

-----------------------------------------------------------------------------
(* The tables, call by call. *)

\* A work step makes no record, and what it moves keeps what it refers to.
LEMMA WorkStepRefs ==
    ASSUME CoreInv, TableRefs, WorkStep PROVE TableRefs'
<1>1. Endures
  BY WorkStepEndures
<1>2. PICK A : AttemptsEnd(A)
  BY DEF WorkStep
<1>3. \A a \in AttemptId : attempts[a].state = "Absent" => attempts'[a] = attempts[a]
  BY <1>2 DEF AttemptsEnd
<1>4. \A c \in CandidateId :
         /\ candidates'[c].output = candidates[c].output
         /\ candidates[c].output \in {0} \cup AttemptId
         /\ candidates[c].state = "Absent" => candidates'[c] = candidates[c]
  BY SlotMovesExist DEF WorkStep, CandidatesWork, WorksOn, OnlyState, CoreInv, TypeOK,
                        CandidateRecord
<1>5. \A p \in PopulationId : populations[p].state = "Absent" => populations'[p] = populations[p]
  BY DEF WorkStep, PopulationsKeep, PopulationKept
<1>6. CountersExact'
  <2>1. ids' = ids
    BY DEF WorkStep
  <2>2. NoPopulation.state = "Absent" /\ NoCandidate.state = "Absent" /\ NoAttempt.state = "Absent"
    BY DEF NoPopulation, NoCandidate, NoAttempt
  <2> QED BY <1>1, <1>3, <1>4, <1>5, <2>1, <2>2 DEF TableRefs, CountersExact, Endures
<1>7. \A r \in evaluations' : KnownCandidate(r.candidate)'
  <2>1. \A r \in evaluations' : KnownCandidate(r.candidate)
    BY DEF WorkStep, EvidenceGrows, TableRefs, KnownCandidate
  <2> QED BY <1>1, <2>1, RefsEndure
<1> QED BY <1>1, <1>3, <1>4, <1>5, <1>6, <1>7, RefsEndure DEF TableRefs

\* authorize_attempt keeps every record and adds an attempt, maybe with its slot.
LEMMA AuthorizeEndures ==
    ASSUME NEW s, NEW p \in PopulationId, NEW c \in CandidateId, NEW a \in AttemptId,
           Authorizes(s, p, c, a)
    PROVE  Endures
<1>1. populations' = populations
  BY DEF Authorizes
<1>2. NoAttempt.state = "Absent" /\ NoCandidate.state = "Absent"
  BY DEF NoAttempt, NoCandidate
<1>3. \A b \in AttemptId : attempts[b].state # "Absent" => attempts'[b] = attempts[b]
  BY <1>2 DEF Authorizes
<1>4. \A d \in CandidateId : candidates[d].state # "Absent" =>
         candidates'[d].state # "Absent" /\ SameSlot(candidates[d], candidates'[d])
  <2>1. \A d \in CandidateId : d # c => candidates'[d] = candidates[d]
    BY DEF Authorizes
  <2>2. /\ candidates'[c].state = "Producing"
        /\ candidates[c].state # "Absent" => SameSlot(candidates[c], candidates'[c])
    BY <1>2 DEF Authorizes, TakesSlot, MakesSlot
  <2> QED BY <2>1, <2>2 DEF SameSlot
<1> QED BY <1>1, <1>3, <1>4 DEF Endures, SameAttempt

\* The new attempt is about the slot it was authorized for, and a new slot has
\* the population's seed as its parent.
LEMMA AuthorizeRefs ==
    ASSUME CoreInv, TableRefs, NEW s \in sessions, NEW p \in PopulationId,
           NEW c \in CandidateId, NEW a \in AttemptId, Authorizes(s, p, c, a)
    PROVE  TableRefs'
<1>1. Endures
  BY AuthorizeEndures
<1>2. s.worker \in Worker /\ s.boot \in Boot
  BY DEF CoreInv, TypeOK, SessionAuthority
<1>3. ids \in IdCounters
  BY DEF CoreInv, TypeOK
<1>4. /\ a = ids.attempt + 1 /\ ids'.attempt = a /\ ids'.population = ids.population
      /\ populations[p].state = "Running" /\ UNCHANGED <<populations, evaluations>>
      /\ \A b \in AttemptId : b # a => attempts'[b] = attempts[b]
      /\ attempts'[a].state = "Authorized"
      /\ attempts'[a].population = p /\ attempts'[a].candidate = c
      /\ attempts'[a].worker = s.worker /\ attempts'[a].boot = s.boot
      /\ \A d \in CandidateId : d # c => candidates'[d] = candidates[d]
      /\ candidates'[c].state = "Producing" /\ candidates'[c].population = p
      /\ attempts[a] = NoAttempt
  BY DEF Authorizes, TakesSlot, MakesSlot, SameSlot
<1>5. NoAttempt.state = "Absent" /\ NoCandidate.state = "Absent"
  BY DEF NoAttempt, NoCandidate
<1>6. \A b \in AttemptId : attempts'[b].state # "Absent" => AttemptRef(b)'
  <2>1. AttemptRef(a)'
    BY <1>2, <1>4 DEF AttemptRef, KnownCandidate
  <2> QED BY <1>1, <1>4, <2>1, RefsEndure
<1>7. \A d \in CandidateId : /\ d # c => candidates'[d].output = candidates[d].output
                             /\ candidates[d].output \in {0} \cup AttemptId
  BY <1>4 DEF CoreInv, TypeOK, CandidateRecord
<1>8. CASE TakesSlot(p, c)
  <2>1. /\ ids'.candidate = ids.candidate /\ candidates[c].state # "Absent"
        /\ candidates'[c].output = candidates[c].output
    BY <1>8 DEF TakesSlot
  <2>2. \A d \in CandidateId : candidates'[d].state # "Absent" => CandidateRef(d)'
    BY <1>1, <1>4, <1>7, <2>1, RefsEndure
  <2>3. CountersExact'
    <3>1. \A b \in AttemptId : IF b <= ids'.attempt THEN attempts'[b].state # "Absent"
                               ELSE attempts'[b] = NoAttempt
      BY <1>3, <1>4 DEF TableRefs, CountersExact, IdCounters, AttemptId
    <3>2. \A d \in CandidateId : IF d <= ids'.candidate THEN candidates'[d].state # "Absent"
                                 ELSE candidates'[d] = NoCandidate
      BY <1>4, <1>5, <2>1 DEF TableRefs, CountersExact
    <3> QED BY <1>4, <3>1, <3>2 DEF TableRefs, CountersExact
  <2> QED BY <1>1, <1>4, <1>6, <2>2, <2>3, RefsEndure DEF TableRefs
<1>9. CASE MakesSlot(p, c)
  <2> DEFINE seed == populations[p].seed
  <2>1. /\ c = ids.candidate + 1 /\ ids'.candidate = c
        /\ candidates[c] = NoCandidate /\ candidates'[c].output = 0
        /\ candidates'[c].parent = seed
        /\ seed = 0 => candidates'[c].lineage = c /\ candidates'[c].depth = 0
        /\ seed # 0 => /\ candidates'[c].lineage = candidates[seed].lineage
                       /\ candidates'[c].depth = candidates[seed].depth + 1
    BY <1>9 DEF MakesSlot
  <2>2. seed # 0 => KnownCandidate(seed) /\ seed # c
    BY <1>4, <1>5, <2>1 DEF TableRefs, PopulationRef, KnownCandidate
  <2> HIDE DEF seed
  <2>3. seed # 0 => /\ candidates'[seed] = candidates[seed] /\ seed \in CandidateId
                    /\ candidates'[seed].state # "Absent"
    BY <1>4, <2>2 DEF KnownCandidate
  <2>4. CandidateRef(c)'
    <3>1. LineageOf(c)'
      BY <2>1, <2>2, <2>3 DEF LineageOf, KnownCandidate
    <3>2. ExistingPopulation(candidates[c].population)'
      BY <1>4 DEF ExistingPopulation
    <3> QED BY <2>1, <3>1, <3>2 DEF CandidateRef
  <2>5. \A d \in CandidateId : candidates'[d].state # "Absent" => CandidateRef(d)'
    BY <1>1, <1>4, <1>7, <2>4, RefsEndure
  <2>6. CountersExact'
    <3>1. \A b \in AttemptId : IF b <= ids'.attempt THEN attempts'[b].state # "Absent"
                               ELSE attempts'[b] = NoAttempt
      BY <1>3, <1>4 DEF TableRefs, CountersExact, IdCounters, AttemptId
    <3>2. \A d \in CandidateId : IF d <= ids'.candidate THEN candidates'[d].state # "Absent"
                                 ELSE candidates'[d] = NoCandidate
      BY <1>3, <1>4, <2>1 DEF TableRefs, CountersExact, IdCounters, CandidateId
    <3> QED BY <1>4, <3>1, <3>2 DEF TableRefs, CountersExact
  <2> QED BY <1>1, <1>4, <1>6, <2>5, <2>6, RefsEndure DEF TableRefs
<1> QED BY <1>8, <1>9 DEF Authorizes

\* publish_candidate keeps every record, and the output is the attempt's.
LEMMA PublishRefs ==
    ASSUME CoreInv, TableRefs, NEW s, NEW a \in AttemptId, NEW c \in CandidateId,
           Publishes(s, a, c), PopulationsKeep
    PROVE  Endures /\ TableRefs'
<1>1. /\ attempts[a].state \in {"Running", "Dispatched"}
      /\ candidates[c].state \in {"Producing", "Published"}
      /\ \A b \in AttemptId : b # a => attempts'[b] = attempts[b]
      /\ SameAttempt(attempts[a], attempts'[a]) /\ attempts'[a].state = "Published"
      /\ \A d \in CandidateId : d # c => candidates'[d] = candidates[d]
      /\ SameSlot(candidates[c], candidates'[c])
      /\ candidates'[c].output = a /\ candidates'[c].state = "Published"
      /\ UNCHANGED <<ids, evaluations>>
  BY DEF Publishes
<1>2. Endures
  BY <1>1 DEF Endures, SameAttempt, SameSlot, PopulationsKeep, PopulationKept
<1>3. \A p \in PopulationId : populations[p].state = "Absent" => populations'[p] = populations[p]
  BY DEF PopulationsKeep, PopulationKept
<1>4. NoPopulation.state = "Absent" /\ NoCandidate.state = "Absent" /\ NoAttempt.state = "Absent"
  BY DEF NoPopulation, NoCandidate, NoAttempt
<1>5. CountersExact'
  <2>1. \A b \in AttemptId : IF b <= ids'.attempt THEN attempts'[b].state # "Absent"
                             ELSE attempts'[b] = NoAttempt
    BY <1>1, <1>4 DEF TableRefs, CountersExact
  <2>2. \A d \in CandidateId : IF d <= ids'.candidate THEN candidates'[d].state # "Absent"
                               ELSE candidates'[d] = NoCandidate
    BY <1>1, <1>4 DEF TableRefs, CountersExact
  <2>3. \A p \in PopulationId : IF p <= ids'.population THEN populations'[p].state # "Absent"
                                ELSE populations'[p] = NoPopulation
    BY <1>1, <1>2, <1>3, <1>4 DEF TableRefs, CountersExact, Endures
  <2> QED BY <2>1, <2>2, <2>3 DEF CountersExact
<1>6. \A d \in CandidateId : candidates'[d].state # "Absent" => CandidateRef(d)'
  <2>1. \A d \in CandidateId : candidates[d].output \in {0} \cup AttemptId
    BY DEF CoreInv, TypeOK, CandidateRecord
  <2>2. \A d \in CandidateId : d # c /\ candidates'[d].state # "Absent" => CandidateRef(d)'
    BY <1>1, <1>2, <2>1, RefsEndure
  <2>3. CandidateRef(c)'
    <3>1. CandidateRef(c)
      BY <1>1 DEF TableRefs
    <3>2. ExistingPopulation(candidates[c].population)'
      BY <1>1, <1>2, <3>1 DEF ExistingPopulation, CandidateRef, SameSlot, Endures
    <3>3. LineageOf(c)'
      <4>1. CASE candidates[c].parent = 0
        BY <1>1, <3>1, <4>1 DEF CandidateRef, LineageOf, SameSlot
      <4>2. CASE candidates[c].parent # 0
        <5>1. /\ candidates[c].parent # c /\ KnownCandidate(candidates[c].parent)
              /\ candidates[c].depth = candidates[candidates[c].parent].depth + 1
              /\ candidates[c].lineage = candidates[candidates[c].parent].lineage
          BY <3>1, <4>2 DEF CandidateRef, LineageOf
        <5>2. candidates'[candidates[c].parent] = candidates[candidates[c].parent]
          BY <1>1, <5>1 DEF KnownCandidate
        <5> QED BY <1>1, <4>2, <5>1, <5>2 DEF LineageOf, SameSlot, KnownCandidate
      <4> QED BY <4>1, <4>2
    <3> QED BY <1>1, <3>2, <3>3 DEF CandidateRef
  <2> QED BY <2>2, <2>3
<1>7. \A b \in AttemptId : attempts'[b].state # "Absent" => AttemptRef(b)'
  BY <1>1, <1>2, RefsEndure
<1>8. \A p \in PopulationId : populations'[p].state # "Absent" => PopulationRef(p)'
  BY <1>2, <1>3, RefsEndure
<1> QED BY <1>1, <1>2, <1>5, <1>6, <1>7, <1>8, RefsEndure DEF TableRefs

\* A new population keeps every record; its seed exists.
LEMMA MakesPopulationRefs ==
    ASSUME CoreInv, TableRefs, NEW q \in PopulationId, NEW index, NEW seed,
           MakesPopulation(q, index, seed), seed = 0 \/ KnownCandidate(seed),
           \/ ids'.candidate = ids.candidate /\ UNCHANGED candidates
           \/ \E e \in CandidateId : MakesElite(q, e, seed) /\ seed # 0
    PROVE  Endures /\ TableRefs'
<1>1. /\ q = ids.population + 1 /\ ids'.population = q /\ ids'.attempt = ids.attempt
      /\ populations[q] = NoPopulation
      /\ \A r \in PopulationId : r # q => populations'[r] = populations[r]
      /\ populations'[q].state = "Created" /\ populations'[q].seed = seed
      /\ UNCHANGED <<attempts, evaluations>>
  BY DEF MakesPopulation
<1>2. NoPopulation.state = "Absent" /\ NoCandidate.state = "Absent"
  BY DEF NoPopulation, NoCandidate
<1>3. \A c \in CandidateId : candidates[c].state # "Absent" => candidates'[c] = candidates[c]
  BY <1>2 DEF MakesElite
<1>4. Endures
  BY <1>1, <1>2, <1>3 DEF Endures, SameSlot, SameAttempt
<1>5. /\ ids \in IdCounters
      /\ \A c \in CandidateId : candidates[c].output \in {0} \cup AttemptId
  BY DEF CoreInv, TypeOK, CandidateRecord
<1>6. \A p \in PopulationId : IF p <= ids'.population THEN populations'[p].state # "Absent"
                              ELSE populations'[p] = NoPopulation
  BY <1>1, <1>5 DEF TableRefs, CountersExact, IdCounters, PopulationId
<1>7. \A p \in PopulationId : populations'[p].state # "Absent" => PopulationRef(p)'
  <2>1. PopulationRef(q)'
    BY <1>1, <1>3 DEF PopulationRef, KnownCandidate
  <2> QED BY <1>1, <1>4, <2>1, RefsEndure
<1>8. \A a \in AttemptId : attempts'[a].state # "Absent" => AttemptRef(a)'
  BY <1>1, <1>4, RefsEndure
<1>9. \A r \in evaluations' : KnownCandidate(r.candidate)'
  BY <1>1, <1>4, RefsEndure DEF TableRefs
<1>10. \A a \in AttemptId : IF a <= ids'.attempt THEN attempts'[a].state # "Absent"
                            ELSE attempts'[a] = NoAttempt
  BY <1>1 DEF TableRefs, CountersExact
<1>11. CASE ids'.candidate = ids.candidate /\ UNCHANGED candidates
  <2>1. \A c \in CandidateId : candidates'[c].state # "Absent" => CandidateRef(c)'
    BY <1>4, <1>5, <1>11, RefsEndure
  <2>2. CountersExact'
    BY <1>6, <1>10, <1>11 DEF TableRefs, CountersExact
  <2> QED BY <1>4, <1>7, <1>8, <1>9, <2>1, <2>2 DEF TableRefs
<1>12. CASE \E e \in CandidateId : MakesElite(q, e, seed) /\ seed # 0
  <2>1. PICK e \in CandidateId : MakesElite(q, e, seed) /\ seed # 0
    BY <1>12
  <2>2. /\ e = ids.candidate + 1 /\ ids'.candidate = e
        /\ candidates[e] = NoCandidate
        /\ \A d \in CandidateId : d # e => candidates'[d] = candidates[d]
        /\ candidates'[e].state = "Published" /\ candidates'[e].population = q
        /\ candidates'[e].parent = seed
        /\ candidates'[e].lineage = candidates[seed].lineage
        /\ candidates'[e].depth = candidates[seed].depth + 1
        /\ candidates'[e].output = candidates[seed].output
    BY <2>1 DEF MakesElite
  <2>3. /\ KnownCandidate(seed) /\ seed # e /\ seed \in CandidateId
        /\ candidates'[seed] = candidates[seed] /\ candidates'[seed].state # "Absent"
    BY <1>2, <2>1, <2>2 DEF KnownCandidate
  <2>4. CandidateRef(e)'
    <3>1. LineageOf(e)'
      BY <2>1, <2>2, <2>3 DEF LineageOf, KnownCandidate
    <3>2. ExistingPopulation(candidates[e].population)'
      BY <1>1, <2>2 DEF ExistingPopulation
    <3>3. candidates'[e].output # 0 => attempts'[candidates'[e].output].state # "Absent"
      BY <1>1, <2>2, <2>3 DEF TableRefs, CandidateRef, KnownCandidate
    <3> QED BY <3>1, <3>2, <3>3 DEF CandidateRef
  <2>5. \A c \in CandidateId : candidates'[c].state # "Absent" => CandidateRef(c)'
    BY <1>4, <1>5, <2>2, <2>4, RefsEndure
  <2>6. \A d \in CandidateId : IF d <= ids'.candidate THEN candidates'[d].state # "Absent"
                               ELSE candidates'[d] = NoCandidate
    BY <1>5, <2>2 DEF TableRefs, CountersExact, IdCounters, CandidateId
  <2>7. CountersExact'
    BY <1>6, <1>10, <2>6 DEF CountersExact
  <2> QED BY <1>4, <1>7, <1>8, <1>9, <2>5, <2>7 DEF TableRefs
<1> QED BY <1>11, <1>12

\* A call that moves populations and marks candidates, and nothing else.
LEMMA MarksRefs ==
    ASSUME CoreInv, TableRefs, UNCHANGED <<ids, attempts, evaluations>>,
           \A p \in PopulationId :
              /\ populations[p].state = "Absent" => populations'[p] = populations[p]
              /\ populations[p].state # "Absent" =>
                    /\ populations'[p].state # "Absent"
                    /\ populations'[p].seed = populations[p].seed
                    /\ populations'[p].index = populations[p].index
                    /\ populations'[p].taskGeneration = populations[p].taskGeneration
                    /\ populations'[p].policyGeneration = populations[p].policyGeneration,
           \A c \in CandidateId :
              /\ candidates[c].state = "Absent" => candidates'[c] = candidates[c]
              /\ candidates[c].state # "Absent" => /\ candidates'[c].state # "Absent"
                                                   /\ SameOutput(candidates[c], candidates'[c])
    PROVE  Endures /\ TableRefs'
<1>1. Endures
  BY DEF Endures, SameOutput, SameAttempt
<1>2. NoPopulation.state = "Absent" /\ NoCandidate.state = "Absent"
  BY DEF NoPopulation, NoCandidate
<1>3. CountersExact'
  BY <1>2 DEF TableRefs, CountersExact
<1>4. \A c \in CandidateId : candidates[c].output \in {0} \cup AttemptId
  BY DEF CoreInv, TypeOK, CandidateRecord
<1>5. \A c \in CandidateId : candidates'[c].state # "Absent" => CandidateRef(c)'
  BY <1>1, <1>4, RefsEndure DEF SameOutput
<1>6. \A r \in evaluations' : KnownCandidate(r.candidate)'
  BY <1>1, RefsEndure DEF TableRefs
<1> QED BY <1>1, <1>3, <1>5, <1>6, RefsEndure DEF TableRefs

\* commit_selection marks candidates of an existing population.
LEMMA CommitSelectionRefs ==
    ASSUME CoreInv, TableRefs, NEW x \in Controller, commit_selection(x),
           ExistingPopulation(heldSelection[x].population)
    PROVE  Endures /\ TableRefs'
<1> DEFINE d == heldSelection[x]
           p == d.population
           w == d.selected
           g == populations[p].committedSelection + 1
<1>1. /\ RefusesWinner(d) \/ InstallsWinner(d)
      /\ UNCHANGED <<ids, attempts, evaluations>>
  BY CommitSelectionDoes
<1>2. /\ populations \in [PopulationId -> PopulationRecord]
      /\ p \in PopulationId /\ populations[p].state # "Absent"
  BY DEF CoreInv, TypeOK, ExistingPopulation
<1>3. \A c \in CandidateId :
         /\ candidates[c].state = "Absent" => candidates'[c] = candidates[c]
         /\ candidates[c].state # "Absent" => /\ candidates'[c].state # "Absent"
                                              /\ SameOutput(candidates[c], candidates'[c])
  <2> SUFFICES ASSUME NEW c \in CandidateId
               PROVE  /\ candidates[c].state = "Absent" => candidates'[c] = candidates[c]
                      /\ candidates[c].state # "Absent" =>
                            /\ candidates'[c].state # "Absent"
                            /\ SameOutput(candidates[c], candidates'[c])
    OBVIOUS
  <2>1. Unmarks(p, w)
    BY <1>1 DEF RefusesWinner, InstallsWinner
  <2>2. candidates[c].state = "Absent" => candidates[c].population = 0 /\ p # 0
    BY <1>2, AbsentIsBlank DEF TableRefs, NoCandidate, PopulationId
  <2>3. CASE c # w
    BY <2>1, <2>2, <2>3 DEF Unmarks, SameOutput, SameSlot
  <2>4. CASE c = w /\ RefusesWinner(d)
    BY <2>4 DEF RefusesWinner, SameOutput, SameSlot
  <2>5. CASE c = w /\ InstallsWinner(d)
    BY <2>5 DEF InstallsWinner
  <2> QED BY <1>1, <2>3, <2>4, <2>5
<1>4. \A q \in PopulationId :
         \/ populations'[q] = populations[q]
         \/ q = p /\ populations'[q] = [populations[q] EXCEPT !.committedSelection = g,
                                                              !.state = "Advancing"]
  BY <1>1 DEF RefusesWinner, InstallsWinner
<1> HIDE DEF p, g, d, w
<1>5. \A q \in PopulationId :
         /\ populations[q].state = "Absent" => populations'[q] = populations[q]
         /\ populations[q].state # "Absent" =>
               /\ populations'[q].state # "Absent"
               /\ populations'[q].seed = populations[q].seed
               /\ populations'[q].index = populations[q].index
               /\ populations'[q].taskGeneration = populations[q].taskGeneration
               /\ populations'[q].policyGeneration = populations[q].policyGeneration
  <2>1. \A r \in PopulationRecord :
           LET s == [r EXCEPT !.committedSelection = g, !.state = "Advancing"]
           IN  /\ s.state = "Advancing" /\ s.seed = r.seed /\ s.index = r.index
               /\ s.taskGeneration = r.taskGeneration
               /\ s.policyGeneration = r.policyGeneration
    BY DEF PopulationRecord
  <2> QED BY <1>2, <1>4, <2>1
<1> QED BY <1>1, <1>3, <1>5, MarksRefs

\* commit_retention marks candidates of an existing population.
LEMMA CommitRetentionRefs ==
    ASSUME CoreInv, TableRefs, NEW x \in Controller, commit_retention(x),
           ExistingPopulation(heldRetention[x].population),
           \A c \in heldRetention[x].retained : KnownCandidate(c)
    PROVE  Endures /\ TableRefs' /\ PopulationsKeep
<1>1. Retires(heldRetention[x]) /\ UNCHANGED <<ids, attempts, evaluations>>
  BY CommitRetentionDoes
<1>2. PopulationsKeep
  <2>1. populations[heldRetention[x].population].state # "Absent"
    BY DEF ExistingPopulation
  <2> QED BY <2>1, MarkingCallsKeep
<1>3. \A c \in CandidateId :
         /\ candidates[c].state = "Absent" => candidates'[c] = candidates[c]
         /\ candidates[c].state # "Absent" => /\ candidates'[c].state # "Absent"
                                              /\ SameOutput(candidates[c], candidates'[c])
  BY <1>1 DEF Retires, KnownCandidate
<1> QED BY <1>1, <1>2, <1>3, MarksRefs DEF PopulationsKeep, PopulationKept

-----------------------------------------------------------------------------
(* The decisions. *)

\* A selection is about candidates of its population, which exists.
SelectionRef(d) ==
    d.state # "None" =>
        /\ ExistingPopulation(d.population)
        /\ \A c \in CandidateId : c = d.selected \/ d.rank[c] > 0 =>
              candidates[c].state # "Absent" /\ candidates[c].population = d.population

\* A retention is about candidates of its population, which exists.
RetentionRef(d) ==
    d.state # "None" =>
        /\ ExistingPopulation(d.population)
        /\ \A c \in d.retained \cup d.retired :
              /\ c \in CandidateId /\ candidates[c].state # "Absent"
              /\ candidates[c].population = d.population

\* Every decision, stored, held or requested, refers to what exists.
DecisionRefs ==
    /\ \A x \in Controller : SelectionRef(heldSelection[x]) /\ RetentionRef(heldRetention[x])
    /\ \A p \in PopulationId :
          /\ SelectionRef(selections[p]) /\ RetentionRef(retentions[p])
          /\ selections[p].state # "None" => selections[p].population = p
          /\ retentions[p].state # "None" => retentions[p].population = p
    /\ \A r \in promotions : KnownCandidate(r.candidate)

\* Every table refers to records that exist.
RefInv == TableRefs /\ DecisionRefs

\* Every step keeps the tables sound and every record alive.
LEMMA TablesEndure ==
    ASSUME CoreInv, RefInv, [Next]_vars PROVE Endures /\ TableRefs'
<1>0. TableRefs /\ CountersExact
  BY DEF RefInv, TableRefs
<1>1. CASE WorkStep
  BY <1>0, <1>1, WorkStepEndures, WorkStepRefs
<1>2. ASSUME NEW s \in sessions, authorize_attempt(s) PROVE Endures /\ TableRefs'
  BY <1>0, <1>2, AuthorizeAttemptDoes, AuthorizeEndures, AuthorizeRefs
<1>3. ASSUME NEW s \in sessions, NEW a \in AttemptId, publish_candidate(s, a)
      PROVE  Endures /\ TableRefs'
  <2>1. attempts[a].state \in {"Running", "Dispatched"}
    BY <1>3 DEF publish_candidate, AcceptsPublication
  <2>2. attempts[a].candidate \in CandidateId
    BY <1>0, <2>1 DEF TableRefs, AttemptRef, KnownCandidate
  <2>3. Publishes(s, a, attempts[a].candidate) /\ PopulationsKeep
    BY <1>3, <2>2, PublishCandidateDoes, PublishCandidateKeeps
  <2> QED BY <1>0, <2>2, <2>3, PublishRefs
<1>4. CASE create_population
  BY <1>0, <1>4, CreatePopulationDoes, MakesPopulationRefs
<1>5. ASSUME NEW p \in PopulationId, create_successor(p) \/ advance_population(p)
      PROVE  Endures /\ TableRefs'
  <2>1. PICK q \in PopulationId, w \in CandidateId : Advances(p, q, w)
    BY <1>0, <1>5, CreateSuccessorDoes, AdvancePopulationDoes
  <2>2. w # 0 /\ KnownCandidate(w)
    BY <2>1 DEF Advances, RefInv, DecisionRefs, SelectionRef, KnownCandidate, CandidateId
  <2> QED BY <1>0, <2>1, <2>2, MakesPopulationRefs DEF Advances
<1>6. ASSUME NEW x \in Controller, commit_selection(x) PROVE Endures /\ TableRefs'
  <2>1. heldSelection[x].state \in {"Prepared", "Impossible"}
    BY <1>6, CommitSelectionDoes DEF SelectionIsCurrent
  <2>2. ExistingPopulation(heldSelection[x].population)
    BY <2>1 DEF RefInv, DecisionRefs, SelectionRef
  <2> QED BY <1>0, <1>6, <2>2, CommitSelectionRefs
<1>7. ASSUME NEW x \in Controller, commit_retention(x) PROVE Endures /\ TableRefs'
  <2>1. heldRetention[x].state # "None"
    BY <1>7, CommitRetentionDoes DEF RetentionIsCurrent
  <2>2. ExistingPopulation(heldRetention[x].population)
        /\ \A c \in heldRetention[x].retained : KnownCandidate(c)
    BY <2>1 DEF RefInv, DecisionRefs, RetentionRef, KnownCandidate
  <2> QED BY <1>0, <1>7, <2>2, CommitRetentionRefs
<1> QED BY <1>0, <1>1, <1>2, <1>3, <1>4, <1>5, <1>6, <1>7, StepKinds

\* Which calls touch a decision at all.
LEMMA DecisionKinds ==
    ASSUME [Next]_vars
    PROVE  \/ UNCHANGED decisionVars
           \/ \E x \in Controller, p \in PopulationId :
                 prepare_selection(x, p) \/ prepare_retention(x, p)
           \/ \E x \in Controller : commit_selection(x) \/ commit_retention(x)
           \/ \E p \in PopulationId : prepare_promotion_request(p)
           \/ recover
<1>1. CASE WorkerCall
  <2>1. ASSUME NEW w \in Worker, NEW b \in Boot, register_worker(w, b)
        PROVE  UNCHANGED decisionVars
    BY <2>1 DEF register_worker
  <2>2. ASSUME NEW s \in sessions,
               \/ worker_ready(s) \/ revalidate_worker(s) \/ worker_disconnected(s)
               \/ reject_worker_session(s) \/ authorize_attempt(s)
        PROVE  UNCHANGED decisionVars
    BY <2>2 DEF worker_ready, revalidate_worker, worker_disconnected,
                reject_worker_session, authorize_attempt
  <2>3. ASSUME NEW s \in sessions, NEW a \in AttemptId,
               \/ confirm_dispatch(s, a) \/ abandon_dispatch(s, a)
               \/ acknowledge_attempt(s, a) \/ publish_candidate(s, a)
               \/ report_attempt_failure(s, a)
        PROVE  UNCHANGED decisionVars
    BY <2>3 DEF confirm_dispatch, abandon_dispatch, acknowledge_attempt,
                publish_candidate, report_attempt_failure
  <2> QED BY <1>1, <2>1, <2>2, <2>3 DEF WorkerCall
<1>2. CASE EvaluatorCall
  <2>1. ASSUME NEW c, NEW k, NEW kind, NEW outcome, NEW high, NEW g, NEW t,
               record_evaluation(c, k, kind, outcome, high, g, t)
        PROVE  UNCHANGED decisionVars
    BY <2>1 DEF record_evaluation
  <2>2. \A c : begin_evaluation(c) => UNCHANGED decisionVars
    BY DEF begin_evaluation
  <2>3. \A c : EvaluatorReport(c) \/ SelfReport(c) => UNCHANGED decisionVars
    BY <2>1, Zenon DEF EvaluatorReport, SelfReport
  <2> QED BY <1>2, <2>2, <2>3 DEF EvaluatorCall
<1>3. CASE OperatorCall
  BY <1>3 DEF OperatorCall, revise_task, revise_policy, create_population, start_population,
              cancel_population, revalidate_population, request_population_revalidation,
              cancel_attempt, force_attempt_outcome_unknown
<1>4. CASE ControllerCall
  <2>1. \A p \in PopulationId :
           close_population(p) \/ create_successor(p) \/ advance_population(p) =>
           UNCHANGED decisionVars
    BY DEF close_population, create_successor, advance_population
  <2> QED BY <1>4, <2>1, Zenon DEF ControllerCall
<1>5. CASE UNCHANGED vars
  BY <1>5 DEF vars
<1> QED BY <1>1, <1>2, <1>3, <1>4, <1>5 DEF Next

\* The front of a ranking of the participants P.
WinnerOf(rank, P) == IF P = {} THEN 0 ELSE CHOOSE c \in CandidateId : rank[c] = 1

\* Unless nobody takes part, it is a participant that ranks first.
LEMMA WinnerIsFront ==
    ASSUME CoreInv, NEW p
    PROVE  LET w == WinnerOf(Ranking(p), Participants(p))
           IN  IF w = 0 THEN Participants(p) = {}
               ELSE w \in CandidateId /\ w \in Participants(p) /\ Ranking(p)[w] = 1
<1> DEFINE w == WinnerOf(Ranking(p), Participants(p))
<1>1. CASE Participants(p) = {}
  BY <1>1 DEF WinnerOf
<1>2. CASE Participants(p) # {}
  <2>1. w \in CandidateId /\ Ranking(p)[w] = 1
    BY <1>2, RankingHasFront DEF WinnerOf
  <2>2. w # 0
    BY <2>1 DEF CandidateId
  <2> HIDE DEF w
  <2>3. w \in Participants(p)
    BY <2>1 DEF Ranking
  <2> QED BY <2>1, <2>2, <2>3 DEF w
<1> QED BY <1>1, <1>2

\* The decision prepare_selection computes for population p.
PreparedSelection(d, p) ==
    /\ d.state \in {"Prepared", "Impossible"} /\ d.population = p /\ d.generation = 0
    /\ d.populationGeneration = populations[p].generation
    /\ d.taskGeneration = taskGeneration /\ d.policyGeneration = policyGeneration
    /\ d.rank = Ranking(p) /\ d.digest = SelectionStateDigest(p)
    /\ d.selected = WinnerOf(Ranking(p), Participants(p))
    /\ IF d.selected = 0 THEN Participants(p) = {}
       ELSE d.selected \in Participants(p) /\ Ranking(p)[d.selected] = 1

\* prepare_selection stores the decision and hands it to the controller.
LEMMA PrepareSelectionDoes ==
    ASSUME CoreInv, NEW x \in Controller, NEW p \in PopulationId, prepare_selection(x, p)
    PROVE  /\ PreparedSelection(selections'[p], p)
           /\ heldSelection'[x] = selections'[p]
           /\ \A q \in PopulationId : q # p => selections'[q] = selections[q]
           /\ \A y \in Controller : y # x => heldSelection'[y] = heldSelection[y]
           /\ populations[p].state \in {"Running", "Evaluating", "Selecting", "Advancing"}
           /\ populations' = [populations EXCEPT ![p].state = "Selecting"]
           /\ UNCHANGED <<epoch, definitionVars, ids, candidates, attempts, evaluations,
                          ledgerVars, retentions, promotions, heldRetention, workerVars>>
<1> DEFINE selected == IF Participants(p) = {} THEN 0
                       ELSE CHOOSE c \in CandidateId : Ranking(p)[c] = 1
           decision == [
             state |-> IF Participants(p) = {} THEN "Impossible" ELSE "Prepared",
             population |-> p, populationGeneration |-> populations[p].generation,
             taskGeneration |-> taskGeneration, policyGeneration |-> policyGeneration,
             generation |-> 0, selected |-> selected,
             rank |-> Ranking(p), digest |-> SelectionStateDigest(p)]
<1>1. /\ selections' = [selections EXCEPT ![p] = decision]
      /\ heldSelection' = [heldSelection EXCEPT ![x] = decision]
      /\ populations[p].state \in {"Running", "Evaluating", "Selecting", "Advancing"}
      /\ populations' = [populations EXCEPT ![p].state = "Selecting"]
      /\ UNCHANGED <<epoch, definitionVars, ids, candidates, attempts, evaluations,
                     ledgerVars, retentions, promotions, heldRetention, workerVars>>
  BY Zenon DEF prepare_selection
<1>2. selected = WinnerOf(Ranking(p), Participants(p))
  BY Zenon DEF WinnerOf
<1>w. IF selected = 0 THEN Participants(p) = {}
      ELSE selected \in Participants(p) /\ Ranking(p)[selected] = 1
  BY <1>2, WinnerIsFront
<1> HIDE DEF selected
<1>3. PreparedSelection(decision, p)
  BY <1>2, <1>w DEF PreparedSelection
<1> HIDE DEF decision
<1>4. /\ selections'[p] = decision /\ heldSelection'[x] = decision
      /\ \A q \in PopulationId : q # p => selections'[q] = selections[q]
      /\ \A y \in Controller : y # x => heldSelection'[y] = heldSelection[y]
  BY <1>1 DEF CoreInv, TypeOK
<1> QED BY <1>1, <1>3, <1>4, Zenon

\* The decision prepare_retention computes for population p.
PreparedRetention(d, p) ==
    /\ d.state = "Prepared" /\ d.population = p
    /\ d.populationGeneration = populations[p].generation
    /\ d.policyGeneration = policyGeneration
    /\ d.selectionGeneration = selections[p].generation
    /\ d.retained = RetainedSet(selections[p])
    /\ d.retired = CandidatesOf(p) \ d.retained
    /\ d.digest = RetentionStateDigest(p)

\* prepare_retention stores and hands out a decision, unless one is committed.
LEMMA PrepareRetentionDoes ==
    ASSUME CoreInv, NEW x \in Controller, NEW p \in PopulationId, prepare_retention(x, p)
    PROVE  /\ \/ retentions'[p] = retentions[p] /\ retentions[p].state = "Committed"
              \/ PreparedRetention(retentions'[p], p)
           /\ heldRetention'[x] = retentions'[p]
           /\ \A q \in PopulationId : q # p => retentions'[q] = retentions[q]
           /\ \A y \in Controller : y # x => heldRetention'[y] = heldRetention[y]
           /\ populations[p].state # "Absent" /\ SelectionCommitted(p)
           /\ UNCHANGED <<epoch, definitionVars, ids, populations, candidates, attempts,
                          evaluations, ledgerVars, selections, promotions, heldSelection,
                          workerVars>>
<1> DEFINE kept == RetainedSet(selections[p])
           decision == [
             state |-> "Prepared", population |-> p,
             populationGeneration |-> populations[p].generation,
             policyGeneration |-> policyGeneration,
             selectionGeneration |-> selections[p].generation,
             retained |-> kept, retired |-> CandidatesOf(p) \ kept,
             digest |-> RetentionStateDigest(p)]
           settled == /\ retentions[p].state = "Committed"
                      /\ populations[p].retentionCommitted
                      /\ retentions[p].selectionGeneration = populations[p].committedSelection
<1>1. /\ populations[p].state # "Absent" /\ SelectionCommitted(p)
      /\ retentions' = [retentions EXCEPT ![p] = IF settled THEN retentions[p] ELSE decision]
      /\ heldRetention' = [heldRetention EXCEPT ![x] = retentions'[p]]
      /\ UNCHANGED <<epoch, definitionVars, ids, populations, candidates, attempts,
                     evaluations, ledgerVars, selections, promotions, heldSelection,
                     workerVars>>
  BY Zenon DEF prepare_retention
<1>2. PreparedRetention(decision, p)
  BY DEF PreparedRetention
<1>3. settled => retentions[p].state = "Committed"
  OBVIOUS
<1> HIDE DEF decision, settled
<1>4. /\ retentions'[p] = IF settled THEN retentions[p] ELSE decision
      /\ \A q \in PopulationId : q # p => retentions'[q] = retentions[q]
      /\ heldRetention'[x] = retentions'[p]
      /\ \A y \in Controller : y # x => heldRetention'[y] = heldRetention[y]
  BY <1>1 DEF CoreInv, TypeOK
<1> QED BY <1>1, <1>2, <1>3, <1>4, Zenon

\* SelectionRef and RetentionRef of a decision in the tables after the step.
SelectionRefAfter(d) ==
    d.state # "None" =>
        /\ d.population \in PopulationId /\ populations'[d.population].state # "Absent"
        /\ \A c \in CandidateId : c = d.selected \/ d.rank[c] > 0 =>
              candidates'[c].state # "Absent" /\ candidates'[c].population = d.population

RetentionRefAfter(d) ==
    d.state # "None" =>
        /\ d.population \in PopulationId /\ populations'[d.population].state # "Absent"
        /\ \A c \in d.retained \cup d.retired :
              /\ c \in CandidateId /\ candidates'[c].state # "Absent"
              /\ candidates'[c].population = d.population

\* A decision goes on referring to what it referred to.
LEMMA DecisionEndures ==
    ASSUME Endures, NEW d
    PROVE  /\ SelectionRef(d) => SelectionRefAfter(d)
           /\ RetentionRef(d) => RetentionRefAfter(d)
  BY DEF Endures, SelectionRef, SelectionRefAfter, RetentionRef, RetentionRefAfter,
         ExistingPopulation, SameSlot

\* A decision that was just prepared refers to what exists.
LEMMA PreparedRefs ==
    ASSUME CoreInv, RefInv, NEW d, NEW p \in PopulationId, populations[p].state # "Absent"
    PROVE  /\ PreparedSelection(d, p) => SelectionRef(d)
           /\ PreparedRetention(d, p) /\ selections[p].state # "None" => RetentionRef(d)
<1>1. \A c \in CandidatesOf(p) : /\ c \in CandidateId /\ candidates[c].population = p
                                 /\ candidates[c].state # "Absent"
  BY AbsentIsBlank DEF RefInv, TableRefs, CandidatesOf, NoCandidate, PopulationId
<1>2. ASSUME PreparedSelection(d, p) PROVE SelectionRef(d)
  <2>1. Participants(p) \subseteq CandidatesOf(p)
    BY DEF Participants
  <2>2. \A c \in CandidateId : Ranking(p)[c] > 0 => c \in Participants(p)
    BY DEF Ranking
  <2>3. \A c \in CandidateId : c = d.selected => c # 0
    BY DEF CandidateId
  <2>4. d.population = p /\ d.rank = Ranking(p)
        /\ (d.selected # 0 => d.selected \in Participants(p))
    BY <1>2 DEF PreparedSelection
  <2> QED BY <1>1, <2>1, <2>2, <2>3, <2>4 DEF SelectionRef, ExistingPopulation
<1>3. ASSUME PreparedRetention(d, p), selections[p].state # "None" PROVE RetentionRef(d)
  <2>1. RetainedSet(selections[p]) \subseteq {c \in CandidateId : selections[p].rank[c] > 0}
    BY DEF RetainedSet
  <2>2. \A c \in CandidateId : selections[p].rank[c] > 0 =>
           candidates[c].state # "Absent" /\ candidates[c].population = p
    BY <1>3 DEF RefInv, DecisionRefs, SelectionRef
  <2>3. d.population = p /\ d.retained = RetainedSet(selections[p])
        /\ d.retired = CandidatesOf(p) \ d.retained
    BY <1>3 DEF PreparedRetention
  <2> QED BY <1>1, <2>1, <2>2, <2>3 DEF RetentionRef, ExistingPopulation
<1> QED BY <1>2, <1>3

\* What prepare_promotion_request adds is about the stored winner.
LEMMA PreparePromotionDoes ==
    ASSUME CoreInv, RefInv, NEW p \in PopulationId, prepare_promotion_request(p)
    PROVE  /\ UNCHANGED <<candidates, selections, retentions, heldSelection, heldRetention>>
           /\ populations[p].state # "Absent"
           /\ \A r \in promotions' : KnownCandidate(r.candidate)
<1> DEFINE w == selections[p].selected
           eligible == /\ \A k \in Mandatory : RequirementPassed(evaluations, w, k)
                       /\ candidates[w].taskGeneration = taskGeneration
                       /\ candidates[w].selected
           request == [population |-> p, candidate |-> w,
                       selectionGeneration |-> selections[p].generation,
                       eligible |-> eligible]
<1>1. /\ selections[p].state = "Committed" /\ w # 0
      /\ promotions' = promotions \cup {request}
      /\ UNCHANGED <<candidates, selections, retentions, heldSelection, heldRetention>>
  BY Zenon DEF prepare_promotion_request, SelectionCommitted
<1>2. request.candidate = w
  OBVIOUS
<1> HIDE DEF request
<1>3. w \in {0} \cup CandidateId
  BY DEF CoreInv, TypeOK, SelectionDecision
<1>4. /\ ExistingPopulation(selections[p].population) /\ selections[p].population = p
      /\ KnownCandidate(w)
  BY <1>1, <1>3 DEF RefInv, DecisionRefs, SelectionRef, KnownCandidate
<1> HIDE DEF w
<1>5. \A r \in promotions' : KnownCandidate(r.candidate)
  BY <1>1, <1>2, <1>4 DEF RefInv, DecisionRefs
<1> QED BY <1>1, <1>4, <1>5 DEF ExistingPopulation

\* Every step keeps the decisions about records that exist.
LEMMA DecisionsEndure ==
    ASSUME CoreInv, RefInv, [Next]_vars, Endures PROVE DecisionRefs'
<1>0. /\ \A x \in Controller : /\ SelectionRefAfter(heldSelection[x])
                               /\ RetentionRefAfter(heldRetention[x])
      /\ \A p \in PopulationId : /\ SelectionRefAfter(selections[p])
                                 /\ RetentionRefAfter(retentions[p])
                                 /\ selections[p].state # "None" => selections[p].population = p
                                 /\ retentions[p].state # "None" => retentions[p].population = p
  BY DecisionEndures DEF RefInv, DecisionRefs
<1>1. \A c : KnownCandidate(c) => KnownCandidate(c)'
  BY RefsEndure DEF RefInv
<1>2. promotions' = promotions => \A r \in promotions' : KnownCandidate(r.candidate)'
  BY <1>1 DEF RefInv, DecisionRefs
<1>3. SUFFICES
         /\ \A x \in Controller : /\ SelectionRefAfter(heldSelection'[x])
                                  /\ RetentionRefAfter(heldRetention'[x])
         /\ \A p \in PopulationId :
               /\ SelectionRefAfter(selections'[p]) /\ RetentionRefAfter(retentions'[p])
               /\ selections'[p].state # "None" => selections'[p].population = p
               /\ retentions'[p].state # "None" => retentions'[p].population = p
         /\ \A r \in promotions' : KnownCandidate(r.candidate)'
  BY DEF DecisionRefs, SelectionRef, RetentionRef, SelectionRefAfter, RetentionRefAfter,
         ExistingPopulation
<1>4. CASE UNCHANGED decisionVars
  BY <1>0, <1>2, <1>4
<1>5. ASSUME NEW x \in Controller, NEW p \in PopulationId, prepare_selection(x, p)
      PROVE  /\ \A y \in Controller : /\ SelectionRefAfter(heldSelection'[y])
                                      /\ RetentionRefAfter(heldRetention'[y])
             /\ \A q \in PopulationId :
                   /\ SelectionRefAfter(selections'[q]) /\ RetentionRefAfter(retentions'[q])
                   /\ selections'[q].state # "None" => selections'[q].population = q
                   /\ retentions'[q].state # "None" => retentions'[q].population = q
             /\ UNCHANGED promotions
  <2>1. /\ PreparedSelection(selections'[p], p)
        /\ heldSelection'[x] = selections'[p]
        /\ \A q \in PopulationId : q # p => selections'[q] = selections[q]
        /\ \A y \in Controller : y # x => heldSelection'[y] = heldSelection[y]
        /\ populations[p].state \in {"Running", "Evaluating", "Selecting", "Advancing"}
        /\ UNCHANGED <<retentions, promotions, heldRetention>>
    BY <1>5, PrepareSelectionDoes
  <2>2. SelectionRef(selections'[p])
    BY <2>1, PreparedRefs
  <2>3. SelectionRefAfter(selections'[p]) /\ selections'[p].population = p
    BY <2>1, <2>2, DecisionEndures DEF PreparedSelection
  <2> QED BY <1>0, <2>1, <2>3
<1>6. ASSUME NEW x \in Controller, NEW p \in PopulationId, prepare_retention(x, p)
      PROVE  /\ \A y \in Controller : /\ SelectionRefAfter(heldSelection'[y])
                                      /\ RetentionRefAfter(heldRetention'[y])
             /\ \A q \in PopulationId :
                   /\ SelectionRefAfter(selections'[q]) /\ RetentionRefAfter(retentions'[q])
                   /\ selections'[q].state # "None" => selections'[q].population = q
                   /\ retentions'[q].state # "None" => retentions'[q].population = q
             /\ UNCHANGED promotions
  <2>1. /\ \/ retentions'[p] = retentions[p]
           \/ PreparedRetention(retentions'[p], p)
        /\ heldRetention'[x] = retentions'[p]
        /\ \A q \in PopulationId : q # p => retentions'[q] = retentions[q]
        /\ \A y \in Controller : y # x => heldRetention'[y] = heldRetention[y]
        /\ populations[p].state # "Absent" /\ SelectionCommitted(p)
        /\ UNCHANGED <<selections, promotions, heldSelection>>
    BY <1>6, PrepareRetentionDoes
  <2>2. PreparedRetention(retentions'[p], p) => RetentionRef(retentions'[p])
    BY <2>1, PreparedRefs DEF SelectionCommitted
  <2>3. /\ RetentionRefAfter(retentions'[p])
        /\ retentions'[p].state # "None" => retentions'[p].population = p
    BY <1>0, <2>1, <2>2, DecisionEndures DEF PreparedRetention
  <2> QED BY <1>0, <2>1, <2>3
<1>7. ASSUME NEW x \in Controller, commit_selection(x)
      PROVE  /\ \A p \in PopulationId :
                   /\ SelectionRefAfter(selections'[p])
                   /\ selections'[p].state # "None" => selections'[p].population = p
             /\ UNCHANGED <<retentions, promotions, heldSelection, heldRetention>>
  <2> DEFINE d == heldSelection[x]
             g == populations[d.population].committedSelection + 1
             e == [d EXCEPT !.state = "Committed", !.generation = g]
  <2>1. /\ RefusesWinner(d) \/ InstallsWinner(d)
        /\ SelectionIsCurrent(d)
        /\ UNCHANGED <<retentions, promotions, heldSelection, heldRetention>>
    BY <1>7, CommitSelectionDoes
  <2>2. \A p \in PopulationId : \/ selections'[p] = selections[p]
                                \/ p = d.population /\ selections'[p] = e
    <3>1. CASE RefusesWinner(d)
      BY <3>1, Zenon DEF RefusesWinner
    <3>2. CASE InstallsWinner(d)
      BY <3>2, Zenon DEF InstallsWinner
    <3> QED BY <2>1, <3>1, <3>2
  <2>3. d \in SelectionDecision /\ d.state # "None" /\ SelectionRefAfter(d)
    BY <1>0, <2>1 DEF CoreInv, TypeOK, SelectionIsCurrent
  <2> HIDE DEF d, g
  <2>4. e.population = d.population /\ e.selected = d.selected /\ e.rank = d.rank
    BY <2>3 DEF SelectionDecision
  <2> HIDE DEF e
  <2>5. SelectionRefAfter(e)
    BY <2>3, <2>4 DEF SelectionRefAfter
  <2> QED BY <1>0, <2>1, <2>2, <2>4, <2>5
<1>8. ASSUME NEW x \in Controller, commit_retention(x)
      PROVE  /\ \A p \in PopulationId :
                   /\ RetentionRefAfter(retentions'[p])
                   /\ retentions'[p].state # "None" => retentions'[p].population = p
             /\ UNCHANGED <<selections, promotions, heldSelection, heldRetention>>
  <2> DEFINE d == heldRetention[x]
             e == [d EXCEPT !.state = "Committed"]
  <2>1. /\ RetentionIsCurrent(d)
        /\ UNCHANGED <<selections, promotions, heldSelection, heldRetention>>
    BY <1>8, CommitRetentionDoes
  <2>2. retentions' = [retentions EXCEPT ![d.population] = e]
    BY <1>8, Zenon DEF commit_retention
  <2>3. d \in RetentionDecision /\ d.state # "None" /\ RetentionRefAfter(d)
    BY <1>0, <2>1 DEF CoreInv, TypeOK, RetentionIsCurrent
  <2> HIDE DEF d
  <2>4. e.population = d.population /\ e.retained = d.retained /\ e.retired = d.retired
    BY <2>3 DEF RetentionDecision
  <2> HIDE DEF e
  <2>5. RetentionRefAfter(e)
    BY <2>3, <2>4 DEF RetentionRefAfter
  <2>6. \A p \in PopulationId : \/ retentions'[p] = retentions[p]
                                \/ p = d.population /\ retentions'[p] = e
    <3>1. retentions \in [PopulationId -> RetentionDecision]
      BY DEF CoreInv, TypeOK
    <3> QED BY <2>2, <3>1
  <2> QED BY <1>0, <2>1, <2>4, <2>5, <2>6
<1>9. ASSUME NEW p \in PopulationId, prepare_promotion_request(p)
      PROVE  /\ UNCHANGED <<selections, retentions, heldSelection, heldRetention>>
             /\ \A r \in promotions' : KnownCandidate(r.candidate)'
  BY <1>1, <1>9, PreparePromotionDoes
<1>10. CASE recover
  <2>1. /\ selections' = [p \in PopulationId |->
               IF selections[p].state = "Committed" THEN selections[p] ELSE NoSelection]
        /\ retentions' = [p \in PopulationId |->
               IF retentions[p].state = "Committed" THEN retentions[p] ELSE NoRetention]
        /\ heldSelection' = [x \in Controller |-> NoSelection]
        /\ heldRetention' = [x \in Controller |-> NoRetention]
        /\ UNCHANGED promotions
    BY <1>10, Zenon DEF recover
  <2>2. NoSelection.state = "None" /\ NoRetention.state = "None"
    BY DEF NoSelection, NoRetention
  <2>3. SelectionRefAfter(NoSelection) /\ RetentionRefAfter(NoRetention)
    BY <2>2 DEF SelectionRefAfter, RetentionRefAfter
  <2> QED BY <1>0, <1>2, <2>1, <2>2, <2>3
<1> QED BY <1>0, <1>2, <1>4, <1>5, <1>6, <1>7, <1>8, <1>9, <1>10, DecisionKinds

-----------------------------------------------------------------------------
(* The invariant and the theorem. *)

\* The core starts with nothing to refer to.
LEMMA InitRefInv == Init => RefInv
<1> SUFFICES ASSUME Init PROVE RefInv
  OBVIOUS
<1>1. NoPopulation.state = "Absent" /\ NoCandidate.state = "Absent" /\ NoAttempt.state = "Absent"
      /\ NoSelection.state = "None" /\ NoRetention.state = "None"
  BY DEF NoPopulation, NoCandidate, NoAttempt, NoSelection, NoRetention
<1>2. \A n \in Nat \ {0} : ~(n <= 0)
  OBVIOUS
<1>3. CountersExact
  BY <1>2 DEF Init, CountersExact, PopulationId, CandidateId, AttemptId
<1>4. TableRefs
  BY <1>1, <1>3 DEF Init, TableRefs
<1>5. DecisionRefs
  BY <1>1 DEF Init, DecisionRefs, SelectionRef, RetentionRef
<1> QED BY <1>4, <1>5 DEF RefInv

\* Every step preserves the references.
LEMMA NextRefInv ==
    ASSUME CoreInv, RefInv, [Next]_vars PROVE RefInv' /\ Endures
  BY TablesEndure, DecisionsEndure DEF RefInv

\* What validate_semantics checks follows from the references.
LEMMA RefsAreValid == CoreInv /\ RefInv => SavedStateLoads
<1> SUFFICES ASSUME CoreInv, RefInv PROVE SavedStateLoads
  OBVIOUS
<1>1. \A a \in AttemptId : attempts[a].state # "Absent" =>
         /\ KnownCandidate(attempts[a].candidate)
         /\ populations[attempts[a].population].state # "Absent"
  BY DEF RefInv, TableRefs, AttemptRef, CandidateRef, KnownCandidate, ExistingPopulation
<1>2. \A p \in PopulationId :
         /\ selections[p].state # "None" =>
               /\ populations[p].state # "Absent"
               /\ selections[p].selected = 0 \/ KnownCandidate(selections[p].selected)
         /\ retentions[p].state # "None" => populations[p].state # "Absent"
  <2>1. \A p \in PopulationId : selections[p].selected \in {0} \cup CandidateId
    BY DEF CoreInv, TypeOK, SelectionDecision
  <2> QED BY <2>1 DEF RefInv, DecisionRefs, SelectionRef, RetentionRef, ExistingPopulation,
                     KnownCandidate
<1>3. LineageValid
  BY DEF RefInv, TableRefs, CandidateRef, LineageOf, LineageValid, KnownCandidate
<1>4. CountersCover
  BY AbsentIsBlank DEF RefInv, TableRefs, CountersExact, CountersCover, KnownCandidate,
                       NoPopulation, NoCandidate, NoAttempt
<1> QED BY <1>1, <1>2, <1>3, <1>4 DEF SavedStateLoads, validate_semantics, RefInv, TableRefs,
                                     DecisionRefs

\* Whatever calls were made, in whatever order, validate_semantics accepts the
\* image of the state: a coordinator that saved can always be restarted from
\* what it saved, although save itself checks nothing.
THEOREM EveryStateLoads == Spec => []SavedStateLoads
<1>1. CoreInv /\ RefInv /\ [Next]_vars => (CoreInv /\ RefInv)'
  BY NextCoreInv, NextRefInv
<1> QED BY <1>1, InitCoreInv, InitRefInv, RefsAreValid, PTL DEF Spec

-----------------------------------------------------------------------------
(* The seven kinds of steps, with what the references add. *)

\* create_population: q is the first of its succession.
Creates(q) == /\ MakesPopulation(q, 1, 0)
              /\ ids'.candidate = ids.candidate /\ UNCHANGED <<candidates, consumed>>

\* commit_selection of the decision x holds, refused or made.
CommitsSelection(x) ==
    LET d == heldSelection[x] IN
    /\ SelectionIsCurrent(d) /\ SelectionRef(d) /\ ExistingPopulation(d.population)
    /\ RefusesWinner(d) \/ InstallsWinner(d)
    /\ UNCHANGED <<epoch, definitionVars, ids, attempts, evaluations, ledgerVars,
                   retentions, promotions, heldSelection, heldRetention, workerVars>>

\* commit_retention of the decision x holds.
CommitsRetention(x) ==
    LET d == heldRetention[x] IN
    /\ RetentionIsCurrent(d) /\ RetentionRef(d) /\ ExistingPopulation(d.population)
    /\ Retires(d) /\ PopulationsKeep
    /\ \A p \in PopulationId : populations'[p].state = populations[p].state
    /\ retentions' = [retentions EXCEPT ![d.population] = [d EXCEPT !.state = "Committed"]]
    /\ UNCHANGED <<epoch, definitionVars, ids, attempts, evaluations, ledgerVars,
                   selections, promotions, heldSelection, heldRetention, workerVars>>

\* Every step is one of these.
LEMMA StepCases ==
    ASSUME CoreInv, RefInv, [Next]_vars
    PROVE  \/ WorkStep
           \/ \E s \in sessions, p \in PopulationId, c \in CandidateId, a \in AttemptId :
                 authorize_attempt(s) /\ Authorizes(s, p, c, a)
           \/ \E s \in sessions, a \in AttemptId, c \in CandidateId :
                 publish_candidate(s, a) /\ Publishes(s, a, c) /\ PopulationsKeep
           \/ \E q \in PopulationId : Creates(q)
           \/ \E p, q \in PopulationId, w \in CandidateId :
                 Advances(p, q, w) /\ KnownCandidate(w) /\ candidates[w].population = p
           \/ \E x \in Controller : CommitsSelection(x)
           \/ \E x \in Controller : CommitsRetention(x)
<1>0. TableRefs /\ CountersExact
  BY DEF RefInv, TableRefs
<1>1. ASSUME NEW s \in sessions, authorize_attempt(s)
      PROVE  \E p \in PopulationId, c \in CandidateId, a \in AttemptId : Authorizes(s, p, c, a)
  BY <1>0, <1>1, AuthorizeAttemptDoes
<1>2. ASSUME NEW s \in sessions, NEW a \in AttemptId, publish_candidate(s, a)
      PROVE  \E c \in CandidateId : Publishes(s, a, c) /\ PopulationsKeep
  <2>1. attempts[a].state \in {"Running", "Dispatched"}
    BY <1>2 DEF publish_candidate, AcceptsPublication
  <2>2. attempts[a].candidate \in CandidateId
    BY <1>0, <2>1 DEF TableRefs, AttemptRef, KnownCandidate
  <2> QED BY <1>2, <2>2, PublishCandidateDoes, PublishCandidateKeeps
<1>3. create_population => \E q \in PopulationId : Creates(q)
  BY <1>0, CreatePopulationDoes DEF Creates
<1>4. ASSUME NEW p \in PopulationId, create_successor(p) \/ advance_population(p)
      PROVE  \E q \in PopulationId, w \in CandidateId :
                Advances(p, q, w) /\ KnownCandidate(w) /\ candidates[w].population = p
  <2>1. PICK q \in PopulationId, w \in CandidateId : Advances(p, q, w)
    BY <1>0, <1>4, CreateSuccessorDoes, AdvancePopulationDoes
  <2>2. KnownCandidate(w) /\ candidates[w].population = p
    BY <2>1 DEF Advances, RefInv, DecisionRefs, SelectionRef, KnownCandidate
  <2> QED BY <2>1, <2>2
<1>5. ASSUME NEW x \in Controller, commit_selection(x) PROVE CommitsSelection(x)
  <2>1. heldSelection[x].state \in {"Prepared", "Impossible"}
    BY <1>5, CommitSelectionDoes DEF SelectionIsCurrent
  <2>2. SelectionRef(heldSelection[x]) /\ ExistingPopulation(heldSelection[x].population)
    BY <2>1 DEF RefInv, DecisionRefs, SelectionRef
  <2> QED BY <1>5, <2>2, CommitSelectionDoes, Zenon DEF CommitsSelection
<1>6. ASSUME NEW x \in Controller, commit_retention(x) PROVE CommitsRetention(x)
  <2>1. heldRetention[x].state # "None"
    BY <1>6, CommitRetentionDoes DEF RetentionIsCurrent
  <2>2. /\ ExistingPopulation(heldRetention[x].population) /\ RetentionRef(heldRetention[x])
        /\ \A c \in heldRetention[x].retained : KnownCandidate(c)
    BY <2>1 DEF RefInv, DecisionRefs, RetentionRef, KnownCandidate
  <2>3. PopulationsKeep
    BY <1>0, <1>6, <2>2, CommitRetentionRefs
  <2>4. /\ populations' = [populations EXCEPT
               ![heldRetention[x].population].retentionCommitted = TRUE,
               ![heldRetention[x].population].retentionSelection =
                   heldRetention[x].selectionGeneration]
        /\ retentions' = [retentions EXCEPT ![heldRetention[x].population] =
                             [heldRetention[x] EXCEPT !.state = "Committed"]]
    BY <1>6, Zenon DEF commit_retention
  <2>5. \A p \in PopulationId : populations'[p].state = populations[p].state
    <3>1. populations \in [PopulationId -> PopulationRecord]
      BY DEF CoreInv, TypeOK
    <3> QED BY <2>4, <3>1 DEF PopulationRecord
  <2> QED BY <1>6, <2>2, <2>3, <2>4, <2>5, CommitRetentionDoes, Zenon DEF CommitsRetention
<1> QED BY <1>0, <1>1, <1>2, <1>3, <1>4, <1>5, <1>6, StepKinds

\* Where a selection that is stored or held after a step comes from.
LEMMA SelectionSources ==
    ASSUME CoreInv, RefInv, [Next]_vars
    PROVE  /\ \A p \in PopulationId :
                 \/ selections'[p] = selections[p]
                 \/ recover /\ selections'[p] = NoSelection
                 \/ \E x \in Controller : /\ prepare_selection(x, p)
                                          /\ PreparedSelection(selections'[p], p)
                 \/ \E x \in Controller :
                      /\ CommitsSelection(x) /\ InstallsWinner(heldSelection[x])
                      /\ heldSelection[x].population = p
           /\ \A x \in Controller :
                 \/ heldSelection'[x] = heldSelection[x]
                 \/ heldSelection'[x] = NoSelection
                 \/ \E p \in PopulationId : /\ prepare_selection(x, p)
                                            /\ PreparedSelection(heldSelection'[x], p)
<1>1. ASSUME NEW x \in Controller, NEW q \in PopulationId, prepare_selection(x, q)
      PROVE  /\ \A p \in PopulationId :
                   \/ selections'[p] = selections[p]
                   \/ p = q /\ PreparedSelection(selections'[p], p)
             /\ \A y \in Controller :
                   \/ heldSelection'[y] = heldSelection[y]
                   \/ y = x /\ PreparedSelection(heldSelection'[y], q)
  BY <1>1, PrepareSelectionDoes
<1>2. ASSUME NEW x \in Controller, commit_selection(x)
      PROVE  /\ UNCHANGED heldSelection
             /\ \A p \in PopulationId :
                   \/ selections'[p] = selections[p]
                   \/ /\ CommitsSelection(x) /\ InstallsWinner(heldSelection[x])
                      /\ heldSelection[x].population = p
  <2>1. heldSelection[x].state \in {"Prepared", "Impossible"}
    BY <1>2, CommitSelectionDoes DEF SelectionIsCurrent
  <2>2. SelectionRef(heldSelection[x]) /\ ExistingPopulation(heldSelection[x].population)
    BY <2>1 DEF RefInv, DecisionRefs, SelectionRef
  <2>3. CommitsSelection(x)
    BY <1>2, <2>2, CommitSelectionDoes, Zenon DEF CommitsSelection
  <2>4. \A p \in PopulationId : RefusesWinner(heldSelection[x]) => selections'[p] = selections[p]
    BY DEF RefusesWinner
  <2>5. \A p \in PopulationId :
           InstallsWinner(heldSelection[x]) /\ heldSelection[x].population # p =>
           selections'[p] = selections[p]
    BY Zenon DEF InstallsWinner
  <2> QED BY <2>3, <2>4, <2>5 DEF CommitsSelection
<1>3. CASE recover
  BY <1>3, Zenon DEF recover
<1>4. ASSUME \/ \E x \in Controller, p \in PopulationId : prepare_retention(x, p)
             \/ \E x \in Controller : commit_retention(x)
             \/ \E p \in PopulationId : prepare_promotion_request(p)
      PROVE  UNCHANGED <<selections, heldSelection>>
  BY <1>4 DEF prepare_retention, commit_retention, prepare_promotion_request
<1>5. CASE UNCHANGED <<selections, heldSelection>>
  BY <1>5
<1>6. CASE \E x \in Controller, p \in PopulationId : prepare_selection(x, p)
  BY <1>1, <1>6, Zenon
<1>7. CASE \E x \in Controller : commit_selection(x)
  BY <1>2, <1>7, Zenon
<1> QED BY <1>3, <1>4, <1>5, <1>6, <1>7, DecisionKinds

-----------------------------------------------------------------------------
(* Slots. *)

\* The states of a slot before it has an output, and from then on.
Unproduced == {"Registered", "Producing", "ProductionFailed"}
Filled == {"Published", "Evaluating", "Evaluated", "Selected", "Retained", "Retired",
           "RevalidationRequired"}

\* The state of a candidate tells whether it has an output, unless it was
\* cancelled, which happens before and after publication.
SlotOutput(c) == /\ candidates[c].state \in Unproduced => candidates[c].output = 0
                 /\ candidates[c].state \in Filled => candidates[c].output # 0

\* The winner a decision names has an output.
WinnerOutput(d) == d.state # "None" /\ d.selected # 0 => candidates[d.selected].output # 0

\* What OneOpenAttemptPerSlot, InFlightSlotIsEmpty and EvidenceAboutOutput need
\* to be inductive together: a slot is dispatched again only while it is empty,
\* authoritative evidence is about an output that exists, and the elite copies
\* a winner that has one.
SlotInv ==
    /\ OneOpenAttemptPerSlot
    /\ InFlightSlotIsEmpty
    /\ EvidenceAboutOutput
    /\ \A c \in CandidateId : SlotOutput(c)
    /\ \A r \in evaluations : r.kind # "WorkerSelfReport" => r.about # 0
    /\ \A p \in PopulationId : WinnerOutput(selections[p])
    /\ \A x \in Controller : WinnerOutput(heldSelection[x])

\* The part of SlotInv that is about the tables.
SlotTables ==
    /\ OneOpenAttemptPerSlot
    /\ InFlightSlotIsEmpty
    /\ EvidenceAboutOutput
    /\ \A c \in CandidateId : SlotOutput(c)
    /\ \A r \in evaluations : r.kind # "WorkerSelfReport" => r.about # 0

\* States of attempts do not overlap.
LEMMA AttemptStatesApart ==
    /\ AttemptOpen \cap AttemptTerminal = {} /\ AttemptInFlight \subseteq AttemptOpen
    /\ "Absent" \notin AttemptOpen \cup AttemptTerminal
    /\ {"Published", "Evaluating"} \subseteq AttemptOpen \ AttemptInFlight
  BY DEF AttemptOpen, AttemptTerminal, AttemptInFlight

\* An attempt that is open after a work step was open before it, and one in
\* flight was in flight.
LEMMA WorkStepOpens ==
    ASSUME NEW A, AttemptsEnd(A), NEW a \in AttemptId
    PROVE  /\ SameAttempt(attempts[a], attempts'[a])
           /\ attempts'[a].state \in AttemptOpen => attempts[a].state \in AttemptOpen
           /\ attempts'[a].state \in AttemptInFlight => attempts[a].state \in AttemptInFlight
<1>1. /\ SameAttempt(attempts[a], attempts'[a])
      /\ a \in A => attempts'[a].state \in AttemptTerminal
      /\ a \notin A => Proceeds(attempts[a], attempts'[a])
  BY DEF AttemptsEnd
<1> QED BY <1>1, AttemptStatesApart DEF Proceeds

\* A work step keeps the slots sound.
LEMMA WorkStepSlots ==
    ASSUME CoreInv, RefInv, SlotInv, WorkStep PROVE SlotTables'
<1>1. PICK A : AttemptsEnd(A)
  BY DEF WorkStep
<1>2. OneOpenAttemptPerSlot'
  BY <1>1, WorkStepOpens DEF SlotInv, OneOpenAttemptPerSlot, OpenAttemptsOf, AttemptsOf,
                             SameAttempt
<1>3. \A c \in CandidateId : /\ WorksOn(c) /\ candidates'[c].output = candidates[c].output
                             /\ SlotMoves(candidates[c], candidates'[c])
  BY DEF WorkStep, CandidatesWork, WorksOn, OnlyState
<1>4. InFlightSlotIsEmpty'
  <2> SUFFICES ASSUME NEW a \in AttemptId, attempts'[a].state \in AttemptInFlight
               PROVE  /\ candidates'[attempts'[a].candidate].state = "Producing"
                      /\ candidates'[attempts'[a].candidate].output = 0
                      /\ LivePopulation(attempts[a].population)'
    BY DEF InFlightSlotIsEmpty
  <2>1. /\ attempts[a].state \in AttemptInFlight /\ SameAttempt(attempts[a], attempts'[a])
        /\ attempts'[a].state \in AttemptOpen /\ attempts[a].state \in AttemptOpen
        /\ attempts[a].state # "Absent"
    BY <1>1, WorkStepOpens, AttemptStatesApart
  <2> DEFINE c == attempts[a].candidate
             p == attempts[a].population
  <2>2. /\ candidates[c].state = "Producing" /\ candidates[c].output = 0
        /\ LivePopulation(p)
    BY <2>1 DEF SlotInv, InFlightSlotIsEmpty
  <2>3. c \in CandidateId /\ ExistingPopulation(p)
    BY <2>1 DEF RefInv, TableRefs, AttemptRef, CandidateRef, KnownCandidate
  <2>4. attempts'[a].candidate = c /\ attempts'[a].population = p
    BY <2>1 DEF SameAttempt
  <2>5. candidates'[c].state = "Producing"
    <3>1. ~Vacated(c)
      <4>1. \A b \in AttemptId : b \in OpenAttemptsOf(c) => b = a
        BY <2>1, <2>3 DEF SlotInv, OneOpenAttemptPerSlot, OpenAttemptsOf, AttemptsOf
      <4>2. attempts'[a].state \notin AttemptTerminal
        BY <2>1, AttemptStatesApart
      <4> QED BY <4>1, <4>2 DEF Vacated, OpenAttemptsOf, AttemptsOf
    <3> QED BY <1>3, <2>2, <2>3, <3>1 DEF WorksOn
  <2>6. populations'[p].state \notin PopulationTerminal \cup {"Absent"}
    <3>1. PopulationKept(p) /\ p \in PopulationId
      BY <2>3 DEF WorkStep, PopulationsKeep, ExistingPopulation
    <3>2. ~QuietAfter(p)
      BY <2>1, <2>4 DEF QuietAfter
    <3> HIDE DEF p
    <3> QED BY <2>2, <3>1, <3>2 DEF PopulationKept, LivePopulation
  <2> HIDE DEF c, p
  <2>7. LivePopulation(attempts[a].population)'
    BY <2>4, <2>6 DEF LivePopulation
  <2> QED BY <1>3, <2>2, <2>3, <2>4, <2>5, <2>7
<1>5. \A c \in CandidateId : SlotOutput(c)'
  <2> SUFFICES ASSUME NEW c \in CandidateId PROVE SlotOutput(c)'
    OBVIOUS
  <2>1. /\ candidates'[c].output = candidates[c].output
        /\ SlotMoves(candidates[c], candidates'[c]) /\ SlotOutput(c)
    BY <1>3 DEF SlotInv
  <2>2. /\ candidates'[c].state \in Unproduced => candidates[c].state \in Unproduced
        /\ candidates'[c].state \in Filled => candidates[c].state \in Filled
    BY <2>1 DEF SlotMoves, Unproduced, Filled
  <2> QED BY <2>1, <2>2 DEF SlotOutput
<1>6. \A r \in evaluations' : r.kind # "WorkerSelfReport" =>
         r.about = candidates'[r.candidate].output /\ r.about # 0
  <2>1. \A r \in evaluations : r.candidate \in CandidateId
    BY DEF RefInv, TableRefs, KnownCandidate
  <2>2. \A r \in evaluations' : /\ r.candidate \in CandidateId
                                /\ r.kind # "WorkerSelfReport" =>
                                      r.about = candidates[r.candidate].output /\ r.about # 0
    BY <2>1 DEF WorkStep, EvidenceGrows, SlotInv, EvidenceAboutOutput
  <2> QED BY <1>3, <2>2
<1> QED BY <1>2, <1>4, <1>5, <1>6 DEF SlotTables, EvidenceAboutOutput

\* authorize_attempt takes a slot that is empty and has no open attempt.
LEMMA AuthorizeSlots ==
    ASSUME CoreInv, RefInv, SlotInv, NEW s \in sessions, NEW p \in PopulationId,
           NEW c \in CandidateId, NEW a \in AttemptId, Authorizes(s, p, c, a)
    PROVE  SlotTables'
<1>1. /\ \A b \in AttemptId : b # a => attempts'[b] = attempts[b]
      /\ attempts'[a].population = p /\ attempts'[a].candidate = c
      /\ \A d \in CandidateId : d # c => candidates'[d] = candidates[d]
      /\ candidates'[c].state = "Producing"
      /\ populations[p].state = "Running"
      /\ UNCHANGED <<populations, evaluations>>
  BY DEF Authorizes
<1>2. candidates'[c].output = 0 /\ candidates[c].output = 0
  <2>1. CASE TakesSlot(p, c)
    BY <2>1 DEF TakesSlot, SlotInv, SlotOutput, Unproduced
  <2>2. CASE MakesSlot(p, c)
    BY <2>2 DEF MakesSlot, NoCandidate
  <2> QED BY <2>1, <2>2 DEF Authorizes
<1>3. \A b \in AttemptId : attempts[b].candidate = c => attempts[b].state \notin AttemptOpen
  <2>1. CASE TakesSlot(p, c)
    BY <2>1 DEF TakesSlot, OpenAttemptsOf, AttemptsOf
  <2>2. CASE MakesSlot(p, c)
    <3>1. candidates[c].state = "Absent"
      BY <2>2 DEF MakesSlot, NoCandidate
    <3> QED BY <3>1, AttemptStatesApart DEF RefInv, TableRefs, AttemptRef, KnownCandidate
  <2> QED BY <2>1, <2>2 DEF Authorizes
<1>4. OneOpenAttemptPerSlot'
  BY <1>1, <1>3 DEF SlotInv, OneOpenAttemptPerSlot, OpenAttemptsOf, AttemptsOf
<1>5. InFlightSlotIsEmpty'
  <2> SUFFICES ASSUME NEW b \in AttemptId, attempts'[b].state \in AttemptInFlight
               PROVE  /\ candidates'[attempts'[b].candidate].state = "Producing"
                      /\ candidates'[attempts'[b].candidate].output = 0
                      /\ LivePopulation(attempts[b].population)'
    BY DEF InFlightSlotIsEmpty
  <2>1. CASE b = a
    BY <1>1, <1>2, <2>1 DEF LivePopulation, PopulationTerminal
  <2>2. CASE b # a
    <3>1. /\ attempts'[b] = attempts[b] /\ attempts[b].state \in AttemptInFlight
          /\ attempts[b].state # "Absent"
      BY <1>1, <2>2, AttemptStatesApart
    <3>2. attempts[b].candidate # c /\ attempts[b].candidate \in CandidateId
      BY <1>3, <3>1, AttemptStatesApart DEF RefInv, TableRefs, AttemptRef, KnownCandidate
    <3> QED BY <1>1, <3>1, <3>2 DEF SlotInv, InFlightSlotIsEmpty, LivePopulation
  <2> QED BY <2>1, <2>2
<1>6. \A d \in CandidateId : SlotOutput(d)'
  BY <1>1, <1>2 DEF SlotInv, SlotOutput, Unproduced, Filled
<1>7. \A r \in evaluations : r.kind # "WorkerSelfReport" =>
         r.about = candidates'[r.candidate].output /\ r.about # 0
  <2>1. \A r \in evaluations : r.candidate \in CandidateId
    BY DEF RefInv, TableRefs, KnownCandidate
  <2> QED BY <1>1, <1>2, <2>1 DEF SlotInv, EvidenceAboutOutput
<1> QED BY <1>1, <1>4, <1>5, <1>6, <1>7 DEF SlotTables, EvidenceAboutOutput

\* publish_candidate fills a slot no other attempt is open for.
LEMMA PublishSlots ==
    ASSUME CoreInv, RefInv, SlotInv, NEW s, NEW a \in AttemptId, NEW c \in CandidateId,
           Publishes(s, a, c), PopulationsKeep
    PROVE  SlotTables'
<1>1. /\ attempts[a].state \in AttemptInFlight /\ attempts[a].candidate = c
      /\ \A b \in AttemptId : b # a => attempts'[b] = attempts[b]
      /\ SameAttempt(attempts[a], attempts'[a]) /\ attempts'[a].state = "Published"
      /\ \A d \in CandidateId : d # c => candidates'[d] = candidates[d]
      /\ candidates[c].output = 0
      /\ candidates'[c].output = a /\ candidates'[c].state = "Published"
      /\ UNCHANGED evaluations
  BY DEF Publishes, AttemptInFlight
<1>2. \A b \in AttemptId : b # a /\ attempts[b].state \in AttemptOpen =>
                           attempts[b].candidate # c
  BY <1>1, AttemptStatesApart DEF SlotInv, OneOpenAttemptPerSlot, OpenAttemptsOf, AttemptsOf
<1>3. OneOpenAttemptPerSlot'
  BY <1>1, <1>2, AttemptStatesApart DEF SlotInv, OneOpenAttemptPerSlot, OpenAttemptsOf,
                                        AttemptsOf, SameAttempt
<1>4. InFlightSlotIsEmpty'
  <2> SUFFICES ASSUME NEW b \in AttemptId, attempts'[b].state \in AttemptInFlight
               PROVE  /\ candidates'[attempts'[b].candidate].state = "Producing"
                      /\ candidates'[attempts'[b].candidate].output = 0
                      /\ LivePopulation(attempts[b].population)'
    BY DEF InFlightSlotIsEmpty
  <2>1. /\ b # a /\ attempts'[b] = attempts[b] /\ attempts[b].state \in AttemptInFlight
        /\ attempts[b].state # "Absent" /\ attempts[b].state \in AttemptOpen
    BY <1>1, AttemptStatesApart
  <2>2. attempts[b].candidate # c /\ attempts[b].candidate \in CandidateId
        /\ ExistingPopulation(attempts[b].population)
    BY <1>2, <2>1 DEF RefInv, TableRefs, AttemptRef, CandidateRef, KnownCandidate
  <2>3. /\ candidates[attempts[b].candidate].state = "Producing"
        /\ candidates[attempts[b].candidate].output = 0
        /\ LivePopulation(attempts[b].population)
    BY <2>1 DEF SlotInv, InFlightSlotIsEmpty
  <2> DEFINE p == attempts[b].population
  <2>4. PopulationKept(p) /\ p \in PopulationId
    BY <2>2 DEF PopulationsKeep, ExistingPopulation
  <2>5. ~QuietAfter(p)
    BY <2>1 DEF QuietAfter
  <2>6. LivePopulation(p)
    BY <2>3
  <2>7. attempts'[b].population = p
    BY <2>1
  <2> HIDE DEF p
  <2>8. populations'[p].state \notin PopulationTerminal \cup {"Absent"}
    BY <2>4, <2>5, <2>6 DEF PopulationKept, LivePopulation
  <2>9. LivePopulation(attempts[b].population)'
    BY <2>7, <2>8 DEF LivePopulation
  <2> QED BY <1>1, <2>1, <2>2, <2>3, <2>9
<1>5. \A d \in CandidateId : SlotOutput(d)'
  <2>1. a # 0
    BY DEF AttemptId
  <2> QED BY <1>1, <2>1 DEF SlotInv, SlotOutput, Unproduced, Filled
<1>6. \A r \in evaluations : r.kind # "WorkerSelfReport" =>
         r.about = candidates'[r.candidate].output /\ r.about # 0
  <2>1. \A r \in evaluations : r.candidate \in CandidateId
    BY DEF RefInv, TableRefs, KnownCandidate
  <2> QED BY <1>1, <2>1 DEF SlotInv, EvidenceAboutOutput
<1> QED BY <1>1, <1>3, <1>4, <1>5, <1>6 DEF SlotTables, EvidenceAboutOutput

\* What create_population, advance_population and the two commits have in
\* common: attempts and evidence stay, candidates change only their marks and
\* move between states that have an output, a new one carries an output, and
\* no live population ends.
MarksOnly ==
    /\ UNCHANGED <<attempts, evaluations>>
    /\ \A c \in CandidateId : candidates[c].state # "Absent" =>
          /\ candidates'[c].output = candidates[c].output
          /\ \/ candidates'[c].state = candidates[c].state
             \/ candidates[c].state \in Filled /\ candidates'[c].state \in Filled
    /\ \A c \in CandidateId : candidates[c].state = "Absent" =>
          \/ candidates'[c] = candidates[c]
          \/ candidates'[c].state \in Filled /\ candidates'[c].output # 0
    /\ \A p \in PopulationId : LivePopulation(p) => LivePopulation(p)'

\* A new population, with the elite of its seed or without.
LEMMA MakesPopulationMarks ==
    ASSUME NEW q \in PopulationId, NEW index, NEW w, MakesPopulation(q, index, w),
           \/ UNCHANGED candidates
           \/ \E e \in CandidateId : MakesElite(q, e, w) /\ candidates[w].output # 0
    PROVE  MarksOnly
<1>1. /\ UNCHANGED <<attempts, evaluations>>
      /\ populations[q] = NoPopulation
      /\ \A r \in PopulationId : r # q => populations'[r] = populations[r]
  BY DEF MakesPopulation
<1>2. \A p \in PopulationId : LivePopulation(p) => LivePopulation(p)'
  BY <1>1 DEF LivePopulation, NoPopulation
<1>3. CASE UNCHANGED candidates
  BY <1>1, <1>2, <1>3 DEF MarksOnly
<1>4. ASSUME NEW e \in CandidateId, MakesElite(q, e, w), candidates[w].output # 0
      PROVE  MarksOnly
  <2>1. /\ candidates[e].state = "Absent" /\ candidates'[e].state \in Filled
        /\ candidates'[e].output # 0
        /\ \A d \in CandidateId : d # e => candidates'[d] = candidates[d]
    BY <1>4 DEF MakesElite, NoCandidate, Filled
  <2> QED BY <1>1, <1>2, <2>1 DEF MarksOnly
<1> QED BY <1>3, <1>4

\* commit_selection.
LEMMA CommitsSelectionMarks ==
    ASSUME CoreInv, RefInv, NEW x \in Controller, CommitsSelection(x) PROVE MarksOnly
<1> DEFINE d == heldSelection[x]
           p == d.population
           w == d.selected
           g == populations[p].committedSelection + 1
<1>1. /\ UNCHANGED <<attempts, evaluations>> /\ ExistingPopulation(p)
      /\ RefusesWinner(d) \/ InstallsWinner(d)
  BY DEF CommitsSelection
<1>2. Unmarks(p, w)
  BY <1>1 DEF RefusesWinner, InstallsWinner
<1>3. \A c \in CandidateId :
         /\ candidates'[c].output = candidates[c].output
         /\ \/ candidates'[c].state = candidates[c].state
            \/ candidates[c].state \in Filled /\ candidates'[c].state \in Filled
         /\ candidates[c].state = "Absent" => candidates'[c] = candidates[c]
  <2> SUFFICES ASSUME NEW c \in CandidateId
               PROVE  /\ candidates'[c].output = candidates[c].output
                      /\ \/ candidates'[c].state = candidates[c].state
                         \/ candidates[c].state \in Filled /\ candidates'[c].state \in Filled
                      /\ candidates[c].state = "Absent" => candidates'[c] = candidates[c]
    OBVIOUS
  <2>1. candidates[c].state = "Absent" => candidates[c].population = 0 /\ p # 0
    BY <1>1, AbsentIsBlank DEF RefInv, TableRefs, NoCandidate, ExistingPopulation, PopulationId
  <2>2. CASE c # w
    BY <1>2, <2>1, <2>2 DEF Unmarks, SameOutput
  <2>3. CASE c = w /\ RefusesWinner(d)
    BY <2>3 DEF RefusesWinner
  <2>4. CASE c = w /\ InstallsWinner(d)
    BY <2>4 DEF InstallsWinner, SameOutput, Filled
  <2> QED BY <1>1, <2>2, <2>3, <2>4
<1>4. \A q \in PopulationId : LivePopulation(q) => LivePopulation(q)'
  <2>1. \A q \in PopulationId :
           \/ populations'[q] = populations[q]
           \/ populations'[q] = [populations[q] EXCEPT !.committedSelection = g,
                                                       !.state = "Advancing"]
    BY <1>1 DEF RefusesWinner, InstallsWinner
  <2>2. populations \in [PopulationId -> PopulationRecord]
    BY DEF CoreInv, TypeOK
  <2> HIDE DEF g
  <2>3. \A r \in PopulationRecord :
           [r EXCEPT !.committedSelection = g, !.state = "Advancing"].state = "Advancing"
    BY DEF PopulationRecord
  <2>4. "Advancing" \notin PopulationTerminal
    BY DEF PopulationTerminal
  <2>5. \A q \in PopulationId : \/ populations'[q] = populations[q]
                                \/ populations'[q].state = "Advancing"
    BY <2>1, <2>2, <2>3
  <2> QED BY <2>4, <2>5 DEF LivePopulation
<1> QED BY <1>1, <1>3, <1>4 DEF MarksOnly

\* commit_retention.
LEMMA CommitsRetentionMarks ==
    ASSUME CoreInv, NEW x \in Controller, CommitsRetention(x)
    PROVE  MarksOnly
<1>1. /\ UNCHANGED <<attempts, evaluations>> /\ Retires(heldRetention[x])
      /\ \A p \in PopulationId : populations'[p].state = populations[p].state
      /\ RetentionIsCurrent(heldRetention[x]) /\ RetentionRef(heldRetention[x])
  BY Zenon DEF CommitsRetention
<1>2. \A c \in heldRetention[x].retained : candidates[c].state # "Absent"
  BY <1>1 DEF RetentionRef, RetentionIsCurrent
<1>3. \A c \in CandidateId :
         /\ candidates'[c].output = candidates[c].output
         /\ \/ candidates'[c].state = candidates[c].state
            \/ candidates[c].state \in Filled /\ candidates'[c].state \in Filled
         /\ candidates[c].state = "Absent" => candidates'[c] = candidates[c]
  BY <1>1, <1>2 DEF Retires, SameOutput, Filled
<1>4. \A p \in PopulationId : LivePopulation(p) => LivePopulation(p)'
  BY <1>1 DEF LivePopulation
<1> QED BY <1>1, <1>3, <1>4 DEF MarksOnly

\* Such a step keeps the slots sound.
LEMMA MarksOnlySlots ==
    ASSUME CoreInv, RefInv, SlotInv, MarksOnly PROVE SlotTables'
<1>1. UNCHANGED <<attempts, evaluations>>
  BY DEF MarksOnly
<1>2. OneOpenAttemptPerSlot'
  BY <1>1 DEF SlotInv, OneOpenAttemptPerSlot, OpenAttemptsOf, AttemptsOf
<1>3. InFlightSlotIsEmpty'
  <2> SUFFICES ASSUME NEW a \in AttemptId, attempts[a].state \in AttemptInFlight
               PROVE  /\ candidates'[attempts[a].candidate].state = "Producing"
                      /\ candidates'[attempts[a].candidate].output = 0
                      /\ LivePopulation(attempts[a].population)'
    BY <1>1 DEF InFlightSlotIsEmpty
  <2>1. attempts[a].candidate \in CandidateId /\ ExistingPopulation(attempts[a].population)
    BY AttemptStatesApart DEF RefInv, TableRefs, AttemptRef, CandidateRef, KnownCandidate
  <2>2. /\ candidates[attempts[a].candidate].state = "Producing"
        /\ candidates[attempts[a].candidate].output = 0
        /\ LivePopulation(attempts[a].population)
    BY DEF SlotInv, InFlightSlotIsEmpty
  <2>3. LivePopulation(attempts[a].population)'
    BY <1>1, <2>1, <2>2 DEF MarksOnly, ExistingPopulation, LivePopulation
  <2> QED BY <2>1, <2>2, <2>3 DEF MarksOnly, Filled
<1>4. \A c \in CandidateId : SlotOutput(c)'
  BY DEF MarksOnly, SlotInv, SlotOutput, Unproduced, Filled
<1>5. \A r \in evaluations : r.kind # "WorkerSelfReport" =>
         r.about = candidates'[r.candidate].output /\ r.about # 0
  BY DEF RefInv, TableRefs, KnownCandidate, SlotInv, EvidenceAboutOutput, MarksOnly
<1> QED BY <1>1, <1>2, <1>3, <1>4, <1>5 DEF SlotTables, EvidenceAboutOutput

\* Every step keeps the slots sound.
LEMMA StepSlots ==
    ASSUME CoreInv, RefInv, SlotInv, [Next]_vars PROVE SlotTables'
<1>1. ASSUME NEW q \in PopulationId, Creates(q) PROVE SlotTables'
  BY <1>1, MakesPopulationMarks, MarksOnlySlots DEF Creates
<1>2. ASSUME NEW p \in PopulationId, NEW q \in PopulationId, NEW w \in CandidateId,
             Advances(p, q, w)
      PROVE  SlotTables'
  <2>1. candidates[w].output # 0
    <3>1. w # 0
      BY DEF CandidateId
    <3> QED BY <1>2, <3>1 DEF Advances, SlotInv, WinnerOutput
  <2>2. /\ MakesPopulation(q, populations[p].index + 1, w)
        /\ UNCHANGED candidates \/ \E e \in CandidateId : MakesElite(q, e, w)
    BY <1>2 DEF Advances
  <2> QED BY <2>1, <2>2, MakesPopulationMarks, MarksOnlySlots
<1> QED BY <1>1, <1>2, StepCases, WorkStepSlots, AuthorizeSlots, PublishSlots,
           CommitsSelectionMarks, CommitsRetentionMarks, MarksOnlySlots

\* An output, once published, is never replaced or removed.
LEMMA OutputIsKept ==
    ASSUME CoreInv, RefInv, SlotInv, [Next]_vars, NEW c \in CandidateId,
           candidates[c].output # 0
    PROVE  candidates'[c].output = candidates[c].output
<1>1. candidates[c].state # "Absent"
  BY AbsentIsBlank DEF RefInv, TableRefs, NoCandidate
<1>2. CASE WorkStep
  BY <1>2 DEF WorkStep, CandidatesWork, WorksOn, OnlyState
<1>3. ASSUME NEW s \in sessions, NEW p \in PopulationId, NEW d \in CandidateId,
             NEW a \in AttemptId, Authorizes(s, p, d, a)
      PROVE  candidates'[c].output = candidates[c].output
  BY <1>1, <1>3 DEF Authorizes, TakesSlot, MakesSlot, NoCandidate
<1>4. ASSUME NEW s \in sessions, NEW a \in AttemptId, NEW d \in CandidateId, Publishes(s, a, d)
      PROVE  candidates'[c].output = candidates[c].output
  BY <1>4 DEF Publishes
<1>5. ASSUME NEW q \in PopulationId, NEW index, NEW w, MakesPopulation(q, index, w),
             UNCHANGED candidates \/ \E e \in CandidateId : MakesElite(q, e, w)
      PROVE  candidates'[c].output = candidates[c].output
  BY <1>1, <1>5 DEF MakesElite, NoCandidate
<1>6. MarksOnly => candidates'[c].output = candidates[c].output
  BY <1>1 DEF MarksOnly
<1>7. ASSUME NEW p \in PopulationId, NEW q \in PopulationId, NEW w \in CandidateId,
             Advances(p, q, w)
      PROVE  candidates'[c].output = candidates[c].output
  BY <1>5, <1>7 DEF Advances
<1>8. ASSUME NEW q \in PopulationId, Creates(q) PROVE candidates'[c].output = candidates[c].output
  BY <1>8 DEF Creates
<1> QED BY <1>2, <1>3, <1>4, <1>6, <1>7, <1>8, StepCases, CommitsSelectionMarks,
           CommitsRetentionMarks

\* Every step preserves SlotInv.
LEMMA NextSlotInv ==
    ASSUME CoreInv, RefInv, SlotInv, [Next]_vars PROVE SlotInv'
<1>0. SlotTables'
  BY StepSlots
<1>1. \A d \in SelectionDecision : WinnerOutput(d) =>
         (d.state # "None" /\ d.selected # 0 => candidates'[d.selected].output # 0)
  BY OutputIsKept DEF WinnerOutput, SelectionDecision
<1>2. ASSUME NEW d, NEW p, PreparedSelection(d, p), d \in SelectionDecision PROVE WinnerOutput(d)
  <2>1. d.selected # 0 => candidates[d.selected].state \in Filled /\ d.selected \in CandidateId
    BY <1>2 DEF PreparedSelection, Participants, CandidatesOf, Filled
  <2> QED BY <2>1 DEF SlotInv, SlotOutput, WinnerOutput
<1>3. /\ \A p \in PopulationId : /\ selections[p] \in SelectionDecision
                                 /\ selections'[p] \in SelectionDecision
      /\ \A x \in Controller : /\ heldSelection[x] \in SelectionDecision
                               /\ heldSelection'[x] \in SelectionDecision
  BY NextCoreInv DEF CoreInv, TypeOK
<1>4. NoSelection.state = "None"
  BY DEF NoSelection
<1>5. ASSUME NEW p \in PopulationId
      PROVE  selections'[p].state # "None" /\ selections'[p].selected # 0 =>
             candidates'[selections'[p].selected].output # 0
  <2>1. CASE selections'[p] = selections[p]
    BY <1>1, <1>3, <2>1 DEF SlotInv
  <2>2. CASE selections'[p] = NoSelection
    BY <1>4, <2>2
  <2>3. CASE PreparedSelection(selections'[p], p)
    BY <1>1, <1>2, <1>3, <2>3
  <2>4. ASSUME NEW x \in Controller, CommitsSelection(x), InstallsWinner(heldSelection[x]),
               heldSelection[x].population = p
        PROVE  selections'[p].state # "None" /\ selections'[p].selected # 0 =>
               candidates'[selections'[p].selected].output # 0
    <3> DEFINE d == heldSelection[x]
               g == populations[p].committedSelection + 1
    <3>1. selections'[p] = [d EXCEPT !.state = "Committed", !.generation = g]
      BY <2>4, Zenon DEF InstallsWinner
    <3>2. d \in SelectionDecision /\ d.state # "None" /\ WinnerOutput(d)
      BY <1>3, <2>4 DEF CommitsSelection, SelectionIsCurrent, SlotInv
    <3> HIDE DEF d, g
    <3>3. selections'[p].selected = d.selected
      BY <3>1, <3>2 DEF SelectionDecision
    <3> QED BY <1>1, <3>2, <3>3
  <2> QED BY <2>1, <2>2, <2>3, <2>4, SelectionSources, Zenon
<1>6. ASSUME NEW x \in Controller
      PROVE  heldSelection'[x].state # "None" /\ heldSelection'[x].selected # 0 =>
             candidates'[heldSelection'[x].selected].output # 0
  <2>1. CASE heldSelection'[x] = heldSelection[x]
    BY <1>1, <1>3, <2>1 DEF SlotInv
  <2>2. CASE heldSelection'[x] = NoSelection
    BY <1>4, <2>2
  <2>3. ASSUME NEW p \in PopulationId, PreparedSelection(heldSelection'[x], p)
        PROVE  heldSelection'[x].state # "None" /\ heldSelection'[x].selected # 0 =>
               candidates'[heldSelection'[x].selected].output # 0
    BY <1>1, <1>2, <1>3, <2>3
  <2> QED BY <2>1, <2>2, <2>3, SelectionSources, Zenon
<1> QED BY <1>0, <1>5, <1>6 DEF SlotInv, SlotTables, WinnerOutput

\* A core without records has sound slots.
LEMMA InitSlotInv == Init => SlotInv
<1> SUFFICES ASSUME Init PROVE SlotInv
  OBVIOUS
<1>1. \A a \in AttemptId : attempts[a].state = "Absent"
  BY DEF Init, NoAttempt
<1>2. OneOpenAttemptPerSlot /\ InFlightSlotIsEmpty
  BY <1>1, AttemptStatesApart DEF OneOpenAttemptPerSlot, InFlightSlotIsEmpty, OpenAttemptsOf,
                                 AttemptsOf
<1>3. \A c \in CandidateId : SlotOutput(c)
  BY DEF Init, NoCandidate, SlotOutput, Unproduced, Filled
<1>4. /\ \A p \in PopulationId : WinnerOutput(selections[p])
      /\ \A x \in Controller : WinnerOutput(heldSelection[x])
  BY DEF Init, NoSelection, WinnerOutput
<1> QED BY <1>2, <1>3, <1>4 DEF Init, SlotInv, EvidenceAboutOutput

-----------------------------------------------------------------------------
(* Workers. *)

\* A candidate whose evidence is complete has an output, so none of its
\* attempts is in flight: settling it takes no attempt from a worker.
LEMMA SettledIsDelivered ==
    ASSUME CoreInv, RefInv, SlotInv, EvidenceGrows, NEW c \in CandidateId,
           EvidenceComplete(evaluations, c) \/ EvidenceComplete(evaluations', c)
    PROVE  \A a \in AttemptId : attempts[a].candidate = c =>
                                attempts[a].state \notin AttemptInFlight
<1>1. PICK r \in evaluations' : r.candidate = c /\ r.kind # "WorkerSelfReport"
  BY DEF EvidenceComplete, RequirementComplete, RequirementRecords, EvidenceGrows
<1>2. r.about = candidates[c].output /\ r.about # 0
  BY <1>1 DEF EvidenceGrows, SlotInv, EvidenceAboutOutput
<1> QED BY <1>2 DEF SlotInv, InFlightSlotIsEmpty

\* Every step but authorize_attempt.
LEMMA StepWorkers ==
    ASSUME CoreInv, RefInv, SlotInv, [Next]_vars
    PROVE  WorkersKeep \/ \E s \in sessions : authorize_attempt(s)
<1>1. CASE WorkerCall
  <2>1. ASSUME NEW s \in sessions, NEW a \in AttemptId,
               confirm_dispatch(s, a) \/ acknowledge_attempt(s, a)
        PROVE  WorkersKeep
    <3>1. AttemptsEnd({}) /\ UNCHANGED <<workers, epoch>>
      BY <2>1, ConfirmDispatchEnds, AcknowledgeAttemptEnds DEF confirm_dispatch,
                                                              acknowledge_attempt
    <3> QED BY <3>1, KeepsWorkersEnding
  <2>2. ASSUME NEW s \in sessions, NEW a \in AttemptId, abandon_dispatch(s, a)
        PROVE  WorkersKeep
    <3>1. AttemptsEnd({a}) /\ workers' = FreeWorkersOf({a}) /\ epoch' = epoch
      BY <2>2, OneAttemptEnds DEF abandon_dispatch
    <3> QED BY <3>1, FreesWorkers
  <2> QED BY <1>1, <2>1, <2>2, RegisterWorkerKeeps, SessionCallsKeep, FreesItsWorker,
             WorkerDisconnectedKeeps DEF WorkerCall
<1>2. CASE EvaluatorCall
  <2>0. EvidenceGrows
    BY <1>2, EvaluatorCallsWork DEF WorkStep
  <2>1. ASSUME NEW c \in CandidateId, begin_evaluation(c) PROVE WorkersKeep
    <3>1. AttemptsEnd({}) /\ UNCHANGED <<workers, epoch>>
      BY <2>1, BeginEvaluationEnds DEF begin_evaluation
    <3> QED BY <3>1, KeepsWorkersEnding
  <2>2. ASSUME NEW c \in CandidateId, EvaluatorReport(c) \/ SelfReport(c) PROVE WorkersKeep
    <3>1. PICK k, kind, outcome, high, g, t :
             record_evaluation(c, k, kind, outcome, high, g, t)
      BY <2>2, ReportsAreRecords, Zenon
    <3>2. UNCHANGED <<workers, epoch>>
      BY <3>1 DEF record_evaluation
    <3>3. \/ AttemptsEnd({})
          \/ AttemptsEnd(SettledBy({c})) /\ EvidenceComplete(evaluations', c)
      BY <3>1, RecordEvaluationEnds, Zenon
    <3>4. CASE AttemptsEnd({})
      BY <3>2, <3>4, KeepsWorkersEnding
    <3>5. CASE AttemptsEnd(SettledBy({c})) /\ EvidenceComplete(evaluations', c)
      <4>1. \A a \in AttemptId : attempts[a].candidate \in {c} =>
                                 attempts[a].state \notin AttemptInFlight
        BY <2>0, <3>5, SettledIsDelivered
      <4> QED BY <3>2, <3>5, <4>1, SettlingKeepsWorkers
    <3> QED BY <3>3, <3>4, <3>5
  <2> QED BY <1>2, <2>1, <2>2 DEF EvaluatorCall
<1>3. CASE OperatorCall
  <2>1. ASSUME \/ revise_task \/ revise_policy \/ create_population
               \/ \E p \in PopulationId, g \in 1..(MaxPopulationGeneration + 3) :
                     start_population(p, g)
               \/ \E p \in PopulationId : request_population_revalidation(p)
        PROVE  WorkersKeep
    <3>1. UNCHANGED <<workers, attempts, reserved, epoch>>
      BY <2>1 DEF revise_task, revise_policy, create_population, start_population,
                  request_population_revalidation
    <3> QED BY <3>1, KeepsWorkers
  <2>2. ASSUME NEW p \in PopulationId, NEW g, cancel_population(p, g) PROVE WorkersKeep
    <3>1. workers' = FreeWorkersOf(CutWith(p)) /\ epoch' = epoch
      BY <2>2 DEF cancel_population, CutWith
    <3>2. AttemptsEnd(CutWith(p))
      BY <2>2, CancelPopulationEnds
    <3> QED BY <3>1, <3>2, FreesWorkers
  <2>3. ASSUME NEW p \in PopulationId, NEW g, revalidate_population(p, g) PROVE WorkersKeep
    <3>1. UNCHANGED <<workers, epoch, evaluations>> /\ AttemptsEnd(SettledBy(RevalidatedSet(p)))
      BY <2>3, RevalidatePopulationEnds DEF revalidate_population
    <3>2. EvidenceGrows
      BY <3>1 DEF EvidenceGrows
    <3>3. \A c \in RevalidatedSet(p) : c \in CandidateId /\ EvidenceComplete(evaluations, c)
      BY DEF RevalidatedSet, CandidatesOf
    <3>4. \A a \in AttemptId : attempts[a].candidate \in RevalidatedSet(p) =>
                               attempts[a].state \notin AttemptInFlight
      BY <3>2, <3>3, SettledIsDelivered
    <3> QED BY <3>1, <3>4, SettlingKeepsWorkers
  <2>4. ASSUME NEW a \in AttemptId, cancel_attempt(a) PROVE WorkersKeep
    <3>1. workers' = FreeWorkersOf({a}) /\ epoch' = epoch
      BY <2>4 DEF cancel_attempt
    <3>2. AttemptsEnd({a})
      BY <2>4, OneAttemptEnds
    <3> QED BY <3>1, <3>2, FreesWorkers
  <2>5. ASSUME NEW a \in AttemptId, force_attempt_outcome_unknown(a) PROVE WorkersKeep
    <3>1. /\ UNCHANGED <<workers, epoch>> /\ attempts' = EndAttempts({a}, "OutcomeUnknown")
      BY <2>5 DEF force_attempt_outcome_unknown
    <3>2. AttemptsEnd({a})
      BY <2>5, OneAttemptEnds
    <3>3. attempts'[a].state = "OutcomeUnknown"
      BY <3>1 DEF EndAttempts, CoreInv, TypeOK, AttemptRecord
    <3> QED BY <3>1, <3>2, <3>3, KeepsWorkersEnding
  <2> QED BY <1>3, <2>1, <2>2, <2>3, <2>4, <2>5 DEF OperatorCall
<1>4. CASE ControllerCall
  <2>1. UNCHANGED <<workers, attempts, reserved, epoch>>
    <3>1. \A x \in Controller : commit_selection(x) => UNCHANGED <<workers, attempts, reserved, epoch>>
      BY CommitSelectionDoes
    <3>2. \A x \in Controller : commit_retention(x) => UNCHANGED <<workers, attempts, reserved, epoch>>
      BY CommitRetentionDoes
    <3>3. \A x \in Controller, p \in PopulationId :
             prepare_selection(x, p) \/ prepare_retention(x, p) =>
             UNCHANGED <<workers, attempts, reserved, epoch>>
      BY DEF prepare_selection, prepare_retention
    <3>4. \A p \in PopulationId :
             (\/ prepare_promotion_request(p) \/ close_population(p)
              \/ create_successor(p) \/ advance_population(p))
             => UNCHANGED <<workers, attempts, reserved, epoch>>
      BY DEF prepare_promotion_request, close_population, create_successor,
             advance_population, ledgerVars
    <3> QED BY <1>4, <3>1, <3>2, <3>3, <3>4, Zenon DEF ControllerCall
  <2> QED BY <2>1, KeepsWorkers
<1>5. CASE UNCHANGED vars
  BY <1>5, KeepsWorkers DEF vars
<1> QED BY <1>1, <1>2, <1>3, <1>4, <1>5, RecoverKeepsWorkers DEF Next

\* The attempts in flight after a step other than authorize_attempt were in
\* flight before it, and an attempt that ended stays as it ended.
AttemptsCarryOn ==
    \A a \in AttemptId :
        /\ SameAttempt(attempts[a], attempts'[a])
        /\ attempts'[a].state \in AttemptInFlight => attempts[a].state \in AttemptInFlight
        /\ attempts[a].state \in AttemptTerminal \cup {"Absent"} => attempts'[a] = attempts[a]

\* Only authorize_attempt puts an attempt in flight or gives a worker one.
LEMMA StepFlight ==
    ASSUME CoreInv, RefInv, SlotInv, [Next]_vars
    PROVE  \/ \E s \in sessions, p \in PopulationId, c \in CandidateId, a \in AttemptId :
                 authorize_attempt(s) /\ Authorizes(s, p, c, a)
           \/ WorkersKeep /\ AttemptsCarryOn
<1>1. CASE \E s \in sessions : authorize_attempt(s)
  BY <1>1, AuthorizeAttemptDoes DEF RefInv, TableRefs
<1>2. CASE WorkersKeep
  <2>1. CASE WorkStep
    <3>1. PICK A : AttemptsEnd(A)
      BY <2>1 DEF WorkStep
    <3>2. AttemptsCarryOn
      BY <3>1, WorkStepOpens DEF AttemptsEnd, AttemptsCarryOn
    <3> QED BY <1>2, <3>2
  <2>2. ASSUME UNCHANGED attempts PROVE AttemptsCarryOn
    BY <2>2 DEF AttemptsCarryOn, SameAttempt
  <2>3. ASSUME NEW s \in sessions, NEW a \in AttemptId, NEW c \in CandidateId,
               Publishes(s, a, c)
        PROVE  AttemptsCarryOn
    <3>1. /\ attempts[a].state \in {"Running", "Dispatched"} /\ attempts'[a].state = "Published"
          /\ SameAttempt(attempts[a], attempts'[a])
          /\ \A b \in AttemptId : b # a => attempts'[b] = attempts[b]
      BY <2>3 DEF Publishes
    <3>2. {"Running", "Dispatched"} \subseteq AttemptInFlight
      BY DEF AttemptInFlight
    <3> QED BY <3>1, <3>2, AttemptStatesApart DEF AttemptsCarryOn, SameAttempt
  <2>4. /\ \A q \in PopulationId : Creates(q) => UNCHANGED attempts
        /\ \A p, q \in PopulationId, w \in CandidateId : Advances(p, q, w) => UNCHANGED attempts
        /\ \A x \in Controller : CommitsSelection(x) \/ CommitsRetention(x) => UNCHANGED attempts
    BY DEF Creates, Advances, MakesPopulation, CommitsSelection, CommitsRetention
  <2> QED BY <1>2, <2>1, <2>2, <2>3, <2>4, StepCases
<1> QED BY <1>1, <1>2, StepWorkers

\* What InFlightHasOwner and BusyWithItsAttempt need to be inductive, and
\* ReadyOnlyByRevalidation to hold: a registration is one of this epoch.
WorkerInv ==
    /\ InFlightHasOwner
    /\ BusyWithItsAttempt
    /\ \A w \in Worker : workers[w].state = "Registered" => workers[w].registeredEpoch = epoch

\* Every step preserves WorkerInv.
LEMMA NextWorkerInv ==
    ASSUME CoreInv, RefInv, SlotInv, WorkerInv, [Next]_vars PROVE WorkerInv'
<1>1. workers \in [Worker -> WorkerRecord] /\ \A w \in Worker : workers'[w] \in WorkerRecord
  BY NextCoreInv DEF CoreInv, TypeOK
<1>2. ASSUME NEW s \in sessions, NEW p \in PopulationId, NEW c \in CandidateId,
             NEW a \in AttemptId, Authorizes(s, p, c, a)
      PROVE  WorkerInv'
  <2> DEFINE w == s.worker
  <2>1. /\ attempts[a].state = "Absent"
        /\ \A b \in AttemptId : b # a => attempts'[b] = attempts[b]
        /\ attempts'[a].state = "Authorized" /\ attempts'[a].worker = w
        /\ attempts'[a].boot = s.boot /\ workers[w].boot = s.boot
        /\ workers' = [workers EXCEPT ![w].state = "Busy", ![w].active = a]
        /\ epoch' = epoch
    BY <1>2 DEF Authorizes, ValidSession, NoAttempt
  <2>2. w \in Worker
    BY DEF CoreInv, TypeOK, SessionAuthority
  <2> HIDE DEF w
  <2>3. /\ workers'[w].boot = workers[w].boot /\ workers'[w].state = "Busy"
        /\ workers'[w].active = a
        /\ \A v \in Worker : v # w => workers'[v] = workers[v]
    BY <1>1, <2>1, <2>2 DEF WorkerRecord
  <2>4. InFlightHasOwner'
    <3> SUFFICES ASSUME NEW b \in AttemptId, attempts'[b].state \in AttemptInFlight
                 PROVE  /\ workers'[attempts'[b].worker].boot = attempts'[b].boot
                        /\ workers'[attempts'[b].worker].state \notin {"Absent", "Offline"}
      BY DEF InFlightHasOwner
    <3>1. CASE b = a
      BY <2>1, <2>3, <3>1
    <3>2. CASE b # a
      <4>1. attempts'[b] = attempts[b] /\ attempts[b].worker \in Worker
        BY <2>1, <3>2, AttemptStatesApart DEF RefInv, TableRefs, AttemptRef
      <4> QED BY <2>3, <4>1 DEF WorkerInv, InFlightHasOwner
    <3> QED BY <3>1, <3>2
  <2>5. BusyWithItsAttempt'
    <3> SUFFICES ASSUME NEW v \in Worker, workers'[v].state = "Busy"
                 PROVE  LET b == workers'[v].active IN
                        /\ b # 0 /\ attempts'[b].worker = v /\ attempts'[b].boot = workers'[v].boot
                        /\ attempts'[b].state \in AttemptInFlight \cup {"OutcomeUnknown"}
      BY DEF BusyWithItsAttempt
    <3>1. CASE v = w
      BY <2>1, <2>3, <3>1 DEF AttemptId, AttemptInFlight
    <3>2. CASE v # w
      <4>1. workers'[v] = workers[v] /\ workers[v].active \in {0} \cup AttemptId
        BY <1>1, <2>3, <3>2 DEF WorkerRecord
      <4>2. /\ workers[v].active # 0 /\ attempts[workers[v].active].worker = v
            /\ attempts[workers[v].active].boot = workers[v].boot
            /\ attempts[workers[v].active].state \in AttemptInFlight \cup {"OutcomeUnknown"}
        BY <4>1 DEF WorkerInv, BusyWithItsAttempt
      <4>3. workers[v].active # a
        BY <2>1, <4>2 DEF AttemptInFlight
      <4> QED BY <2>1, <4>1, <4>2, <4>3
    <3> QED BY <3>1, <3>2
  <2> QED BY <2>1, <2>3, <2>4, <2>5 DEF WorkerInv
<1>3. CASE WorkersKeep /\ AttemptsCarryOn
  <2>1. \A w \in Worker : WorkerKept(w)
    BY <1>3 DEF WorkersKeep
  <2>2. InFlightHasOwner'
    <3> SUFFICES ASSUME NEW a \in AttemptId, attempts'[a].state \in AttemptInFlight
                 PROVE  /\ workers'[attempts'[a].worker].boot = attempts'[a].boot
                        /\ workers'[attempts'[a].worker].state \notin {"Absent", "Offline"}
      BY DEF InFlightHasOwner
    <3> DEFINE w == attempts[a].worker
    <3>1. /\ attempts[a].state \in AttemptInFlight /\ attempts'[a].worker = w
          /\ attempts'[a].boot = attempts[a].boot
      BY <1>3 DEF AttemptsCarryOn, SameAttempt
    <3>2. w \in Worker
      BY <3>1, AttemptStatesApart DEF RefInv, TableRefs, AttemptRef
    <3>3. workers[w].boot = attempts[a].boot /\ workers[w].state \notin {"Absent", "Offline"}
      BY <3>1 DEF WorkerInv, InFlightHasOwner
    <3>4. ~FreedAfter(w)
      BY <3>1, <3>3 DEF FreedAfter
    <3> HIDE DEF w
    <3> QED BY <2>1, <3>1, <3>2, <3>3, <3>4 DEF WorkerKept
  <2>3. BusyWithItsAttempt'
    <3> SUFFICES ASSUME NEW v \in Worker, workers'[v].state = "Busy"
                 PROVE  LET b == workers'[v].active IN
                        /\ b # 0 /\ attempts'[b].worker = v /\ attempts'[b].boot = workers'[v].boot
                        /\ attempts'[b].state \in AttemptInFlight \cup {"OutcomeUnknown"}
      BY DEF BusyWithItsAttempt
    <3> DEFINE b == workers[v].active
    <3>1. /\ workers[v].state = "Busy" /\ workers'[v].active = b
          /\ workers'[v].boot = workers[v].boot
          /\ \A a \in AttemptId : /\ a = b /\ attempts[a].worker = v
                                  /\ attempts[a].state \in AttemptInFlight
                                  => attempts'[a].state \in AttemptInFlight \cup {"OutcomeUnknown"}
      BY <2>1 DEF WorkerKept
    <3>2. /\ b # 0 /\ attempts[b].worker = v /\ attempts[b].boot = workers[v].boot
          /\ attempts[b].state \in AttemptInFlight \cup {"OutcomeUnknown"}
      BY <3>1 DEF WorkerInv, BusyWithItsAttempt
    <3>3. b \in AttemptId
      BY <1>1, <3>2 DEF WorkerRecord
    <3> HIDE DEF b
    <3>4. SameAttempt(attempts[b], attempts'[b])
      BY <1>3, <3>3 DEF AttemptsCarryOn
    <3>5. attempts[b].state = "OutcomeUnknown" => attempts'[b].state = "OutcomeUnknown"
      BY <1>3, <3>3 DEF AttemptsCarryOn, AttemptTerminal
    <3> QED BY <3>1, <3>2, <3>3, <3>4, <3>5 DEF SameAttempt
  <2>4. \A w \in Worker : workers'[w].state = "Registered" => workers'[w].registeredEpoch = epoch'
    BY <2>1 DEF WorkerKept, WorkerInv
  <2> QED BY <2>2, <2>3, <2>4 DEF WorkerInv
<1> QED BY <1>2, <1>3, StepFlight

\* A core without workers.
LEMMA InitWorkerInv == Init => WorkerInv
<1> SUFFICES ASSUME Init PROVE WorkerInv
  OBVIOUS
<1>1. /\ \A a \in AttemptId : attempts[a].state = "Absent"
      /\ \A w \in Worker : workers[w].state = "Absent"
  BY DEF Init, NoAttempt, NoWorker
<1> QED BY <1>1, AttemptStatesApart DEF WorkerInv, InFlightHasOwner, BusyWithItsAttempt

-----------------------------------------------------------------------------
(* Held decisions and terminal populations. *)

\* The commit_selection of x that installs a winner in population p.
InstallsIn(x, p) == /\ CommitsSelection(x) /\ InstallsWinner(heldSelection[x])
                    /\ heldSelection[x].population = p

\* What a commit does to its population.
LEMMA InstallsInDoes ==
    ASSUME CoreInv, NEW x \in Controller, NEW p \in PopulationId, InstallsIn(x, p)
    PROVE  /\ populations[p].state # "Absent" /\ populations'[p].state = "Advancing"
           /\ populations'[p].generation = populations[p].generation
           /\ populations'[p].committedSelection = populations[p].committedSelection + 1
           /\ populations'[p].retentionCommitted = populations[p].retentionCommitted
           /\ populations'[p].index = populations[p].index
           /\ populations[p].generation = heldSelection[x].populationGeneration
<1> DEFINE g == populations[p].committedSelection + 1
<1>1. /\ populations'[p] = [populations[p] EXCEPT !.committedSelection = g, !.state = "Advancing"]
      /\ populations[p].state # "Absent"
      /\ populations[p].generation = heldSelection[x].populationGeneration
  BY Zenon DEF InstallsIn, CommitsSelection, InstallsWinner, ExistingPopulation,
               SelectionIsCurrent
<1>2. populations[p] \in PopulationRecord
  BY DEF CoreInv, TypeOK
<1> HIDE DEF g
<1>3. /\ populations'[p].state = "Advancing"
      /\ populations'[p].generation = populations[p].generation
      /\ populations'[p].committedSelection = g
      /\ populations'[p].index = populations[p].index
  BY <1>1, <1>2 DEF PopulationRecord
<1>4. populations'[p].retentionCommitted = populations[p].retentionCommitted
  BY <1>1, <1>2, Zenon DEF PopulationRecord
<1> QED BY <1>1, <1>3, <1>4 DEF g

\* What a step does to a population that exists.
LEMMA StepPopulations ==
    ASSUME CoreInv, RefInv, [Next]_vars, NEW p \in PopulationId, populations[p].state # "Absent"
    PROVE  PopulationKept(p) \/ \E x \in Controller : InstallsIn(x, p)
<1>1. WorkStep \/ PopulationsKeep => PopulationKept(p)
  BY DEF WorkStep, PopulationsKeep
<1>2. ASSUME NEW s, NEW q, NEW c, NEW a, Authorizes(s, q, c, a) PROVE PopulationKept(p)
  BY <1>2, LeavesPopulation DEF Authorizes
<1>3. ASSUME NEW q \in PopulationId, NEW index, NEW w, MakesPopulation(q, index, w)
      PROVE  PopulationKept(p)
  BY <1>3, LeavesPopulation DEF MakesPopulation, NoPopulation
<1>4. ASSUME NEW x \in Controller, CommitsSelection(x)
      PROVE  PopulationKept(p) \/ InstallsIn(x, p)
  <2>1. CASE RefusesWinner(heldSelection[x])
    BY <2>1, LeavesPopulation DEF RefusesWinner
  <2>2. CASE InstallsWinner(heldSelection[x]) /\ heldSelection[x].population # p
    BY <2>2, LeavesPopulation, Zenon DEF InstallsWinner
  <2>3. CASE InstallsWinner(heldSelection[x]) /\ heldSelection[x].population = p
    BY <1>4, <2>3 DEF InstallsIn
  <2> QED BY <1>4, <2>1, <2>2, <2>3 DEF CommitsSelection
<1>5. \A x : CommitsRetention(x) => PopulationKept(p)
  BY <1>1 DEF CommitsRetention
<1>6. /\ \A q : Creates(q) => MakesPopulation(q, 1, 0)
      /\ \A r, q, w : Advances(r, q, w) => MakesPopulation(q, populations[r].index + 1, w)
  BY DEF Creates, Advances
<1> QED BY <1>1, <1>2, <1>3, <1>4, <1>5, <1>6, StepCases

\* A selection in the hands of a controller was never committed, and names the
\* generation of its population or an earlier one, an earlier one once the
\* population has ended: what LateResultsRefused rests on.
HeldDecision(d) ==
    d.state # "None" =>
        /\ d.state \in {"Prepared", "Impossible"} /\ d.generation = 0
        /\ d.populationGeneration <= populations[d.population].generation
        /\ populations[d.population].state \in PopulationTerminal =>
              d.populationGeneration < populations[d.population].generation
HeldInv == \A x \in Controller : HeldDecision(heldSelection[x])

\* The decision of a controller whose commit would be accepted is about a
\* population that has not ended.
LEMMA CurrentIsLive ==
    ASSUME CoreInv, RefInv, HeldInv, NEW x \in Controller, SelectionIsCurrent(heldSelection[x])
    PROVE  LivePopulation(heldSelection[x].population)
<1> DEFINE d == heldSelection[x]
<1>1. d.state # "None" /\ d.populationGeneration = populations[d.population].generation
  BY DEF SelectionIsCurrent
<1>2. ExistingPopulation(d.population)
  BY <1>1 DEF RefInv, DecisionRefs, SelectionRef
<1>3. d.populationGeneration \in Nat
  BY DEF CoreInv, TypeOK, SelectionDecision
<1> QED BY <1>1, <1>2, <1>3 DEF HeldInv, HeldDecision, LivePopulation, ExistingPopulation

\* Every step preserves HeldInv.
LEMMA NextHeldInv ==
    ASSUME CoreInv, RefInv, HeldInv, [Next]_vars PROVE HeldInv'
<1> SUFFICES ASSUME NEW x \in Controller, heldSelection'[x].state # "None"
             PROVE  LET d == heldSelection'[x] IN
                    /\ d.state \in {"Prepared", "Impossible"} /\ d.generation = 0
                    /\ d.populationGeneration <= populations'[d.population].generation
                    /\ populations'[d.population].state \in PopulationTerminal =>
                          d.populationGeneration < populations'[d.population].generation
  BY DEF HeldInv, HeldDecision
<1>0. /\ \A p \in PopulationId : /\ populations[p].generation \in Nat
                                 /\ populations'[p].generation \in Nat
      /\ heldSelection[x].populationGeneration \in Nat
      /\ populations \in [PopulationId -> PopulationRecord]
  BY NextCoreInv DEF CoreInv, TypeOK, PopulationRecord, SelectionDecision
<1>1. CASE heldSelection'[x] = heldSelection[x]
  <2> DEFINE d == heldSelection[x]
             p == d.population
  <2>1. /\ p \in PopulationId /\ populations[p].state # "Absent"
        /\ d.state \in {"Prepared", "Impossible"} /\ d.generation = 0
        /\ d.populationGeneration <= populations[p].generation
        /\ populations[p].state \in PopulationTerminal =>
              d.populationGeneration < populations[p].generation
    BY <1>1 DEF RefInv, DecisionRefs, SelectionRef, ExistingPopulation, HeldInv, HeldDecision
  <2> HIDE DEF p
  <2>2. CASE PopulationKept(p)
    <3>1. /\ populations'[p].generation >= populations[p].generation
          /\ populations'[p].state \in PopulationTerminal =>
                \/ populations[p].state \in PopulationTerminal
                \/ populations'[p].generation > populations[p].generation
      BY <2>2 DEF PopulationKept
    <3> QED BY <1>0, <1>1, <2>1, <3>1 DEF p
  <2>3. CASE \E y \in Controller : InstallsIn(y, p)
    <3>1. /\ populations'[p].generation = populations[p].generation
          /\ populations'[p].state = "Advancing"
      BY <2>1, <2>3, InstallsInDoes
    <3> QED BY <1>1, <2>1, <3>1 DEF PopulationTerminal, p
  <2> QED BY <2>1, <2>2, <2>3, StepPopulations
<1>2. ASSUME NEW p \in PopulationId, prepare_selection(x, p),
             PreparedSelection(heldSelection'[x], p)
      PROVE  LET d == heldSelection'[x] IN
             /\ d.state \in {"Prepared", "Impossible"} /\ d.generation = 0
             /\ d.populationGeneration <= populations'[d.population].generation
             /\ populations'[d.population].state \in PopulationTerminal =>
                   d.populationGeneration < populations'[d.population].generation
  <2>1. populations' = [populations EXCEPT ![p].state = "Selecting"]
    BY <1>2, PrepareSelectionDoes
  <2>2. /\ populations'[p].state = "Selecting"
        /\ populations'[p].generation = populations[p].generation
    BY <1>0, <2>1 DEF PopulationRecord
  <2> QED BY <1>0, <1>2, <2>2 DEF PreparedSelection, PopulationTerminal
<1>3. CASE heldSelection'[x] = NoSelection
  BY <1>3 DEF NoSelection
<1> QED BY <1>1, <1>2, <1>3, SelectionSources, Zenon

\* Nobody holds a decision.
LEMMA InitHeldInv == Init => HeldInv
  BY DEF Init, HeldInv, HeldDecision, NoSelection

-----------------------------------------------------------------------------
(* What no step does. *)

\* A candidate that a step adds is the slot of a running population or the
\* elite of a new one.
LEMMA NewCandidateIsLive ==
    ASSUME CoreInv, RefInv, SlotInv, [Next]_vars, NEW c \in CandidateId,
           candidates[c].state = "Absent", NEW p \in PopulationId,
           candidates'[c].population = p
    PROVE  populations[p].state \in {"Running", "Absent"}
<1>0. candidates[c] = NoCandidate /\ NoCandidate.population = 0 /\ 0 \notin PopulationId
  BY AbsentIsBlank DEF RefInv, TableRefs, NoCandidate, PopulationId
<1>1. CASE WorkStep
  BY <1>0, <1>1 DEF WorkStep, CandidatesWork, WorksOn, OnlyState, SameSlot
<1>2. ASSUME NEW s \in sessions, NEW q \in PopulationId, NEW d \in CandidateId,
             NEW a \in AttemptId, Authorizes(s, q, d, a)
      PROVE  populations[p].state \in {"Running", "Absent"}
  <2>1. /\ d # c => candidates'[c] = candidates[c]
        /\ d = c => candidates'[c].population = q
        /\ populations[q].state = "Running"
    BY <1>0, <1>2 DEF Authorizes, TakesSlot, MakesSlot, SameSlot
  <2> QED BY <1>0, <2>1
<1>3. ASSUME NEW s, NEW a, NEW d, Publishes(s, a, d)
      PROVE  populations[p].state \in {"Running", "Absent"}
  <2>1. \/ candidates'[c] = candidates[c]
        \/ d = c /\ SameSlot(candidates[d], candidates'[d])
    BY <1>3 DEF Publishes
  <2> QED BY <1>0, <2>1 DEF SameSlot
<1>4. ASSUME NEW q \in PopulationId, NEW index, NEW w, MakesPopulation(q, index, w),
             UNCHANGED candidates \/ \E e \in CandidateId : MakesElite(q, e, w)
      PROVE  populations[p].state \in {"Running", "Absent"}
  <2>1. populations[q].state = "Absent"
    BY <1>4 DEF MakesPopulation, NoPopulation
  <2>2. candidates'[c] = candidates[c] \/ candidates'[c].population = q
    BY <1>4 DEF MakesElite
  <2> QED BY <1>0, <2>1, <2>2
<1>5. ASSUME NEW x \in Controller, CommitsSelection(x) \/ CommitsRetention(x)
      PROVE  populations[p].state \in {"Running", "Absent"}
  <2>1. MarksOnly
    BY <1>5, CommitsSelectionMarks, CommitsRetentionMarks
  <2>2. candidates'[c].population = candidates[c].population
    <3>1. CASE CommitsRetention(x)
      BY <3>1 DEF CommitsRetention, Retires, SameOutput, SameSlot
    <3>2. CASE CommitsSelection(x)
      <4>1. \/ RefusesWinner(heldSelection[x])
            \/ InstallsWinner(heldSelection[x])
        BY <3>2 DEF CommitsSelection
      <4>2. \/ candidates'[c] = candidates[c] \/ SameOutput(candidates[c], candidates'[c])
        BY <4>1 DEF RefusesWinner, InstallsWinner, Unmarks
      <4> QED BY <4>2 DEF SameOutput, SameSlot
    <3> QED BY <1>5, <3>1, <3>2
  <2> QED BY <1>0, <2>2
<1>6. /\ \A q : Creates(q) => MakesPopulation(q, 1, 0) /\ UNCHANGED candidates
      /\ \A r, q, w : Advances(r, q, w) =>
            /\ MakesPopulation(q, populations[r].index + 1, w)
            /\ UNCHANGED candidates \/ \E e \in CandidateId : MakesElite(q, e, w)
  BY DEF Creates, Advances
<1> QED BY <1>1, <1>2, <1>3, <1>4, <1>5, <1>6, StepCases

\* What a step may not do to a candidate of a population that has ended.
LEMMA TerminalCandidates ==
    ASSUME CoreInv, RefInv, SlotInv, HeldInv, [Next]_vars,
           NEW p \in PopulationId, populations[p].state \in PopulationTerminal,
           NEW c \in CandidateId, candidates[c].population = p,
           candidates[c].state # "Absent"
    PROVE  /\ candidates'[c].output = candidates[c].output
           /\ candidates'[c].selected = candidates[c].selected
           /\ ~\E r \in evaluations' \ evaluations : r.candidate = c
<1>0. candidates[c].selected \in BOOLEAN /\ candidates'[c].selected \in BOOLEAN
  BY NextCoreInv, Zenon DEF CoreInv, TypeOK, CandidateRecord
<1>1. ~LivePopulation(p) /\ populations[p].state \notin {"Running", "Absent"}
  BY DEF LivePopulation, PopulationTerminal
<1> DEFINE Same == /\ candidates'[c].output = candidates[c].output
                   /\ candidates'[c].selected = candidates[c].selected
                   /\ ~\E r \in evaluations' \ evaluations : r.candidate = c
<1>2. CASE WorkStep
  BY <1>1, <1>2 DEF WorkStep, CandidatesWork, WorksOn, OnlyState, EvidenceGrows
<1>3. candidates'[c] = candidates[c] /\ evaluations' = evaluations => Same
  OBVIOUS
<1>4. ASSUME NEW s \in sessions, NEW q \in PopulationId, NEW d \in CandidateId,
             NEW a \in AttemptId, Authorizes(s, q, d, a)
      PROVE  candidates'[c] = candidates[c] /\ evaluations' = evaluations
  <2>1. c # d
    BY <1>1, <1>4 DEF Authorizes, TakesSlot, MakesSlot, NoCandidate
  <2> QED BY <1>4, <2>1 DEF Authorizes
<1>5. ASSUME NEW s \in sessions, NEW a \in AttemptId, NEW d \in CandidateId, Publishes(s, a, d)
      PROVE  candidates'[c] = candidates[c] /\ evaluations' = evaluations
  <2>1. /\ attempts[a].candidate = d /\ LivePopulation(attempts[a].population)
        /\ attempts[a].state # "Absent"
    BY <1>5 DEF Publishes
  <2>2. c # d
    BY <1>1, <2>1 DEF RefInv, TableRefs, AttemptRef
  <2> QED BY <1>5, <2>2 DEF Publishes
<1>6. ASSUME NEW q \in PopulationId, NEW index, NEW w, MakesPopulation(q, index, w),
             UNCHANGED candidates \/ \E e \in CandidateId : MakesElite(q, e, w)
      PROVE  candidates'[c] = candidates[c] /\ evaluations' = evaluations
  BY <1>6 DEF MakesPopulation, MakesElite, NoCandidate
<1>7. ASSUME NEW x \in Controller, CommitsSelection(x)
      PROVE  candidates'[c] = candidates[c] /\ evaluations' = evaluations
  <2> DEFINE d == heldSelection[x]
  <2>1. /\ SelectionIsCurrent(d) /\ SelectionRef(d) /\ evaluations' = evaluations
        /\ RefusesWinner(d) \/ InstallsWinner(d)
    BY <1>7, Zenon DEF CommitsSelection
  <2>2. d.population # p
    BY <1>1, <2>1, CurrentIsLive
  <2>3. c # d.selected
    BY <2>1, <2>2 DEF SelectionRef, SelectionIsCurrent
  <2>4. Unmarks(d.population, d.selected)
    BY <2>1 DEF RefusesWinner, InstallsWinner
  <2> HIDE DEF d
  <2> QED BY <2>1, <2>2, <2>3, <2>4 DEF Unmarks
<1>8. ASSUME NEW x \in Controller, CommitsRetention(x) PROVE Same
  <2>1. /\ candidates'[c].output = candidates[c].output /\ evaluations' = evaluations
        /\ candidates[c].selected <=> candidates'[c].selected
    BY <1>8, Zenon DEF CommitsRetention, Retires, SameOutput
  <2> QED BY <1>0, <2>1, Zenon
<1>9. /\ \A q : Creates(q) => MakesPopulation(q, 1, 0) /\ UNCHANGED candidates
      /\ \A r, q, w : Advances(r, q, w) =>
            /\ MakesPopulation(q, populations[r].index + 1, w)
            /\ UNCHANGED candidates \/ \E e \in CandidateId : MakesElite(q, e, w)
  BY DEF Creates, Advances
<1> QED BY <1>2, <1>3, <1>4, <1>5, <1>6, <1>7, <1>8, <1>9, StepCases

\* The definitions only ever get newer.
LEMMA DefinitionsGrow ==
    ASSUME CoreInv, [Next]_vars
    PROVE  taskGeneration' >= taskGeneration /\ policyGeneration' >= policyGeneration
<1>0. taskGeneration \in Nat /\ policyGeneration \in Nat
  BY DEF CoreInv, TypeOK
<1>1. CASE WorkerCall
  <2>1. UNCHANGED definitionVars
    <3>1. \A w \in Worker, b \in Boot : register_worker(w, b) => UNCHANGED definitionVars
      BY DEF register_worker
    <3>2. \A s \in sessions : \/ worker_ready(s) \/ revalidate_worker(s)
                              \/ worker_disconnected(s) \/ reject_worker_session(s)
                              \/ authorize_attempt(s)
                              => UNCHANGED definitionVars
      BY Zenon DEF worker_ready, revalidate_worker, worker_disconnected,
                   reject_worker_session, authorize_attempt
    <3>3. \A s \in sessions, a \in AttemptId :
             \/ confirm_dispatch(s, a) \/ abandon_dispatch(s, a) \/ acknowledge_attempt(s, a)
             \/ publish_candidate(s, a) \/ report_attempt_failure(s, a)
             => UNCHANGED definitionVars
      BY Zenon DEF confirm_dispatch, abandon_dispatch, acknowledge_attempt,
                   publish_candidate, report_attempt_failure
    <3> QED BY <1>1, <3>1, <3>2, <3>3, Zenon DEF WorkerCall
  <2> QED BY <1>0, <2>1
<1>2. CASE EvaluatorCall
  <2>1. UNCHANGED definitionVars
    <3>1. \A c : begin_evaluation(c) => UNCHANGED definitionVars
      BY DEF begin_evaluation
    <3>2. \A c, k, kind, outcome, high, g, t :
             record_evaluation(c, k, kind, outcome, high, g, t) => UNCHANGED definitionVars
      BY DEF record_evaluation
    <3> QED BY <1>2, <3>1, <3>2, ReportsAreRecords, Zenon DEF EvaluatorCall
  <2> QED BY <1>0, <2>1
<1>3. CASE OperatorCall
  <2>1. /\ \A p, g : start_population(p, g) \/ cancel_population(p, g) \/ revalidate_population(p, g)
              => UNCHANGED definitionVars
        /\ \A p : request_population_revalidation(p) => UNCHANGED definitionVars
        /\ create_population => UNCHANGED definitionVars
        /\ \A a : cancel_attempt(a) \/ force_attempt_outcome_unknown(a) => UNCHANGED definitionVars
    BY Zenon DEF start_population, cancel_population, revalidate_population, create_population,
                 request_population_revalidation, cancel_attempt, force_attempt_outcome_unknown
  <2>2. revise_task \/ revise_policy \/ UNCHANGED definitionVars
    BY <1>3, <2>1, Zenon DEF OperatorCall
  <2> QED BY <1>0, <2>2 DEF revise_task, revise_policy
<1>4. CASE ControllerCall
  <2>1. /\ \A x, p : prepare_selection(x, p) \/ prepare_retention(x, p) => UNCHANGED definitionVars
        /\ \A x : commit_selection(x) \/ commit_retention(x) => UNCHANGED definitionVars
        /\ \A p : (\/ prepare_promotion_request(p) \/ close_population(p)
                   \/ create_successor(p) \/ advance_population(p))
                  => UNCHANGED definitionVars
    BY Zenon DEF prepare_selection, prepare_retention, commit_selection, commit_retention,
                 prepare_promotion_request, close_population, create_successor,
                 advance_population
  <2>2. UNCHANGED definitionVars
    BY <1>4, <2>1, Zenon DEF ControllerCall
  <2> QED BY <1>0, <2>2
<1>5. CASE recover
  <2>1. UNCHANGED definitionVars
    BY <1>5, Zenon DEF recover
  <2> QED BY <1>0, <2>1
<1>6. CASE UNCHANGED vars
  BY <1>0, <1>6 DEF vars
<1> QED BY <1>1, <1>2, <1>3, <1>4, <1>5, <1>6 DEF Next

-----------------------------------------------------------------------------
(* Theorems. *)

\* The conjunction that holds in every state.
WorkInv == CoreInv /\ RefInv /\ SlotInv /\ WorkerInv /\ HeldInv

\* LateResultsRefused, as a relation between two states.
LateStep ==
    /\ \A a \in AttemptId : attempts[a].state \in AttemptTerminal => attempts'[a] = attempts[a]
    /\ \A p \in PopulationId : populations[p].state \in PopulationTerminal =>
          /\ populations'[p].state = populations[p].state
          /\ \A c \in CandidateId : candidates'[c].population = p =>
                /\ c \in CandidatesOf(p)
                /\ candidates'[c].output = candidates[c].output
                /\ candidates'[c].selected = candidates[c].selected
                /\ ~\E r \in evaluations' \ evaluations : r.candidate = c

\* Every step satisfies LateStep.
LEMMA RefusesLateResults ==
    ASSUME WorkInv, [Next]_vars PROVE LateStep
<1> USE DEF WorkInv
<1>1. \A a \in AttemptId : attempts[a].state \in AttemptTerminal => attempts'[a] = attempts[a]
  <2>1. ASSUME NEW s, NEW p, NEW c, NEW a \in AttemptId, Authorizes(s, p, c, a)
        PROVE  \A b \in AttemptId : attempts[b].state \in AttemptTerminal =>
                                    attempts'[b] = attempts[b]
    BY <2>1, AttemptStatesApart DEF Authorizes, NoAttempt
  <2> QED BY <2>1, StepFlight DEF AttemptsCarryOn
<1>2. ASSUME NEW p \in PopulationId, populations[p].state \in PopulationTerminal
      PROVE  populations'[p].state = populations[p].state
  <2>1. populations[p].state # "Absent" /\ ~LivePopulation(p)
    BY <1>2 DEF PopulationTerminal, LivePopulation
  <2>2. ~\E x \in Controller : InstallsIn(x, p)
    BY <2>1, CurrentIsLive DEF InstallsIn, CommitsSelection
  <2> QED BY <1>2, <2>1, <2>2, StepPopulations DEF PopulationKept
<1>3. ASSUME NEW p \in PopulationId, populations[p].state \in PopulationTerminal,
             NEW c \in CandidateId, candidates'[c].population = p
      PROVE  candidates[c].state # "Absent" /\ candidates[c].population = p
  <2>1. candidates[c].state # "Absent"
    BY <1>3, NewCandidateIsLive DEF PopulationTerminal
  <2> QED BY <1>3, <2>1, NextRefInv DEF Endures, SameSlot
<1>4. ASSUME NEW p \in PopulationId, populations[p].state \in PopulationTerminal,
             NEW c \in CandidateId, candidates'[c].population = p
      PROVE  /\ c \in CandidatesOf(p)
             /\ candidates'[c].output = candidates[c].output
             /\ candidates'[c].selected = candidates[c].selected
             /\ ~\E r \in evaluations' \ evaluations : r.candidate = c
  BY <1>3, <1>4, TerminalCandidates DEF CandidatesOf
<1> QED BY <1>1, <1>2, <1>4 DEF LateStep

\* SelectionOutlivesRestart, as a relation between two states.
GenerationStep ==
    /\ taskGeneration' >= taskGeneration
    /\ policyGeneration' >= policyGeneration
    /\ \A w \in Worker : workers'[w].sessionGeneration >= workers[w].sessionGeneration
    /\ \A p \in PopulationId :
         /\ populations'[p].generation >= populations[p].generation
         /\ \/ populations'[p].committedSelection >= populations[p].committedSelection
            \/ /\ epoch' > epoch
               /\ selections[p].state # "Committed"
               /\ populations'[p].state = "RevalidationRequired"

\* Every step satisfies GenerationStep.
LEMMA GenerationsGrow ==
    ASSUME WorkInv, [Next]_vars PROVE GenerationStep
<1> USE DEF WorkInv
<1>0. /\ \A p \in PopulationId : /\ populations[p].generation \in Nat
                                 /\ populations'[p].generation \in Nat
                                 /\ populations[p].committedSelection \in Nat
                                 /\ populations'[p].committedSelection \in Nat
      /\ workers \in [Worker -> WorkerRecord]
  BY NextCoreInv DEF CoreInv, TypeOK, PopulationRecord
<1>1. \A w \in Worker : workers'[w].sessionGeneration >= workers[w].sessionGeneration
  <2>1. ASSUME NEW s, NEW p, NEW c, NEW a, Authorizes(s, p, c, a)
        PROVE  \A w \in Worker : workers'[w].sessionGeneration >= workers[w].sessionGeneration
    <3>1. workers' = [workers EXCEPT ![s.worker].state = "Busy", ![s.worker].active = a]
      BY <2>1 DEF Authorizes
    <3>2. \A w \in Worker : /\ workers'[w].sessionGeneration = workers[w].sessionGeneration
                            /\ workers[w].sessionGeneration \in Nat
      BY <1>0, <3>1 DEF WorkerRecord
    <3> QED BY <3>2
  <2> QED BY <2>1, StepFlight DEF WorkersKeep, WorkerKept
<1>2. ASSUME NEW p \in PopulationId
      PROVE  /\ populations'[p].generation >= populations[p].generation
             /\ \/ populations'[p].committedSelection >= populations[p].committedSelection
                \/ /\ epoch' > epoch
                   /\ selections[p].state # "Committed"
                   /\ populations'[p].state = "RevalidationRequired"
  <2>1. CASE populations[p].state = "Absent"
    <3>1. populations[p] = NoPopulation
      BY <2>1, AbsentIsBlank DEF RefInv, TableRefs
    <3>2. populations[p].generation = 0 /\ populations[p].committedSelection = 0
      BY <3>1 DEF NoPopulation
    <3> QED BY <1>0, <3>2
  <2>2. CASE PopulationKept(p)
    BY <1>0, <2>2 DEF PopulationKept
  <2>3. CASE \E x \in Controller : InstallsIn(x, p)
    BY <1>0, <2>3, InstallsInDoes
  <2> QED BY <2>1, <2>2, <2>3, StepPopulations
<1> QED BY <1>1, <1>2, DefinitionsGrow DEF GenerationStep

\* ReadyOnlyByRevalidation, as a relation between two states.
ReadyStep ==
    \A w \in Worker :
        /\ workers[w].state \notin {"Ready", "Busy"}
        /\ workers'[w].state \in {"Ready", "Busy"}
        => \/ workers'[w].registeredEpoch = epoch'
           \/ Delivers(w)

\* Every step satisfies ReadyStep.
LEMMA ReadyIsEarned ==
    ASSUME WorkInv, [Next]_vars PROVE ReadyStep
<1> USE DEF WorkInv
<1>1. ASSUME NEW s \in sessions, NEW p, NEW c, NEW a, Authorizes(s, p, c, a) PROVE ReadyStep
  <2>1. /\ workers[s.worker].state = "Ready"
        /\ workers' = [workers EXCEPT ![s.worker].state = "Busy", ![s.worker].active = a]
    BY <1>1 DEF Authorizes
  <2>2. \A w \in Worker : w # s.worker => workers'[w] = workers[w]
    <3>1. workers \in [Worker -> WorkerRecord]
      BY DEF CoreInv, TypeOK
    <3> QED BY <2>1, <3>1
  <2> QED BY <2>1, <2>2 DEF ReadyStep
<1>2. CASE WorkersKeep
  BY <1>2 DEF WorkersKeep, WorkerKept, WorkerInv, ReadyStep
<1> QED BY <1>1, <1>2, StepFlight

\* Init satisfies WorkInv.
LEMMA InitWorkInv == Init => WorkInv
  BY InitCoreInv, InitRefInv, InitSlotInv, InitWorkerInv, InitHeldInv DEF WorkInv

\* Every step preserves WorkInv.
LEMMA NextWorkInv == WorkInv /\ [Next]_vars => WorkInv'
  BY NextCoreInv, NextRefInv, NextSlotInv, NextWorkerInv, NextHeldInv DEF WorkInv

\* However attempts are replayed after failures, disconnects and restarts, a
\* slot never has two that can still act on it.
THEOREM NoRacingAttempts == Spec => []OneOpenAttemptPerSlot
<1>1. WorkInv => OneOpenAttemptPerSlot
  BY DEF WorkInv, SlotInv
<1> QED BY <1>1, InitWorkInv, NextWorkInv, PTL DEF Spec

\* publish_candidate never stores artifacts and then fails the transition: the
\* slot of an attempt in flight is waiting for its output, in a live population.
THEOREM PublicationFindsItsSlot == Spec => []InFlightSlotIsEmpty
<1>1. WorkInv => InFlightSlotIsEmpty
  BY DEF WorkInv, SlotInv
<1> QED BY <1>1, InitWorkInv, NextWorkInv, PTL DEF Spec

\* No retry or restart puts another output behind a verdict.
THEOREM EvidenceStaysTrue == Spec => []EvidenceAboutOutput
<1>1. WorkInv => EvidenceAboutOutput
  BY DEF WorkInv, SlotInv
<1> QED BY <1>1, InitWorkInv, NextWorkInv, PTL DEF Spec

\* Somebody reports on every attempt in flight: its owner is the worker's
\* current incarnation and was not declared offline.
THEOREM NoOrphanedAttempt == Spec => []InFlightHasOwner
<1>1. WorkInv => InFlightHasOwner
  BY DEF WorkInv, WorkerInv
<1> QED BY <1>1, InitWorkInv, NextWorkInv, PTL DEF Spec

\* No path an attempt can end on leaves its worker Busy, except the one that
\* says so (force_attempt_outcome_unknown).
THEOREM NoIdleBusyWorker == Spec => []BusyWithItsAttempt
<1>1. WorkInv => BusyWithItsAttempt
  BY DEF WorkInv, WorkerInv
<1> QED BY <1>1, InitWorkInv, NextWorkInv, PTL DEF Spec

\* Nothing that arrives late changes an attempt that ended, a population that
\* ended, or a candidate of one.
THEOREM LateResultsAreRefused == Spec => LateResultsRefused
<1>1. WorkInv /\ [Next]_vars => [LateStep]_vars
  BY RefusesLateResults
<1> QED BY <1>1, InitWorkInv, NextWorkInv, PTL DEF Spec, LateResultsRefused, LateStep

\* Generations never go back, and a restart never forgets a selection that is
\* stored as committed.
THEOREM RestartsKeepSelections == Spec => SelectionOutlivesRestart
<1>1. WorkInv /\ [Next]_vars => [GenerationStep]_vars
  BY GenerationsGrow
<1> QED BY <1>1, InitWorkInv, NextWorkInv, PTL DEF Spec, SelectionOutlivesRestart,
                                                  GenerationStep

\* An incarnation of an earlier epoch is given work only after it revalidated,
\* or once it has delivered what it was given.
THEOREM ReadinessIsEarned == Spec => ReadyOnlyByRevalidation
<1>1. WorkInv /\ [Next]_vars => [ReadyStep]_vars
  BY ReadyIsEarned
<1> QED BY <1>1, InitWorkInv, NextWorkInv, PTL DEF Spec, ReadyOnlyByRevalidation, ReadyStep,
                                                  Delivers
=============================================================================
