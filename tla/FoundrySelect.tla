----------------------------- MODULE FoundrySelect -----------------------------
(***************************************************************************)
(* foundry_select.cpp: selection, retention, promotion eligibility and the *)
(* succession of populations.  Selection and retention are optimistic: the *)
(* caller gets a prepared decision, the lock is released, and the commit   *)
(* refuses a decision whose digest no longer describes the state.          *)
(***************************************************************************)
EXTENDS FoundryLifecycle

-----------------------------------------------------------------------------
(* Selection. *)

\* Candidates with output, of the current task, that no mandatory gate
\* excludes: a failed gate always does, a missing record only by policy.
Participants(p) ==
    {c \in CandidatesOf(p) :
        /\ candidates[c].state \in {"Published", "Evaluating", "Evaluated",
                                    "Selected", "Retained"}
        /\ candidates[c].taskGeneration = taskGeneration
        /\ \A k \in Mandatory :
              \/ RequirementPassed(evaluations, c, k)
              \/ /\ ~RequireCompleteMandatory
                 /\ ~RequirementComplete(evaluations, c, k)}

\* The weighted factors over a common denominator: the quality score of the
\* optional evidence, the completeness of the evidence, the lineage depth.
Score(c) ==
    LET high == {r \in evaluations : r.candidate = c /\ r.key \in Optional /\ r.high}
        complete == {k \in Requirement : RequirementComplete(evaluations, c, k)}
        common == Cardinality(Optional) * Cardinality(Requirement)
    IN    QualityWeight * Cardinality(high) * Cardinality(Requirement)
        + CompletenessWeight * Cardinality(complete) * Cardinality(Optional)
        - DepthWeight * candidates[c].depth
              * (IF common = 0 THEN 1 ELSE common)

\* Score first, identity second: a total order.
RanksBefore(c, d) == \/ Score(c) > Score(d)
                     \/ Score(c) = Score(d) /\ c < d

Ranking(p) ==
    [c \in CandidateId |->
        IF c \in Participants(p)
        THEN 1 + Cardinality({d \in Participants(p) : RanksBefore(d, c)})
        ELSE 0]

SelectionStateDigest(p) ==
    [generation |-> populations[p].generation,
     taskGeneration |-> taskGeneration, policyGeneration |-> policyGeneration,
     candidates |-> [c \in CandidateId |->
        IF c \in CandidatesOf(p) THEN candidates[c] ELSE NoCandidate],
     evidence |-> {r \in evaluations : r.candidate \in CandidatesOf(p)}]

\* Replaces whatever decision was stored, a committed one included.
prepare_selection(x, p) ==
    LET rank == Ranking(p)
        decision == [
            state |-> IF Participants(p) = {} THEN "Impossible" ELSE "Prepared",
            population |-> p, populationGeneration |-> populations[p].generation,
            taskGeneration |-> taskGeneration, policyGeneration |-> policyGeneration,
            generation |-> 0,
            selected |-> IF Participants(p) = {} THEN 0
                         ELSE CHOOSE c \in CandidateId : rank[c] = 1,
            rank |-> rank, digest |-> SelectionStateDigest(p)]
    IN
    /\ populations[p].state \in {"Running", "Evaluating", "Selecting", "Advancing"}
    /\ selections' = [selections EXCEPT ![p] = decision]
    /\ heldSelection' = [heldSelection EXCEPT ![x] = decision]
    /\ populations' = [populations EXCEPT ![p].state = "Selecting"]
    /\ UNCHANGED <<epoch, definitionVars, ids, candidates, attempts, evaluations,
                   ledgerVars, retentions, promotions, heldRetention, workerVars>>

\* Mutation of SelectionIsCurrent: the state digest is not compared.
SameGenerations(d) ==
    LET p == d.population IN
    /\ d.state \in {"Prepared", "Impossible"}
    /\ d.populationGeneration = populations[p].generation
    /\ d.policyGeneration = populations[p].policyGeneration
    /\ d.taskGeneration = populations[p].taskGeneration
SelectionIsCurrent(d) ==
    LET p == d.population IN
    /\ d.state \in {"Prepared", "Impossible"}
    /\ d.populationGeneration = populations[p].generation
    /\ d.policyGeneration = populations[p].policyGeneration
    /\ d.taskGeneration = populations[p].taskGeneration
    /\ d.digest = SelectionStateDigest(p)

\* The state the winner has reached when the transition to Selected is tried.
CaughtUp(c) ==
    IF \A k \in Mandatory : RequirementComplete(evaluations, c, k)
    THEN SettledCandidate(candidates[c]) ELSE candidates[c]

\* Mutation of ClearMarks: an earlier winner keeps its mark.
KeepMarks(p, w) == candidates

\* The candidates once every winner of p but w has lost its mark.
ClearMarks(p, w) ==
    [c \in CandidateId |->
        IF c \in CandidatesOf(p) /\ c # w
        THEN [candidates[c] EXCEPT !.selected = FALSE] ELSE candidates[c]]

\* Previous winners lose their mark before the new winner's transition is
\* validated, so a refused transition leaves them without it.
commit_selection(x) ==
    LET d == heldSelection[x]
        p == d.population
        w == d.selected
        cleared == ClearMarks(p, w)
        generation == populations[p].committedSelection + 1
    IN
    /\ SelectionIsCurrent(d)
    /\ generation <= MaxSelections
    /\ \/ /\ w # 0
          /\ ~CandidateLegal(CaughtUp(w).state, "Selected")
          /\ candidates' = cleared
          /\ UNCHANGED <<populations, selections>>
       \/ /\ w # 0 => CandidateLegal(CaughtUp(w).state, "Selected")
          /\ candidates' = [c \in CandidateId |->
                 IF c = w
                 THEN [candidates[c] EXCEPT !.state = "Selected", !.selected = TRUE]
                 ELSE cleared[c]]
          /\ populations' = [populations EXCEPT
                 ![p].committedSelection = generation, ![p].state = "Advancing"]
          /\ selections' = [selections EXCEPT
                 ![p] = [d EXCEPT !.state = "Committed", !.generation = generation]]
    /\ UNCHANGED <<epoch, definitionVars, ids, attempts, evaluations, ledgerVars,
                   retentions, promotions, heldSelection, heldRetention, workerVars>>

-----------------------------------------------------------------------------
(* Retention. *)

SelectionCommitted(p) ==
    /\ populations[p].committedSelection > 0
    /\ selections[p].state = "Committed"

RetentionStateDigest(p) ==
    [generation |-> populations[p].generation, policyGeneration |-> policyGeneration,
     selectionGeneration |-> selections[p].generation,
     selection |-> selections[p].digest]

\* Is c kept, when kept are the better ranked candidates that were?
Keeps(sel, c, kept) ==
    /\ \/ RetainSelected /\ c = sel.selected
       \/ Cardinality(kept) < RetainTopK
    /\ Cardinality(kept) < MaxRetained
    /\ Cardinality({d \in kept : candidates[d].lineage = candidates[c].lineage})
         < MaxPerLineage

\* The set the walk down the ranking leaves in the retained list.  The winner
\* is the front of the ranking, so trying it first changes no order.
RetainedSet(sel) ==
    LET ranked == {c \in CandidateId : sel.rank[c] > 0}
        better(c) == {d \in ranked : sel.rank[d] < sel.rank[c]}
    IN  ranked \cap CHOOSE R \in SUBSET ranked :
            \A c \in ranked : c \in R <=> Keeps(sel, c, R \cap better(c))

\* A decision that is committed for the current selection is returned as it is.
prepare_retention(x, p) ==
    LET stored == retentions[p]
        settled == /\ stored.state = "Committed"
                   /\ populations[p].retentionCommitted
                   /\ stored.selectionGeneration = populations[p].committedSelection
        kept == RetainedSet(selections[p])
        decision == [
            state |-> "Prepared", population |-> p,
            populationGeneration |-> populations[p].generation,
            policyGeneration |-> policyGeneration,
            selectionGeneration |-> selections[p].generation,
            retained |-> kept, retired |-> CandidatesOf(p) \ kept,
            digest |-> RetentionStateDigest(p)]
    IN
    /\ populations[p].state # "Absent"
    /\ SelectionCommitted(p)
    /\ retentions' = [retentions EXCEPT ![p] = IF settled THEN stored ELSE decision]
    /\ heldRetention' = [heldRetention EXCEPT ![x] = retentions'[p]]
    /\ UNCHANGED <<epoch, definitionVars, ids, populations, candidates, attempts,
                   evaluations, ledgerVars, selections, promotions, heldSelection,
                   workerVars>>

\* Mutation of RetentionIsCurrent: the digest is not compared.
RetentionOfGeneration(d) ==
    LET p == d.population IN
    /\ d.state # "None"
    /\ d.populationGeneration = populations[p].generation
    /\ d.policyGeneration = populations[p].policyGeneration
    /\ d.selectionGeneration = populations[p].committedSelection
    /\ selections[p].state # "None"
\* The stored selection is compared by its digest and generation; that it is
\* a committed one is not asked again.
RetentionIsCurrent(d) ==
    LET p == d.population IN
    /\ d.state # "None"
    /\ d.populationGeneration = populations[p].generation
    /\ d.policyGeneration = populations[p].policyGeneration
    /\ d.selectionGeneration = populations[p].committedSelection
    /\ selections[p].state # "None"
    /\ d.digest = RetentionStateDigest(p)

commit_retention(x) ==
    LET d == heldRetention[x]
        p == d.population
    IN
    /\ RetentionIsCurrent(d)
    /\ candidates' = [c \in CandidateId |->
           CASE c \in d.retained -> [candidates[c] EXCEPT !.retained = TRUE]
             [] /\ c \in d.retired \ d.retained
                /\ c # selections[p].selected
                /\ CandidateLegal(candidates[c].state, "Retired") ->
                   [candidates[c] EXCEPT !.state = "Retired"]
             [] OTHER -> candidates[c]]
    /\ populations' = [populations EXCEPT
           ![p].retentionCommitted = TRUE,
           ![p].retentionSelection = d.selectionGeneration]
    /\ retentions' = [retentions EXCEPT ![p] = [d EXCEPT !.state = "Committed"]]
    /\ UNCHANGED <<epoch, definitionVars, ids, attempts, evaluations, ledgerVars,
                   selections, promotions, heldSelection, heldRetention, workerVars>>

-----------------------------------------------------------------------------
(* Promotion eligibility and succession. *)

prepare_promotion_request(p) ==
    LET w == selections[p].selected IN
    /\ populations[p].retentionCommitted
    /\ SelectionCommitted(p)
    /\ w # 0
    /\ promotions' = promotions \cup {
           [population |-> p, candidate |-> w,
            selectionGeneration |-> selections[p].generation,
            eligible |-> /\ \A k \in Mandatory : RequirementPassed(evaluations, w, k)
                         /\ candidates[w].taskGeneration = taskGeneration
                         /\ candidates[w].selected]}
    /\ populations' = [populations EXCEPT ![p].promotionRequested = TRUE]
    /\ UNCHANGED <<epoch, definitionVars, ids, candidates, attempts, evaluations,
                   ledgerVars, selections, retentions, heldSelection, heldRetention,
                   workerVars>>

\* create_population of a later index: a successor of p that continues its
\* winner.  Neither MaxGenerationDepth nor the retention is looked at, which
\* are advance_population's to check, and no elite comes along.
create_successor(p) ==
    LET q == ids.population + 1
        w == selections[p].selected
    IN
    /\ populations[p].state = "Closed"
    /\ selections[p].state = "Committed" /\ w # 0
    /\ q \in PopulationId
    /\ populations' = [populations EXCEPT ![q] = NewPopulation(populations[p].index + 1, w)]
    /\ ids' = [ids EXCEPT !.population = q]
    /\ UNCHANGED <<epoch, definitionVars, candidates, attempts, evaluations,
                   ledgerVars, decisionVars, workerVars>>

\* The predecessor has to be closed already (create_population_locked), under
\* the definitions that are current, so the closing at the end has no effect.
advance_population(p) ==
    LET q == ids.population + 1
        w == selections[p].selected
        e == ids.candidate + 1
    IN
    /\ populations[p].state = "Closed"
    /\ populations[p].committedSelection > 0 /\ populations[p].retentionCommitted
    /\ selections[p].state = "Committed" /\ w # 0
    /\ populations[p].index < MaxGenerationDepth
    /\ populations[p].taskGeneration = taskGeneration
    /\ populations[p].policyGeneration = policyGeneration
    /\ q \in PopulationId
    /\ populations' = [populations EXCEPT ![q] = NewPopulation(populations[p].index + 1, w)]
    /\ \/ /\ CarryForwardElite
          /\ e \in CandidateId
          /\ candidates' = [candidates EXCEPT ![e] = EliteCandidate(q, w)]
          /\ consumed' = [consumed EXCEPT ![q]["Candidates"] = @ + 1]
          /\ ids' = [ids EXCEPT !.population = q, !.candidate = e]
       \/ /\ ~CarryForwardElite
          /\ ids' = [ids EXCEPT !.population = q]
          /\ UNCHANGED <<candidates, consumed>>
    /\ UNCHANGED <<epoch, definitionVars, attempts, evaluations, reserved,
                   decisionVars, workerVars>>
=============================================================================
