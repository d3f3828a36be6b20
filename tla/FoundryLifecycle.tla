--------------------------- MODULE FoundryLifecycle ---------------------------
(***************************************************************************)
(* foundry_lifecycle.cpp: revisions of the definitions, creation, start,   *)
(* cancellation, revalidation and closure of populations.                  *)
(***************************************************************************)
EXTENDS FoundryState

revise_task ==
    /\ taskGeneration < MaxTaskRevisions
    /\ taskGeneration' = taskGeneration + 1
    /\ UNCHANGED <<epoch, policyGeneration, ids, populations, candidates, attempts,
                   evaluations, ledgerVars, decisionVars, workerVars>>

revise_policy ==
    /\ policyGeneration < MaxPolicyRevisions
    /\ policyGeneration' = policyGeneration + 1
    /\ UNCHANGED <<epoch, taskGeneration, ids, populations, candidates, attempts,
                   evaluations, ledgerVars, decisionVars, workerVars>>

-----------------------------------------------------------------------------

\* The record of a population of the given index that descends from seed
\* (0: none).  Its ledger is new, which Init already made it.
NewPopulation(index, seed) ==
    [NoPopulation EXCEPT
        !.state = "Created", !.generation = 1,
        !.taskGeneration = taskGeneration, !.policyGeneration = policyGeneration,
        !.index = index, !.seed = seed]

\* create_population of the first index: no predecessor and no seed.  (An
\* index of 0 is let through as well; such a population is never continued.)
create_population ==
    LET p == ids.population + 1
        roots == {q \in PopulationId : populations[q].index = 1}
    IN
    /\ p \in PopulationId
    /\ Cardinality(roots) < MaxRootPopulations
    /\ populations' = [populations EXCEPT ![p] = NewPopulation(1, 0)]
    /\ ids' = [ids EXCEPT !.population = p]
    /\ UNCHANGED <<epoch, definitionVars, candidates, attempts, evaluations,
                   ledgerVars, decisionVars, workerVars>>

\* Ready is entered and left within the call.
start_population(p, g) ==
    /\ populations[p].state \in {"Created", "Ready"}
    /\ g = populations[p].generation
    /\ populations' = [populations EXCEPT ![p].state = "Running",
                                          ![p].generation = @ + 1]
    /\ UNCHANGED <<epoch, definitionVars, ids, candidates, attempts, evaluations,
                   ledgerVars, decisionVars, workerVars>>

\* The attempts are cancelled before the transition of the population is
\* validated, so a refused transition leaves them cancelled.
cancel_population(p, g) ==
    LET cut == {a \in AttemptId : /\ attempts[a].population = p
                                  /\ attempts[a].state \in AttemptOpen}
    IN
    /\ LivePopulation(p)
    /\ g = populations[p].generation
    /\ reserved' = ReleaseReservations(cut)
    /\ attempts' = EndAttempts(cut, "Cancelled")
    /\ candidates' = [c \in CandidateId |->
           IF /\ cut \cap AttemptsOf(c) # {}
              /\ candidates[c].state \in {"Registered", "Producing"}
           THEN [candidates[c] EXCEPT !.state = "ProductionCancelled"]
           ELSE candidates[c]]
    /\ workers' = FreeWorkersOf(cut)
    /\ populations' =
           IF PopulationLegal(populations[p].state, "Cancelled")
           THEN [populations EXCEPT ![p].state = "Cancelled",
                                    ![p].generation = @ + 1]
           ELSE populations
    /\ UNCHANGED <<epoch, definitionVars, ids, evaluations, consumed,
                   decisionVars, sessions>>

request_population_revalidation(p) ==
    /\ LivePopulation(p)
    /\ PopulationLegal(populations[p].state, "RevalidationRequired")
    /\ populations[p].generation < MaxPopulationGeneration
    /\ populations' = [populations EXCEPT ![p].state = "RevalidationRequired",
                                          ![p].generation = @ + 1]
    /\ candidates' = [c \in CandidateId |->
           IF /\ c \in CandidatesOf(p)
              /\ candidates[c].state \in {"Evaluated", "Published", "Evaluating"}
           THEN [candidates[c] EXCEPT !.state = "RevalidationRequired"]
           ELSE candidates[c]]
    /\ UNCHANGED <<epoch, definitionVars, ids, attempts, evaluations, ledgerVars,
                   decisionVars, workerVars>>

\* Evidence that is complete stays valid history and settles the candidate.
revalidate_population(p, g) ==
    LET waiting == {c \in CandidatesOf(p) :
                       candidates[c].state = "RevalidationRequired"}
        settled == {c \in waiting : EvidenceComplete(evaluations, c)}
        underEvaluation == {c \in CandidatesOf(p) \ settled :
                               candidates[c].state \in {"RevalidationRequired",
                                                        "Published", "Evaluating"}}
    IN
    /\ populations[p].state = "RevalidationRequired"
    /\ g = populations[p].generation
    /\ candidates' = [c \in CandidateId |->
           CASE c \in settled -> [candidates[c] EXCEPT !.state = "Evaluated"]
             [] c \in waiting \ settled -> [candidates[c] EXCEPT !.state = "Evaluating"]
             [] OTHER -> candidates[c]]
    /\ attempts' = EndAttempts(SettledBy(settled), "Completed")
    /\ reserved' = ReleaseReservations(SettledBy(settled))
    /\ populations' = [populations EXCEPT
           ![p].state = IF underEvaluation # {} THEN "Evaluating" ELSE "Running",
           ![p].generation = @ + 1]
    /\ UNCHANGED <<epoch, definitionVars, ids, evaluations, consumed,
                   decisionVars, workerVars>>

-----------------------------------------------------------------------------

\* Mutation of ClosureContract: candidates that are still under evaluation
\* do not block.
LaxClosure(p) ==
    /\ \A a \in AttemptId : attempts[a].population = p =>
                            attempts[a].state \in AttemptTerminal
    /\ populations[p].committedSelection > 0
    /\ populations[p].retentionCommitted
    /\ RequirePromotionRequest => populations[p].promotionRequested
    /\ \A k \in BudgetKind : reserved[p][k] = 0
\* No blocker of the closure contract is left.
ClosureContract(p) ==
    /\ \A a \in AttemptId : attempts[a].population = p =>
                            attempts[a].state \in AttemptTerminal
    /\ populations[p].committedSelection > 0
    /\ populations[p].retentionCommitted
    /\ RequirePromotionRequest => populations[p].promotionRequested
    /\ \A c \in CandidatesOf(p) : candidates[c].state \notin CandidateUnresolved
    /\ \A k \in BudgetKind : reserved[p][k] = 0

close_population(p) ==
    /\ LivePopulation(p)
    /\ ClosureContract(p)
    /\ PopulationLegal(populations[p].state, "Closing")
    /\ populations' = [populations EXCEPT ![p].state = "Closed",
                                          ![p].generation = @ + 1]
    /\ UNCHANGED <<epoch, definitionVars, ids, candidates, attempts, evaluations,
                   ledgerVars, decisionVars, workerVars>>

\* Mutation of EliteCandidate: the winner's depth is copied with its output.
EliteAtSameDepth(p, winner) ==
    [NoCandidate EXCEPT
        !.state = "Published", !.population = p,
        !.populationGeneration = 1,
        !.taskGeneration = taskGeneration,
        !.lineage = candidates[winner].lineage, !.parent = winner,
        !.depth = candidates[winner].depth,
        !.output = candidates[winner].output]
\* add_elite_candidate_locked: the winner's output as a published candidate
\* of the successor, which nobody produces.  The code refuses one
\* beyond kMaxLineageDepth; there is none, because the winner is no deeper than
\* the index of its population, which is below MaxGenerationDepth (LineageSound).
EliteCandidate(p, winner) ==
    [NoCandidate EXCEPT
        !.state = "Published", !.population = p,
        !.populationGeneration = 1,
        !.taskGeneration = taskGeneration,
        !.lineage = candidates[winner].lineage, !.parent = winner,
        !.depth = candidates[winner].depth + 1,
        !.output = candidates[winner].output]
=============================================================================
