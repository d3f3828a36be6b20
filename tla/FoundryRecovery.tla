---------------------------- MODULE FoundryRecovery ----------------------------
(***************************************************************************)
(* foundry_recovery.cpp: a coordinator restart from a snapshot of the      *)
(* current state.  The process that held prepared decisions is gone;       *)
(* session authorities of the old epoch are still in the workers' hands.   *)
(***************************************************************************)
EXTENDS FoundryState

\* Mutation of RecoveredAttempt: the reservation mark survives the restart.
AttemptWithMark(r) ==
    CASE r.state = "Authorized" -> [r EXCEPT !.state = "Cancelled"]
      [] r.state \in {"Dispatched", "Running"} -> [r EXCEPT !.state = "OutcomeUnknown"]
      [] OTHER -> r
\* Mutation of RecoveredAttempt: an acknowledged attempt survives the restart.
RunningAttemptKept(r) ==
    IF r.state \in {"Authorized", "Dispatched"}
    THEN [r EXCEPT !.state = "OutcomeUnknown", !.holdsReservation = FALSE] ELSE r
RecoveredAttempt(r) ==
    CASE r.state = "Authorized" ->
           [r EXCEPT !.state = "Cancelled", !.holdsReservation = FALSE]
      [] r.state \in {"Dispatched", "Running"} ->
           [r EXCEPT !.state = "OutcomeUnknown", !.holdsReservation = FALSE]
      [] OTHER -> r

\* A published output whose evaluation had not finished awaits revalidation,
\* whatever the state of its population.
RecoveredCandidate(c) ==
    LET r == candidates[c]
        open == {a \in OpenAttemptsOf(c) : attempts[a].state \notin AttemptInFlight}
    IN
    CASE r.state \in {"Registered", "Producing"} /\ open = {} ->
           [r EXCEPT !.state = "Registered"]
      [] r.state \in {"Published", "Evaluating"} ->
           [r EXCEPT !.state = "RevalidationRequired"]
      [] OTHER -> r

\* Mutation of RecoveredPopulation: every committed selection is forgotten.
ForgetfulPopulation(p) ==
    LET r == populations[p] IN
    IF r.state \in PopulationTerminal \cup {"Absent", "Created"} THEN r
    ELSE [r EXCEPT !.state = "RevalidationRequired", !.committedSelection = 0,
                   !.retentionCommitted = FALSE]
\* The generation of the population does not change.
RecoveredPopulation(p) ==
    LET r == populations[p]
        stale == [r EXCEPT !.state = "RevalidationRequired"]
    IN
    IF r.state \in PopulationTerminal \cup {"Absent", "Created"} THEN r
    ELSE IF r.committedSelection > 0 /\ selections[p].state # "Committed"
    THEN [stale EXCEPT !.committedSelection = 0, !.retentionCommitted = FALSE]
    ELSE stale

recover ==
    /\ epoch < MaxEpoch
    /\ epoch' = epoch + 1
    /\ workers' = [w \in Worker |->
           IF workers[w].state = "Absent" THEN workers[w]
           ELSE [workers[w] EXCEPT !.state = "Offline", !.active = 0]]
    /\ reserved' = ReleaseReservations({a \in AttemptId :
                                           attempts[a].state \in AttemptInFlight})
    /\ attempts' = [a \in AttemptId |-> RecoveredAttempt(attempts[a])]
    /\ candidates' = [c \in CandidateId |-> RecoveredCandidate(c)]
    /\ selections' = [p \in PopulationId |->
           IF selections[p].state = "Committed" THEN selections[p] ELSE NoSelection]
    /\ retentions' = [p \in PopulationId |->
           IF retentions[p].state = "Committed" THEN retentions[p] ELSE NoRetention]
    /\ populations' = [p \in PopulationId |-> RecoveredPopulation(p)]
    /\ heldSelection' = [x \in Controller |-> NoSelection]
    /\ heldRetention' = [x \in Controller |-> NoRetention]
    /\ UNCHANGED <<definitionVars, ids, evaluations, consumed, promotions, sessions>>

-----------------------------------------------------------------------------
(* persistence.cpp: what an image has to satisfy before recover sees it.    *)
(* save checks none of it.                                                  *)

KnownCandidate(c) == c \in CandidateId /\ candidates[c].state # "Absent"

\* LineageGraph::validate: no orphan, no cycle, and a child is one deeper than
\* its parent.
LineageValid ==
    \A c \in CandidateId : KnownCandidate(c) =>
        LET parent == candidates[c].parent IN
        IF parent = 0 THEN candidates[c].depth = 0
        ELSE /\ parent # c /\ KnownCandidate(parent)
             /\ candidates[c].depth = candidates[parent].depth + 1

\* No identity in a table is beyond the counter that issues the next one.
CountersCover ==
    /\ \A p \in PopulationId : populations[p].state # "Absent" => p <= ids.population
    /\ \A c \in CandidateId : KnownCandidate(c) => c <= ids.candidate
    /\ \A a \in AttemptId : attempts[a].state # "Absent" => a <= ids.attempt

validate_semantics ==
    /\ \A r \in evaluations : KnownCandidate(r.candidate)
    /\ \A a \in AttemptId : attempts[a].state # "Absent" =>
          /\ KnownCandidate(attempts[a].candidate)
          /\ populations[attempts[a].population].state # "Absent"
    /\ \A p \in PopulationId :
          /\ selections[p].state # "None" =>
                /\ populations[p].state # "Absent"
                /\ selections[p].selected = 0 \/ KnownCandidate(selections[p].selected)
          /\ retentions[p].state # "None" => populations[p].state # "Absent"
    /\ \A r \in promotions : KnownCandidate(r.candidate)
    /\ LineageValid
    /\ CountersCover
=============================================================================
