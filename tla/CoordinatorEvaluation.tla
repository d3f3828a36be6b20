------------------------- MODULE CoordinatorEvaluation -------------------------
(***************************************************************************)
(* The evaluation jobs of the coordinator (coordinator.cpp): the pump asks *)
(* the core which candidates await evidence and queues one job for each; a *)
(* pool thread copies the candidate, the task and the list of missing      *)
(* requirements, runs the evaluators outside every lock, and commits each  *)
(* record under the generations of the copy.  Jobs die with the process.   *)
(***************************************************************************)
EXTENDS FoundryCore

VARIABLE jobs

JobRecord == [state: {"Idle", "Queued", "Running"},
              populationGeneration: Nat, taskGeneration: Nat,
              pending: SUBSET Requirement]
NoJob == [state |-> "Idle", populationGeneration |-> 0, taskGeneration |-> 0,
          pending |-> {}]

pending_evaluations(c) == {k \in Requirement : ~RequirementComplete(evaluations, c, k)}

\* Mutation of candidates_awaiting_evaluation: only running populations are
\* scanned.
candidates_of_running_populations ==
    {c \in CandidateId :
        /\ candidates[c].state \in {"Published", "Evaluating"}
        /\ populations[candidates[c].population].state = "Running"}
candidates_awaiting_evaluation ==
    {c \in CandidateId :
        /\ candidates[c].state \in {"Published", "Evaluating"}
        /\ LivePopulation(candidates[c].population)
        /\ populations[candidates[c].population].state # "RevalidationRequired"
        /\ pending_evaluations(c) # {}}

\* One candidate of a tick: a candidate whose job is queued or running is
\* passed over, and nothing is queued unless the core accepts the transition.
start_evaluations(c) ==
    /\ c \in candidates_awaiting_evaluation
    /\ jobs[c].state = "Idle"
    /\ begin_evaluation(c)
    /\ jobs' = [jobs EXCEPT ![c].state = "Queued"]

\* The copy.  The population generation it holds is the slot's.
run_evaluation(c) ==
    /\ jobs[c].state = "Queued"
    /\ jobs' = [jobs EXCEPT ![c] =
           [state |-> "Running",
            populationGeneration |-> candidates[c].populationGeneration,
            taskGeneration |-> taskGeneration,
            pending |-> pending_evaluations(c)]]
    /\ UNCHANGED vars

\* An evaluator returned.  A record the core refuses is reported and dropped.
evaluate_requirement(c) ==
    LET job == jobs[c] IN
    /\ job.state = "Running"
    /\ \E k \in job.pending, outcome \in {"Pass", "NotPass"} :
         /\ jobs' = [jobs EXCEPT ![c].pending = @ \ {k}]
         /\ \/ record_evaluation(c, k, "Reference", outcome,
                                 k \in Optional /\ outcome = "Pass",
                                 job.populationGeneration, job.taskGeneration)
            \/ /\ ~AcceptsEvaluation(c, k, job.populationGeneration, job.taskGeneration)
               /\ UNCHANGED vars

\* The candidate may be scheduled again.
EndJob(c) ==
    /\ jobs[c].state = "Running" /\ jobs[c].pending = {}
    /\ jobs' = [jobs EXCEPT ![c] = NoJob]
    /\ UNCHANGED vars

JobStep(c) ==
    \/ start_evaluations(c)
    \/ run_evaluation(c)
    \/ evaluate_requirement(c)
    \/ EndJob(c)

\* Everything else the core may be asked, none of it by an evaluator.
OtherCall ==
    /\ \/ WorkerCall
       \/ \E c \in CandidateId : SelfReport(c)
       \/ OperatorCall
       \/ ControllerCall
    /\ UNCHANGED jobs

Restart == recover /\ jobs' = [c \in CandidateId |-> NoJob]

CoordinatorInit == Init /\ jobs = [c \in CandidateId |-> NoJob]
CoordinatorNext == (\E c \in CandidateId : JobStep(c)) \/ OtherCall \/ Restart

\* The pump ticks while the coordinator runs and the pool serves its queue in
\* order.  That an evaluator returns is an assumption about the evaluators:
\* nothing in the code gives one a deadline or stops it.  Nothing is assumed of
\* workers, the operator and the controllers.
CoordinatorSteps ==
    /\ [][CoordinatorNext]_<<vars, jobs>>
    /\ \A c \in CandidateId : WF_<<vars, jobs>>(JobStep(c))
CoordinatorSpec == CoordinatorInit /\ CoordinatorSteps

-----------------------------------------------------------------------------

AwaitsEvidence(c) == candidates[c].state \in {"Published", "Evaluating"}

\* No evidence can be recorded for c any more.  A job copies the population
\* generation of the slot and the generation the task has at the time, and
\* record_evaluation wants those of the population: after a revalidation, or
\* for an elite slot once its population has started, the first differ; after
\* a revision of the task since the population was made, the second.
BindingIsStale(c) ==
    LET p == populations[candidates[c].population] IN
    \/ p.generation # candidates[c].populationGeneration
    \/ p.taskGeneration # taskGeneration

\* A published candidate of a live population does not wait for evidence for
\* ever, whatever workers, operators, selections, cancellations and restarts
\* do meanwhile: the jobs bring its evaluation to an end, unless its evidence
\* is refused for ever because what it is bound to has changed
\* (start_evaluations, run_evaluation, record_evaluation).
SettlesUnlessStale ==
    \A c \in CandidateId :
        AwaitsEvidence(c) ~>
            \/ ~AwaitsEvidence(c)
            \/ ~LivePopulation(candidates[c].population)
            \/ BindingIsStale(c)
=============================================================================
