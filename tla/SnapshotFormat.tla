---------------------------- MODULE SnapshotFormat ----------------------------
(***************************************************************************)
(* The record bodies of a snapshot, persistence.cpp: what each write_*     *)
(* function appends and what each read_* takes.  The file repeats the      *)
(* wire's records in functions of its own, with ceilings and least sizes   *)
(* of its own, and adds the records only a snapshot holds.                 *)
(***************************************************************************)
EXTENDS Layout

kMaxInputFiles == 32
kMaxRequiredOutputs == 16
kMaxEvaluationRequirements == 32
kMaxConstraints == 32
kMaxRankingFactors == 16
kMaxArtifactsPerCandidate == 64
kMaxCandidatesPerPopulation == 100000
kMaxClosureBlockers == 64
kMaxOutstandingRequirements == 64
kIdKindCount == 18
kBudgetKindCount == 9

kMin == [input |-> 12, requirement |-> 26, rankingFactor |-> 14, artifact |-> 16,
         rankingValue |-> 35, rankingEntry |-> 40, exclusion |-> 18,
         retention |-> 25, evidence |-> 31, identity |-> 8, string |-> 4]

-----------------------------------------------------------------------------
(* Parts of records. *)

string_list(name) == Many(name, Str(<<"item">>))
read_strings(name, ceiling) == List(name, kMin.string, ceiling, Str(<<"item">>))
id_list(name) == Many(name, Id(<<"item">>))
read_candidate_ids(name) ==
    List(name, kMin.identity, kMaxCandidatesPerPopulation, Id(<<"item">>))

write_budget_limits ==
    U32(<<"max_candidate_attempts", "max_worker_assignments",
          "max_evaluation_attempts", "max_retained_candidates", "max_retries",
          "max_candidates", "max_workers", "max_active_attempts",
          "max_evaluation_concurrency">>)
read_budget_limits ==
    U32(<<"max_candidate_attempts", "max_worker_assignments",
          "max_evaluation_attempts", "max_retained_candidates", "max_retries",
          "max_candidates", "max_workers", "max_active_attempts",
          "max_evaluation_concurrency">>)

write_input_file == Str(<<"name", "content", "content_digest">>)
read_input_file == Str(<<"name", "content", "content_digest">>)

write_requirement ==
    Enum(<<"class">>) \o Str(<<"evaluator_key", "description">>)
    \o Bool(<<"has_score_floor">>) \o F64(<<"score_floor", "ranking_weight">>)
read_requirement ==
    Enum(<<"class">>) \o Str(<<"evaluator_key", "description">>)
    \o Bool(<<"has_score_floor">>) \o F64(<<"score_floor", "ranking_weight">>)

write_ranking_factor == Enum(<<"kind", "direction">>) \o F64(<<"weight">>) \o Str(<<"key">>)
read_ranking_factor == Enum(<<"kind", "direction">>) \o F64(<<"weight">>) \o Str(<<"key">>)

write_selection_policy ==
    Many("factors", write_ranking_factor) \o Bool(<<"require_complete_mandatory">>)
read_selection_policy ==
    List("factors", kMin.rankingFactor, kMaxRankingFactors, read_ranking_factor)
    \o Bool(<<"require_complete_mandatory">>)

write_retention_policy ==
    U32(<<"retain_top_k", "max_retained", "max_per_lineage">>) \o Bool(<<"retain_selected">>)
read_retention_policy ==
    U32(<<"retain_top_k", "max_retained", "max_per_lineage">>) \o Bool(<<"retain_selected">>)

write_artifact_ref == Str(<<"name">>) \o U64(<<"size_bytes">>) \o Str(<<"content_digest">>)
read_artifact_ref == Str(<<"name">>) \o U64(<<"size_bytes">>) \o Str(<<"content_digest">>)

-----------------------------------------------------------------------------
(* Definitions. *)

write_task ==
    Refs(<<"id">>) \o Str(<<"name", "objective">>) \o Many("inputs", write_input_file)
    \o string_list("required_outputs") \o Many("requirements", write_requirement)
    \o string_list("hard_constraints") \o string_list("closure_criteria")
    \o Refs(<<"policy">>) \o write_budget_limits \o Str(<<"content_digest">>)
read_task ==
    Refs(<<"id">>) \o Str(<<"name", "objective">>)
    \o List("inputs", kMin.input, kMaxInputFiles, read_input_file)
    \o read_strings("required_outputs", kMaxRequiredOutputs)
    \o List("requirements", kMin.requirement, kMaxEvaluationRequirements, read_requirement)
    \o read_strings("hard_constraints", kMaxConstraints)
    \o read_strings("closure_criteria", kMaxConstraints)
    \o Refs(<<"policy">>) \o read_budget_limits \o Str(<<"content_digest">>)

write_policy ==
    Refs(<<"id">>) \o Str(<<"name">>) \o write_selection_policy \o write_retention_policy
    \o write_budget_limits \o U32(<<"max_generation_depth">>)
    \o Bool(<<"carry_forward_elite">>) \o Str(<<"content_digest">>)
read_policy ==
    Refs(<<"id">>) \o Str(<<"name">>) \o read_selection_policy \o read_retention_policy
    \o read_budget_limits \o U32(<<"max_generation_depth">>)
    \o Bool(<<"carry_forward_elite">>) \o Str(<<"content_digest">>)

-----------------------------------------------------------------------------
(* Populations and what they hold. *)

write_population ==
    Refs(<<"id">>) \o Id(<<"run">>) \o Str(<<"name">>) \o Refs(<<"task", "policy">>)
    \o U32(<<"candidate_budget", "worker_budget", "population_index">>)
    \o Opt(<<"predecessor">>) \o OptRef("seed_candidate") \o Opt(<<"seed_lineage">>)
    \o Enum(<<"state">>) \o Epoch(<<"created", "state">>)
    \o Gen(<<"committed_selection">>) \o Bool(<<"retention_committed">>)
    \o Gen(<<"retention_selection">>) \o Bool(<<"require_promotion_request">>)
    \o id_list("candidates") \o U64(<<"promotion_requests">>)
    \o Opt(<<"committed_promotion_request">>) \o Str(<<"status_detail">>)
    \o string_list("closure_blockers")
read_population ==
    Refs(<<"id">>) \o Id(<<"run">>) \o Str(<<"name">>) \o Refs(<<"task", "policy">>)
    \o U32(<<"candidate_budget", "worker_budget", "population_index">>)
    \o Opt(<<"predecessor">>) \o OptRef("seed_candidate") \o Opt(<<"seed_lineage">>)
    \o Enum(<<"state">>) \o Epoch(<<"created", "state">>)
    \o Gen(<<"committed_selection">>) \o Bool(<<"retention_committed">>)
    \o Gen(<<"retention_selection">>) \o Bool(<<"require_promotion_request">>)
    \o read_candidate_ids("candidates") \o U64(<<"promotion_requests">>)
    \o Opt(<<"committed_promotion_request">>) \o Str(<<"status_detail">>)
    \o read_strings("closure_blockers", kMaxClosureBlockers)

write_candidate ==
    Refs(<<"id", "population", "task">>) \o Id(<<"lineage">>) \o id_list("parents")
    \o U32(<<"depth">>) \o Opt(<<"producer_worker", "producer_boot">>)
    \o OptRef("attempt") \o Opt(<<"assignment">>)
    \o Epoch(<<"created", "state_changed">>) \o Enum(<<"state">>)
    \o Many("artifacts", write_artifact_ref)
    \o Str(<<"artifact_set_digest">>) \o U32(<<"attempt_count">>)
    \o Gen(<<"evidence", "evaluation", "selection">>)
    \o Bool(<<"selected", "retained", "promotion_eligible", "promotion_requested">>)
    \o Str(<<"diversity_key", "failure_reason", "superseded_by_reason">>)
read_candidate ==
    Refs(<<"id", "population", "task">>) \o Id(<<"lineage">>)
    \o read_candidate_ids("parents") \o U32(<<"depth">>)
    \o Opt(<<"producer_worker", "producer_boot">>)
    \o OptRef("attempt") \o Opt(<<"assignment">>)
    \o Epoch(<<"created", "state_changed">>) \o Enum(<<"state">>)
    \o List("artifacts", kMin.artifact, kMaxArtifactsPerCandidate, read_artifact_ref)
    \o Str(<<"artifact_set_digest">>) \o U32(<<"attempt_count">>)
    \o Gen(<<"evidence", "evaluation", "selection">>)
    \o Bool(<<"selected", "retained", "promotion_eligible", "promotion_requested">>)
    \o Str(<<"diversity_key", "failure_reason", "superseded_by_reason">>)

write_worker ==
    Id(<<"id", "boot">>) \o Str(<<"label">>) \o U32(<<"process_id">>) \o Enum(<<"state">>)
    \o Epoch(<<"registered", "state">>) \o Refs(<<"session">>) \o Str(<<"capability">>)
    \o U64(<<"accepted", "completed", "failed", "stale_messages_rejected">>)
    \o OptRef("active_attempt") \o Opt(<<"active_assignment">>) \o Str(<<"last_diagnostic">>)
read_worker ==
    Id(<<"id", "boot">>) \o Str(<<"label">>) \o U32(<<"process_id">>) \o Enum(<<"state">>)
    \o Epoch(<<"registered", "state">>) \o Refs(<<"session">>) \o Str(<<"capability">>)
    \o U64(<<"accepted", "completed", "failed", "stale_messages_rejected">>)
    \o OptRef("active_attempt") \o Opt(<<"active_assignment">>) \o Str(<<"last_diagnostic">>)

write_attempt ==
    Refs(<<"id", "population", "task", "candidate">>)
    \o Id(<<"worker", "worker_boot", "session", "assignment">>)
    \o Epoch(<<"authorized", "dispatched", "terminal">>) \o Enum(<<"state">>)
    \o U32(<<"retry_index">>) \o Opt(<<"previous_attempt">>)
    \o Str(<<"failure_detail">>) \o Bool(<<"holds_reservation">>)
read_attempt ==
    Refs(<<"id", "population", "task", "candidate">>)
    \o Id(<<"worker", "worker_boot", "session", "assignment">>)
    \o Epoch(<<"authorized", "dispatched", "terminal">>) \o Enum(<<"state">>)
    \o U32(<<"retry_index">>) \o Opt(<<"previous_attempt">>)
    \o Str(<<"failure_detail">>) \o Bool(<<"holds_reservation">>)

write_assignment ==
    Refs(<<"id", "attempt">>) \o Id(<<"worker", "worker_boot">>) \o Refs(<<"session">>)
    \o Epoch(<<"issued">>) \o Bool(<<"acknowledged">>) \o Epoch(<<"acknowledged">>)
    \o Bool(<<"revoked">>) \o Epoch(<<"revoked">>)
read_assignment ==
    Refs(<<"id", "attempt">>) \o Id(<<"worker", "worker_boot">>) \o Refs(<<"session">>)
    \o Epoch(<<"issued">>) \o Bool(<<"acknowledged">>) \o Epoch(<<"acknowledged">>)
    \o Bool(<<"revoked">>) \o Epoch(<<"revoked">>)

write_evaluation ==
    Refs(<<"id", "candidate", "task", "population">>) \o Id(<<"evaluator">>)
    \o Str(<<"evaluator_key">>) \o Enum(<<"kind", "requirement_class", "outcome">>)
    \o Bool(<<"complete", "has_score">>) \o F64(<<"score">>) \o Epoch(<<"decided">>)
    \o Str(<<"diagnostics", "evidence_digest">>) \o U64(<<"duration_micros">>)
read_evaluation ==
    Refs(<<"id", "candidate", "task", "population">>) \o Id(<<"evaluator">>)
    \o Str(<<"evaluator_key">>) \o Enum(<<"kind", "requirement_class", "outcome">>)
    \o Bool(<<"complete", "has_score">>) \o F64(<<"score">>) \o Epoch(<<"decided">>)
    \o Str(<<"diagnostics", "evidence_digest">>) \o U64(<<"duration_micros">>)

-----------------------------------------------------------------------------
(* Decisions. *)

write_ranking_value ==
    Str(<<"key">>) \o Enum(<<"kind", "direction">>) \o F64(<<"weight", "raw_value">>)
    \o Bool(<<"available">>) \o F64(<<"contribution">>)
read_ranking_value ==
    Str(<<"key">>) \o Enum(<<"kind", "direction">>) \o F64(<<"weight", "raw_value">>)
    \o Bool(<<"available">>) \o F64(<<"contribution">>)

write_ranking_entry ==
    Refs(<<"candidate">>) \o U32(<<"rank">>) \o F64(<<"total_score">>)
    \o Many("factors", write_ranking_value) \o U64(<<"artifact_bytes">>)
    \o U32(<<"lineage_depth">>) \o Str(<<"diversity_key">>)
read_ranking_entry ==
    Refs(<<"candidate">>) \o U32(<<"rank">>) \o F64(<<"total_score">>)
    \o List("factors", kMin.rankingValue, kMaxRankingFactors, read_ranking_value)
    \o U64(<<"artifact_bytes">>) \o U32(<<"lineage_depth">>) \o Str(<<"diversity_key">>)

write_exclusion_entry ==
    Refs(<<"candidate">>) \o Enum(<<"stage", "reason">>) \o Str(<<"detail">>)
read_exclusion_entry ==
    Refs(<<"candidate">>) \o Enum(<<"stage", "reason">>) \o Str(<<"detail">>)

write_selection ==
    Gen(<<"generation">>) \o Refs(<<"population", "task", "policy">>)
    \o Epoch(<<"coordinator">>) \o Enum(<<"state">>) \o OptRef("selected")
    \o Many("ranking", write_ranking_entry) \o Many("excluded", write_exclusion_entry)
    \o Str(<<"canonical_state_digest", "rationale">>)
read_selection ==
    Gen(<<"generation">>) \o Refs(<<"population", "task", "policy">>)
    \o Epoch(<<"coordinator">>) \o Enum(<<"state">>) \o OptRef("selected")
    \o List("ranking", kMin.rankingEntry, kMaxCandidatesPerPopulation, read_ranking_entry)
    \o List("excluded", kMin.exclusion, kMaxCandidatesPerPopulation, read_exclusion_entry)
    \o Str(<<"canonical_state_digest", "rationale">>)

write_retention_entry ==
    Refs(<<"candidate">>) \o Enum(<<"outcome">>) \o U32(<<"rank">>)
    \o Str(<<"lineage_key", "detail">>)
read_retention_entry ==
    Refs(<<"candidate">>) \o Enum(<<"outcome">>) \o U32(<<"rank">>)
    \o Str(<<"lineage_key", "detail">>)

write_retention ==
    Gen(<<"selection">>) \o Refs(<<"population", "policy">>) \o Epoch(<<"coordinator">>)
    \o Many("entries", write_retention_entry) \o id_list("retained") \o id_list("retired")
    \o Str(<<"canonical_state_digest">>) \o Bool(<<"committed">>)
read_retention ==
    Gen(<<"selection">>) \o Refs(<<"population", "policy">>) \o Epoch(<<"coordinator">>)
    \o List("entries", kMin.retention, kMaxCandidatesPerPopulation, read_retention_entry)
    \o read_candidate_ids("retained") \o read_candidate_ids("retired")
    \o Str(<<"canonical_state_digest">>) \o Bool(<<"committed">>)

write_evidence_summary ==
    Str(<<"evaluator_key">>) \o Enum(<<"kind", "outcome", "requirement_class">>)
    \o Bool(<<"complete", "has_score">>) \o F64(<<"score">>) \o Gen(<<"generation">>)
    \o Str(<<"evidence_digest">>)
read_evidence_summary ==
    Str(<<"evaluator_key">>) \o Enum(<<"kind", "outcome", "requirement_class">>)
    \o Bool(<<"complete", "has_score">>) \o F64(<<"score">>) \o Gen(<<"generation">>)
    \o Str(<<"evidence_digest">>)

write_promotion ==
    Id(<<"id", "foundry", "run">>) \o Epoch(<<"coordinator">>)
    \o Refs(<<"population", "candidate", "task">>) \o Id(<<"lineage">>)
    \o Gen(<<"selection">>) \o Refs(<<"policy">>) \o Gen(<<"evidence">>)
    \o Enum(<<"eligibility">>) \o string_list("outstanding_requirements")
    \o Many("artifacts", write_artifact_ref) \o U64(<<"total_artifact_bytes">>)
    \o Str(<<"artifact_set_digest">>) \o Many("mandatory_evidence", write_evidence_summary)
    \o id_list("ancestry") \o U32(<<"lineage_depth">>) \o Str(<<"canonical_state_digest">>)
read_promotion ==
    Id(<<"id", "foundry", "run">>) \o Epoch(<<"coordinator">>)
    \o Refs(<<"population", "candidate", "task">>) \o Id(<<"lineage">>)
    \o Gen(<<"selection">>) \o Refs(<<"policy">>) \o Gen(<<"evidence">>)
    \o Enum(<<"eligibility">>)
    \o read_strings("outstanding_requirements", kMaxOutstandingRequirements)
    \o List("artifacts", kMin.artifact, kMaxArtifactsPerCandidate, read_artifact_ref)
    \o U64(<<"total_artifact_bytes">>) \o Str(<<"artifact_set_digest">>)
    \o List("mandatory_evidence", kMin.evidence, kMaxEvaluationRequirements,
            read_evidence_summary)
    \o read_candidate_ids("ancestry") \o U32(<<"lineage_depth">>)
    \o Str(<<"canonical_state_digest">>)

write_lineage_node ==
    Refs(<<"candidate">>) \o Id(<<"lineage">>) \o id_list("parents") \o U32(<<"depth">>)
    \o Epoch(<<"created">>) \o Bool(<<"retired">>) \o Epoch(<<"retired">>)
    \o Str(<<"retirement_reason">>)
read_lineage_node ==
    Refs(<<"candidate">>) \o Id(<<"lineage">>) \o read_candidate_ids("parents")
    \o U32(<<"depth">>) \o Epoch(<<"created">>) \o Bool(<<"retired">>)
    \o Epoch(<<"retired">>) \o Str(<<"retirement_reason">>)

\* The population that owns the ledger is part of the record's body.
write_ledger ==
    Id(<<"population">>) \o write_budget_limits
    \o Repeat(kBudgetKindCount, U64(<<"reserved", "consumed", "released">>))
read_ledger ==
    Id(<<"population">>) \o read_budget_limits
    \o Repeat(kBudgetKindCount, U64(<<"reserved", "consumed", "released">>))

-----------------------------------------------------------------------------
(* The two records every snapshot has once. *)

write_identity_header ==
    Id(<<"foundry", "run">>) \o Epoch(<<"epoch">>) \o U64(<<"revision">>)
    \o U32(<<"id_salt">>) \o Repeat(kIdKindCount, U32(<<"id_counter">>))
read_identity_header ==
    Id(<<"foundry", "run">>) \o Epoch(<<"epoch">>) \o U64(<<"revision">>)
    \o U32(<<"id_salt">>) \o Repeat(kIdKindCount, U32(<<"id_counter">>))

write_statistics ==
    U64(<<"task_revisions", "policy_revisions", "populations_created",
          "populations_closed", "candidate_slots_created", "candidates_published",
          "attempts_authorized", "attempts_completed", "attempts_failed",
          "attempts_cancelled", "attempts_outcome_unknown", "evaluations_recorded",
          "selections_prepared", "selections_committed", "retentions_committed",
          "promotion_requests", "stale_authority_rejections",
          "duplicate_rejections", "late_rejections",
          "illegal_transition_rejections">>)
read_statistics ==
    U64(<<"task_revisions", "policy_revisions", "populations_created",
          "populations_closed", "candidate_slots_created", "candidates_published",
          "attempts_authorized", "attempts_completed", "attempts_failed",
          "attempts_cancelled", "attempts_outcome_unknown", "evaluations_recorded",
          "selections_prepared", "selections_committed", "retentions_committed",
          "promotion_requests", "stale_authority_rejections",
          "duplicate_rejections", "late_rejections",
          "illegal_transition_rejections">>)

\* Bodies by record kind; parse_payload demands every body to be exhausted.
RecordWrites == [
    IdentityHeader |-> write_identity_header, Statistics |-> write_statistics,
    Task |-> write_task, Policy |-> write_policy, Population |-> write_population,
    Candidate |-> write_candidate, Worker |-> write_worker, Attempt |-> write_attempt,
    Assignment |-> write_assignment, Evaluation |-> write_evaluation,
    Selection |-> write_selection, Retention |-> write_retention,
    Promotion |-> write_promotion, LineageNode |-> write_lineage_node,
    Ledger |-> write_ledger]
RecordReads == [
    IdentityHeader |-> read_identity_header, Statistics |-> read_statistics,
    Task |-> read_task, Policy |-> read_policy, Population |-> read_population,
    Candidate |-> read_candidate, Worker |-> read_worker, Attempt |-> read_attempt,
    Assignment |-> read_assignment, Evaluation |-> read_evaluation,
    Selection |-> read_selection, Retention |-> read_retention,
    Promotion |-> read_promotion, LineageNode |-> read_lineage_node,
    Ledger |-> read_ledger]
=============================================================================
