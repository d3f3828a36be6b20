------------------------------ MODULE WireFormat ------------------------------
(***************************************************************************)
(* The layouts of protocol.cpp: what each write_* function and each        *)
(* encode_payload appends, and what each read_* and decode_* takes.        *)
(***************************************************************************)
EXTENDS Layout

kMaxProtocolElements == 4096
kMaxProtocolArtifacts == 64
kMaxProtocolRankingFactors == 16

\* Least bytes of one list element, as the readers assume them.
kMin == [identity |-> 8, string |-> 4, artifact |-> 16, factor |-> 12,
         factorValue |-> 31, ranking |-> 40, exclusion |-> 14, retention |-> 21,
         evaluation |-> 97, lineage |-> 45, evidence |-> 25, input |-> 12,
         requirement |-> 26]

-----------------------------------------------------------------------------
(* Field codecs, in the order of the source. *)

write_artifact_ref == Str(<<"name">>) \o U64(<<"size_bytes">>) \o Str(<<"content_digest">>)
read_artifact_ref == Str(<<"name">>) \o U64(<<"size_bytes">>) \o Str(<<"content_digest">>)
write_artifact_list(name) == Many(name, write_artifact_ref)
read_artifact_list(name) ==
    List(name, kMin.artifact, kMaxProtocolArtifacts, read_artifact_ref)
write_string_list(name) == Many(name, Str(<<"item">>))
read_string_list(name) ==
    List(name, kMin.string, kMaxProtocolElements, Str(<<"item">>))
write_identity_list(name) == Many(name, Id(<<"item">>))
read_identity_list(name) ==
    List(name, kMin.identity, kMaxProtocolElements, Id(<<"item">>))

write_budget_limits ==
    U32(<<"max_candidate_attempts", "max_worker_assignments",
          "max_evaluation_attempts", "max_retained_candidates", "max_retries",
          "max_candidates", "max_workers", "max_active_attempts",
          "max_evaluation_concurrency">>)
read_budget_limits ==
    U32(<<"max_candidate_attempts", "max_worker_assignments",
          "max_evaluation_attempts", "max_retained_candidates", "max_retries",
          "max_candidates", "max_workers", "max_active_attempts",
          "max_evaluation_concurrency">>)

write_input_file == Str(<<"name", "content", "content_digest">>)
read_input_file == Str(<<"name", "content", "content_digest">>)

write_evaluation_requirement ==
    Enum(<<"requirement_class">>) \o Str(<<"evaluator_key", "description">>)
    \o Bool(<<"has_score_floor">>) \o F64(<<"score_floor", "ranking_weight">>)
read_evaluation_requirement ==
    Enum(<<"requirement_class">>) \o Str(<<"evaluator_key", "description">>)
    \o Bool(<<"has_score_floor">>) \o F64(<<"score_floor", "ranking_weight">>)

write_task_spec ==
    Refs(<<"id">>) \o Str(<<"name", "objective">>)
    \o Many("inputs", write_input_file) \o write_string_list("required_outputs")
    \o Many("requirements", write_evaluation_requirement)
    \o write_string_list("hard_constraints") \o write_string_list("closure_criteria")
    \o Refs(<<"policy">>) \o write_budget_limits \o Str(<<"content_digest">>)
read_task_spec ==
    Refs(<<"id">>) \o Str(<<"name", "objective">>)
    \o List("inputs", kMin.input, kMaxProtocolElements, read_input_file)
    \o read_string_list("required_outputs")
    \o List("requirements", kMin.requirement, kMaxProtocolElements,
            read_evaluation_requirement)
    \o read_string_list("hard_constraints") \o read_string_list("closure_criteria")
    \o Refs(<<"policy">>) \o read_budget_limits \o Str(<<"content_digest">>)

write_ranking_factor == Enum(<<"kind", "direction">>) \o F64(<<"weight">>) \o Str(<<"key">>)
read_ranking_factor == Enum(<<"kind", "direction">>) \o F64(<<"weight">>) \o Str(<<"key">>)

write_policy ==
    Refs(<<"id">>) \o Str(<<"name">>) \o Many("factors", write_ranking_factor)
    \o Bool(<<"require_complete_mandatory">>)
    \o U32(<<"retain_top_k", "max_retained", "max_per_lineage">>)
    \o Bool(<<"retain_selected">>) \o write_budget_limits
    \o U32(<<"max_generation_depth">>) \o Bool(<<"carry_forward_elite">>)
    \o Str(<<"content_digest">>)
read_policy ==
    Refs(<<"id">>) \o Str(<<"name">>)
    \o List("factors", kMin.factor, kMaxProtocolRankingFactors, read_ranking_factor)
    \o Bool(<<"require_complete_mandatory">>)
    \o U32(<<"retain_top_k", "max_retained", "max_per_lineage">>)
    \o Bool(<<"retain_selected">>) \o read_budget_limits
    \o U32(<<"max_generation_depth">>) \o Bool(<<"carry_forward_elite">>)
    \o Str(<<"content_digest">>)

write_population_spec ==
    Str(<<"name">>) \o Refs(<<"task", "policy">>)
    \o U32(<<"candidate_budget", "worker_budget", "population_index">>)
    \o Opt(<<"predecessor">>) \o OptRef("seed_candidate") \o Opt(<<"seed_lineage">>)
    \o Bool(<<"require_promotion_request">>)
read_population_spec ==
    Str(<<"name">>) \o Refs(<<"task", "policy">>)
    \o U32(<<"candidate_budget", "worker_budget", "population_index">>)
    \o Opt(<<"predecessor">>) \o OptRef("seed_candidate") \o Opt(<<"seed_lineage">>)
    \o Bool(<<"require_promotion_request">>)

write_population_record ==
    Refs(<<"id">>) \o Id(<<"run">>) \o Str(<<"name">>) \o Refs(<<"task", "policy">>)
    \o U32(<<"candidate_budget", "worker_budget", "population_index">>)
    \o Opt(<<"predecessor">>) \o OptRef("seed_candidate") \o Opt(<<"seed_lineage">>)
    \o Enum(<<"state">>) \o Epoch(<<"created", "state">>)
    \o Gen(<<"committed_selection">>) \o Bool(<<"retention_committed">>)
    \o Gen(<<"retention_selection">>) \o Bool(<<"require_promotion_request">>)
    \o write_identity_list("candidates") \o U64(<<"promotion_requests">>)
    \o Opt(<<"committed_promotion_request">>) \o Str(<<"status_detail">>)
    \o write_string_list("closure_blockers")
read_population_record ==
    Refs(<<"id">>) \o Id(<<"run">>) \o Str(<<"name">>) \o Refs(<<"task", "policy">>)
    \o U32(<<"candidate_budget", "worker_budget", "population_index">>)
    \o Opt(<<"predecessor">>) \o OptRef("seed_candidate") \o Opt(<<"seed_lineage">>)
    \o Enum(<<"state">>) \o Epoch(<<"created", "state">>)
    \o Gen(<<"committed_selection">>) \o Bool(<<"retention_committed">>)
    \o Gen(<<"retention_selection">>) \o Bool(<<"require_promotion_request">>)
    \o read_identity_list("candidates") \o U64(<<"promotion_requests">>)
    \o Opt(<<"committed_promotion_request">>) \o Str(<<"status_detail">>)
    \o read_string_list("closure_blockers")

write_candidate_record ==
    Refs(<<"id", "population", "task">>) \o Id(<<"lineage">>)
    \o write_identity_list("parents") \o U32(<<"depth">>)
    \o Opt(<<"producer_worker", "producer_boot">>) \o OptRef("attempt")
    \o Opt(<<"assignment">>) \o Epoch(<<"created", "state_changed">>)
    \o Enum(<<"state">>) \o write_artifact_list("artifacts")
    \o Str(<<"artifact_set_digest">>) \o U32(<<"attempt_count">>)
    \o Gen(<<"evidence", "evaluation", "selection">>)
    \o Bool(<<"selected", "retained", "promotion_eligible", "promotion_requested">>)
    \o Str(<<"diversity_key", "failure_reason", "superseded_by_reason">>)
read_candidate_record ==
    Refs(<<"id", "population", "task">>) \o Id(<<"lineage">>)
    \o read_identity_list("parents") \o U32(<<"depth">>)
    \o Opt(<<"producer_worker", "producer_boot">>) \o OptRef("attempt")
    \o Opt(<<"assignment">>) \o Epoch(<<"created", "state_changed">>)
    \o Enum(<<"state">>) \o read_artifact_list("artifacts")
    \o Str(<<"artifact_set_digest">>) \o U32(<<"attempt_count">>)
    \o Gen(<<"evidence", "evaluation", "selection">>)
    \o Bool(<<"selected", "retained", "promotion_eligible", "promotion_requested">>)
    \o Str(<<"diversity_key", "failure_reason", "superseded_by_reason">>)

write_lineage_node ==
    Refs(<<"candidate">>) \o Id(<<"lineage">>) \o write_identity_list("parents")
    \o U32(<<"depth">>) \o Epoch(<<"created">>) \o Bool(<<"retired">>)
    \o Epoch(<<"retired">>) \o Str(<<"retirement_reason">>)
read_lineage_node ==
    Refs(<<"candidate">>) \o Id(<<"lineage">>) \o read_identity_list("parents")
    \o U32(<<"depth">>) \o Epoch(<<"created">>) \o Bool(<<"retired">>)
    \o Epoch(<<"retired">>) \o Str(<<"retirement_reason">>)

write_statistics ==
    U64(<<"task_revisions", "policy_revisions", "populations_created",
          "populations_closed", "candidate_slots_created", "candidates_published",
          "attempts_authorized", "attempts_completed", "attempts_failed",
          "attempts_cancelled", "attempts_outcome_unknown", "evaluations_recorded",
          "selections_prepared", "selections_committed", "retentions_committed",
          "promotion_requests", "stale_authority_rejections",
          "duplicate_rejections", "late_rejections",
          "illegal_transition_rejections">>)
read_statistics ==
    U64(<<"task_revisions", "policy_revisions", "populations_created",
          "populations_closed", "candidate_slots_created", "candidates_published",
          "attempts_authorized", "attempts_completed", "attempts_failed",
          "attempts_cancelled", "attempts_outcome_unknown", "evaluations_recorded",
          "selections_prepared", "selections_committed", "retentions_committed",
          "promotion_requests", "stale_authority_rejections",
          "duplicate_rejections", "late_rejections",
          "illegal_transition_rejections">>)

write_evaluation_record ==
    Refs(<<"id", "candidate", "task", "population">>) \o Id(<<"evaluator">>)
    \o Str(<<"evaluator_key">>) \o Enum(<<"kind", "requirement_class", "outcome">>)
    \o Bool(<<"complete", "has_score">>) \o F64(<<"score">>) \o Epoch(<<"decided">>)
    \o Str(<<"diagnostics", "evidence_digest">>) \o U64(<<"duration_micros">>)
read_evaluation_record ==
    Refs(<<"id", "candidate", "task", "population">>) \o Id(<<"evaluator">>)
    \o Str(<<"evaluator_key">>) \o Enum(<<"kind", "requirement_class", "outcome">>)
    \o Bool(<<"complete", "has_score">>) \o F64(<<"score">>) \o Epoch(<<"decided">>)
    \o Str(<<"diagnostics", "evidence_digest">>) \o U64(<<"duration_micros">>)

write_ranking_factor_value ==
    Str(<<"key">>) \o Enum(<<"kind", "direction">>) \o F64(<<"weight", "raw_value">>)
    \o Bool(<<"available">>) \o F64(<<"contribution">>)
read_ranking_factor_value ==
    Str(<<"key">>) \o Enum(<<"kind", "direction">>) \o F64(<<"weight", "raw_value">>)
    \o Bool(<<"available">>) \o F64(<<"contribution">>)

write_ranking_entry ==
    Refs(<<"candidate">>) \o U32(<<"rank">>) \o F64(<<"total_score">>)
    \o Many("factors", write_ranking_factor_value)
    \o U64(<<"artifact_bytes">>) \o U32(<<"lineage_depth">>) \o Str(<<"diversity_key">>)
read_ranking_entry ==
    Refs(<<"candidate">>) \o U32(<<"rank">>) \o F64(<<"total_score">>)
    \o List("factors", kMin.factorValue, kMaxProtocolRankingFactors,
            read_ranking_factor_value)
    \o U64(<<"artifact_bytes">>) \o U32(<<"lineage_depth">>) \o Str(<<"diversity_key">>)

write_exclusion_entry ==
    Refs(<<"candidate">>) \o Enum(<<"stage", "reason">>) \o Str(<<"detail">>)
\* Mutation of read_exclusion_entry: two fields of the same width change places.
read_reason_first ==
    Refs(<<"candidate">>) \o Enum(<<"reason", "stage">>) \o Str(<<"detail">>)
read_exclusion_entry ==
    Refs(<<"candidate">>) \o Enum(<<"stage", "reason">>) \o Str(<<"detail">>)

write_selection_decision ==
    Gen(<<"generation">>) \o Refs(<<"population", "task", "policy">>)
    \o Epoch(<<"coordinator">>) \o Enum(<<"state">>) \o OptRef("selected")
    \o Many("ranking", write_ranking_entry) \o Many("excluded", write_exclusion_entry)
    \o Str(<<"canonical_state_digest", "rationale">>)
read_selection_decision ==
    Gen(<<"generation">>) \o Refs(<<"population", "task", "policy">>)
    \o Epoch(<<"coordinator">>) \o Enum(<<"state">>) \o OptRef("selected")
    \o List("ranking", kMin.ranking, kMaxProtocolElements, read_ranking_entry)
    \o List("excluded", kMin.exclusion, kMaxProtocolElements, read_exclusion_entry)
    \o Str(<<"canonical_state_digest", "rationale">>)

write_retention_entry ==
    Refs(<<"candidate">>) \o Enum(<<"outcome">>) \o U32(<<"rank">>)
    \o Str(<<"lineage_key", "detail">>)
read_retention_entry ==
    Refs(<<"candidate">>) \o Enum(<<"outcome">>) \o U32(<<"rank">>)
    \o Str(<<"lineage_key", "detail">>)

write_retention_decision ==
    Gen(<<"selection">>) \o Refs(<<"population", "policy">>) \o Epoch(<<"coordinator">>)
    \o Many("entries", write_retention_entry) \o write_identity_list("retained")
    \o write_identity_list("retired") \o Str(<<"canonical_state_digest">>)
    \o Bool(<<"committed">>)
read_retention_decision ==
    Gen(<<"selection">>) \o Refs(<<"population", "policy">>) \o Epoch(<<"coordinator">>)
    \o List("entries", kMin.retention, kMaxProtocolElements, read_retention_entry)
    \o read_identity_list("retained") \o read_identity_list("retired")
    \o Str(<<"canonical_state_digest">>) \o Bool(<<"committed">>)

write_promotion_evidence_summary ==
    Str(<<"evaluator_key">>) \o Enum(<<"kind", "outcome", "requirement_class">>)
    \o Bool(<<"complete", "has_score">>) \o F64(<<"score">>) \o Gen(<<"generation">>)
    \o Str(<<"evidence_digest">>)
read_promotion_evidence_summary ==
    Str(<<"evaluator_key">>) \o Enum(<<"kind", "outcome", "requirement_class">>)
    \o Bool(<<"complete", "has_score">>) \o F64(<<"score">>) \o Gen(<<"generation">>)
    \o Str(<<"evidence_digest">>)

write_promotion_request ==
    Id(<<"id", "foundry", "run">>) \o Epoch(<<"coordinator">>)
    \o Refs(<<"population", "candidate", "task">>) \o Id(<<"lineage">>)
    \o Gen(<<"selection">>) \o Refs(<<"policy">>) \o Gen(<<"evidence">>)
    \o Enum(<<"eligibility">>) \o write_string_list("outstanding_requirements")
    \o write_artifact_list("artifacts") \o U64(<<"total_artifact_bytes">>)
    \o Str(<<"artifact_set_digest">>)
    \o Many("mandatory_evidence", write_promotion_evidence_summary)
    \o write_identity_list("ancestry") \o U32(<<"lineage_depth">>)
    \o Str(<<"canonical_state_digest">>)
read_promotion_request ==
    Id(<<"id", "foundry", "run">>) \o Epoch(<<"coordinator">>)
    \o Refs(<<"population", "candidate", "task">>) \o Id(<<"lineage">>)
    \o Gen(<<"selection">>) \o Refs(<<"policy">>) \o Gen(<<"evidence">>)
    \o Enum(<<"eligibility">>) \o read_string_list("outstanding_requirements")
    \o read_artifact_list("artifacts") \o U64(<<"total_artifact_bytes">>)
    \o Str(<<"artifact_set_digest">>)
    \o List("mandatory_evidence", kMin.evidence, kMaxProtocolElements,
            read_promotion_evidence_summary)
    \o read_identity_list("ancestry") \o U32(<<"lineage_depth">>)
    \o Str(<<"canonical_state_digest">>)

write_promotion_receipt ==
    Enum(<<"handoff">>) \o Str(<<"sink_name", "sink_reference", "detail", "request_digest">>)
read_promotion_receipt ==
    Enum(<<"handoff">>) \o Str(<<"sink_name", "sink_reference", "detail", "request_digest">>)

write_worker_session_authority ==
    Epoch(<<"coordinator">>) \o Id(<<"run", "worker", "boot">>) \o Refs(<<"session">>)
read_worker_session_authority ==
    Epoch(<<"coordinator">>) \o Id(<<"run", "worker", "boot">>) \o Refs(<<"session">>)
write_worker_operation_authority ==
    write_worker_session_authority
    \o Refs(<<"population", "task", "candidate", "attempt">>) \o Opt(<<"assignment">>)
read_worker_operation_authority ==
    read_worker_session_authority
    \o Refs(<<"population", "task", "candidate", "attempt">>) \o Opt(<<"assignment">>)
write_controller_session_authority ==
    Epoch(<<"coordinator">>) \o Id(<<"run">>) \o Opt(<<"controller">>) \o Refs(<<"session">>)
read_controller_session_authority ==
    Epoch(<<"coordinator">>) \o Id(<<"run">>) \o Opt(<<"controller">>) \o Refs(<<"session">>)
write_controller_operation_authority ==
    write_controller_session_authority \o Refs(<<"population", "task", "policy">>)
read_controller_operation_authority ==
    read_controller_session_authority \o Refs(<<"population", "task", "policy">>)

write_attempt_package ==
    Refs(<<"attempt">>) \o Id(<<"assignment">>)
    \o Refs(<<"population", "task", "candidate">>) \o Str(<<"task_name", "objective">>)
    \o write_string_list("required_outputs")
    \o Many("input_files", Str(<<"first", "second">>))
    \o Str(<<"workspace_root", "reference_strategy">>)
read_attempt_package ==
    Refs(<<"attempt">>) \o Id(<<"assignment">>)
    \o Refs(<<"population", "task", "candidate">>) \o Str(<<"task_name", "objective">>)
    \o read_string_list("required_outputs")
    \o List("input_files", 2 * kMin.string, kMaxProtocolElements,
            Str(<<"first", "second">>))
    \o Str(<<"workspace_root", "reference_strategy">>)
=============================================================================
