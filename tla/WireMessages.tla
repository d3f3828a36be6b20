----------------------------- MODULE WireMessages -----------------------------
(***************************************************************************)
(* The messages of protocol.cpp, by groups of the source: the payload each *)
(* encode_payload writes and each decode_* reads.  Every decode_* ends     *)
(* with require_exhausted().                                               *)
(***************************************************************************)
EXTENDS WireFormat

(* Session messages. *)

SessionWrites == [
    Hello |-> Enum(<<"role">>) \o Opt(<<"run", "worker", "boot", "controller">>)
        \o Str(<<"label", "capability">>) \o U32(<<"process_id">>) \o Epoch(<<"observed">>),
    HelloAck |-> Epoch(<<"coordinator">>) \o Id(<<"run">>) \o Refs(<<"session">>)
        \o Bool(<<"revalidation_required">>) \o Str(<<"detail">>),
    WorkerReady |-> write_worker_session_authority \o Str(<<"capability">>),
    Revalidate |-> write_worker_session_authority \o Str(<<"detail">>),
    RevalidateAck |-> write_worker_session_authority \o Bool(<<"accepted">>)
        \o Str(<<"detail">>),
    Heartbeat |-> write_worker_session_authority \o U64(<<"sequence">>)]
SessionReads == [
    Hello |-> Enum(<<"role">>) \o Opt(<<"run", "worker", "boot", "controller">>)
        \o Str(<<"label", "capability">>) \o U32(<<"process_id">>) \o Epoch(<<"observed">>),
    HelloAck |-> Epoch(<<"coordinator">>) \o Id(<<"run">>) \o Refs(<<"session">>)
        \o Bool(<<"revalidation_required">>) \o Str(<<"detail">>),
    WorkerReady |-> read_worker_session_authority \o Str(<<"capability">>),
    Revalidate |-> read_worker_session_authority \o Str(<<"detail">>),
    RevalidateAck |-> read_worker_session_authority \o Bool(<<"accepted">>)
        \o Str(<<"detail">>),
    Heartbeat |-> read_worker_session_authority \o U64(<<"sequence">>)]

(* Definitions and populations. *)

DefinitionWrites == [
    CreateTask |-> write_controller_session_authority \o write_task_spec,
    TaskCreated |-> Refs(<<"task">>) \o Str(<<"content_digest", "detail">>),
    DefinePolicy |-> write_controller_session_authority \o write_policy,
    PolicyDefined |-> Refs(<<"policy">>) \o Str(<<"content_digest">>),
    CreatePopulation |-> write_controller_session_authority \o write_population_spec,
    PopulationCreated |-> Refs(<<"population">>),
    StartPopulation |-> write_controller_operation_authority]
DefinitionReads == [
    CreateTask |-> read_controller_session_authority \o read_task_spec,
    TaskCreated |-> Refs(<<"task">>) \o Str(<<"content_digest", "detail">>),
    DefinePolicy |-> read_controller_session_authority \o read_policy,
    PolicyDefined |-> Refs(<<"policy">>) \o Str(<<"content_digest">>),
    CreatePopulation |-> read_controller_session_authority \o read_population_spec,
    PopulationCreated |-> Refs(<<"population">>),
    StartPopulation |-> read_controller_operation_authority]

PopulationWrites == [
    PopulationState |-> Refs(<<"population">>) \o Enum(<<"state">>) \o Str(<<"detail">>),
    ClosePopulation |-> write_controller_operation_authority,
    AdvancePopulation |-> write_controller_operation_authority \o Str(<<"next_name">>),
    PopulationAdvanced |-> Id(<<"predecessor">>) \o Refs(<<"successor", "seed_candidate">>)
        \o Str(<<"detail">>),
    RequestSelection |-> write_controller_operation_authority,
    RequestRetention |-> write_controller_operation_authority,
    RequestPromotion |-> write_controller_operation_authority,
    RequestRevalidation |-> write_controller_operation_authority \o Str(<<"reason">>)]
PopulationReads == [
    PopulationState |-> Refs(<<"population">>) \o Enum(<<"state">>) \o Str(<<"detail">>),
    ClosePopulation |-> read_controller_operation_authority,
    AdvancePopulation |-> read_controller_operation_authority \o Str(<<"next_name">>),
    PopulationAdvanced |-> Id(<<"predecessor">>) \o Refs(<<"successor", "seed_candidate">>)
        \o Str(<<"detail">>),
    RequestSelection |-> read_controller_operation_authority,
    RequestRetention |-> read_controller_operation_authority,
    RequestPromotion |-> read_controller_operation_authority,
    RequestRevalidation |-> read_controller_operation_authority \o Str(<<"reason">>)]

(* Attempts. *)

CancelWrites == [
    CancelAttemptRequest |-> write_controller_operation_authority
        \o Refs(<<"attempt">>) \o Str(<<"reason">>),
    AttemptCancelled |-> Id(<<"attempt">>) \o Enum(<<"state">>) \o Str(<<"detail">>)]
CancelReads == [
    CancelAttemptRequest |-> read_controller_operation_authority
        \o Refs(<<"attempt">>) \o Str(<<"reason">>),
    AttemptCancelled |-> Id(<<"attempt">>) \o Enum(<<"state">>) \o Str(<<"detail">>)]

AttemptWrites == [
    AssignAttempt |-> write_worker_session_authority \o write_attempt_package,
    AttemptAccepted |-> write_worker_operation_authority,
    AttemptResult |-> write_worker_operation_authority \o Str(<<"detail">>)
        \o U64(<<"duration_micros">>),
    CandidatePublish |-> write_worker_operation_authority
        \o write_artifact_list("artifacts") \o Str(<<"declared_strategy">>)
        \o Bool(<<"self_reported_success">>) \o Str(<<"self_report_detail">>),
    PublishAck |-> Refs(<<"candidate">>) \o Bool(<<"accepted">>) \o Str(<<"detail">>),
    AttemptFailed |-> write_worker_operation_authority \o Str(<<"reason">>),
    EvaluationReport |-> write_evaluation_record,
    SelfReport |-> write_worker_operation_authority \o Str(<<"claim">>)
        \o Bool(<<"claimed_success">>)]
AttemptReads == [
    AssignAttempt |-> read_worker_session_authority \o read_attempt_package,
    AttemptAccepted |-> read_worker_operation_authority,
    AttemptResult |-> read_worker_operation_authority \o Str(<<"detail">>)
        \o U64(<<"duration_micros">>),
    CandidatePublish |-> read_worker_operation_authority
        \o read_artifact_list("artifacts") \o Str(<<"declared_strategy">>)
        \o Bool(<<"self_reported_success">>) \o Str(<<"self_report_detail">>),
    PublishAck |-> Refs(<<"candidate">>) \o Bool(<<"accepted">>) \o Str(<<"detail">>),
    AttemptFailed |-> read_worker_operation_authority \o Str(<<"reason">>),
    EvaluationReport |-> read_evaluation_record,
    SelfReport |-> read_worker_operation_authority \o Str(<<"claim">>)
        \o Bool(<<"claimed_success">>)]

(* Queries and what they return. *)

QueryWrites == [
    QueryPopulation |-> write_controller_session_authority \o Id(<<"population">>),
    PopulationDetail |-> write_population_record
        \o U32(<<"committed_selection_generation">>) \o Bool(<<"retention_committed">>)
        \o U64(<<"candidate_count">>) \o write_string_list("closure_blockers"),
    QueryCandidate |-> write_controller_session_authority \o Id(<<"candidate">>),
    CandidateDetail |-> write_candidate_record
        \o Many("evaluations", write_evaluation_record),
    QueryLineage |-> write_controller_session_authority \o Id(<<"root">>),
    LineageDetail |-> Many("nodes", write_lineage_node)]
QueryReads == [
    QueryPopulation |-> read_controller_session_authority \o Id(<<"population">>),
    PopulationDetail |-> read_population_record
        \o U32(<<"committed_selection_generation">>) \o Bool(<<"retention_committed">>)
        \o U64(<<"candidate_count">>) \o read_string_list("closure_blockers"),
    QueryCandidate |-> read_controller_session_authority \o Id(<<"candidate">>),
    CandidateDetail |-> read_candidate_record
        \o List("evaluations", kMin.evaluation, kMaxProtocolElements,
                read_evaluation_record),
    QueryLineage |-> read_controller_session_authority \o Id(<<"root">>),
    LineageDetail |-> List("nodes", kMin.lineage, kMaxProtocolElements, read_lineage_node)]

ReportWrites == [
    QueryStatistics |-> write_controller_session_authority,
    StatisticsDetail |-> write_statistics \o U64(<<"revision">>) \o Epoch(<<"epoch">>)
        \o Id(<<"run">>),
    QueryAudit |-> write_controller_session_authority,
    AuditDetail |-> write_string_list("violations"),
    SelectionDecision |-> write_selection_decision \o Bool(<<"committed">>),
    RetentionDecision |-> write_retention_decision,
    PromotionRequest |-> write_promotion_request \o write_promotion_receipt]
ReportReads == [
    QueryStatistics |-> read_controller_session_authority,
    StatisticsDetail |-> read_statistics \o U64(<<"revision">>) \o Epoch(<<"epoch">>)
        \o Id(<<"run">>),
    QueryAudit |-> read_controller_session_authority,
    AuditDetail |-> read_string_list("violations"),
    SelectionDecision |-> read_selection_decision \o Bool(<<"committed">>),
    RetentionDecision |-> read_retention_decision,
    PromotionRequest |-> read_promotion_request \o read_promotion_receipt]

(* Control messages. *)

ControlWrites == [
    ShutdownCoordinator |-> write_controller_session_authority,
    ControlAck |-> Bool(<<"ok">>) \o U16(<<"code">>) \o Str(<<"detail">>),
    ErrorResponse |-> U16(<<"code">>) \o Str(<<"detail">>) \o U16(<<"in_reply_to">>),
    RevalidationApplied |-> Refs(<<"population">>) \o Enum(<<"state">>) \o Str(<<"detail">>)]
ControlReads == [
    ShutdownCoordinator |-> read_controller_session_authority,
    ControlAck |-> Bool(<<"ok">>) \o U16(<<"code">>) \o Str(<<"detail">>),
    ErrorResponse |-> U16(<<"code">>) \o Str(<<"detail">>) \o U16(<<"in_reply_to">>),
    RevalidationApplied |-> Refs(<<"population">>) \o Enum(<<"state">>) \o Str(<<"detail">>)]

(* Values encoded on their own. *)

ValueWrites == [
    evaluation_record |-> write_evaluation_record,
    selection_decision |-> write_selection_decision,
    retention_decision |-> write_retention_decision,
    promotion_request |-> write_promotion_request,
    promotion_receipt |-> write_promotion_receipt]
ValueReads == [
    evaluation_record |-> read_evaluation_record,
    selection_decision |-> read_selection_decision,
    retention_decision |-> read_retention_decision,
    promotion_request |-> read_promotion_request,
    promotion_receipt |-> read_promotion_receipt]
=============================================================================
