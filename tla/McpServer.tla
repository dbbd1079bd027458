------------------------------ MODULE McpServer ------------------------------
(***************************************************************************)
(* The FastMCP server of mcp/server.py: one wrapper per tool, which        *)
(* resolves its tool in the registry, runs the operation of a service,     *)
(* answers and writes an audit record.  The wrappers are grouped here by   *)
(* the helper they go through, since the helper decides what the caller    *)
(* gets and what the audit says.  Payloads are abstracted away.            *)
(***************************************************************************)
EXTENDS McpRegistry

VARIABLE call  \* the last call: what was answered and what was audited

mcpVars == <<features, call>>

NoCall == [kind |-> "none"]

---------------------------------------------------------------------------
\* The wrappers, in the order of the file.

RegistryWrappers == {"list_mcp_servers", "list_mcp_tools", "get_mcp_tool_policy",
                     "preview_mcp_tool_execution"}

\* Through call_farmer_bnpl_tool:
FarmerApplicationWrappers == {"start_credit_application", "save_farmland_info",
  "save_crop_info", "save_insurance_info", "get_required_documents",
  "submit_credit_documents"}
FarmerAccountWrappers == {"get_credit_limit_status", "get_user_credit_limit",
  "get_farmer_profile", "get_repayment_schedule", "get_interest_due",
  "get_overdue_status", "get_latest_order_delivery_status"}
FarmerShopWrappers == {"search_products", "search_lowest_price_fertilizer",
  "get_product_detail", "calculate_cart_total", "prepare_bnpl_checkout_payload",
  "create_checkout_intent", "add_cart_item", "update_cart_item"}
FarmerCheckoutWrapper == {"create_bnpl_checkout"}

\* Through call_farm_advisory_tool:
AdvisoryMaterialWrappers == {"get_crop_calendar", "recommend_farming_materials",
  "recommend_fertilizer_requirements", "rank_material_options",
  "recommend_product_bundle"}
AdvisoryRiskWrappers == {"get_weather_risk", "triage_crop_disease",
  "simulate_crop_income", "simulate_season_cashflow",
  "translate_finance_terms_for_farmer"}

\* Through call_admin_riskops_tool:
AdminReviewWrappers == {"get_credit_review_queue", "get_credit_review_detail",
  "summarize_credit_risk", "get_bnpl_summary", "search_bnpl_users",
  "get_overdue_summary", "search_overdue_users"}
AdminRiskWrappers == {"get_bss_score_history", "simulate_disaster_credit_risk",
  "create_risk_analysis_snapshot", "send_repayment_alert", "send_overdue_alerts"}

\* Through call_prediction_scaling_tool:
PredictionMetricWrappers == {"get_model_versions", "get_prediction_runs",
  "get_prediction_metrics", "get_latest_prediction", "get_actual_metrics",
  "get_prediction_errors", "get_prediction_error_metrics"}
PredictionScalingWrappers == {"get_scaling_events", "get_scaling_summary",
  "get_predictive_scaling_status", "create_prediction_snapshot",
  "create_scaling_analysis_snapshot"}

\* Through call_infraops_read_tool, or with the same steps written out:
TopologyWrappers == {"get_topology_snapshot", "search_topology_knowledge",
  "get_service_routing_path", "get_service_dependency_map"}
MetricAndLogWrappers == {"query_prometheus", "query_loki",
  "query_multi_cluster_prometheus"}
TraceWrappers == {"query_multi_cluster_loki", "search_traces", "get_trace_by_id",
  "get_service_trace_summary", "get_trace_error_spans"}
WorkloadWrappers == {"get_k8s_pods", "get_k8s_events", "get_k8s_deployments"}
RoutingWrappers == {"get_k8s_hpa", "get_k8s_service_endpoints",
  "get_k8s_ingress_backend_mapping", "get_pod_logs", "get_rollout_status"}
EdgeWrappers == {"check_onprem_metallb_endpoint", "check_onprem_ingress_route",
  "get_alertmanager_alerts", "get_sqs_queue_attributes", "get_sqs_dlq_attributes"}
AwsWrappers == {"get_alb_target_health", "get_cloudfront_origin_mapping",
  "get_cloudfront_distribution_status", "get_aws_vpn_tunnel_status",
  "get_argocd_application_status", "get_current_image_tags"}
RolloutWrappers == {"get_recent_deployments", "get_kafka_consumer_lag",
  "get_batch_run_status"}
ElkSearchWrappers == {"query_elasticsearch", "search_elasticsearch_logs",
  "get_elasticsearch_cluster_health"}
ElkIndexWrappers == {"get_elasticsearch_index_health", "get_kibana_saved_objects",
  "create_elk_snapshot"}
SnapshotWrappers == {"create_rca_snapshot", "aggregate_daily_ops_metrics"}
HistoryWrappers == {"search_incidents", "search_rca_history"}

\* A preview of the request, audited with a status written in the wrapper:
OpsWriteWrappers == {"scale_deployment", "restart_pod"}
DestructiveWrappers == {"delete_pod", "run_kubectl_exec"}

PolicyWrapped ==
  On(Farmer, FarmerApplicationWrappers \cup FarmerAccountWrappers \cup
             FarmerShopWrappers \cup FarmerCheckoutWrapper) \cup
  On(Admin, AdminReviewWrappers \cup AdminRiskWrappers)

ReadWrapped ==
  On(Advisory, AdvisoryMaterialWrappers \cup AdvisoryRiskWrappers) \cup
  On(Prediction, PredictionMetricWrappers \cup PredictionScalingWrappers) \cup
  On(Infra, TopologyWrappers \cup MetricAndLogWrappers \cup TraceWrappers \cup
            WorkloadWrappers \cup RoutingWrappers \cup EdgeWrappers \cup
            AwsWrappers \cup RolloutWrappers \cup ElkSearchWrappers \cup
            ElkIndexWrappers \cup SnapshotWrappers \cup HistoryWrappers)

PreviewWrapped == On(Infra, OpsWriteWrappers \cup DestructiveWrappers)

Wrapped == PolicyWrapped \cup ReadWrapped \cup PreviewWrapped

\* The end of create_mcp_server: the tools of a feature that is off are removed.
Exposed == {tool \in Wrapped : tool[2] \notin DisabledNames}

---------------------------------------------------------------------------
\* What a wrapper answers when its operation returns, and the status it audits.

\* Mutant: only a BLOCKED tool is kept from running.
policy_answer_unless_blocked(tool) ==
  IF execution_policy(PermissionOf(tool)) = "BLOCKED" THEN "preview" ELSE "result"

policy_answer(tool) ==
  IF execution_policy(PermissionOf(tool)) = "ALLOWED" THEN "result" ELSE "preview"

Answer(tool) == CASE tool \in PolicyWrapped  -> policy_answer(tool)
                  [] tool \in ReadWrapped    -> "result"
                  [] tool \in PreviewWrapped -> "preview"

AuditStatus(tool) ==
  CASE tool \in PolicyWrapped -> call_status(PermissionOf(tool))
    [] tool \in ReadWrapped   -> "SUCCESS"
    [] tool \in On(Infra, OpsWriteWrappers)    -> "APPROVAL_REQUIRED"
    [] tool \in On(Infra, DestructiveWrappers) -> "BLOCKED"

\* An exception of the audit is logged and swallowed: no record, same answer.
AuditRecords(status) == {{status}, {}}

\* A call of an exposed tool.  Resolving happens before the try block, so a tool
\* the registry does not know is an error that leaves no record.
CallTool ==
  /\ call = NoCall
  /\ \E tool \in Exposed, raises \in BOOLEAN :
       \E audit \in AuditRecords(IF raises THEN "FAILED" ELSE AuditStatus(tool)) :
         call' = IF ~IsRegistered(tool)
                 THEN [kind |-> "tool", tool |-> tool, answer |-> "unregistered",
                       audit |-> {}]
                 ELSE [kind |-> "tool", tool |-> tool, audit |-> audit,
                       answer |-> IF raises THEN "error" ELSE Answer(tool)]
  /\ UNCHANGED features

\* preview_mcp_tool_execution: says whether the tool would run, runs nothing, and
\* audits the status of the policy as if it had been called.
PreviewToolExecution ==
  /\ call = NoCall
  /\ \E tool \in list_mcp_tools :
       \E audit \in AuditRecords(call_status(PermissionOf(tool))) :
         call' = [kind |-> "preview", tool |-> tool, answer |-> "preview",
                  will_execute |-> execution_policy(PermissionOf(tool)) = "ALLOWED",
                  audit |-> audit]
  /\ UNCHANGED features

\* The next call: calls share nothing but the audit table.
EndCall == call # NoCall /\ call' = NoCall /\ UNCHANGED features

McpInit == features \in SUBSET Features /\ call = NoCall
McpNext == CallTool \/ PreviewToolExecution \/ EndCall
McpSpec == McpInit /\ [][McpNext]_mcpVars

---------------------------------------------------------------------------
\* The three tables agree: whatever the settings, the server exposes exactly the
\* tools its registry lists (list_mcp_tools is what clients plan with), every one
\* of them resolves when it is called, and a tool that may change something is
\* answered with a preview.  The status audited is the one its permission has in
\* the policy table, also where the wrapper writes it out (server.py:1422, :2404).
\* The tools a preview says would execute are the ones whose call gives a result
\* (server.py:187 against the wrapper of the same tool).
CallsMatchTheirPolicy ==
  /\ Exposed = list_mcp_tools
  /\ call.kind = "tool" =>
       LET permission == PermissionOf(call.tool)
       IN  /\ call.answer \in {"error", IF execution_policy(permission) = "ALLOWED"
                                         THEN "result" ELSE "preview"}
           /\ call.answer # "error" => call.audit \subseteq {call_status(permission)}
           /\ call.answer = "error" => call.audit \subseteq {"FAILED"}
  /\ call.kind = "preview" => (call.will_execute <=> Answer(call.tool) = "result")
==============================================================================
