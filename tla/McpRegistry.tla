----------------------------- MODULE McpRegistry -----------------------------
(***************************************************************************)
(* The curated registry of MCP tools (mcp/registry.py) and the policy of   *)
(* each permission (mcp/policy.py).  Every other part of the program that  *)
(* names a tool, the MCP server, the planner of the agent and the          *)
(* dispatcher, repeats these names in tables of its own; the modules       *)
(* McpServer, AgentPlanner and ToolDispatcher translate those tables one   *)
(* by one, and their properties say that the tables fit together.          *)
(***************************************************************************)
EXTENDS FiniteSets

Farmer     == "farmer-bnpl-mcp"
Advisory   == "farm-advisory-mcp"
Admin      == "admin-riskops-mcp"
Infra      == "infraops-mcp"
Prediction == "prediction-scaling-mcp"

\* The settings infraops_{elk,kafka,batch}_enabled that are on, when the process
\* starts and from then on.
Features == {"elk", "kafka", "batch"}
VARIABLE features

ElkTools == {"query_elasticsearch", "search_elasticsearch_logs",
             "get_elasticsearch_cluster_health", "get_elasticsearch_index_health",
             "get_kibana_saved_objects", "create_elk_snapshot"}
KafkaTools == {"get_kafka_consumer_lag"}
BatchTools == {"get_batch_run_status"}

On(server, names) == {server} \X names

FarmerWrites == {"start_credit_application", "save_farmland_info", "save_crop_info",
                 "save_insurance_info", "submit_credit_documents",
                 "create_checkout_intent", "add_cart_item", "update_cart_item"}
FarmerReads == {"get_required_documents", "get_credit_limit_status",
                "get_user_credit_limit", "get_farmer_profile",
                "get_repayment_schedule", "get_interest_due", "get_overdue_status",
                "get_latest_order_delivery_status", "search_products",
                "search_lowest_price_fertilizer", "get_product_detail",
                "calculate_cart_total", "prepare_bnpl_checkout_payload"}
AdvisoryReads == {"get_crop_calendar", "recommend_farming_materials",
                  "recommend_fertilizer_requirements", "rank_material_options",
                  "recommend_product_bundle", "get_weather_risk",
                  "triage_crop_disease", "simulate_crop_income",
                  "simulate_season_cashflow", "translate_finance_terms_for_farmer"}
AdminReads == {"get_credit_review_queue", "get_credit_review_detail",
               "summarize_credit_risk", "get_bnpl_summary", "search_bnpl_users",
               "get_overdue_summary", "search_overdue_users",
               "get_bss_score_history", "simulate_disaster_credit_risk",
               "create_risk_analysis_snapshot"}
AdminWrites == {"send_repayment_alert", "send_overdue_alerts"}
InfraReads == ElkTools \cup KafkaTools \cup BatchTools \cup
              {"query_prometheus", "query_loki", "query_multi_cluster_prometheus",
               "query_multi_cluster_loki", "search_traces", "get_trace_by_id",
               "get_service_trace_summary", "get_trace_error_spans",
               "get_k8s_pods", "get_k8s_events", "get_k8s_deployments",
               "get_k8s_hpa", "get_k8s_service_endpoints",
               "get_k8s_ingress_backend_mapping", "get_pod_logs",
               "get_rollout_status", "check_onprem_metallb_endpoint",
               "check_onprem_ingress_route", "get_alertmanager_alerts",
               "get_sqs_queue_attributes", "get_sqs_dlq_attributes",
               "get_alb_target_health", "get_cloudfront_origin_mapping",
               "get_cloudfront_distribution_status", "get_aws_vpn_tunnel_status",
               "get_argocd_application_status", "get_current_image_tags",
               "get_recent_deployments", "get_topology_snapshot",
               "search_topology_knowledge", "get_service_routing_path",
               "get_service_dependency_map", "aggregate_daily_ops_metrics",
               "create_rca_snapshot", "search_incidents", "search_rca_history"}
PredictionReads == {"get_model_versions", "get_prediction_runs",
                    "get_prediction_metrics", "get_latest_prediction",
                    "get_actual_metrics", "get_prediction_errors",
                    "get_prediction_error_metrics", "get_scaling_events",
                    "get_scaling_summary", "get_predictive_scaling_status",
                    "create_prediction_snapshot", "create_scaling_analysis_snapshot"}

Permissions == {"READ", "WRITE", "USER_CONFIRMED_WRITE", "OPS_WRITE", "DESTRUCTIVE"}

\* MCP_SERVERS: the tools of each permission, a tool being a pair <<server, name>>.
ToolsWith(permission) ==
  CASE permission = "READ" ->
         On(Farmer, FarmerReads) \cup On(Advisory, AdvisoryReads) \cup
         On(Admin, AdminReads) \cup On(Infra, InfraReads) \cup
         On(Prediction, PredictionReads)
    [] permission = "WRITE" -> On(Farmer, FarmerWrites) \cup On(Admin, AdminWrites)
    [] permission = "USER_CONFIRMED_WRITE" -> On(Farmer, {"create_bnpl_checkout"})
    [] permission = "OPS_WRITE" -> On(Infra, {"scale_deployment", "restart_pod"})
    [] permission = "DESTRUCTIVE" -> On(Infra, {"delete_pod", "run_kubectl_exec"})

Tools == UNION {ToolsWith(p) : p \in Permissions}

tool_permission == [tool \in Tools |-> CHOOSE p \in Permissions : tool \in ToolsWith(p)]
PermissionOf(tool) == tool_permission[tool]

\* The names the settings disable, on whichever server they are.
DisabledNames ==
  (IF "elk" \in features THEN {} ELSE ElkTools) \cup
  (IF "kafka" \in features THEN {} ELSE KafkaTools) \cup
  (IF "batch" \in features THEN {} ELSE BatchTools)

list_mcp_tools == {tool \in Tools : tool[2] \notin DisabledNames}

\* _resolve_registered_tool and resolve_registered_tool raise for any other tool.
IsRegistered(tool) == tool \in Tools /\ tool[2] \notin DisabledNames

\* resolve_tool_policy: whether the tool runs, and the status its call is given.
execution_policy(permission) ==
  CASE permission = "READ" -> "ALLOWED"
    [] permission \in {"WRITE", "USER_CONFIRMED_WRITE"} -> "BLOCKED_UNTIL_CONFIRMED"
    [] permission = "OPS_WRITE" -> "BLOCKED_UNTIL_APPROVED"
    [] permission = "DESTRUCTIVE" -> "BLOCKED"

call_status(permission) ==
  CASE execution_policy(permission) = "ALLOWED" -> "SUCCESS"
    [] execution_policy(permission) = "BLOCKED" -> "BLOCKED"
    [] OTHER -> "APPROVAL_REQUIRED"
==============================================================================
