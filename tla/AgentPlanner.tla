---------------------------- MODULE AgentPlanner ----------------------------
(***************************************************************************)
(* The planner of the agent (agent/planner.py): which MCP tools a message  *)
(* gets, by keyword rules (RuleBasedAgentPlanner) or from an LLM whose     *)
(* answer is validated against the rules (LlmAgentPlanner).                *)
(*                                                                         *)
(* A message is the set of the keywords it contains.  A token stands for   *)
(* all the spellings, English and Korean, that occur in the same groups of *)
(* the source; a keyword that contains another one as a substring brings   *)
(* it along (Contents), as the "in" of the code does.                      *)
(*                                                                         *)
(* A plan has the payload of each tool: the arguments without a default    *)
(* that it gives, whether it also has one the tool does not take or a      *)
(* value it rejects (foreign), and the source, the namespace and the load  *)
(* balancer, "none" when missing.  Reasons, texts, and the arguments that  *)
(* have a default are left out.                                            *)
(***************************************************************************)
EXTENDS McpRegistry, FiniteSetsExt, Functions

ChatTypes == {"farmer_bnpl", "admin_copilot", "sre_copilot"}

Substrings(token) ==
  CASE token = "confirm_checkout" -> {"checkout"}
    [] token \in {"service-catalog", "catalog"} -> {"catalog", "log"}
    [] token = "service-payment" -> {"payment"}
    [] token = "service-auth" -> {"auth"}
    [] token = "postgresql" -> {"postgres"}
    [] token = "dlq" -> {"dlq"}
    [] token = "cluster=eks" -> {"eks"}
    [] token = "cluster=onprem" -> {"onprem"}
    [] token = "mutating_pod" -> {"pod"}
    [] OTHER -> {}

Contents(tokens) == tokens \cup UNION {Substrings(token) : token \in tokens}

Has(message, group) == message \cap group # {}

\* The intent of the first rule all of whose groups the message has.
FirstMatch(rules, message, default) ==
  LET hits == {i \in DOMAIN rules : \A group \in rules[i].groups : Has(message, group)}
  IN  IF hits = {} THEN default ELSE rules[Min(hits)].intent

Rule(intent, groups) == [intent |-> intent, groups |-> groups]

\* The first tests of all three classifiers: "hello" is a message that begins
\* with a greeting; a keyword of the domain takes precedence over courtesies.
Courtesy(message, domain) ==
  IF message = {} THEN "help"
  ELSE IF "hello" \in message /\ ~Has(message, domain) THEN "greeting"
  ELSE IF "thanks" \in message /\ ~Has(message, domain) THEN "thanks"
  ELSE IF "help" \in message THEN "help"
  ELSE "none"

Classify(message, domain, rules) ==
  IF Courtesy(message, domain) = "none" THEN FirstMatch(rules, message, "unsupported")
                                        ELSE Courtesy(message, domain)

DirectIntents == {"greeting", "thanks", "help", "unsupported"}
\* Mutant: help counts as a capability with tools.
DirectCapabilitiesButHelp == {"smalltalk", "unsupported"}

DirectCapabilities == {"smalltalk", "help", "unsupported"}

\* Inverse of an intent table; the two intents of smalltalk and of
\* checkout_guidance are told apart by what the message was classified as.
IntentOf(table, capability, fallback) ==
  CASE capability = "smalltalk" ->
         IF fallback \in {"greeting", "thanks"} THEN fallback ELSE "greeting"
    [] capability = "checkout_guidance" ->
         IF fallback = "checkout_confirm" THEN fallback ELSE "checkout_prepare"
    [] OTHER -> CHOOSE intent \in DOMAIN table : table[intent] = capability

Plan(server, names) == On(server, names)
When(condition, tools) == IF condition THEN tools ELSE {}

---------------------------------------------------------------------------
\* Farmer BNPL chat

FarmerKeywords == {"bnpl", "limit", "repayment", "delivery", "fertilizer", "product",
                   "smartfarm", "checkout", "buy", "application", "recommend"}

\* Mutant: any mention of the checkout confirms it.
AnyCheckoutKeywords == {"confirm_checkout", "checkout"}

ConfirmKeywords == {"confirm_checkout"}

FarmerRules == <<
  Rule("checkout_confirm", {ConfirmKeywords}),
  Rule("repayment",        {{"repayment"}}),
  Rule("delivery",         {{"delivery"}}),
  Rule("application",      {{"application", "document"}}),
  Rule("recommendation",   {{"fertilizer", "product", "smartfarm", "recommend"}}),
  Rule("checkout_prepare", {{"checkout", "buy", "cart"}}),
  Rule("credit_limit",     {{"limit"}}),
  Rule("general_bnpl",     {{"bnpl"}}) >>

classify_farmer(message) == Classify(message, FarmerKeywords, FarmerRules)

FARMER_INTENT_TO_CAPABILITY ==
  [greeting |-> "smalltalk", thanks |-> "smalltalk", help |-> "help",
   unsupported |-> "unsupported", credit_limit |-> "credit_limit_status",
   repayment |-> "repayment_guidance", delivery |-> "delivery_status",
   recommendation |-> "fertilizer_recommendation",
   checkout_prepare |-> "checkout_guidance", checkout_confirm |-> "checkout_guidance",
   application |-> "credit_application_guidance", general_bnpl |-> "bnpl_general_guidance"]

\* plan_farmer_bnpl_tools classifies the message itself.
FarmerAccountTools(intent, message) ==
  LET wants_bnpl_context == Has(message, {"bnpl", "limit", "checkout", "buy", "cart"})
      product_only == /\ intent = "recommendation"
                      /\ Has(message, {"sensor", "smartfarm"})
                      /\ "fertilizer" \notin message
  IN  When(\/ intent \in {"credit_limit", "checkout_prepare", "application", "general_bnpl"}
           \/ intent = "recommendation" /\ wants_bnpl_context,
           Plan(Farmer, {"get_user_credit_limit"})) \cup
      When(/\ intent \in {"recommendation", "application", "general_bnpl"}
           /\ ~product_only,
           Plan(Farmer, {"get_farmer_profile"})) \cup
      When(intent = "application", Plan(Farmer, {"get_required_documents"})) \cup
      When(intent = "repayment", Plan(Farmer, {"get_repayment_schedule",
                                    "get_interest_due", "get_overdue_status"})) \cup
      When(intent = "delivery", Plan(Farmer, {"get_latest_order_delivery_status"}))

FarmerShopTools(intent, message) ==
  LET sensor == Has(message, {"sensor", "smartfarm"})
      product_only == intent = "recommendation" /\ sensor /\ "fertilizer" \notin message
  IN  When(intent = "recommendation" /\ sensor, Plan(Farmer, {"search_products"})) \cup
      When(\/ intent = "recommendation" /\ ~product_only
           \/ intent = "checkout_prepare",
           Plan(Advisory, {"recommend_fertilizer_requirements"}) \cup
           Plan(Farmer, {"search_lowest_price_fertilizer"})) \cup
      When(\/ intent = "checkout_prepare"
           \/ intent = "recommendation" /\ Has(message, {"checkout", "cart"}),
           Plan(Farmer, {"prepare_bnpl_checkout_payload"})) \cup
      When(intent = "checkout_confirm", Plan(Farmer, {"create_bnpl_checkout"}))

plan_farmer(message) ==
  LET intent == classify_farmer(message)
  IN  When(intent \notin DirectIntents,
           FarmerAccountTools(intent, message) \cup FarmerShopTools(intent, message))

---------------------------------------------------------------------------
\* Admin copilot

AdminKeywords == {"bnpl", "risk", "credit_review", "overdue", "scaling", "infra",
                  "user", "disaster", "snapshot", "action"}

AdminRules == <<
  Rule("unsupported",     {{"order_anomaly"}}),
  Rule("action_priority", {{"action", "recommend"}}),
  Rule("risk_overview",   {{"risk"}, {"scaling", "infra", "status"}}),
  Rule("overdue_risk",    {{"overdue"}}),
  Rule("credit_review",   {{"credit_review", "approval"}}),
  Rule("infra_scaling",   {{"scaling", "infra", "pod", "prometheus"}}),
  Rule("disaster_risk",   {{"disaster"}}),
  Rule("snapshot",        {{"snapshot"}}),
  Rule("bnpl_summary",    {{"bnpl"}}),
  Rule("risk_overview",   {{"risk", "summary"}}) >>

classify_admin(message) == Classify(message, AdminKeywords, AdminRules)

ADMIN_INTENT_TO_CAPABILITY ==
  [greeting |-> "smalltalk", thanks |-> "smalltalk", help |-> "help",
   unsupported |-> "unsupported", overdue_risk |-> "overdue_risk_triage",
   credit_review |-> "credit_review_workload", infra_scaling |-> "infra_scaling_health",
   disaster_risk |-> "disaster_credit_impact", snapshot |-> "evidence_snapshot",
   bnpl_summary |-> "bnpl_portfolio_status", risk_overview |-> "risk_overview",
   action_priority |-> "ops_action_prioritization"]

plan_admin(message, capability) ==
  LET overview == capability \in {"risk_overview", "ops_action_prioritization"}
  IN  When(overview \/ capability = "bnpl_portfolio_status",
           Plan(Admin, {"get_bnpl_summary"})) \cup
      When(overview \/ capability = "credit_review_workload",
           Plan(Admin, {"get_credit_review_queue"})) \cup
      When(overview \/ capability = "infra_scaling_health",
           Plan(Infra, {"query_multi_cluster_prometheus"}) \cup
           Plan(Prediction, {"get_scaling_summary"})) \cup
      When(overview \/ capability = "overdue_risk_triage",
           Plan(Admin, {"get_overdue_summary", "search_overdue_users"})) \cup
      When(/\ capability \in {"overdue_risk_triage", "bnpl_portfolio_status"}
           /\ "user" \in message,
           Plan(Admin, {"search_bnpl_users"})) \cup
      When(capability = "disaster_credit_impact",
           Plan(Admin, {"simulate_disaster_credit_risk"})) \cup
      When(capability = "evidence_snapshot",
           Plan(Admin, {"create_risk_analysis_snapshot"}))

---------------------------------------------------------------------------
\* SRE copilot

SreKeywords == {"incident", "alert", "500", "error", "log", "metric", "trace", "pod",
                "crashloop", "sqs", "dlq", "route", "hikari", "db", "checkout", "pin",
                "eks", "hpa", "status"}

SreRules == <<
  Rule("unsupported",              {{"mutating", "mutating_pod"}}),
  Rule("routing_failure",          {{"route"}}),
  Rule("pod_crashloop",            {{"crashloop", "oomkilled"}}),
  Rule("db_hikaricp_issue",        {{"hikari", "db", "postgres", "connection_pool"}}),
  Rule("sqs_publish_failure",      {{"sqs", "dlq"}, {"publish"}}),
  Rule("sqs_consume_failure",      {{"sqs", "dlq"}, {"consume", "lag", "dlq"}}),
  Rule("pin_verification_missing", {{"pin"}, {"verification", "event"}}),
  Rule("checkout_500",             {{"checkout"}, {"500", "error", "incident"}}),
  Rule("pod_crashloop",            {{"pod"}, {"restart", "error", "incident"}}),
  Rule("general_incident",         {SreKeywords}) >>

classify_sre(message) == Classify(message, SreKeywords, SreRules)

SRE_INTENT_TO_CAPABILITY ==
  [greeting |-> "smalltalk", thanks |-> "smalltalk", help |-> "help",
   unsupported |-> "unsupported", checkout_500 |-> "checkout_500_analysis",
   sqs_publish_failure |-> "sqs_publish_failure_analysis",
   sqs_consume_failure |-> "sqs_consume_failure_analysis",
   pin_verification_missing |-> "pin_verification_missing_analysis",
   routing_failure |-> "edge_routing_analysis", pod_crashloop |-> "pod_crashloop_analysis",
   db_hikaricp_issue |-> "db_connection_analysis",
   general_incident |-> "general_incident_analysis"]

OnpremServices == {"service-auth", "service-payment", "service-core", "service-admin",
                   "service-batch"}
NamedServices == OnpremServices \cup {"service-catalog", "mcp-aiops-backend", "postgresql"}

\* A message names at most one service; the order of the names in the code
\* matters to messages with several.
infer_sre_service_name(message, intent) ==
  IF Has(message, NamedServices) THEN CHOOSE s \in NamedServices : s \in message
  ELSE IF intent = "sqs_consume_failure" THEN "service-payment"
  ELSE IF intent \in {"checkout_500", "sqs_publish_failure", "pin_verification_missing"}
    THEN "service-catalog"
  ELSE IF intent = "db_hikaricp_issue" /\ "postgres" \in message THEN "postgresql"
  ELSE IF "payment" \in message THEN "service-payment"
  ELSE IF "auth" \in message THEN "service-auth"
  ELSE "service-catalog"

infer_sre_edge_target(message, intent, service) ==
  IF service \in OnpremServices \/ Has(message, {"onprem", "metallb"}) THEN "onprem"
  ELSE IF intent = "checkout_500" \/ Has(message, {"eks", "catalog"}) THEN "aws_eks"
  ELSE "unknown"

infer_sre_kubernetes_source(message, service, edge) ==
  IF "cluster=eks" \in message THEN "eks"
  ELSE IF "cluster=onprem" \in message THEN "onprem"
  ELSE IF edge = "aws_eks" THEN "eks"
  ELSE IF edge = "onprem" \/ service \in OnpremServices THEN "onprem"
  ELSE "none"

infer_sre_load_balancer_name(message, intent, service, edge) ==
  IF "lb_name" \in message THEN "named"
  ELSE IF edge = "aws_eks" /\ \/ intent = "checkout_500"
                              \/ service = "service-catalog"
                              \/ Has(message, {"eks", "catalog"})
    THEN "kkpp-catalog-api"
  ELSE "none"

\* A message may name a namespace: that of the on-prem services, or one that no
\* cluster lets be read.
NamedNamespaces == {"namespace=kkpp", "namespace=other"}

infer_sre_namespace(message, service) ==
  IF "namespace=kkpp" \in message THEN "kkpp"
  ELSE IF "namespace=other" \in message THEN "other"
  ELSE CASE service = "postgresql" -> "monitoring"
         [] service = "service-catalog" -> "service-catalog"
         [] service \in OnpremServices \ {"service-batch"} -> "kkpp"
         [] OTHER -> "default"

infer_sre_queue(intent) ==
  IF intent = "pin_verification_missing" THEN "payment-pin-verified"
                                         ELSE "credit-payment-requested"

\* What the topology, Prometheus and Loki tools are asked about.
infer_sre_subject(intent, service) ==
  CASE intent = "checkout_500" -> "checkout"
    [] intent \in {"sqs_publish_failure", "sqs_consume_failure"} -> "payment"
    [] intent = "pin_verification_missing" -> "pin"
    [] OTHER -> service

build_sre_incident_context(message, intent) ==
  LET service == infer_sre_service_name(message, intent)
      edge    == infer_sre_edge_target(message, intent, service)
  IN  [service |-> service, namespace |-> infer_sre_namespace(message, service),
       edge |-> edge,
       kubernetes_source |-> infer_sre_kubernetes_source(message, service, edge),
       queue |-> infer_sre_queue(intent), subject |-> infer_sre_subject(intent, service),
       load_balancer |-> infer_sre_load_balancer_name(message, intent, service, edge)]

SreTopologyTools == {"get_topology_snapshot", "search_topology_knowledge",
                     "get_service_routing_path", "get_service_dependency_map"}
\* The tools whose payload carries the namespace and the source of the context.
SreClusterTools == {"get_k8s_pods", "get_k8s_events", "get_k8s_deployments",
                    "get_k8s_hpa", "get_k8s_service_endpoints",
                    "get_k8s_ingress_backend_mapping", "get_rollout_status",
                    "get_current_image_tags", "get_recent_deployments",
                    "create_rca_snapshot"}
SreSignalTools == {"get_alertmanager_alerts", "query_multi_cluster_prometheus",
                   "query_multi_cluster_loki", "get_argocd_application_status",
                   "get_service_trace_summary", "search_traces",
                   "search_incidents", "search_rca_history"}
OnpremEdgeTools == {"check_onprem_metallb_endpoint", "check_onprem_ingress_route"}
AwsEdgeTools == {"get_aws_vpn_tunnel_status", "get_cloudfront_origin_mapping",
                 "get_cloudfront_distribution_status"}

SreRoutingTools(context) ==
  When(context.edge = "onprem", OnpremEdgeTools) \cup
  When(context.load_balancer # "none", {"get_alb_target_health"}) \cup AwsEdgeTools

plan_sre(message, capability) ==
  IF capability \in DirectCapabilities THEN {} ELSE
  LET intent  == IntentOf(SRE_INTENT_TO_CAPABILITY, capability, "none")
      context == build_sre_incident_context(message, intent)
  IN  Plan(Infra, SreTopologyTools \cup SreClusterTools \cup SreSignalTools \cup
                  When("pod_name" \in message, {"get_pod_logs"}) \cup
                  When(intent \in {"sqs_publish_failure", "sqs_consume_failure",
                                  "pin_verification_missing"},
                       {"get_sqs_queue_attributes", "get_sqs_dlq_attributes"}) \cup
                  When(intent \in {"routing_failure", "checkout_500", "general_incident"},
                       SreRoutingTools(context)))

---------------------------------------------------------------------------
\* The payloads

PodLogs == <<Infra, "get_pod_logs">>
AlbHealth == <<Infra, "get_alb_target_health">>
ClusterTools == On(Infra, SreClusterTools)

\* The tools whose payload gets the identity of the caller, whatever the LLM wrote.
CallerTools == On(Farmer, {"get_required_documents", "get_user_credit_limit",
  "get_farmer_profile", "get_repayment_schedule", "get_interest_due",
  "get_overdue_status", "get_latest_order_delivery_status",
  "prepare_bnpl_checkout_payload", "create_bnpl_checkout"})

\* The arguments without a default that the planner writes itself, in a plan of the
\* rules and where the LLM leaves them out: the caller, what it infers from the
\* message, or a constant.  (Those that come in pairs are one.)
WrittenFor == [
  user_id          |-> CallerTools,
  items            |-> On(Farmer, {"prepare_bnpl_checkout_payload"}),
  crop_type        |-> On(Advisory, {"recommend_fertilizer_requirements"}),
  region           |-> On(Admin, {"simulate_disaster_credit_risk"}),
  target_id        |-> On(Admin, {"create_risk_analysis_snapshot"}),
  query            |-> On(Infra, {"query_prometheus", "query_loki",
                         "query_multi_cluster_prometheus", "query_multi_cluster_loki",
                         "search_topology_knowledge"}),
  service          |-> On(Infra, {"get_service_routing_path", "get_service_dependency_map"}),
  service_name     |-> On(Infra, {"get_service_trace_summary", "get_k8s_service_endpoints"}),
  deployment_name  |-> On(Infra, {"get_rollout_status"}),
  application_name |-> On(Infra, {"get_argocd_application_status"})]

WrittenArguments(tool, message) ==
  {a \in DOMAIN WrittenFor : tool \in WrittenFor[a]} \cup
  When(tool = PodLogs /\ "pod_name" \in message, {"pod_name"})

\* What the rules write.  The logs of a pod are asked for without a source.
rule_payload(tool, message, context) ==
  [arguments |-> WrittenArguments(tool, message), foreign |-> FALSE,
   source |-> IF tool \in ClusterTools THEN context.kubernetes_source ELSE "none",
   namespace |-> IF tool \in ClusterTools \cup {PodLogs} THEN context.namespace ELSE "none",
   load_balancer |-> IF tool = AlbHealth THEN context.load_balancer ELSE "none"]

\* The payloads of the bundle of a capability; only those of the SRE copilot have a
\* context.
rule_payloads(message, capability, tools) ==
  LET context == build_sre_incident_context(message,
                   IntentOf(SRE_INTENT_TO_CAPABILITY, capability, "none"))
  IN  [tool \in tools |-> rule_payload(tool, message, context)]

\* normalize_tool_payload and normalize_infraops_tool_payload keep what the LLM gave
\* and fill in what it left out.
\* Mutant: what it left out stays out.
arguments_as_given(given, tool, message) == given

normalized_arguments(given, tool, message) == given \cup WrittenArguments(tool, message)

\* Mutant: the logs of a pod are asked for without a source here, too.
filled_cluster_source(given, tool, context) ==
  IF tool \in ClusterTools /\ given = "none" THEN context.kubernetes_source ELSE given

filled_source(given, tool, context) ==
  IF tool \in ClusterTools \cup {PodLogs} /\ given = "none" THEN context.kubernetes_source
                                                            ELSE given

filled_namespace(given, tool, context) ==
  IF /\ tool \in ClusterTools \cup {PodLogs} /\ tool[2] # "get_rollout_status"
     /\ given = "none"
    THEN context.namespace ELSE given

filled_load_balancer(given, tool, context) ==
  IF tool = AlbHealth /\ given = "none" THEN context.load_balancer ELSE given

\* The context is inferred again, from the message alone.
normalize_tool_payload(given, tool, message) ==
  LET context == build_sre_incident_context(message, classify_sre(message))
  IN  [arguments |-> normalized_arguments(given.arguments, tool, message),
       foreign |-> given.foreign,
       source |-> filled_source(given.source, tool, context),
       namespace |-> filled_namespace(given.namespace, tool, context),
       load_balancer |-> filled_load_balancer(given.load_balancer, tool, context)]

---------------------------------------------------------------------------
\* The two planners

IntentTable(chat_type) == CASE chat_type = "farmer_bnpl"   -> FARMER_INTENT_TO_CAPABILITY
                            [] chat_type = "admin_copilot" -> ADMIN_INTENT_TO_CAPABILITY
                            [] chat_type = "sre_copilot"   -> SRE_INTENT_TO_CAPABILITY

classify(chat_type, message) == CASE chat_type = "farmer_bnpl"   -> classify_farmer(message)
                                  [] chat_type = "admin_copilot" -> classify_admin(message)
                                  [] chat_type = "sre_copilot"   -> classify_sre(message)

Bundle(chat_type, message, capability) ==
  CASE chat_type = "farmer_bnpl"   -> plan_farmer(message)
    [] chat_type = "admin_copilot" -> plan_admin(message, capability)
    [] chat_type = "sre_copilot"   -> plan_sre(message, capability)

\* build_direct_answer has a text for these intents and None for the others.
has_direct_answer(intent) == intent \in DirectIntents

\* What the LLM gave the tools it chose, to tell whose word a payload is.
NothingGiven == [tool \in {} |-> {}]

rule_plan(chat_type, message) ==
  LET intent     == classify(chat_type, message)
      capability == IntentTable(chat_type)[intent]
      tools      == Bundle(chat_type, message, capability)
  IN  [provider |-> "rule_based", intent |-> intent, capability |-> capability,
       tools |-> tools, payload |-> rule_payloads(message, capability, tools),
       given |-> NothingGiven, direct_answer |-> has_direct_answer(intent)]

allowed_tool_keys(chat_type) ==
  CASE chat_type = "farmer_bnpl" ->
         On(Farmer, {"get_required_documents", "get_user_credit_limit",
           "get_farmer_profile", "get_repayment_schedule", "get_interest_due",
           "get_overdue_status", "get_latest_order_delivery_status", "search_products",
           "search_lowest_price_fertilizer", "prepare_bnpl_checkout_payload",
           "create_bnpl_checkout"}) \cup
         On(Advisory, {"recommend_fertilizer_requirements"})
    [] chat_type = "sre_copilot" ->
         On(Infra, SreTopologyTools \cup SreSignalTools \cup AwsEdgeTools \cup
           (SreClusterTools \ {"get_k8s_service_endpoints",
                               "get_k8s_ingress_backend_mapping"}) \cup
           {"query_prometheus", "query_loki", "get_trace_by_id",
            "get_trace_error_spans", "get_pod_logs", "get_sqs_queue_attributes",
            "get_sqs_dlq_attributes", "get_alb_target_health"})
    [] chat_type = "admin_copilot" ->
         On(Admin, {"get_credit_review_queue", "get_credit_review_detail",
           "summarize_credit_risk", "get_bnpl_summary", "search_bnpl_users",
           "get_overdue_summary", "search_overdue_users", "get_bss_score_history",
           "simulate_disaster_credit_risk", "create_risk_analysis_snapshot"}) \cup
         On(Infra, {"query_multi_cluster_prometheus"}) \cup
         On(Prediction, {"get_scaling_summary", "get_predictive_scaling_status"})

\* validate_llm_tool_plan drops every tool it does not let through.
validated(chat_type, tools) ==
  {tool \in tools \cap allowed_tool_keys(chat_type) :
     /\ IsRegistered(tool)
     /\ chat_type # "farmer_bnpl" => PermissionOf(tool) = "READ"}

\* What the LLM answers: an intent and a capability, if any and whether they exist
\* or not, whether it needs tools, tools of any server with what it gives them (the
\* first plan of a tool counts) or no list at all, and whether it gives an answer of
\* its own.
LlmAnswers(intents, capabilities, toolPlans) ==
  [intent : intents, capability : capabilities, requires_tools : BOOLEAN,
   is_list : BOOLEAN, tool_plans : toolPlans, answer : BOOLEAN]

\* build_validated_llm_plan.  A capability of the copilots selects the bundle of
\* the backend, and the tools of the LLM are ignored.
llm_plan(chat_type, message, llm) ==
  LET fallback   == rule_plan(chat_type, message)
      table      == IntentTable(chat_type)
      known      == llm.capability \in {table[i] : i \in DOMAIN table}
      said       == IF llm.intent = "none" THEN fallback.intent ELSE llm.intent
      intent     == IF known THEN IntentOf(table, llm.capability, said) ELSE said
      capability == IF llm.capability = "none" THEN fallback.capability
                                               ELSE llm.capability
      fallen     == [fallback EXCEPT !.provider = "llm_with_rule_fallback"]
      chosen     == validated(chat_type, DOMAIN llm.tool_plans)
      given      == Restrict(llm.tool_plans, chosen)
      answer(payload, theirs, direct) ==
        [provider |-> "llm", intent |-> intent, capability |-> capability,
         tools |-> DOMAIN payload, payload |-> payload, given |-> theirs,
         direct_answer |-> direct]
  IN  IF chat_type # "farmer_bnpl" /\ known /\ llm.capability \notin DirectCapabilities
        THEN answer(rule_payloads(message, llm.capability,
                      Bundle(chat_type, message, llm.capability)), NothingGiven, FALSE)
      ELSE IF ~llm.requires_tools /\ fallback.tools = {}
        THEN answer(NothingGiven, NothingGiven, llm.answer \/ has_direct_answer(intent))
      ELSE IF llm.requires_tools /\ llm.is_list /\ chosen # {}
        THEN answer([tool \in chosen |-> normalize_tool_payload(given[tool], tool, message)],
                    given, FALSE)
      ELSE fallen
==============================================================================
