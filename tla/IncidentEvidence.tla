-------------------------- MODULE IncidentEvidence --------------------------
(***************************************************************************)
(* What the READ tools of an SRE plan answer (infraops/service.py), and    *)
(* what is concluded from the answers: the verdict on each boundary of the *)
(* request path (agent/context_bundle.py) and the candidates for the root  *)
(* cause (alertmanager_agent/service.py).                                  *)
(*                                                                         *)
(* An answer is the words of its keys and the words of its values: the     *)
(* verdicts search the values only, the candidates the JSON text of both,  *)
(* without the request and the raw answer.  A log line is the set of its   *)
(* words; "no healthy upstream" is one word that contains "healthy".       *)
(***************************************************************************)
EXTENDS Naturals, FiniteSets, Sequences

TopologyTools == {"get_topology_snapshot", "search_topology_knowledge",
                  "get_service_routing_path", "get_service_dependency_map"}
QueueTools == {"get_sqs_queue_attributes", "get_sqs_dlq_attributes"}

\* The state of what the tools look at.  "failing" are the tools whose read raises.
World(logs, jobs, traces, vpn, metallb, ingress, endpoints, pods, rollout, gitops,
      queue, edge, failing) ==
  [logs |-> logs, jobs |-> jobs, traces |-> traces, vpn |-> vpn, metallb |-> metallb,
   ingress |-> ingress, endpoints |-> endpoints, pods |-> pods, rollout |-> rollout,
   gitops |-> gitops, queue |-> queue, edge |-> edge, failing |-> failing]

---------------------------------------------------------------------------
\* The tools

Json(keys, values) == [keys |-> keys, values |-> values]
NoAnswer == Json({}, {})

\* The labels that survive the aggregation of the planner's query: the pool of
\* HikariCP for a database alert, the jobs for "up".
MetricLabels(intent, service, world) ==
  CASE intent = "db_hikaricp_issue" /\ service # "postgresql" -> {"hikari"}
    [] intent = "general_incident" -> world.jobs
    [] OTHER -> {}

\* Each source of a multi-cluster query has a status and an error of its own, so the
\* JSON text of a good answer contains "error"; a vector has a value.
ObservabilityAnswer(tool, intent, service, world) ==
  CASE tool = "query_multi_cluster_prometheus" ->
         LET labels == MetricLabels(intent, service, world)
         IN  Json({"error", "status"} \cup (IF labels = {} THEN {} ELSE {"value"}),
                  {"success"} \cup labels)
    [] tool = "query_multi_cluster_loki" ->
         Json({"error", "status", "values"}, {"success"} \cup world.logs)
    [] tool = "get_pod_logs" -> Json({"logs"}, world.logs)
    [] tool = "search_traces" -> Json(IF world.traces = {} THEN {} ELSE {"duration"},
                                      world.traces)
    [] tool = "get_service_trace_summary" -> Json({"error", "duration"}, world.traces)
    [] OTHER -> NoAnswer

\* A pod has the condition "Ready" and a deployment the condition "Progressing"
\* whatever their status; "Scaled up" is an event.
KubernetesAnswer(tool, world) ==
  CASE tool = "get_k8s_pods" ->
         Json({"items", "status"}, {"running", "ready"} \cup
           (CASE world.pods = "running"   -> {"true"}
              [] world.pods = "unready"   -> {"false"}
              [] world.pods = "crashloop" -> {"false", "crashloopbackoff"}))
    [] tool = "get_k8s_events" ->
         Json({"items"}, (IF world.pods = "crashloop" THEN {"failed"} ELSE {}) \cup
                         (IF world.rollout = "complete" THEN {} ELSE {"up"}))
    [] tool = "get_k8s_deployments" -> Json({"items"}, {"available", "progressing"})
    [] tool = "get_rollout_status" ->
         Json({"rollout_status"}, {"progressing"} \cup
           (CASE world.rollout = "complete" -> {"healthy"}
              [] world.rollout = "stuck"    -> {"degraded"}
              [] OTHER -> {}))
    [] tool = "get_k8s_service_endpoints" ->
         Json({"status"}, {IF world.endpoints = "ready" THEN "healthy" ELSE "degraded"})
    [] tool = "get_k8s_ingress_backend_mapping" ->
         Json({"status"}, {IF world.ingress = "no_rule" THEN "degraded" ELSE "healthy"})
    [] OTHER -> NoAnswer

\* The checks from the pod itself: a connection to MetalLB, a request to the ingress.
NetworkAnswer(tool, world) ==
  CASE tool = "check_onprem_metallb_endpoint" ->
         Json({"reachable", "status", "error", "timeout"},
              IF world.metallb = "reachable" THEN {"true", "healthy"}
                                             ELSE {"false", "degraded"})
    [] tool = "check_onprem_ingress_route" ->
         Json({"reachable", "healthy", "status", "error", "timeout", "http"},
           CASE world.ingress = "routed"      -> {"true", "healthy", "200"}
             [] world.ingress = "failing_500" -> {"true", "false", "degraded", "500"}
             [] world.ingress = "no_upstream" ->
                  {"true", "false", "degraded", "503", "no healthy upstream"}
             [] world.ingress = "no_rule"     -> {"true", "false", "degraded", "404"}
             [] world.ingress = "unreachable" -> {"false", "degraded"})
    [] OTHER -> NoAnswer

\* A failed read of the tunnels is answered with a note that says so.
VpnAnswer(world) ==
  CASE world.vpn = "no_sdk"      -> Json({"note"}, {})
    [] world.vpn = "read_failed" -> Json({"note"}, {"failed"})
    [] world.vpn = "up"       -> Json({"down_tunnel_count"}, {"up", "healthy"})
    [] world.vpn = "degraded" -> Json({"down_tunnel_count"}, {"up", "down", "degraded"})
    [] world.vpn = "down"     -> Json({"down_tunnel_count"}, {"down", "failed"})

\* The other AWS reads: what is not configured is answered with a note; the attributes
\* of a queue have a visibility timeout.
AwsAnswer(tool, world) ==
  LET dlq == IF tool = "get_sqs_dlq_attributes" THEN {"dlq"} ELSE {}
  IN  CASE tool \in QueueTools /\ world.queue = "unconfigured" ->
             Json({"note"}, {"sqs"} \cup dlq)
        [] tool \in QueueTools /\ world.queue = "empty" ->
             Json({"messages", "timeout"}, {"sqs"} \cup dlq)
        [] tool \in QueueTools /\ world.queue = "backlog" ->
             Json({"messages", "timeout", "value"}, {"sqs"} \cup dlq)
        [] tool = "get_alb_target_health" /\ world.edge # "unconfigured" ->
             Json({"health"}, {world.edge})
        [] tool = "get_cloudfront_distribution_status" /\ world.edge # "unconfigured" ->
             Json({"status"}, {"deployed"})
        [] OTHER -> NoAnswer

GitopsAnswer(world) ==
  CASE world.gitops = "synced"    -> Json({"sync"}, {"synced", "healthy"})
    [] world.gitops = "outofsync" -> Json({"sync"}, {"outofsync"})
    [] OTHER -> Json({"note"}, {})

Answer(tool, intent, service, world) ==
  CASE tool \in {"query_multi_cluster_prometheus", "query_multi_cluster_loki",
                 "get_pod_logs", "search_traces", "get_service_trace_summary"} ->
         ObservabilityAnswer(tool, intent, service, world)
    [] tool \in {"get_k8s_pods", "get_k8s_events", "get_k8s_deployments",
                 "get_rollout_status", "get_k8s_service_endpoints",
                 "get_k8s_ingress_backend_mapping"} -> KubernetesAnswer(tool, world)
    [] tool \in {"check_onprem_metallb_endpoint", "check_onprem_ingress_route"} ->
         NetworkAnswer(tool, world)
    [] tool = "get_argocd_application_status" -> GitopsAnswer(world)
    [] tool = "get_aws_vpn_tunnel_status" -> VpnAnswer(world)
    [] OTHER -> AwsAnswer(tool, world)

\* The results of the tools of a plan; the snapshot is not part of the bundle.
Results(tools, intent, service, world) ==
  [tool \in tools \ {"create_rca_snapshot"} |->
     [ok |-> tool \notin world.failing,
      answer |-> IF tool \in world.failing THEN NoAnswer
                 ELSE Answer(tool, intent, service, world)]]

---------------------------------------------------------------------------
\* The verdict on the boundaries (context_bundle.py)

CROSS_DOMAIN_SCENARIOS == [
  edge_to_eks_routing    |-> <<"cloudfront", "aws_alb", "aws_target_group", "eks_ingress",
                               "k8s_service", "pod_application">>,
  edge_to_onprem_routing |-> <<"cloudfront", "aws_alb", "aws_target_group", "vpn_route",
                               "onprem_metallb", "onprem_ingress", "pod_application">>,
  direct_onprem_ingress_routing |-> <<"dns", "onprem_metallb", "onprem_ingress",
                                      "k8s_service", "pod_application">>,
  onprem_to_sqs |-> <<"pod_application", "dns", "vpn_route", "aws_sqs">>,
  general_cross_domain |-> <<"topology", "pod_application", "network", "aws_service">>]

LogReaders == {"query_multi_cluster_loki", "query_loki"}
PathTools == {"get_topology_snapshot", "search_topology_knowledge",
              "get_service_routing_path"}

BOUNDARY_TOOL_MAP == [
  cloudfront |-> {"get_cloudfront_origin_mapping", "get_cloudfront_distribution_status"},
  aws_alb |-> {"get_alb_target_health"},
  aws_target_group |-> {"get_alb_target_health"},
  vpn_route |-> PathTools \cup {"get_aws_vpn_tunnel_status"},
  onprem_metallb |-> {"get_topology_snapshot", "get_service_routing_path",
                      "check_onprem_metallb_endpoint"},
  onprem_ingress |-> {"get_service_routing_path", "get_k8s_events",
                      "query_multi_cluster_loki", "check_onprem_ingress_route",
                      "get_k8s_ingress_backend_mapping"},
  eks_ingress |-> {"get_service_routing_path", "get_alb_target_health", "get_k8s_events"},
  k8s_service |-> {"get_k8s_pods", "get_k8s_events", "get_k8s_deployments",
                   "get_k8s_service_endpoints"},
  pod_application |-> LogReaders \cup {"get_pod_logs", "search_traces",
                        "get_service_trace_summary", "get_trace_error_spans"},
  dns |-> LogReaders \cup {"get_k8s_events", "get_service_routing_path"},
  aws_sqs |-> QueueTools,
  topology |-> TopologyTools,
  network |-> PathTools,
  aws_service |-> QueueTools \cup {"get_alb_target_health", "get_aws_vpn_tunnel_status",
                    "get_cloudfront_origin_mapping", "get_cloudfront_distribution_status"}]

\* infer_cross_domain_scenario.  The knowledge base tells whether the service is
\* reached directly; fluent and tempo occur in no message of an alert.
infer_cross_domain_scenario(message, tools, direct) ==
  IF "get_aws_vpn_tunnel_status" \in tools \/ message \cap {"vpn", "tunnel"} # {}
    THEN "edge_to_onprem_routing"
  ELSE IF direct THEN "direct_onprem_ingress_routing"
  ELSE IF message \cap {"sqs", "dlq", "pin"} # {} THEN "onprem_to_sqs"
  ELSE IF message \cap {"metallb", "onprem"} # {} THEN "edge_to_onprem_routing"
  ELSE IF \/ tools \cap {"get_cloudfront_origin_mapping", "get_alb_target_health"} # {}
          \/ message \cap {"cloudfront", "route", "eks", "checkout"} # {}
    THEN IF message \cap {"auth", "service-auth", "service-core", "service-admin"} # {}
           THEN "edge_to_onprem_routing" ELSE "edge_to_eks_routing"
  ELSE "general_cross_domain"

\* A pattern is a set of words that one answer has in its values.
DEGRADED_PATTERNS == {{w} : w \in {"unhealthy", "degraded", "failed", "down", "servfail",
  "crashloopbackoff", "timeout", "exception", "error", "500", "503", "5xx"}}

\* Three of the patterns name a key: no answer has it among its values.
BOUNDARY_DEGRADED_PATTERNS == [
  dns |-> {{"servfail"}},
  vpn_route |-> {{"degraded"}, {"failed"}, {"down"}},
  onprem_metallb |-> {{"status", "degraded"}, {"reachable", "false"}},
  onprem_ingress |-> {{"status", "degraded"}, {"reachable", "false"},
                      {"healthy", "false"}, {"ingress", "5xx"}, {"ingress", "error"}},
  k8s_service |-> {{"status", "degraded"}, {"not ready"}, {"unavailable"},
                   {"crashloopbackoff"}}]

HEALTHY_PATTERNS == {"healthy", "no healthy upstream", "running", "ready", "up", "active",
                     "deployed", "synced", "success"}

Patterns(boundary) == IF boundary \in DOMAIN BOUNDARY_DEGRADED_PATTERNS
                        THEN BOUNDARY_DEGRADED_PATTERNS[boundary] ELSE DEGRADED_PATTERNS

\* assess_health_evidence
assess_health(boundary, results, tools) ==
  LET values(tool) == results[tool].answer.values
  IN  IF \E tool \in tools : ~results[tool].ok THEN "unknown"
      ELSE IF \E tool \in tools, pattern \in Patterns(boundary) : pattern \subseteq values(tool)
        THEN "degraded"
      ELSE IF \E tool \in tools : values(tool) \cap HEALTHY_PATTERNS # {} THEN "healthy"
      ELSE "unknown"

\* assess_boundary_evidence: what is known of the topology is no evidence of health.
assess_boundary_evidence(boundary, results) ==
  LET tools  == DOMAIN results \cap BOUNDARY_TOOL_MAP[boundary]
      health == tools \ TopologyTools
  IN  IF health # {} THEN assess_health(boundary, results, health)
      ELSE IF tools = {} \/ \E tool \in tools : ~results[tool].ok THEN "unknown"
      ELSE "known_path"

Boundaries(scenario) == {CROSS_DOMAIN_SCENARIOS[scenario][i] :
                           i \in DOMAIN CROSS_DOMAIN_SCENARIOS[scenario]}
build_failure_boundary_candidates(scenario, results) ==
  [boundary \in Boundaries(scenario) |-> assess_boundary_evidence(boundary, results)]

---------------------------------------------------------------------------
\* The candidates for the root cause (alertmanager_agent/service.py)

APPLICATION_SIGNAL_TOOLS == [
  logs |-> LogReaders \cup {"get_pod_logs"},
  metrics |-> {"query_multi_cluster_prometheus", "query_prometheus"},
  traces |-> {"get_service_trace_summary", "search_traces", "get_trace_by_id",
              "get_trace_error_spans"},
  deployment_changes |-> {"get_recent_deployments", "get_rollout_status",
                          "get_argocd_application_status", "get_current_image_tags"},
  aws |-> QueueTools,
  network |-> {"get_aws_vpn_tunnel_status", "check_onprem_metallb_endpoint",
               "check_onprem_ingress_route"}]
Sections == DOMAIN APPLICATION_SIGNAL_TOOLS

\* A sample of Prometheus is a pair with a timestamp, so every vector has a positive
\* value (has_positive_metric_value).
HasPositiveValue(answer) == "value" \in answer.keys

Sign(type, evidence, condition) == IF condition THEN {<<type, evidence>>} ELSE {}

\* What detect_application_findings finds; the evidence tells apart two findings of
\* one type.
detect_application_findings(section, answer) ==
  LET text == answer.keys \cup answer.values
      any(words) == text \cap words # {}
  IN  Sign("db_hikaricp", "connection error",
           /\ any({"hikari", "jdbc", "postgres"})
           /\ any({"timeout", "refused", "failed", "error"})) \cup
      Sign("postgres_connection_saturation", "connections",
           section = "metrics" /\ any({"max_connections"}) /\ HasPositiveValue(answer)) \cup
      Sign("sqs_publish", "send failure",
           /\ any({"sqs"}) /\ any({"publish"})
           /\ any({"failed", "error", "exception", "timeout"})) \cup
      Sign("sqs_consume", "backlog",
           \/ /\ any({"sqs", "dlq"}) /\ any({"consume", "lag", "dlq"})
              /\ any({"failed", "error", "timeout", "degraded"})
           \/ section = "aws" /\ any({"messages", "dlq"}) /\ HasPositiveValue(answer)) \cup
      Sign("application_error", "http 5xx",
           \/ any({"5xx"})
           \/ any({"500"}) /\ any({"error", "exception", "http", "status"})) \cup
      Sign("application_error", "exception", any({"exception"})) \cup
      Sign("trace_latency", "slow span",
           section = "traces" /\ any({"duration", "timeout"})) \cup
      Sign("deployment_regression", "rollout",
           /\ section = "deployment_changes"
           /\ any({"outofsync", "degraded", "progressing"}))

Finding(type, section, tool, evidence) ==
  [type |-> type, section |-> section, tool |-> tool, evidence |-> evidence]

\* build_application_signal_summary: failed tools have no findings.
ApplicationFindings(results) ==
  UNION {{Finding(f[1], section, tool, f[2]) :
              f \in IF /\ tool \in APPLICATION_SIGNAL_TOOLS[section]
                       /\ results[tool].ok
                      THEN detect_application_findings(section, results[tool].answer)
                      ELSE {}} :
           section \in Sections, tool \in DOMAIN results}

\* The order in which the candidates are built.
CandidateOrder == [predictive_under_prediction |-> 1, vpn_tunnel_degraded |-> 2,
  postgres_connection_saturation |-> 3, pod_waiting_state |-> 4, db_hikaricp |-> 5,
  sqs_publish |-> 6, sqs_consume |-> 7, application_error |-> 8, trace_latency |-> 9,
  deployment_regression |-> 10]

RuntimeTypes == {"application_error", "trace_latency", "db_hikaricp", "sqs_publish",
                 "sqs_consume"}

\* Mutant: the state of a pod is weighed like any other finding.
ForcedHighButPods == {"predictive_under_prediction", "vpn_tunnel_degraded",
                      "postgres_connection_saturation"}

ForcedHigh == {"predictive_under_prediction", "vpn_tunnel_degraded",
               "postgres_connection_saturation", "pod_waiting_state"}

infer_candidate_confidence(findings) ==
  IF Cardinality({f.section : f \in findings}) >= 2 THEN "high"
  ELSE IF Cardinality(findings) >= 2 THEN "medium"
  ELSE "low"

\* A change of a deployment counts only next to a runtime error.
build_root_cause_candidate(type, findings) ==
  IF type \in ForcedHigh THEN "high"
  ELSE IF type = "deployment_regression" /\ {f.type : f \in findings} \cap RuntimeTypes = {}
    THEN "low"
  ELSE infer_candidate_confidence({f \in findings : f.type = type})

candidate_confidence_rank == [high |-> 3, medium |-> 2, low |-> 1]

\* The sort is stable; confidence is a function of the types.
IsBefore(type, other, confidence) ==
  LET rank(t) == candidate_confidence_rank[confidence[t]]
  IN  \/ rank(type) > rank(other)
      \/ rank(type) = rank(other) /\ CandidateOrder[type] < CandidateOrder[other]

\* The place of each candidate that is shown: low confidence is not, and three are.
build_root_cause_candidates(findings) ==
  LET confidence == [type \in {f.type : f \in findings} |->
                       build_root_cause_candidate(type, findings)]
      visible == {type \in DOMAIN confidence : confidence[type] # "low"}
      place == [type \in visible |->
                  1 + Cardinality({other \in visible : IsBefore(other, type, confidence)})]
  IN  [type \in {v \in visible : place[v] <= 3} |-> place[type]]
==============================================================================
