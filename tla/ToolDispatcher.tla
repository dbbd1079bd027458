---------------------------- MODULE ToolDispatcher ---------------------------
(***************************************************************************)
(* The dispatcher of the agent (agent/dispatcher.py).  One dispatcher      *)
(* serves all request threads of the process: it runs the operation a      *)
(* tool is connected to, and it keeps the answers of some READ tools of    *)
(* the farmer chat for a while (_tool_cache, under a lock).                *)
(*                                                                         *)
(* The state machine is the cache, for the payloads of one tool: the keys. *)
(* What a read returned is represented by the time it was stored.          *)
(***************************************************************************)
EXTENDS McpRegistry, Integers

CONSTANTS Threads,   \* the request threads
          Keys,      \* the cache keys: tool and payload
          Ttl,       \* FARMER_BNPL_TOOL_CACHE_TTL_SECONDS of the tool
          MaxClock   \* bound of the clock, for TLC

ASSUME DispatcherAssumption == Ttl \in Nat \ {0} /\ MaxClock \in Nat

---------------------------------------------------------------------------
\* _resolve_operation: the tools the dispatcher can run.

FarmerOperations == On(Farmer, {"get_user_credit_limit", "get_farmer_profile",
  "get_required_documents", "get_repayment_schedule", "get_interest_due",
  "get_overdue_status", "get_latest_order_delivery_status", "search_products",
  "search_lowest_price_fertilizer", "prepare_bnpl_checkout_payload"}) \cup
  On(Advisory, {"recommend_fertilizer_requirements"})

AdminOperations == On(Admin, {"get_bnpl_summary", "get_credit_review_queue",
  "get_credit_review_detail", "summarize_credit_risk", "get_overdue_summary",
  "search_overdue_users", "search_bnpl_users", "get_bss_score_history",
  "simulate_disaster_credit_risk", "create_risk_analysis_snapshot",
  "send_repayment_alert", "send_overdue_alerts"}) \cup
  On(Prediction, {"get_scaling_summary", "get_predictive_scaling_status"})

InfraOperations == On(Infra, {"query_prometheus", "query_loki",
  "query_multi_cluster_prometheus", "query_multi_cluster_loki", "search_traces",
  "get_trace_by_id", "get_service_trace_summary", "get_trace_error_spans",
  "get_k8s_pods", "get_k8s_events", "get_k8s_deployments", "get_k8s_hpa",
  "get_k8s_service_endpoints", "get_k8s_ingress_backend_mapping", "get_pod_logs",
  "get_rollout_status", "check_onprem_metallb_endpoint", "check_onprem_ingress_route",
  "get_alertmanager_alerts", "get_sqs_queue_attributes", "get_sqs_dlq_attributes",
  "get_alb_target_health", "get_cloudfront_origin_mapping",
  "get_cloudfront_distribution_status", "get_aws_vpn_tunnel_status",
  "get_argocd_application_status", "get_current_image_tags", "get_recent_deployments",
  "get_topology_snapshot", "search_topology_knowledge", "get_service_routing_path",
  "get_service_dependency_map", "create_rca_snapshot", "search_incidents",
  "search_rca_history"})

Operations == FarmerOperations \cup AdminOperations \cup InfraOperations

\* resolve_tool_cache_ttl_seconds is None for every other tool.
CachedTools == On(Farmer, {"get_required_documents", "get_farmer_profile",
  "get_user_credit_limit", "get_repayment_schedule", "get_interest_due",
  "get_overdue_status", "get_latest_order_delivery_status", "search_products",
  "search_lowest_price_fertilizer"})

IsCached(tool) == tool \in CachedTools /\ PermissionOf(tool) = "READ"

\* The arguments without a default in the signatures of the operations.  (Those that
\* come in pairs are one.)
RequiredBy == [
  user_id          |-> On(Farmer, {"get_user_credit_limit", "get_farmer_profile",
                         "get_required_documents", "get_repayment_schedule",
                         "get_interest_due", "get_overdue_status",
                         "get_latest_order_delivery_status",
                         "prepare_bnpl_checkout_payload"}) \cup
                       On(Admin, {"summarize_credit_risk", "get_bss_score_history"}),
  items            |-> On(Farmer, {"prepare_bnpl_checkout_payload"}),
  crop_type        |-> On(Advisory, {"recommend_fertilizer_requirements"}),
  application_id   |-> On(Admin, {"get_credit_review_detail"}),
  region           |-> On(Admin, {"simulate_disaster_credit_risk"}),
  target_id        |-> On(Admin, {"create_risk_analysis_snapshot"}),
  query            |-> On(Infra, {"query_prometheus", "query_loki",
                         "query_multi_cluster_prometheus", "query_multi_cluster_loki",
                         "search_topology_knowledge"}),
  service          |-> On(Infra, {"get_service_routing_path", "get_service_dependency_map"}),
  service_name     |-> On(Infra, {"get_service_trace_summary", "get_k8s_service_endpoints"}),
  trace_id         |-> On(Infra, {"get_trace_by_id", "get_trace_error_spans"}),
  deployment_name  |-> On(Infra, {"get_rollout_status"}),
  pod_name         |-> On(Infra, {"get_pod_logs"}),
  application_name |-> On(Infra, {"get_argocd_application_status"})]

RequiredArguments(tool) == {a \in DOMAIN RequiredBy : tool \in RequiredBy[a]}

\* The operations that ignore the payload.
WithoutPayload == On(Admin, {"get_bnpl_summary", "get_overdue_summary"})

\* The reads of one namespace of one cluster.  create_rca_snapshot takes both, too,
\* but turns the failure of a source into an item of the snapshot.
NamespacedReads == On(Infra, {"get_k8s_pods", "get_k8s_events", "get_k8s_deployments",
  "get_k8s_hpa", "get_k8s_service_endpoints", "get_k8s_ingress_backend_mapping",
  "get_pod_logs", "get_rollout_status", "get_current_image_tags",
  "get_recent_deployments"})

\* The namespaces that the deployment lets be read.
NamespaceAllowlist == [
  eks    |-> {"aiops", "default", "kube-system", "monitoring", "service-catalog"},
  onprem |-> {"default", "kkpp", "monitoring", "keda", "postgres-ha", "ingress-nginx"}]

\* _resolve_kubernetes_source and _resolve_namespace: EKS and the first namespace of
\* the list when they are missing; any other source or namespace raises.
resolves(source, namespace) ==
  LET resolved == IF source = "none" THEN "eks" ELSE source
  IN  /\ resolved \in DOMAIN NamespaceAllowlist
      /\ namespace \in {"none"} \cup NamespaceAllowlist[resolved]

\* The call operation(**payload) of a service that is up does not raise.
accepts(tool, payload) ==
  \/ tool \in WithoutPayload
  \/ /\ ~payload.foreign
     /\ RequiredArguments(tool) \subseteq payload.arguments
     /\ tool \in NamespacedReads => resolves(payload.source, payload.namespace)
     /\ (payload.source # "none" \/ payload.namespace # "none") =>
          tool \in NamespacedReads \cup On(Infra, {"create_rca_snapshot"})
     /\ payload.load_balancer # "none" => tool \in On(Infra, {"get_alb_target_health"})

\* execute without the cache.  A tool that is not registered raises; a policy other
\* than ALLOWED is answered before the operation is looked up; an operation that is
\* missing or raises, for want of its service or because of the payload, gives FAILED.
ExecuteResult(tool, payload, down) ==
  IF ~IsRegistered(tool) THEN "raised"
  ELSE IF execution_policy(PermissionOf(tool)) # "ALLOWED" THEN call_status(PermissionOf(tool))
  ELSE IF tool \notin Operations \/ down \/ ~accepts(tool, payload) THEN "FAILED"
  ELSE "SUCCESS"

---------------------------------------------------------------------------
VARIABLES now,    \* the monotonic clock
          cache,  \* key -> the entry, or NoEntry
          read    \* thread -> its call of execute for a cached tool

dispatchVars == <<now, cache, read>>

Times == 0..MaxClock
NoEntry == [stored_at |-> -1, expires_at |-> -1]
Entries == [stored_at : Times, expires_at : Nat]

NoRead == [pc |-> "idle"]
Answered(r, stored_at) ==
  [pc |-> "answered", key |-> r.key, asked_at |-> r.asked_at, stored_at |-> stored_at]

DispatchInit ==
  /\ now = 0
  /\ cache = [k \in Keys |-> NoEntry]
  /\ read = [t \in Threads |-> NoRead]

\* _get_cached_tool_response looks at the clock before it takes the lock ...
BeginRead(t) ==
  /\ read[t] = NoRead
  /\ \E k \in Keys :
       read' = [read EXCEPT ![t] = [pc |-> "locking", key |-> k, asked_at |-> now]]
  /\ UNCHANGED <<now, cache>>

\* ... and answers with an entry that had not expired then.
\* Mutant: the entry is still used in the instant in which it expires.
IsHitUntilExpiry(r) == cache[r.key] # NoEntry /\ cache[r.key].expires_at >= r.asked_at

IsHit(r) == cache[r.key] # NoEntry /\ cache[r.key].expires_at > r.asked_at

CacheHit(t) ==
  /\ read[t].pc = "locking" /\ IsHit(read[t])
  /\ read' = [read EXCEPT ![t] = Answered(read[t], cache[read[t].key].stored_at)]
  /\ UNCHANGED <<now, cache>>

\* An expired entry is dropped; the operation runs without the lock.
CacheMiss(t) ==
  /\ read[t].pc = "locking" /\ ~IsHit(read[t])
  /\ cache' = [cache EXCEPT ![read[t].key] = NoEntry]
  /\ read' = [read EXCEPT ![t].pc = "running"]
  /\ UNCHANGED now

\* _set_cached_tool_response stores over whatever is there and counts the TTL from
\* the time of the store, so a slow read replaces a fresher one.
StoreRead(t) ==
  /\ read[t].pc = "running"
  /\ cache' = [cache EXCEPT ![read[t].key] = [stored_at |-> now, expires_at |-> now + Ttl]]
  /\ read' = [read EXCEPT ![t] = Answered(read[t], now)]
  /\ UNCHANGED now

\* The operation raises: FAILED, and nothing is stored.
FailRead(t) ==
  /\ read[t].pc = "running"
  /\ read' = [read EXCEPT ![t] = NoRead]
  /\ UNCHANGED <<now, cache>>

EndRead(t) ==
  /\ read[t].pc = "answered"
  /\ read' = [read EXCEPT ![t] = NoRead]
  /\ UNCHANGED <<now, cache>>

Tick == now < MaxClock /\ now' = now + 1 /\ UNCHANGED <<cache, read>>

DispatchNext ==
  \/ Tick
  \/ \E t \in Threads : \/ BeginRead(t) \/ CacheHit(t) \/ CacheMiss(t)
                        \/ StoreRead(t) \/ FailRead(t) \/ EndRead(t)

DispatchSpec == DispatchInit /\ [][DispatchNext]_dispatchVars

---------------------------------------------------------------------------
DispatchTypeOK ==
  /\ now \in Times
  /\ cache \in [Keys -> Entries \cup {NoEntry}]
  /\ read \in [Threads -> {NoRead} \cup
                [pc : {"locking", "running"}, key : Keys, asked_at : Times] \cup
                [pc : {"answered"}, key : Keys, asked_at : Times, stored_at : Times]]

\* However the threads of the process interleave, and whoever stored the entry, a
\* farmer is never shown an answer that was stored a TTL or longer before the call
\* (dispatcher.py:350): a hit does not prolong an entry, an expired entry is not
\* used once more by a thread that waited for the lock, and a failed read leaves
\* nothing behind.
AnswersAreInTime ==
  \A t \in Threads :
    read[t].pc = "answered" => read[t].asked_at - read[t].stored_at < Ttl
==============================================================================
