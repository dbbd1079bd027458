------------------------------- MODULE MCSre --------------------------------
(***************************************************************************)
(* Passes of the SRE agent.  Either t2 and t3 handle the same few alerts,  *)
(* with faults, or t1 collects the evidence of any alert while the others  *)
(* rest: many alerts  meet three states of the systems, and one alert of   *)
(* each class meets every state that differs from the calm one in two      *)
(* places.                                                                 *)
(***************************************************************************)
EXTENDS SreAgent

CONSTANTS t1, t2, t3

Calm == World({}, {}, {}, "up", "reachable", "routed", "ready", "running", "complete",
              "synced", "empty", "healthy", {})
Storm == World({"sqs", "publish", "consume", "error", "exception", "500", "hikari", "5xx"},
               {"postgres"}, {"slow"}, "down", "unreachable", "no_rule", "none",
               "crashloop", "stuck", "outofsync", "backlog", "unhealthy", {})
Blind == [Calm EXCEPT !.failing = {"query_multi_cluster_loki", "get_k8s_pods",
                                   "get_aws_vpn_tunnel_status", "create_rca_snapshot"}]

Variants == [
  logs |-> {{"exception"}, {"hikari", "timeout"}, {"sqs", "publish", "error"},
            {"sqs", "consume", "error"}, {"500", "error"}, {"ingress", "5xx"},
            {"servfail"}, {"failed"}},
  jobs |-> {{"postgres"}},
  traces |-> {{"slow"}},
  vpn |-> {"no_sdk", "read_failed", "degraded", "down"},
  metallb |-> {"unreachable"},
  ingress |-> {"failing_500", "no_upstream", "no_rule", "unreachable"},
  endpoints |-> {"none"},
  pods |-> {"unready", "crashloop"},
  rollout |-> {"progressing", "stuck"},
  gitops |-> {"outofsync", "unconfigured"},
  queue |-> {"unconfigured", "backlog"},
  edge |-> {"unconfigured", "unhealthy"},
  failing |-> {{"query_multi_cluster_loki"}, {"check_onprem_ingress_route"},
               {"search_topology_knowledge", "get_rollout_status"}}]
Vary(w) == {w} \cup UNION {{[w EXCEPT ![f] = v] : v \in Variants[f]} : f \in DOMAIN Variants}
NearCalm == UNION {Vary(w) : w \in Vary(Calm)}

Plain(name, service, cluster) == AlertOf(name, service, cluster, None, FALSE, {}, {}, {})
WideAlerts == {
  Plain("alb5xxhigh", "service-payment", "onprem"), Plain("vpntunneldown", None, None),
  Plain("checkout500high", "service-catalog", "eks"),
  Plain("hikaripoolexhausted", "service-core", "onprem"),
  Plain("postgresqldatabasedown", None, None),
  Plain("sqsdlqnotempty", "service-payment", None),
  Plain("syntheticroutinginspection", "service-payment", "onprem"),
  AlertOf("podcrashlooping", None, "onprem", "pod", TRUE, {}, {}, {}),
  AlertOf("unlisted", "service-auth", None, None, FALSE, {"predictive", "under", "prediction"}, {}, {})}

Summaries == {{}, {"ingress", "metallb"}, {"checkout", "500"}, {"sqs", "publish"},
              {"queue", "lag"}, {"pin", "event"}, {"pod", "pending"}, {"hikari"},
              {"vpn", "connectivity"}, {"postgres", "connection", "usage"}, {"cloudfront"},
              {"help"}, {"exec"}}
BroadAlerts ==
  {AlertOf(name, service, cluster, component, pod, summary, description, {}) :
     name \in DOMAIN NameWords,
     service \in {None, "service-payment", "service-catalog", "postgresql"},
     cluster \in {None, "eks", "onprem"}, component \in {None, "database"},
     pod \in BOOLEAN, summary \in Summaries,
     description \in {{}, {"database"}, {"crashloop"}}} \cup
  {AlertOf("unlisted", service, cluster, component, FALSE, summary, {}, others) :
     service \in {None, "service-payment"}, cluster \in {None, "onprem"},
     component \in {None, "pod"}, summary \in Summaries,
     others \in {{"ingress"}, {"sqs", "publish"}, {"pod"}, {"postgres"}}}

SharedAlerts == {Plain("podcrashlooping", "service-payment", "onprem")}
Shared ==
  UNION {{RequestOf("webhook", a, TRUE, TRUE, TRUE), RequestOf("webhook", a, TRUE, FALSE, FALSE),
          RequestOf("webhook", a, FALSE, TRUE, TRUE), RequestOf("manual", a, TRUE, TRUE, TRUE),
          WatcherRequest(a)} : a \in SharedAlerts}
Broad == {RequestOf("webhook", a, TRUE, TRUE, FALSE) : a \in BroadAlerts \cup WideAlerts}

MCRequests(t) == IF t = t1 THEN Broad ELSE Shared

\* One alert of an on-prem service, for the run about the verdicts on the boundaries.
RoutingRequests(t) == {RequestOf("webhook", Plain("alb5xxhigh", "service-payment", "onprem"),
                                 TRUE, TRUE, notify) : notify \in BOOLEAN}
MCWorldsOf(alert) == CASE alert \in WideAlerts -> NearCalm
                       [] alert \in SharedAlerts -> {Calm, Blind}
                       [] OTHER -> {Calm, Storm, Blind}

Idle(threads) == \A t \in threads : at[t] = "idle"
MCNext == \/ Idle({t2, t3}) /\ Pass(t1)
          \/ Idle({t1}) /\ \E t \in {t2, t3} : Pass(t)
MCSpec == SreInit /\ [][MCNext]_sreVars
=============================================================================
