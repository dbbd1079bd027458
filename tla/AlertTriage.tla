---------------------------- MODULE AlertTriage -----------------------------
(***************************************************************************)
(* What an alert is taken for (alertmanager_agent/service.py): the context *)
(* of its labels, the intent, the message that is put to the rule planner  *)
(* of the SRE copilot, and the classes of alerts that have a finding, an   *)
(* incident type and a guardrail of their own.                             *)
(*                                                                         *)
(* An alert is its normalized name, the labels that are read and the words *)
(* of its summary and its description.  Words are tokens of the same kind  *)
(* as the planner's; PlannerTokens says how the planner reads them.        *)
(***************************************************************************)
EXTENDS AgentPlanner, IncidentEvidence

None == "none"

\* The names by what the code knows of them, with the words they are spelled with.
NameWords == [
  checkout500high |-> {"checkout", "500"}, sqspublishfailure |-> {"sqs", "publish"},
  sqsdlqnotempty |-> {"sqs", "dlq"}, pinverificationmissing |-> {"pin", "verification"},
  alb5xxhigh |-> {"cloudfront", "5xx"}, vpntunneldown |-> {"vpn", "tunnel"},
  onpremtoawsaioopswebhookfailed |-> {"onprem"}, podcrashlooping |-> {"pod", "crashloop"},
  aiopspodpendingtoolong |-> {"pod", "pending"}, hikaripoolexhausted |-> {"hikari"},
  dbconnectionfailure |-> {"db", "connection"},
  postgresqldatabasedown |-> {"postgres", "database"},
  postgresqlconnectionsaturationhigh |-> {"postgres", "connection", "saturation"},
  postgresqldeadtupleshigh |-> {"postgres"},
  predictivescalingunderprediction |-> {"predictive", "under", "prediction"},
  syntheticroutinginspection |-> {"synthetic", "routing"},
  syntheticpostgresqlinspection |-> {"synthetic", "postgres"},
  syntheticsqsconsumeinspection |-> {"synthetic", "sqs", "consume"},
  unlisted |-> {}]

SRE_INTENT_BY_ALERT_NAME == [
  checkout500high |-> "checkout_500", sqspublishfailure |-> "sqs_publish_failure",
  sqsdlqnotempty |-> "sqs_consume_failure",
  pinverificationmissing |-> "pin_verification_missing",
  alb5xxhigh |-> "routing_failure", vpntunneldown |-> "routing_failure",
  onpremtoawsaioopswebhookfailed |-> "routing_failure",
  podcrashlooping |-> "pod_crashloop", hikaripoolexhausted |-> "db_hikaricp_issue",
  dbconnectionfailure |-> "db_hikaricp_issue",
  postgresqldatabasedown |-> "db_hikaricp_issue",
  postgresqlconnectionsaturationhigh |-> "db_hikaricp_issue",
  predictivescalingunderprediction |-> "predictive_scaling_under_prediction"]

POSTGRES_ALERT_NAMES == {"postgresqldatabasedown", "postgresqlconnectionsaturationhigh",
                         "postgresqldeadtupleshigh"}
SATURATION_ALERT_NAMES == {"postgresqlconnectionsaturationhigh", "hikaripoolexhausted"}
VPN_TUNNEL_ALERT_NAMES == {"vpntunneldown", "onpremtoawsaioopswebhookfailed"}
POD_HEALTH_ALERT_NAMES == {"podcrashlooping", "aiopspodpendingtoolong"}

\* service, cluster and component are labels, None when missing; pod tells whether
\* there is a pod label, that of a pod of service-payment; others are the words of
\* the values of the other labels and annotations.
AlertOf(name, service, cluster, component, pod, summary, description, others) ==
  [name |-> name, service |-> service, cluster |-> cluster, component |-> component,
   pod |-> pod, summary |-> summary, description |-> description, others |-> others]

ServiceWords(service) == CASE service = None -> {}
                           [] service = "postgresql" -> {"postgres"}
                           [] OTHER -> {service}

\* build_alert_context: the service may come from the pod or from the name.
context_service(alert) ==
  IF alert.service # None THEN alert.service
  ELSE IF alert.pod /\ (alert.name \in POD_HEALTH_ALERT_NAMES \/ alert.component = "pod")
    THEN "service-payment"
  ELSE IF alert.name \in POSTGRES_ALERT_NAMES \/ alert.component = "database"
    THEN "postgresql"
  ELSE None

\* The text the classes are looked for in.
TitleWords(alert) == NameWords[alert.name] \cup alert.summary \cup alert.description
AlertWords(alert) == TitleWords(alert) \cup ServiceWords(context_service(alert))

\* The text of infer_sre_intent: that and the value of every label and annotation.
SignalWords(alert) ==
  AlertWords(alert) \cup ({alert.cluster, alert.component} \ {None}) \cup alert.others

---------------------------------------------------------------------------
\* The classes of alerts

is_predictive(alert) ==
  \/ alert.name = "predictivescalingunderprediction"
  \/ {"predictive", "under", "prediction"} \subseteq TitleWords(alert)
is_vpn_tunnel(alert) ==
  \/ alert.name \in VPN_TUNNEL_ALERT_NAMES
  \/ "vpn" \in TitleWords(alert) /\ TitleWords(alert) \cap {"tunnel", "connectivity"} # {}
is_pod_health(alert) ==
  \/ alert.name \in POD_HEALTH_ALERT_NAMES
  \/ "pod" \in AlertWords(alert) /\ AlertWords(alert) \cap {"pending", "crashloop"} # {}
is_postgres(alert) ==
  alert.name \in POSTGRES_ALERT_NAMES \/ "postgres" \in AlertWords(alert)
is_saturation(alert) ==
  \/ alert.name \in SATURATION_ALERT_NAMES
  \/ /\ {"postgres", "connection"} \subseteq TitleWords(alert)
     /\ TitleWords(alert) \cap {"saturation", "usage"} # {}

\* build_alert_root_cause_findings: at most one, that of the first class.
OwnType(alert) ==
  IF is_predictive(alert) THEN "predictive_under_prediction"
  ELSE IF is_vpn_tunnel(alert) THEN "vpn_tunnel_degraded"
  ELSE IF is_pod_health(alert) THEN "pod_waiting_state"
  ELSE IF is_saturation(alert) THEN "postgres_connection_saturation"
  ELSE IF is_postgres(alert) THEN "db_hikaricp"
  ELSE None

AlertFindings(alert) ==
  IF OwnType(alert) = None THEN {}
  ELSE {Finding(OwnType(alert), "alertmanager", "alert_labels", "alert")}

\* The candidates of the analysis of an alert.
CandidatesOf(alert, results) ==
  build_root_cause_candidates(ApplicationFindings(results) \cup AlertFindings(alert))

---------------------------------------------------------------------------
\* The intent of the alert and the message for the planner

\* The rules of infer_sre_intent for a name it does not know.
SignalRules == <<
  Rule("routing_failure",          {{"cloudfront", "ingress", "metallb"}}),
  Rule("checkout_500",             {{"checkout"}, {"500", "5xx", "http"}}),
  Rule("sqs_publish_failure",      {{"sqs"}, {"publish"}}),
  Rule("sqs_consume_failure",      {{"sqs", "queue", "dlq"}, {"consume", "lag", "dlq"}}),
  Rule("pin_verification_missing", {{"pin"}, {"verification", "event"}}),
  Rule("pod_crashloop",            {{"crashloop", "oomkilled", "pod"}}),
  Rule("db_hikaricp_issue",        {{"hikari", "postgres", "database", "connection_pool"}}) >>

infer_sre_intent(alert) ==
  IF alert.name \in DOMAIN SRE_INTENT_BY_ALERT_NAME
    THEN SRE_INTENT_BY_ALERT_NAME[alert.name]
    ELSE FirstMatch(SignalRules, SignalWords(alert), "general_incident")

\* How the planner reads a word of an alert.
PlannerTokens(word) ==
  CASE word \in {"cloudfront", "routing"} -> {"route"}
    [] word = "queue" -> {"sqs"}
    [] word = "database" -> {"db"}
    [] word = "prediction" -> {"hpa"}
    [] word = "exec" -> {"mutating"}
    [] OTHER -> {word}
Read(words) == UNION {PlannerTokens(word) : word \in words}

\* Mutant: a routing alert of an on-prem service has the phrase of MetalLB only.
MetalLbPhrase(alert) == {"onprem", "metallb"}

build_routing_phrase(alert) ==
  LET words == ServiceWords(context_service(alert)) \cup {alert.cluster} \cup
               alert.summary \cup alert.description
  IN  IF \/ context_service(alert) \in OnpremServices \ {"service-batch"}
         \/ Has(words, {"onprem", "metallb"}) THEN {"route", "onprem", "metallb"}
      ELSE IF Has(words, {"eks", "service-catalog"}) THEN {"route", "eks"}
      ELSE {"route"}

\* The words of the phrase that stands for the intent in the message.
IntentPhrase(intent, alert) ==
  CASE intent = "checkout_500" -> {"checkout", "500", "error"}
    [] intent = "sqs_publish_failure" -> {"sqs", "publish"}
    [] intent = "sqs_consume_failure" -> {"sqs", "consume", "dlq", "lag"}
    [] intent = "pin_verification_missing" -> {"pin", "verification", "event"}
    [] intent = "routing_failure" -> build_routing_phrase(alert)
    [] intent = "pod_crashloop" -> {"pod", "crashloop", "restart"}
    [] intent = "db_hikaricp_issue" -> {"db", "hikari", "connection_pool"}
    [] intent = "predictive_scaling_under_prediction" -> {"hpa"}
    [] OTHER -> {"onprem", "incident"}

\* The message also has the name, the cluster, the service, the pod and the summary
\* of the alert, but not its description.
build_sre_analysis_message(alert) ==
  LET service == context_service(alert)
      cluster == CASE alert.cluster = "eks" -> {"cluster=eks"}
                   [] alert.cluster = "onprem" -> {"cluster=onprem"}
                   [] OTHER -> {}
  IN  Contents(IntentPhrase(infer_sre_intent(alert), alert) \cup {"alert"} \cup cluster \cup
               Read(NameWords[alert.name] \cup alert.summary) \cup
               (IF service = None THEN {} ELSE {service}) \cup
               (IF alert.pod THEN {"pod", "pod_name"} ELSE {}))

\* The plan of the alert, as _plan_firing_alert makes it: intent and tools of the plan
\* of the rules.  A read that its payload makes fail is one that raises (World.failing).
TriagePlan(alert) ==
  LET message == build_sre_analysis_message(alert)
      intent  == classify("sre_copilot", message)
  IN  [intent |-> intent,
       tools  |-> Bundle("sre_copilot", message, IntentTable("sre_copilot")[intent])]
PlannedNames(alert) == {tool[2] : tool \in TriagePlan(alert).tools}

\* The service of the plan, and what the tools answer about it.
EvidenceFor(alert, world) ==
  LET plan == TriagePlan(alert)
      service == infer_sre_service_name(build_sre_analysis_message(alert), plan.intent)
  IN  Results(PlannedNames(alert), plan.intent, service, world)

ScenarioOf(alert, direct) ==
  infer_cross_domain_scenario(build_sre_analysis_message(alert), PlannedNames(alert), direct)

\* The first rule of the planner with this intent.
RankOf(intent) ==
  LET rules == {i \in DOMAIN SreRules : SreRules[i].intent = intent}
  IN  IF rules = {} THEN Len(SreRules) ELSE Min(rules)

\* What Slack is told the incident is.
determine_incident_type(alert, intent) ==
  IF is_predictive(alert) THEN "predictive scaling"
  ELSE IF is_vpn_tunnel(alert) THEN "vpn tunnel"
  ELSE IF is_pod_health(alert) THEN "pod"
  ELSE IF is_saturation(alert) THEN "postgres connections"
  ELSE IF is_postgres(alert) THEN "postgres"
  ELSE IF intent \in {"routing_failure", "checkout_500"} THEN "routing"
  ELSE IF intent \in {"sqs_publish_failure", "sqs_consume_failure",
                      "pin_verification_missing"} THEN "messaging"
  ELSE IF intent = "pod_crashloop" THEN "pod"
  ELSE IF intent = "db_hikaricp_issue" THEN "database"
  ELSE "application"

\* What the LLM is told to look at first; with "sre_incident" it is the boundaries of
\* the request path.
incident_focus(alert) ==
  IF is_predictive(alert) THEN "predictive_scaling_under_prediction"
  ELSE IF is_pod_health(alert) THEN "kubernetes_pod_health"
  ELSE IF is_saturation(alert) THEN "postgres_connection_saturation"
  ELSE IF is_postgres(alert) THEN "postgres_database_alert"
  ELSE "sre_incident"

\* The focus that goes with the finding of an alert; a tunnel has none.
FocusOf == [predictive_under_prediction |-> "predictive_scaling_under_prediction",
            pod_waiting_state |-> "kubernetes_pod_health",
            postgres_connection_saturation |-> "postgres_connection_saturation",
            db_hikaricp |-> "postgres_database_alert"]
==============================================================================
