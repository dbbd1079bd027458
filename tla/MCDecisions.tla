----------------------------- MODULE MCDecisions -----------------------------
(***************************************************************************)
(* One run for the tables and rules that decide what the agent may call:   *)
(* every call of the MCP server, every run of the agent on messages of up  *)
(* to two keywords with a set of LLM answers, and the cache of the         *)
(* dispatcher.  The three share no state but the settings, so two of them  *)
(* are at rest while the third one moves.                                  *)
(***************************************************************************)
EXTENDS McpServer, AgentRun

FarmerTokens == {"bnpl", "limit", "repayment", "delivery", "fertilizer", "smartfarm",
  "sensor", "checkout", "buy", "cart", "confirm_checkout", "application", "hello"}
AdminTokens == {"bnpl", "risk", "credit_review", "overdue", "scaling", "status", "user",
  "disaster", "snapshot", "action", "order_anomaly", "summary", "thanks", "help"}
SreTokens == {"mutating", "mutating_pod", "route", "crashloop", "hikari", "postgresql",
  "sqs", "dlq", "publish", "consume", "pin", "event", "checkout", "500", "pod", "restart",
  "alert", "service-payment", "service-catalog", "service-core", "service-batch", "payment",
  "catalog", "eks", "onprem", "metallb", "cluster=eks", "namespace=other", "lb_name",
  "pod_name", "hello", "chitchat"}

UpTo2(S) == {{x, y} : x, y \in S} \cup {{}}

MCTokenSets == [c \in ChatTypes |->
  CASE c = "farmer_bnpl" -> UpTo2(FarmerTokens)
    [] c = "admin_copilot" -> UpTo2(AdminTokens)
    [] c = "sre_copilot" ->
         {m \in UpTo2(SreTokens) : Cardinality(m \cap NamedServices) <= 1}]

Capabilities(chat_type) ==
  {IntentTable(chat_type)[i] : i \in DOMAIN IntentTable(chat_type)}

\* What the LLM may give a tool.
Given(arguments, foreign, source, namespace, load_balancer) ==
  [arguments |-> arguments, foreign |-> foreign, source |-> source,
   namespace |-> namespace, load_balancer |-> load_balancer]
Nothing == Given({}, FALSE, "none", "none", "none")
Foreign == Given({}, TRUE, "none", "none", "none")

\* The tools of the LLM with what it gives them: tools of other chats and tools that
\* write, tools with nothing, with what they need, with a foreign argument, and with
\* a cluster or a load balancer of its own.
LlmToolPlans == {
  NothingGiven,
  [tool \in {<<Farmer, "create_bnpl_checkout">>, <<Farmer, "get_interest_due">>} |-> Nothing],
  [tool \in {<<Infra, "restart_pod">>, <<Infra, "query_loki">>, <<Admin, "send_overdue_alerts">>,
             <<Infra, "get_k8s_pods">>, PodLogs, AlbHealth, <<Infra, "get_rollout_status">>} |->
     Nothing],
  [tool \in {<<Infra, "query_elasticsearch">>, <<Admin, "summarize_credit_risk">>} |->
     IF tool[1] = Admin THEN Given({"user_id"}, FALSE, "none", "none", "none") ELSE Nothing],
  [tool \in {<<Admin, "get_credit_review_detail">>, <<Admin, "get_bnpl_summary">>,
             <<Infra, "search_incidents">>} |->
     IF tool[2] = "get_credit_review_detail" THEN Nothing ELSE Foreign],
  [tool \in {<<Infra, "get_k8s_events">>, <<Infra, "get_k8s_hpa">>, <<Infra, "get_trace_by_id">>,
             PodLogs, AlbHealth, <<Infra, "create_rca_snapshot">>} |->
     CASE tool[2] = "get_trace_by_id" -> Given({"trace_id"}, FALSE, "none", "none", "none")
       [] tool = PodLogs -> Given({"pod_name"}, FALSE, "none", "none", "none")
       [] tool = AlbHealth -> Given({}, FALSE, "none", "none", "named")
       [] tool[2] = "get_k8s_hpa" -> Given({}, FALSE, "onprem", "none", "none")
       [] tool[2] = "create_rca_snapshot" -> Given({}, FALSE, "none", "other", "none")
       [] OTHER -> Nothing]}

\* The answers whose other fields are read: with a bundle's capability none is.
MCLlmReplies == [c \in ChatTypes |->
  {llm \in LlmAnswers({"none", "checkout_confirm"},
                      {"none", "invented"} \cup Capabilities(c), LlmToolPlans) :
     /\ llm.answer => ~llm.requires_tools
     /\ llm.tool_plans # NothingGiven => llm.requires_tools /\ llm.is_list
     /\ llm.is_list => llm.requires_tools
     /\ llm.intent # "none" => c = "farmer_bnpl"
     /\ (c # "farmer_bnpl" /\ llm.capability \notin {"none", "invented"} \cup
                               DirectCapabilities) =>
          llm.requires_tools /\ ~llm.is_list}]

MCInit == McpInit /\ DispatchInit /\ RunInit
MCNext ==
  \/ /\ run = NoRun /\ DispatchInit
     /\ McpNext
     /\ UNCHANGED <<run, dispatchVars>>
  \/ /\ call = NoCall /\ DispatchInit /\ features \in {{}, Features}
     /\ RunNext
     /\ UNCHANGED <<call, dispatchVars>>
  \/ /\ call = NoCall /\ run = NoRun /\ features = {}
     /\ DispatchNext
     /\ UNCHANGED <<mcpVars, run>>
MCSpec == MCInit /\ [][MCNext]_<<mcpVars, run, dispatchVars>>
==============================================================================
