--------------------------- MODULE DecisionsProofs ---------------------------
(***************************************************************************)
(* The tables and rules that decide what the agent may call, for every     *)
(* tool, message and answer of the language model: the wrappers of the MCP *)
(* servers keep the policy of the registry; a planned tool accepts its     *)
(* payload unless the model or the message has asked for something else;   *)
(* the calls of a plan look into one cluster; and only a confirmed         *)
(* checkout asks for an approval. Then the cache of the dispatcher, for    *)
(* any number of threads and keys and any TTL: an answer is in time        *)
(* because an entry expires a TTL after it was stored and because a thread *)
(* asks before it stores: the clock a call read is never ahead of the      *)
(* clock.                                                                  *)
(***************************************************************************)
EXTENDS McpServer, AgentRun, TLAPS

\* ------------------------- the registry and the servers -------------------------
\* The sets of the permissions have no tool in common.
LEMMA PermissionsAreDisjoint ==
  ASSUME NEW p \in Permissions, NEW q \in Permissions, NEW tool,
         tool \in ToolsWith(p), tool \in ToolsWith(q)
  PROVE  p = q
<1>1. tool \in ToolsWith("READ") =>
        /\ tool \notin ToolsWith("WRITE") /\ tool \notin ToolsWith("USER_CONFIRMED_WRITE")
        /\ tool \notin ToolsWith("OPS_WRITE") /\ tool \notin ToolsWith("DESTRUCTIVE")
  BY DEF ToolsWith, On, Farmer, Advisory, Admin, Infra, Prediction, FarmerReads,
         FarmerWrites, AdminReads, AdminWrites, InfraReads, ElkTools, KafkaTools, BatchTools
<1>2. tool \in ToolsWith("WRITE") =>
        /\ tool \notin ToolsWith("USER_CONFIRMED_WRITE")
        /\ tool \notin ToolsWith("OPS_WRITE") /\ tool \notin ToolsWith("DESTRUCTIVE")
  BY DEF ToolsWith, On, Farmer, Admin, Infra, FarmerWrites, AdminWrites
<1>3. tool \in ToolsWith("USER_CONFIRMED_WRITE") =>
        tool \notin ToolsWith("OPS_WRITE") /\ tool \notin ToolsWith("DESTRUCTIVE")
  BY DEF ToolsWith, On, Farmer, Infra
<1>4. tool \in ToolsWith("OPS_WRITE") => tool \notin ToolsWith("DESTRUCTIVE")
  BY DEF ToolsWith, On
<1>. QED
  BY <1>1, <1>2, <1>3, <1>4 DEF Permissions

\* The permission of a tool is the one whose set it is in.
LEMMA PermissionIs ==
  ASSUME NEW p \in Permissions, NEW tool \in ToolsWith(p)
  PROVE  tool \in Tools /\ PermissionOf(tool) = p
<1>1. tool \in Tools
  BY DEF Tools
<1>2. (CHOOSE q \in Permissions : tool \in ToolsWith(q)) = p
  BY PermissionsAreDisjoint
<1>. QED
  BY <1>1, <1>2 DEF PermissionOf, tool_permission

\* The wrappers of the servers cover the registry's tables: policy-checked for the farmer
\* and the admin, read-only for the others, a preview for what changes the cluster.
LEMMA WrapperTables ==
  /\ PolicyWrapped = On(Farmer, FarmerReads \cup FarmerWrites \cup {"create_bnpl_checkout"})
                     \cup On(Admin, AdminReads \cup AdminWrites)
  /\ ReadWrapped = On(Advisory, AdvisoryReads) \cup On(Prediction, PredictionReads) \cup
                   On(Infra, InfraReads)
  /\ On(Infra, OpsWriteWrappers) = ToolsWith("OPS_WRITE")
  /\ On(Infra, DestructiveWrappers) = ToolsWith("DESTRUCTIVE")
<1>1. FarmerApplicationWrappers \cup FarmerAccountWrappers \cup FarmerShopWrappers \cup
        FarmerCheckoutWrapper = FarmerReads \cup FarmerWrites \cup {"create_bnpl_checkout"}
  BY DEF FarmerApplicationWrappers, FarmerAccountWrappers, FarmerShopWrappers,
         FarmerCheckoutWrapper, FarmerReads, FarmerWrites
<1>2. AdminReviewWrappers \cup AdminRiskWrappers = AdminReads \cup AdminWrites
  BY DEF AdminReviewWrappers, AdminRiskWrappers, AdminReads, AdminWrites
<1>3. AdvisoryMaterialWrappers \cup AdvisoryRiskWrappers = AdvisoryReads
  BY DEF AdvisoryMaterialWrappers, AdvisoryRiskWrappers, AdvisoryReads
<1>4. PredictionMetricWrappers \cup PredictionScalingWrappers = PredictionReads
  BY DEF PredictionMetricWrappers, PredictionScalingWrappers, PredictionReads
<1>5. TopologyWrappers \cup MetricAndLogWrappers \cup TraceWrappers \cup
            WorkloadWrappers \cup RoutingWrappers \cup EdgeWrappers \cup
            AwsWrappers \cup RolloutWrappers \cup ElkSearchWrappers \cup
            ElkIndexWrappers \cup SnapshotWrappers \cup HistoryWrappers = InfraReads
  BY DEF TopologyWrappers, MetricAndLogWrappers, TraceWrappers, WorkloadWrappers,
         RoutingWrappers, EdgeWrappers, AwsWrappers, RolloutWrappers, ElkSearchWrappers,
         ElkIndexWrappers, SnapshotWrappers, HistoryWrappers, InfraReads, ElkTools,
         KafkaTools, BatchTools
<1>. QED
  BY <1>1, <1>2, <1>3, <1>4, <1>5
     DEF PolicyWrapped, ReadWrapped, OpsWriteWrappers, DestructiveWrappers, ToolsWith

\* Every tool of the registry is wrapped, and nothing else is.
LEMMA WrappedTools == Wrapped = Tools
<1>1. PreviewWrapped = ToolsWith("OPS_WRITE") \cup ToolsWith("DESTRUCTIVE")
  BY WrapperTables DEF PreviewWrapped, On
<1>2. PolicyWrapped \cup ReadWrapped =
        ToolsWith("READ") \cup ToolsWith("WRITE") \cup ToolsWith("USER_CONFIRMED_WRITE")
  BY WrapperTables DEF ToolsWith, On
<1>3. Tools = ToolsWith("READ") \cup ToolsWith("WRITE") \cup
        ToolsWith("USER_CONFIRMED_WRITE") \cup ToolsWith("OPS_WRITE") \cup
        ToolsWith("DESTRUCTIVE")
  BY DEF Tools, Permissions
<1>. QED
  BY <1>1, <1>2, <1>3 DEF Wrapped

\* What a wrapper answers and audits is what the policy of its tool says, though no
\* wrapper of the read-only and preview kinds consults it.
LEMMA WrappersFollowPolicy ==
  ASSUME NEW tool \in Tools
  PROVE  /\ Answer(tool) = IF execution_policy(PermissionOf(tool)) = "ALLOWED"
                           THEN "result" ELSE "preview"
         /\ AuditStatus(tool) = call_status(PermissionOf(tool))
<1>1. PICK p \in Permissions : tool \in ToolsWith(p)
  BY DEF Tools
<1>2. PermissionOf(tool) = p
  BY <1>1, PermissionIs
<1>3. CASE p = "OPS_WRITE" \/ p = "DESTRUCTIVE"
  <2>1. tool[1] = Infra /\ tool \notin On(Infra, InfraReads)
    BY <1>1, <1>3, PermissionsAreDisjoint DEF ToolsWith, On, Permissions
  <2>2. tool \notin PolicyWrapped /\ tool \notin ReadWrapped /\ tool \in PreviewWrapped
    BY <1>1, <1>3, <2>1, WrapperTables DEF On, PreviewWrapped, Farmer, Admin, Infra,
                                           Advisory, Prediction
  <2>3. CASE p = "OPS_WRITE"
    <3>1. tool \in On(Infra, OpsWriteWrappers) /\ tool \notin On(Infra, DestructiveWrappers)
      BY <1>1, <2>3, WrapperTables, PermissionsAreDisjoint DEF Permissions
    <3>2. Answer(tool) = "preview" /\ AuditStatus(tool) = "APPROVAL_REQUIRED"
      BY <2>2, <3>1 DEF Answer, AuditStatus
    <3>. QED
      BY <1>2, <2>3, <3>2 DEF execution_policy, call_status
  <2>4. CASE p = "DESTRUCTIVE"
    <3>1. tool \notin On(Infra, OpsWriteWrappers) /\ tool \in On(Infra, DestructiveWrappers)
      BY <1>1, <2>4, WrapperTables, PermissionsAreDisjoint DEF Permissions
    <3>2. Answer(tool) = "preview" /\ AuditStatus(tool) = "BLOCKED"
      BY <2>2, <3>1 DEF Answer, AuditStatus
    <3>. QED
      BY <1>2, <2>4, <3>2 DEF execution_policy, call_status
  <2>. QED
    BY <1>3, <2>3, <2>4
<1>4. CASE p # "OPS_WRITE" /\ p # "DESTRUCTIVE"
  <2>1. tool \notin ToolsWith("OPS_WRITE") /\ tool \notin ToolsWith("DESTRUCTIVE")
    BY <1>1, <1>4, PermissionsAreDisjoint DEF Permissions
  <2>2. /\ tool \notin PreviewWrapped /\ tool \notin On(Infra, OpsWriteWrappers)
        /\ tool \notin On(Infra, DestructiveWrappers)
    BY <2>1, WrapperTables DEF PreviewWrapped, On
  <2>3. CASE tool \in PolicyWrapped
    <3>1. tool \notin ReadWrapped
      BY <2>3, WrapperTables DEF On, Farmer, Admin, Advisory, Prediction, Infra
    <3>. QED
      BY <2>2, <2>3, <3>1 DEF Answer, AuditStatus, policy_answer
  <2>4. CASE tool \in ReadWrapped
    <3>1. tool \notin PolicyWrapped
      BY <2>4, WrapperTables DEF On, Farmer, Admin, Advisory, Prediction, Infra
    <3>2. tool \in ToolsWith("READ")
      BY <2>4, WrapperTables DEF ToolsWith
    <3>3. p = "READ"
      BY <1>1, <3>2, PermissionsAreDisjoint DEF Permissions
    <3>4. Answer(tool) = "result" /\ AuditStatus(tool) = "SUCCESS"
      BY <2>2, <2>4, <3>1 DEF Answer, AuditStatus
    <3>. QED
      BY <1>2, <3>3, <3>4 DEF execution_policy, call_status
  <2>. QED
    BY <2>2, <2>3, <2>4, WrappedTools DEF Wrapped
<1>. QED
  BY <1>3, <1>4

\* The servers expose what they list.
LEMMA ExposedTools == Exposed = list_mcp_tools
  BY WrappedTools DEF Exposed, list_mcp_tools

\* Every call, every preview and every end of one preserves the property.
LEMMA CallStep ==
  ASSUME CallsMatchTheirPolicy, [McpNext]_mcpVars PROVE CallsMatchTheirPolicy'
<1>1. (Exposed = list_mcp_tools)'
  BY WrappedTools DEF Exposed, list_mcp_tools
<1>2. CASE UNCHANGED mcpVars
  BY <1>1, <1>2 DEF mcpVars, CallsMatchTheirPolicy
<1>3. CASE EndCall
  BY <1>1, <1>3 DEF EndCall, NoCall, CallsMatchTheirPolicy
<1>4. CASE CallTool
  <2>1. PICK tool \in Exposed, raises \in BOOLEAN :
       \E audit \in AuditRecords(IF raises THEN "FAILED" ELSE AuditStatus(tool)) :
         call' = IF ~IsRegistered(tool)
                 THEN [kind |-> "tool", tool |-> tool, answer |-> "unregistered",
                       audit |-> {}]
                 ELSE [kind |-> "tool", tool |-> tool, audit |-> audit,
                       answer |-> IF raises THEN "error" ELSE Answer(tool)]
    BY <1>4 DEF CallTool
  <2>2. tool \in Tools /\ IsRegistered(tool)
    BY WrappedTools DEF Exposed, IsRegistered
  <2>3. PICK audit \in AuditRecords(IF raises THEN "FAILED" ELSE AuditStatus(tool)) :
         call' = [kind |-> "tool", tool |-> tool, audit |-> audit,
                  answer |-> IF raises THEN "error" ELSE Answer(tool)]
    BY <2>1, <2>2
  <2>4. audit \subseteq {IF raises THEN "FAILED" ELSE call_status(PermissionOf(tool))}
    BY <2>2, WrappersFollowPolicy DEF AuditRecords
  <2>5. Answer(tool) \in {"result", "preview"} /\ Answer(tool) =
     IF execution_policy(PermissionOf(tool)) = "ALLOWED" THEN "result" ELSE "preview"
    BY <2>2, WrappersFollowPolicy
  <2>6. /\ call'.kind = "tool" /\ call'.tool = tool /\ call'.audit = audit
        /\ call'.answer = IF raises THEN "error" ELSE Answer(tool)
    BY <2>3
  <2>. QED
    BY <1>1, <2>4, <2>5, <2>6 DEF CallsMatchTheirPolicy
<1>5. CASE PreviewToolExecution
  <2>1. PICK tool \in list_mcp_tools :
         \E audit \in AuditRecords(call_status(PermissionOf(tool))) :
         call' = [kind |-> "preview", tool |-> tool, answer |-> "preview",
                  will_execute |-> execution_policy(PermissionOf(tool)) = "ALLOWED",
                  audit |-> audit]
    BY <1>5 DEF PreviewToolExecution
  <2>2. /\ call'.kind = "preview" /\ call'.tool = tool
        /\ call'.will_execute = (execution_policy(PermissionOf(tool)) = "ALLOWED")
    BY <2>1
  <2>3. Answer(tool) = IF execution_policy(PermissionOf(tool)) = "ALLOWED"
                       THEN "result" ELSE "preview"
    BY WrappersFollowPolicy DEF list_mcp_tools
  <2>. QED
    BY <1>1, <2>2, <2>3 DEF CallsMatchTheirPolicy
<1>. QED
  BY <1>2, <1>3, <1>4, <1>5 DEF McpNext

\* Each tool of the MCP servers answers, previews and audits what its permission allows,
\* for every tool of the registry.
THEOREM CallsMatchTheirPolicyHolds == McpSpec => []CallsMatchTheirPolicy
<1>1. McpInit => CallsMatchTheirPolicy
  BY ExposedTools DEF McpInit, CallsMatchTheirPolicy, NoCall
<1>. QED
  BY <1>1, CallStep, PTL DEF McpSpec

\* ------------------------------- plans and runs -------------------------------

\* The tools a setting disables.
Optional == ElkTools \cup KafkaTools \cup BatchTools

\* The one write the chat may plan.
Checkout == <<Farmer, "create_bnpl_checkout">>

\* The reads the dispatcher always has an operation for.
RunnableReads ==
  {tool \in ToolsWith("READ") \cap Operations : tool[2] \notin Optional}

\* A checkout is a write that asks, and no read.
LEMMA CheckoutIsNoRead ==
  /\ Checkout \in Tools /\ PermissionOf(Checkout) = "USER_CONFIRMED_WRITE"
  /\ Checkout \notin RunnableReads
<1>1. Checkout \in ToolsWith("USER_CONFIRMED_WRITE")
  BY DEF ToolsWith, On, Checkout
<1>2. "READ" \in Permissions /\ "USER_CONFIRMED_WRITE" \in Permissions
  BY DEF Permissions
<1>. QED
  BY <1>1, <1>2, PermissionIs, PermissionsAreDisjoint DEF RunnableReads

\* A runnable read is done, or fails for want of its service or for its payload.
LEMMA Runs ==
  ASSUME NEW tool \in RunnableReads, NEW payload, NEW down \in BOOLEAN
  PROVE  ExecuteResult(tool, payload, down) =
           IF down \/ ~accepts(tool, payload) THEN "FAILED" ELSE "SUCCESS"
<1>1. tool \in Tools /\ PermissionOf(tool) = "READ"
  BY PermissionIs DEF RunnableReads, Permissions
<1>2. IsRegistered(tool)
  BY <1>1 DEF IsRegistered, DisabledNames, RunnableReads, Optional
<1>3. tool \in Operations /\ execution_policy(PermissionOf(tool)) = "ALLOWED"
  BY <1>1 DEF execution_policy, RunnableReads
<1>. QED
  BY <1>2, <1>3 DEF ExecuteResult

\* A checkout is never done: it asks for an approval, whatever its service does.
LEMMA CheckoutAsks ==
  ASSUME NEW payload, NEW down \in BOOLEAN
  PROVE  ExecuteResult(Checkout, payload, down) = "APPROVAL_REQUIRED"
<1>1. Checkout \in Tools /\ PermissionOf(Checkout) = "USER_CONFIRMED_WRITE"
  BY CheckoutIsNoRead
<1>2. Checkout[2] \notin DisabledNames
  BY DEF Checkout, DisabledNames, ElkTools, KafkaTools, BatchTools
<1>3. IsRegistered(Checkout)
  BY <1>1, <1>2 DEF IsRegistered
<1>. QED
  BY <1>1, <1>3 DEF ExecuteResult, execution_policy, call_status

\* The reads of the farmer chat are runnable.
LEMMA FarmerToolsRun ==
  /\ On(Farmer, {"get_user_credit_limit", "get_farmer_profile", "get_required_documents",
       "get_repayment_schedule", "get_interest_due", "get_overdue_status",
       "get_latest_order_delivery_status", "search_products",
       "search_lowest_price_fertilizer", "prepare_bnpl_checkout_payload"})
       \subseteq RunnableReads
  /\ On(Advisory, {"recommend_fertilizer_requirements"}) \subseteq RunnableReads
  BY DEF RunnableReads, On, Operations, FarmerOperations, ToolsWith, FarmerReads,
         AdvisoryReads, Optional, ElkTools, KafkaTools, BatchTools

\* The reads of the admin copilot are runnable.
LEMMA AdminToolsRun ==
  /\ On(Admin, {"get_bnpl_summary", "get_credit_review_queue", "get_credit_review_detail",
       "summarize_credit_risk", "get_overdue_summary", "search_overdue_users",
       "search_bnpl_users", "get_bss_score_history", "simulate_disaster_credit_risk",
       "create_risk_analysis_snapshot"}) \subseteq RunnableReads
  /\ On(Prediction, {"get_scaling_summary", "get_predictive_scaling_status"})
       \subseteq RunnableReads
  /\ On(Infra, {"query_multi_cluster_prometheus"}) \subseteq RunnableReads
  BY DEF RunnableReads, On, Operations, AdminOperations, InfraOperations, ToolsWith,
         AdminReads, PredictionReads, InfraReads, Optional, ElkTools, KafkaTools, BatchTools

\* The rules of the farmer chat plan runnable reads and the checkout.
LEMMA FarmerBundle ==
  ASSUME NEW m PROVE plan_farmer(m) \subseteq RunnableReads \cup {Checkout}
  BY FarmerToolsRun
     DEF plan_farmer, FarmerAccountTools, FarmerShopTools, When, Plan, On, Checkout

\* The rules of the admin copilot plan runnable reads.
LEMMA AdminBundle == ASSUME NEW m, NEW c PROVE plan_admin(m, c) \subseteq RunnableReads
  BY AdminToolsRun DEF plan_admin, When, Plan, On

\* The tools the SRE copilot plans, by the rules or by the model.
SreToolNames ==
  SreTopologyTools \cup SreClusterTools \cup SreSignalTools \cup OnpremEdgeTools \cup
  AwsEdgeTools \cup {"get_pod_logs", "get_sqs_queue_attributes", "get_sqs_dlq_attributes",
                     "get_alb_target_health", "query_prometheus", "query_loki",
                     "get_trace_by_id", "get_trace_error_spans"}

\* They are reads with an operation, and no setting disables one.
LEMMA SreToolsRun == On(Infra, SreToolNames) \subseteq RunnableReads
<1>1. SreToolNames \subseteq InfraReads
  BY DEF SreToolNames, SreTopologyTools, SreClusterTools, SreSignalTools,
         OnpremEdgeTools, AwsEdgeTools, InfraReads
<1>2. SreToolNames \cap Optional = {}
  BY DEF SreToolNames, SreTopologyTools, SreClusterTools, SreSignalTools,
         OnpremEdgeTools, AwsEdgeTools, Optional, ElkTools, KafkaTools, BatchTools
<1>3. On(Infra, SreToolNames) \subseteq InfraOperations
  BY DEF SreToolNames, SreTopologyTools, SreClusterTools, SreSignalTools,
         OnpremEdgeTools, AwsEdgeTools, InfraOperations, On
<1>4. On(Infra, SreToolNames) \subseteq ToolsWith("READ")
  BY <1>1 DEF On, ToolsWith
<1>. QED
  BY <1>2, <1>3, <1>4 DEF RunnableReads, Operations, On

\* The rules of the SRE copilot plan runnable reads.
LEMMA SreBundle == ASSUME NEW m, NEW c PROVE plan_sre(m, c) \subseteq RunnableReads
<1>1. plan_sre(m, c) \subseteq On(Infra, SreToolNames)
  BY DEF plan_sre, SreRoutingTools, SreToolNames, Plan, When, On
<1>. QED
  BY <1>1, SreToolsRun

\* What the model may choose from, too, is runnable reads and the checkout.
LEMMA AllowedTools ==
  ASSUME NEW c \in ChatTypes
  PROVE  allowed_tool_keys(c) \subseteq
           RunnableReads \cup (IF c = "farmer_bnpl" THEN {Checkout} ELSE {})
<1>1. CASE c = "farmer_bnpl"
  BY <1>1, FarmerToolsRun DEF allowed_tool_keys, On, Checkout
<1>2. CASE c = "sre_copilot"
  <2>1. allowed_tool_keys(c) \subseteq On(Infra, SreToolNames)
    BY <1>2 DEF allowed_tool_keys, On, SreToolNames
  <2>. QED
    BY <2>1, SreToolsRun, <1>2
<1>3. CASE c = "admin_copilot"
  BY <1>3, AdminToolsRun DEF allowed_tool_keys, On
<1>. QED
  BY <1>1, <1>2, <1>3 DEF ChatTypes

\* A nonempty set of rules has a first one.
LEMMA MinOfHits == ASSUME NEW S \in SUBSET (1..8), S # {} PROVE Min(S) \in S
<1>1. \E x \in S : \A y \in S : x =< y
  <2> SUFFICES ASSUME \A x \in S : \E y \in S : y < x PROVE FALSE
    OBVIOUS
  <2>1. 1 \notin S
    OBVIOUS
  <2>2. 2 \notin S /\ 3 \notin S
    BY <2>1
  <2>3. 4 \notin S /\ 5 \notin S
    BY <2>1, <2>2
  <2>4. 6 \notin S /\ 7 \notin S
    BY <2>1, <2>2, <2>3
  <2>5. 8 \notin S
    BY <2>1, <2>2, <2>3, <2>4
  <2>6. \A x \in S : /\ x \in 1..8 /\ x # 1 /\ x # 2 /\ x # 3 /\ x # 4
                     /\ x # 5 /\ x # 6 /\ x # 7 /\ x # 8
    BY <2>1, <2>2, <2>3, <2>4, <2>5
  <2>7. PICK x \in S : TRUE
    OBVIOUS
  <2>. QED
    BY <2>6, <2>7
<1>. QED
  BY <1>1 DEF Min

\* The rules plan a checkout for a message with a confirmation only.
LEMMA CheckoutIsConfirmed ==
  ASSUME NEW m, Checkout \in plan_farmer(m) PROVE "confirm_checkout" \in m
<1>1. classify_farmer(m) = "checkout_confirm"
  BY DEF plan_farmer, FarmerAccountTools, FarmerShopTools, When, Plan, On, Checkout
<1>2. FirstMatch(FarmerRules, m, "unsupported") = "checkout_confirm"
  BY <1>1 DEF classify_farmer, Classify, Courtesy
<1> DEFINE hits == {i \in DOMAIN FarmerRules :
                      \A group \in FarmerRules[i].groups : Has(m, group)}
<1>3. DOMAIN FarmerRules = 1..8 /\ \A i \in 2..8 : FarmerRules[i].intent # "checkout_confirm"
  BY DEF FarmerRules, Rule
<1>4. hits # {} /\ FarmerRules[Min(hits)].intent = "checkout_confirm"
  BY <1>2 DEF FirstMatch
<1>5. Min(hits) \in hits
  BY <1>3, <1>4, MinOfHits
<1>6. 1 \in hits
  BY <1>3, <1>4, <1>5
<1>7. FarmerRules[1].groups = {ConfirmKeywords}
  BY DEF FarmerRules, Rule
<1>8. Has(m, ConfirmKeywords)
  BY <1>6, <1>7
<1>. QED
  BY <1>8 DEF Has, ConfirmKeywords

\* The plan of the rules, whoever made it.
IsRulePlan(c, m, plan) ==
  /\ plan.tools = rule_plan(c, m).tools /\ plan.payload = rule_plan(c, m).payload
  /\ plan.given = NothingGiven
  /\ plan.direct_answer = rule_plan(c, m).direct_answer

\* The bundle of a capability the model named.
IsBundlePlan(c, m, plan) ==
  /\ c # "farmer_bnpl" /\ plan.provider = "llm" /\ ~plan.direct_answer
  /\ plan.given = NothingGiven
  /\ \E i \in DOMAIN IntentTable(c) :
       /\ IntentTable(c)[i] \notin DirectCapabilities
       /\ plan.tools = Bundle(c, m, IntentTable(c)[i])
       /\ plan.payload = rule_payloads(m, IntentTable(c)[i], plan.tools)

IsEmptyPlan(c, m, plan) ==
  plan.provider = "llm" /\ plan.tools = {} /\ rule_plan(c, m).tools = {}

\* The tools the model chose among those it may, with what it gave them.
IsChosenPlan(c, m, plan) ==
  /\ plan.provider = "llm" /\ ~plan.direct_answer
  /\ plan.tools # {} /\ plan.tools \subseteq allowed_tool_keys(c)
  /\ DOMAIN plan.given = plan.tools
  /\ plan.payload = [tool \in plan.tools |->
                       normalize_tool_payload(plan.given[tool], tool, m)]

\* There is no other plan.
LEMMA PlanCases ==
  ASSUME NEW c \in ChatTypes, NEW m, NEW plan \in Plans(c, m)
  PROVE  \/ IsRulePlan(c, m, plan) \/ IsBundlePlan(c, m, plan)
         \/ IsEmptyPlan(c, m, plan) \/ IsChosenPlan(c, m, plan)
<1> DEFINE fallback == rule_plan(c, m)
<1>1. fallback.given = NothingGiven
  BY DEF rule_plan
<1>2. CASE plan = fallback
  BY <1>1, <1>2 DEF IsRulePlan
<1>3. ASSUME NEW llm \in LlmReplies[c], plan = llm_plan(c, m, llm)
      PROVE  \/ IsRulePlan(c, m, plan) \/ IsBundlePlan(c, m, plan)
             \/ IsEmptyPlan(c, m, plan) \/ IsChosenPlan(c, m, plan)
  <2> DEFINE known == llm.capability \in {IntentTable(c)[i] : i \in DOMAIN IntentTable(c)}
             bundled == c # "farmer_bnpl" /\ known /\ llm.capability \notin DirectCapabilities
             chosen == validated(c, DOMAIN llm.tool_plans)
             given == Restrict(llm.tool_plans, chosen)
             payload == [tool \in chosen |-> normalize_tool_payload(given[tool], tool, m)]
             bundle == Bundle(c, m, llm.capability)
  <2>1. CASE bundled
    <3>1. /\ plan.provider = "llm" /\ ~plan.direct_answer /\ plan.given = NothingGiven
          /\ plan.payload = rule_payloads(m, llm.capability, bundle)
          /\ plan.tools = DOMAIN rule_payloads(m, llm.capability, bundle)
      BY <1>3, <2>1 DEF llm_plan
    <3>2. plan.tools = bundle
      BY <3>1 DEF rule_payloads
    <3>3. PICK i \in DOMAIN IntentTable(c) : llm.capability = IntentTable(c)[i]
      BY <2>1
    <3>. QED
      BY <2>1, <3>1, <3>2, <3>3 DEF IsBundlePlan
  <2>2. CASE ~bundled /\ ~llm.requires_tools /\ fallback.tools = {}
    <3>1. plan.provider = "llm" /\ plan.tools = DOMAIN NothingGiven
      BY <1>3, <2>2 DEF llm_plan
    <3>. QED
      BY <2>2, <3>1 DEF IsEmptyPlan, NothingGiven
  <2>3. CASE ~bundled /\ llm.requires_tools /\ llm.is_list /\ chosen # {}
    <3>1. /\ plan.provider = "llm" /\ ~plan.direct_answer /\ plan.given = given
          /\ plan.payload = payload /\ plan.tools = DOMAIN payload
      BY <1>3, <2>3 DEF llm_plan
    <3>2. chosen \subseteq allowed_tool_keys(c)
      BY DEF validated
    <3>3. DOMAIN given = chosen
      BY DEF Restrict
    <3>4. plan.tools = chosen
      BY <3>1
    <3>. QED
      BY <2>3, <3>1, <3>2, <3>3, <3>4 DEF IsChosenPlan
  <2>4. CASE /\ ~bundled /\ ~(~llm.requires_tools /\ fallback.tools = {})
             /\ ~(llm.requires_tools /\ llm.is_list /\ chosen # {})
    <3>1. plan = [fallback EXCEPT !.provider = "llm_with_rule_fallback"]
      BY <1>3, <2>4 DEF llm_plan
    <3>2. /\ plan.tools = fallback.tools /\ plan.payload = fallback.payload
          /\ plan.given = fallback.given /\ plan.direct_answer = fallback.direct_answer
      BY <3>1 DEF rule_plan
    <3>. QED
      BY <1>1, <3>2 DEF IsRulePlan
  <2>. QED
    BY <2>1, <2>2, <2>3, <2>4
<1>. QED
  BY <1>2, <1>3 DEF Plans

\* The tools of any capability are callable for the chat.
LEMMA BundleRuns ==
  ASSUME NEW c \in ChatTypes, NEW m, NEW capability
  PROVE  Bundle(c, m, capability) \subseteq
           RunnableReads \cup (IF c = "farmer_bnpl" THEN {Checkout} ELSE {})
<1>1. CASE c = "farmer_bnpl"
  BY <1>1, FarmerBundle DEF Bundle
<1>2. CASE c = "admin_copilot"
  BY <1>2, AdminBundle DEF Bundle
<1>3. CASE c = "sre_copilot"
  BY <1>3, SreBundle DEF Bundle
<1>. QED
  BY <1>1, <1>2, <1>3 DEF ChatTypes

\* A plan of any provider holds runnable reads, and a checkout for a farmer only.
LEMMA PlannedTools ==
  ASSUME NEW c \in ChatTypes, NEW m, NEW plan \in Plans(c, m)
  PROVE  plan.tools \subseteq
           RunnableReads \cup (IF c = "farmer_bnpl" THEN {Checkout} ELSE {})
<1> DEFINE capability == IntentTable(c)[classify(c, m)]
<1>1. rule_plan(c, m).tools = Bundle(c, m, capability)
  BY DEF rule_plan
<1>2. CASE IsRulePlan(c, m, plan) \/ IsBundlePlan(c, m, plan) \/ IsEmptyPlan(c, m, plan)
  BY <1>1, <1>2, BundleRuns DEF IsRulePlan, IsBundlePlan, IsEmptyPlan
<1>3. CASE IsChosenPlan(c, m, plan)
  BY <1>3, AllowedTools DEF IsChosenPlan
<1>. QED
  BY <1>2, <1>3, PlanCases

\* Without the model, a checkout is planned for a confirmation only.
LEMMA RulesAskWhenConfirmed ==
  ASSUME NEW c \in ChatTypes, NEW m, NEW plan \in Plans(c, m),
         plan.provider # "llm", Checkout \in plan.tools
  PROVE  "confirm_checkout" \in m
<1>1. plan.tools = rule_plan(c, m).tools
  BY PlanCases DEF IsRulePlan, IsBundlePlan, IsEmptyPlan, IsChosenPlan
<1>2. plan.tools = Bundle(c, m, IntentTable(c)[classify(c, m)])
  BY <1>1 DEF rule_plan
<1>3. Checkout \notin RunnableReads
  BY CheckoutIsNoRead
<1>4. c = "farmer_bnpl"
  BY <1>3, PlannedTools
<1>. QED
  BY <1>2, <1>4, CheckoutIsConfirmed DEF Bundle

\* A data intent of a copilot has tools.
LEMMA CopilotBundleIsNotEmpty ==
  ASSUME NEW c \in ChatTypes, c # "farmer_bnpl", NEW m,
         NEW i \in DOMAIN IntentTable(c), IntentTable(c)[i] \notin DirectCapabilities
  PROVE  Bundle(c, m, IntentTable(c)[i]) # {}
<1>1. CASE c = "admin_copilot"
  <2>1. IntentTable(c) = ADMIN_INTENT_TO_CAPABILITY
    BY <1>1 DEF IntentTable
  <2>2. IntentTable(c)[i] \in {"overdue_risk_triage", "credit_review_workload",
          "infra_scaling_health", "disaster_credit_impact", "evidence_snapshot",
          "bnpl_portfolio_status", "risk_overview", "ops_action_prioritization"}
    BY <2>1 DEF ADMIN_INTENT_TO_CAPABILITY, DirectCapabilities
  <2>3. PICK k : k = IntentTable(c)[i]
    OBVIOUS
  <2>4. k \in {"overdue_risk_triage", "risk_overview", "ops_action_prioritization"} =>
          <<Admin, "get_overdue_summary">> \in plan_admin(m, k)
    BY DEF plan_admin, When, Plan, On
  <2>5. k = "bnpl_portfolio_status" => <<Admin, "get_bnpl_summary">> \in plan_admin(m, k)
    BY DEF plan_admin, When, Plan, On
  <2>6. k = "credit_review_workload" =>
          <<Admin, "get_credit_review_queue">> \in plan_admin(m, k)
    BY DEF plan_admin, When, Plan, On
  <2>7. k = "infra_scaling_health" =>
          <<Prediction, "get_scaling_summary">> \in plan_admin(m, k)
    BY DEF plan_admin, When, Plan, On
  <2>8. k = "disaster_credit_impact" =>
          <<Admin, "simulate_disaster_credit_risk">> \in plan_admin(m, k)
    BY DEF plan_admin, When, Plan, On
  <2>9. k = "evidence_snapshot" =>
          <<Admin, "create_risk_analysis_snapshot">> \in plan_admin(m, k)
    BY DEF plan_admin, When, Plan, On
  <2>10. plan_admin(m, k) # {}
    BY <2>2, <2>3, <2>4, <2>5, <2>6, <2>7, <2>8, <2>9
  <2>. QED
    BY <1>1, <2>3, <2>10 DEF Bundle
<1>2. CASE c = "sre_copilot"
  <2>1. On(Infra, SreTopologyTools) \subseteq plan_sre(m, IntentTable(c)[i])
    BY DEF plan_sre, Plan, On
  <2>2. <<Infra, "get_topology_snapshot">> \in On(Infra, SreTopologyTools)
    BY DEF On, SreTopologyTools
  <2>3. plan_sre(m, IntentTable(c)[i]) # {}
    BY <2>1, <2>2
  <2>. QED
    BY <1>2, <2>3 DEF Bundle
<1>. QED
  BY <1>1, <1>2 DEF ChatTypes

\* ------------------------- payloads and the context of a plan -------------------------
\* The arguments an operation needs are those the planner writes, but for the records
\* that only the model can name.
LEMMA ArgumentsAreWritten ==
  ASSUME NEW m, NEW tool, tool \in RecordReads => tool = PodLogs /\ "pod_name" \in m
  PROVE  RequiredArguments(tool) \subseteq WrittenArguments(tool, m)
<1> DEFINE common == {"items", "crop_type", "region", "target_id", "query", "service",
                      "service_name", "deployment_name", "application_name"}
<1>1. DOMAIN RequiredBy = common \cup {"user_id", "application_id", "trace_id", "pod_name"}
  BY DEF RequiredBy
<1>2. DOMAIN WrittenFor = common \cup {"user_id"}
  BY DEF WrittenFor
<1>3. \A a \in common : RequiredBy[a] = WrittenFor[a]
  BY DEF RequiredBy, WrittenFor
<1>4. ASSUME NEW a \in common, tool \in RequiredBy[a] PROVE a \in WrittenArguments(tool, m)
  BY <1>2, <1>3, <1>4 DEF WrittenArguments
<1>5. ASSUME tool \in RequiredBy["user_id"] PROVE "user_id" \in WrittenArguments(tool, m)
  <2>1. tool \in CallerTools \cup RecordReads
    BY <1>5 DEF RequiredBy, CallerTools, RecordReads, On
  <2>2. PodLogs \notin RequiredBy["user_id"]
    BY DEF RequiredBy, PodLogs, On, Infra, Farmer, Admin
  <2>3. tool \in WrittenFor["user_id"]
    BY <1>5, <2>1, <2>2 DEF WrittenFor
  <2>. QED
    BY <1>2, <2>3 DEF WrittenArguments
<1>6. ASSUME NEW a \in {"application_id", "trace_id"}, tool \in RequiredBy[a] PROVE FALSE
  <2>1. tool \in RecordReads
    BY <1>6 DEF RequiredBy, RecordReads, On
  <2>2. PodLogs \notin RequiredBy[a]
    BY DEF RequiredBy, PodLogs, On, Infra, Admin
  <2>. QED
    BY <1>6, <2>1, <2>2
<1>7. ASSUME tool \in RequiredBy["pod_name"] PROVE "pod_name" \in WrittenArguments(tool, m)
  <2>1. tool = PodLogs
    BY <1>7 DEF RequiredBy, PodLogs, On
  <2>2. tool \in RecordReads
    BY <2>1 DEF RecordReads, PodLogs, On
  <2>. QED
    BY <2>1, <2>2 DEF WrittenArguments, When
<1>. QED
  BY <1>1, <1>4, <1>5, <1>6, <1>7 DEF RequiredArguments

\* The service of a context is one the code knows, and the one the message names if any.
LEMMA ServiceIsKnown ==
  ASSUME NEW m, NEW intent
  PROVE  /\ infer_sre_service_name(m, intent) \in NamedServices
         /\ Has(m, NamedServices) => infer_sre_service_name(m, intent) \in m
<1>1. CASE Has(m, NamedServices)
  <2>1. \E s \in NamedServices : s \in m
    BY <1>1 DEF Has
  <2>. QED
    BY <1>1, <2>1 DEF infer_sre_service_name
<1>2. CASE ~Has(m, NamedServices)
  <2>1. {"service-payment", "service-catalog", "postgresql", "service-auth"}
          \subseteq NamedServices
    BY DEF NamedServices, OnpremServices
  <2>. QED
    BY <1>2, <2>1 DEF infer_sre_service_name
<1>. QED
  BY <1>1, <1>2

\* What the parts of a context have to do with each other.
LEMMA PartsOfContext ==
  ASSUME NEW m, NEW intent
  PROVE  LET context == build_sre_incident_context(m, intent)
             service == context.service
         IN  /\ service \in NamedServices
             /\ Has(m, NamedServices) => service \in m
             /\ service \in OnpremServices => context.edge = "onprem"
             /\ (context.edge = "onprem" /\ service \notin OnpremServices) =>
                  Has(m, {"onprem", "metallb"})
             /\ ~Has(m, {"cluster=eks", "cluster=onprem"}) =>
                  context.kubernetes_source = IF context.edge = "aws_eks" THEN "eks"
                    ELSE IF context.edge = "onprem" THEN "onprem" ELSE "none"
             /\ ~Has(m, NamedNamespaces) =>
                  context.namespace = CASE service = "postgresql" -> "monitoring"
                    [] service = "service-catalog" -> "service-catalog"
                    [] service \in OnpremServices \ {"service-batch"} -> "kkpp"
                    [] OTHER -> "default"
             /\ (context.namespace = "kkpp" /\ "namespace=kkpp" \notin m) =>
                  service \in OnpremServices
             /\ context.namespace \in {"kkpp", "other", "monitoring", "service-catalog",
                                       "default"}
             /\ context.load_balancer = "kkpp-catalog-api" => context.edge = "aws_eks"
<1> DEFINE service == infer_sre_service_name(m, intent)
           edge == infer_sre_edge_target(m, intent, service)
           context == build_sre_incident_context(m, intent)
<1>1. /\ context.service = service /\ context.edge = edge
      /\ context.kubernetes_source = infer_sre_kubernetes_source(m, service, edge)
      /\ context.namespace = infer_sre_namespace(m, service)
      /\ context.load_balancer = infer_sre_load_balancer_name(m, intent, service, edge)
  BY DEF build_sre_incident_context
<1>2. service \in NamedServices /\ (Has(m, NamedServices) => service \in m)
  BY ServiceIsKnown
<1> HIDE DEF service, context
<1>3. /\ service \in OnpremServices => edge = "onprem"
      /\ edge = "onprem" /\ service \notin OnpremServices => Has(m, {"onprem", "metallb"})
  BY DEF infer_sre_edge_target
<1> HIDE DEF edge
<1>4. ~Has(m, {"cluster=eks", "cluster=onprem"}) =>
        infer_sre_kubernetes_source(m, service, edge) = IF edge = "aws_eks" THEN "eks"
          ELSE IF edge = "onprem" THEN "onprem" ELSE "none"
  BY <1>3 DEF infer_sre_kubernetes_source, Has
<1>5. ~Has(m, NamedNamespaces) => "namespace=kkpp" \notin m /\ "namespace=other" \notin m
  BY DEF Has, NamedNamespaces
<1>6. infer_sre_namespace(m, service) =
        IF "namespace=kkpp" \in m THEN "kkpp"
        ELSE IF "namespace=other" \in m THEN "other"
        ELSE CASE service = "postgresql" -> "monitoring"
               [] service = "service-catalog" -> "service-catalog"
               [] service \in OnpremServices \ {"service-batch"} -> "kkpp"
               [] OTHER -> "default"
  BY DEF infer_sre_namespace
<1>7. "postgresql" \notin OnpremServices /\ "service-catalog" \notin OnpremServices
  BY DEF OnpremServices
<1>8. /\ infer_sre_namespace(m, service) \in
           {"kkpp", "other", "monitoring", "service-catalog", "default"}
      /\ (infer_sre_namespace(m, service) = "kkpp" /\ "namespace=kkpp" \notin m) =>
           service \in OnpremServices
  BY <1>6, <1>7
<1>9. infer_sre_load_balancer_name(m, intent, service, edge) = "kkpp-catalog-api" =>
        edge = "aws_eks"
  BY DEF infer_sre_load_balancer_name
<1>10. ~Has(m, NamedNamespaces) => infer_sre_namespace(m, service) =
         CASE service = "postgresql" -> "monitoring"
           [] service = "service-catalog" -> "service-catalog"
           [] service \in OnpremServices \ {"service-batch"} -> "kkpp"
           [] OTHER -> "default"
  BY <1>5, <1>6
<1>. QED
  BY <1>1, <1>2, <1>3, <1>4, <1>8, <1>9, <1>10 DEF context

\* The cluster and the namespace of a context go together unless the message misleads.
LEMMA ContextResolves ==
  ASSUME NEW m, NEW intent, ~MessageMisleads(m)
  PROVE  LET context == build_sre_incident_context(m, intent)
         IN  /\ resolves(context.kubernetes_source, context.namespace)
             /\ resolves(context.kubernetes_source, "none")
             /\ context.namespace # "kkpp" => resolves("none", context.namespace)
<1> DEFINE context == build_sre_incident_context(m, intent)
           service == context.service
<1>1. /\ ~Has(m, {"cluster=eks", "cluster=onprem"}) /\ ~Has(m, NamedNamespaces)
      /\ Has(m, {"onprem", "metallb"}) =>
           "service-catalog" \notin m /\ Has(m, NamedServices)
  BY DEF MessageMisleads, Has
<1>2. /\ service \in NamedServices
      /\ Has(m, NamedServices) => service \in m
      /\ service \in OnpremServices => context.edge = "onprem"
      /\ (context.edge = "onprem" /\ service \notin OnpremServices) =>
           Has(m, {"onprem", "metallb"})
      /\ context.kubernetes_source = IF context.edge = "aws_eks" THEN "eks"
           ELSE IF context.edge = "onprem" THEN "onprem" ELSE "none"
      /\ context.namespace = CASE service = "postgresql" -> "monitoring"
           [] service = "service-catalog" -> "service-catalog"
           [] service \in OnpremServices \ {"service-batch"} -> "kkpp"
           [] OTHER -> "default"
  BY <1>1, PartsOfContext
<1> HIDE DEF context
<1>3. context.edge = "onprem" => service # "service-catalog"
  BY <1>1, <1>2 DEF OnpremServices
<1>4. /\ "eks" \in DOMAIN NamespaceAllowlist /\ "onprem" \in DOMAIN NamespaceAllowlist
      /\ {"monitoring", "service-catalog", "default"} \subseteq NamespaceAllowlist["eks"]
      /\ {"monitoring", "kkpp", "default"} \subseteq NamespaceAllowlist["onprem"]
  BY DEF NamespaceAllowlist
<1>5. /\ context.namespace \in {"monitoring", "service-catalog", "kkpp", "default"}
      /\ context.namespace = "service-catalog" => service = "service-catalog"
      /\ context.namespace = "kkpp" => service \in OnpremServices
  BY <1>2
<1>6. context.kubernetes_source = "onprem" =>
        context.namespace \in {"monitoring", "kkpp", "default"}
  BY <1>2, <1>3, <1>5
<1>7. context.kubernetes_source \in {"eks", "none"} =>
        context.namespace \in {"monitoring", "service-catalog", "default"}
  BY <1>2, <1>5
<1>8. context.kubernetes_source \in {"eks", "none", "onprem"}
  BY <1>2
<1>. QED
  BY <1>4, <1>5, <1>6, <1>7, <1>8 DEF resolves, context

\* ------------------------- one side is inspected -------------------------
\* The cluster tools, the checks of the on-prem edge, the logs and the load balancer are
\* four different things.
LEMMA InspectionsDiffer ==
  /\ PodLogs \notin ClusterTools /\ AlbHealth \notin ClusterTools
  /\ PodLogs \notin On(Infra, OnpremEdgeTools) /\ AlbHealth \notin On(Infra, OnpremEdgeTools)
  /\ PodLogs # AlbHealth /\ ClusterTools \cap On(Infra, OnpremEdgeTools) = {}
  BY DEF PodLogs, AlbHealth, ClusterTools, On, SreClusterTools, OnpremEdgeTools

\* The rules check the on-prem edge for the context of that edge only.
LEMMA EdgeIsOfContext ==
  ASSUME NEW m, NEW capability,
         NEW tool \in plan_sre(m, capability) \cap On(Infra, OnpremEdgeTools)
  PROVE  build_sre_incident_context(m,
           IntentOf(SRE_INTENT_TO_CAPABILITY, capability, "none")).edge = "onprem"
<1> DEFINE context == build_sre_incident_context(m,
                        IntentOf(SRE_INTENT_TO_CAPABILITY, capability, "none"))
<1> SUFFICES ASSUME context.edge # "onprem" PROVE FALSE
  OBVIOUS
<1>1. SreRoutingTools(context) \subseteq {"get_alb_target_health"} \cup AwsEdgeTools
  BY DEF SreRoutingTools, When
<1> HIDE DEF context
<1>2. tool[2] \in SreTopologyTools \cup SreClusterTools \cup SreSignalTools \cup AwsEdgeTools
        \cup {"get_pod_logs", "get_sqs_queue_attributes", "get_sqs_dlq_attributes",
              "get_alb_target_health"}
  BY <1>1 DEF plan_sre, Plan, On, When, context
<1>3. tool[2] \in OnpremEdgeTools
  BY DEF On
<1>. QED
  BY <1>2, <1>3 DEF OnpremEdgeTools, SreTopologyTools, SreClusterTools, SreSignalTools,
                    AwsEdgeTools

\* The side of a context.
SideOfContext(context) == IF context.edge = "onprem" THEN "onprem" ELSE "eks"

\* The source of a cluster call, "eks" when there is none, is that side; the catalog's
\* load balancer is on its own; and only on-prem services have the namespace kkpp.
LEMMA ContextHasOneSide ==
  ASSUME NEW m, NEW intent, ~Has(m, {"cluster=eks", "cluster=onprem"})
  PROVE  LET context == build_sre_incident_context(m, intent)
             source == context.kubernetes_source
         IN  /\ SideOfContext(context) = IF source # "none" THEN source ELSE "eks"
             /\ context.load_balancer = "kkpp-catalog-api" => SideOfContext(context) = "eks"
             /\ (context.namespace = "kkpp" /\ "namespace=kkpp" \notin m) =>
                  SideOfContext(context) = "onprem"
  BY PartsOfContext DEF SideOfContext

\* All the inspections of a plan look into one cluster, and read kkpp on-prem.
InspectsOneSide(m, plan) ==
  \E side : \A tool \in Inspections(plan) :
    /\ SideOf(tool, plan) = side
    /\ (plan.payload[tool].namespace = "kkpp" /\ "namespace=kkpp" \notin m) =>
         side = "onprem"

\* The rules inspect the side of the context of their capability.
LEMMA RulesInspectOneSide ==
  ASSUME NEW m, NEW capability, NEW plan, ~Has(m, {"cluster=eks", "cluster=onprem"}),
         plan.tools = plan_sre(m, capability), plan.given = NothingGiven,
         plan.payload = rule_payloads(m, capability, plan.tools)
  PROVE  InspectsOneSide(m, plan)
<1> DEFINE intent == IntentOf(SRE_INTENT_TO_CAPABILITY, capability, "none")
           context == build_sre_incident_context(m, intent)
           source == context.kubernetes_source
           side == SideOfContext(context)
<1> SUFFICES ASSUME NEW tool \in Inspections(plan)
             PROVE  /\ SideOf(tool, plan) = side
                    /\ (plan.payload[tool].namespace = "kkpp" /\ "namespace=kkpp" \notin m) =>
                         side = "onprem"
  BY DEF InspectsOneSide
<1>1. tool \in plan.tools /\ tool \notin DOMAIN plan.given
  BY DEF Inspections, NothingGiven
<1>2. plan.payload[tool] = rule_payload(tool, m, context)
  BY <1>1 DEF rule_payloads
<1>3. /\ plan.payload[tool].source = IF tool \in ClusterTools THEN source ELSE "none"
      /\ plan.payload[tool].namespace = IF tool \in ClusterTools \cup {PodLogs}
                                          THEN context.namespace ELSE "none"
      /\ plan.payload[tool].load_balancer = IF tool = AlbHealth
                                              THEN context.load_balancer ELSE "none"
  BY <1>2 DEF rule_payload
<1>4. /\ side = IF source # "none" THEN source ELSE "eks"
      /\ context.load_balancer = "kkpp-catalog-api" => side = "eks"
      /\ (context.namespace = "kkpp" /\ "namespace=kkpp" \notin m) => side = "onprem"
  BY ContextHasOneSide
<1>5. tool \in On(Infra, OnpremEdgeTools) => side = "onprem"
  BY <1>1, EdgeIsOfContext DEF SideOfContext
<1>6. \/ tool \in ClusterTools
      \/ tool \in On(Infra, OnpremEdgeTools)
      \/ tool = AlbHealth /\ context.load_balancer = "kkpp-catalog-api"
  BY <1>1, <1>3, InspectionsDiffer DEF Inspections
<1> HIDE DEF side, source, context
<1>7. CASE tool \in ClusterTools
  BY <1>3, <1>4, <1>7, InspectionsDiffer DEF SideOf
<1>8. CASE tool \in On(Infra, OnpremEdgeTools)
  BY <1>3, <1>5, <1>8, InspectionsDiffer DEF SideOf
<1>9. CASE tool = AlbHealth /\ context.load_balancer = "kkpp-catalog-api"
  BY <1>3, <1>4, <1>9, InspectionsDiffer DEF SideOf
<1>. QED
  BY <1>6, <1>7, <1>8, <1>9

\* The tools of the model inspect the side of the context inferred from the message,
\* which is the same for each of them, and check no on-prem edge.
LEMMA ChosenToolsInspectOneSide ==
  ASSUME NEW m, NEW plan, ~Has(m, {"cluster=eks", "cluster=onprem"}),
         IsChosenPlan("sre_copilot", m, plan)
  PROVE  InspectsOneSide(m, plan)
<1> DEFINE context == build_sre_incident_context(m, classify_sre(m))
           source == context.kubernetes_source
           side == SideOfContext(context)
<1> SUFFICES ASSUME NEW tool \in Inspections(plan)
             PROVE  /\ SideOf(tool, plan) = side
                    /\ (plan.payload[tool].namespace = "kkpp" /\ "namespace=kkpp" \notin m) =>
                         side = "onprem"
  BY DEF InspectsOneSide
<1>1. /\ tool \in plan.tools /\ plan.given[tool].source = "none"
      /\ plan.given[tool].namespace = "none" /\ plan.given[tool].load_balancer = "none"
  BY DEF Inspections, IsChosenPlan
<1>2. plan.payload[tool] = normalize_tool_payload(plan.given[tool], tool, m)
  BY <1>1 DEF IsChosenPlan
<1>3. /\ plan.payload[tool].source = IF tool \in ClusterTools \cup {PodLogs}
                                       THEN source ELSE "none"
      /\ plan.payload[tool].namespace \in {"none"} \cup
           (IF tool \in ClusterTools \cup {PodLogs} THEN {context.namespace} ELSE {})
      /\ plan.payload[tool].load_balancer = IF tool = AlbHealth
                                              THEN context.load_balancer ELSE "none"
  BY <1>1, <1>2 DEF normalize_tool_payload, filled_source, filled_namespace,
                    filled_load_balancer
<1>4. /\ side = IF source # "none" THEN source ELSE "eks"
      /\ context.load_balancer = "kkpp-catalog-api" => side = "eks"
      /\ (context.namespace = "kkpp" /\ "namespace=kkpp" \notin m) => side = "onprem"
  BY ContextHasOneSide
<1>5. tool \notin On(Infra, OnpremEdgeTools)
  <2>1. tool \in allowed_tool_keys("sre_copilot")
    BY <1>1 DEF IsChosenPlan
  <2>2. allowed_tool_keys("sre_copilot") \cap On(Infra, OnpremEdgeTools) = {}
    BY DEF allowed_tool_keys, On, OnpremEdgeTools, SreTopologyTools, SreSignalTools,
           AwsEdgeTools, SreClusterTools
  <2>. QED
    BY <2>1, <2>2
<1>6. \/ tool \in ClusterTools \cup {PodLogs}
      \/ tool = AlbHealth /\ context.load_balancer = "kkpp-catalog-api"
  BY <1>3, <1>5 DEF Inspections
<1> HIDE DEF side, source, context
<1>7. CASE tool \in ClusterTools \cup {PodLogs}
  BY <1>3, <1>4, <1>5, <1>7 DEF SideOf
<1>8. CASE tool = AlbHealth /\ context.load_balancer = "kkpp-catalog-api"
  BY <1>3, <1>4, <1>5, <1>8, InspectionsDiffer DEF SideOf
<1>. QED
  BY <1>6, <1>7, <1>8

\* Every SRE plan inspects one side.
LEMMA PlansInspectOneSide ==
  ASSUME NEW m, NEW plan \in Plans("sre_copilot", m),
         ~Has(m, {"cluster=eks", "cluster=onprem"})
  PROVE  InspectsOneSide(m, plan)
<1>1. CASE IsRulePlan("sre_copilot", m, plan)
  <2>1. PICK capability : capability = IntentTable("sre_copilot")[classify("sre_copilot", m)]
    OBVIOUS
  <2>2. /\ plan.tools = plan_sre(m, capability) /\ plan.given = NothingGiven
        /\ plan.payload = rule_payloads(m, capability, plan.tools)
    BY <1>1, <2>1 DEF IsRulePlan, rule_plan, Bundle
  <2>. QED
    BY <2>2, RulesInspectOneSide
<1>2. CASE IsBundlePlan("sre_copilot", m, plan)
  <2>1. PICK capability :
          /\ plan.tools = plan_sre(m, capability) /\ plan.given = NothingGiven
          /\ plan.payload = rule_payloads(m, capability, plan.tools)
    BY <1>2 DEF IsBundlePlan, Bundle
  <2>. QED
    BY <2>1, RulesInspectOneSide
<1>3. CASE IsEmptyPlan("sre_copilot", m, plan)
  BY <1>3 DEF IsEmptyPlan, Inspections, InspectsOneSide
<1>4. CASE IsChosenPlan("sre_copilot", m, plan)
  BY <1>4, ChosenToolsInspectOneSide
<1>. QED
  BY <1>1, <1>2, <1>3, <1>4, PlanCases DEF ChatTypes

\* A bundle has no tool about a record, but for the logs of a pod the message names.
LEMMA BundlesNameNoRecord ==
  ASSUME NEW c \in ChatTypes, NEW m, NEW capability,
         NEW tool \in Bundle(c, m, capability) \cap RecordReads
  PROVE  tool = PodLogs /\ "pod_name" \in m
<1>1. CASE c = "farmer_bnpl"
  BY <1>1 DEF Bundle, plan_farmer, FarmerAccountTools, FarmerShopTools, RecordReads, When,
              Plan, On, Farmer, Advisory, Admin, Infra
<1>2. CASE c = "admin_copilot"
  BY <1>2 DEF Bundle, plan_admin, RecordReads, When, Plan, On, Admin, Infra, Prediction
<1>3. CASE c = "sre_copilot"
  <2> DEFINE context == build_sre_incident_context(m,
                          IntentOf(SRE_INTENT_TO_CAPABILITY, capability, "none"))
  <2>1. SreRoutingTools(context) \subseteq
          OnpremEdgeTools \cup {"get_alb_target_health"} \cup AwsEdgeTools
    BY DEF SreRoutingTools, When
  <2> HIDE DEF context
  <2>2. tool \in plan_sre(m, capability) /\ tool[1] = Infra
    BY <1>3 DEF Bundle, plan_sre, Plan, On
  <2>3. \/ tool[2] = "get_pod_logs" /\ "pod_name" \in m
        \/ tool[2] \in SreTopologyTools \cup SreClusterTools \cup SreSignalTools \cup
             OnpremEdgeTools \cup AwsEdgeTools \cup {"get_alb_target_health",
             "get_sqs_queue_attributes", "get_sqs_dlq_attributes"}
    BY <2>1, <2>2 DEF plan_sre, Plan, On, When, context
  <2>4. tool[2] \in {"get_trace_by_id", "get_trace_error_spans", "get_pod_logs"}
    BY <2>2 DEF RecordReads, On, Admin, Infra
  <2>5. tool[2] = "get_pod_logs" /\ "pod_name" \in m
    BY <2>3, <2>4 DEF SreTopologyTools, SreClusterTools, SreSignalTools, OnpremEdgeTools,
                      AwsEdgeTools
  <2>. QED
    BY <2>2, <2>5 DEF PodLogs, On, RecordReads
<1>. QED
  BY <1>1, <1>2, <1>3 DEF ChatTypes

\* The reads of a namespace, and the snapshot, are the tools that get one.
LEMMA NamespacedTools ==
  /\ NamespacedReads \subseteq ClusterTools \cup {PodLogs}
  /\ ClusterTools \cup {PodLogs} \subseteq
       NamespacedReads \cup On(Infra, {"create_rca_snapshot"})
  /\ On(Infra, {"get_alb_target_health"}) = {AlbHealth}
  /\ PodLogs \in NamespacedReads
  BY DEF NamespacedReads, ClusterTools, SreClusterTools, PodLogs, AlbHealth, On

\* A tool accepts what the rules write, unless the message misled them or they ask the
\* wrong cluster.
LEMMA RulePayloadIsAccepted ==
  ASSUME NEW m, NEW intent, NEW tool,
         tool \in RecordReads => tool = PodLogs /\ "pod_name" \in m,
         tool \in NamespacedReads => ~MessageMisleads(m),
         tool = PodLogs => build_sre_incident_context(m, intent).namespace # "kkpp"
  PROVE  accepts(tool, rule_payload(tool, m, build_sre_incident_context(m, intent)))
<1> DEFINE context == build_sre_incident_context(m, intent)
           payload == rule_payload(tool, m, context)
<1>1. /\ payload.arguments = WrittenArguments(tool, m) /\ payload.foreign = FALSE
      /\ payload.source = IF tool \in ClusterTools THEN context.kubernetes_source ELSE "none"
      /\ payload.namespace = IF tool \in ClusterTools \cup {PodLogs}
                               THEN context.namespace ELSE "none"
      /\ payload.load_balancer = IF tool = AlbHealth THEN context.load_balancer ELSE "none"
  BY DEF rule_payload
<1>2. tool \in NamespacedReads =>
        /\ resolves(context.kubernetes_source, context.namespace)
        /\ tool = PodLogs => resolves("none", context.namespace)
  BY ContextResolves
<1> HIDE DEF context, payload
<1>3. tool \in NamespacedReads => resolves(payload.source, payload.namespace)
  BY <1>1, <1>2, NamespacedTools, InspectionsDiffer
<1>4. (payload.source # "none" \/ payload.namespace # "none") =>
        tool \in NamespacedReads \cup On(Infra, {"create_rca_snapshot"})
  BY <1>1, NamespacedTools
<1>5. payload.load_balancer # "none" => tool \in On(Infra, {"get_alb_target_health"})
  BY <1>1, NamespacedTools
<1>6. RequiredArguments(tool) \subseteq payload.arguments
  BY <1>1, ArgumentsAreWritten
<1>. QED
  BY <1>1, <1>3, <1>4, <1>5, <1>6 DEF accepts, payload, context

\* A tool accepts what the model gave it once the planner has filled it in, unless the
\* model or the message misled.
LEMMA FilledPayloadIsAccepted ==
  ASSUME NEW m, NEW given, NEW tool, ~LlmMisleads(tool, given, m),
         tool \in NamespacedReads => ~MessageMisleads(m)
  PROVE  accepts(tool, normalize_tool_payload(given, tool, m))
<1> DEFINE context == build_sre_incident_context(m, classify_sre(m))
           payload == normalize_tool_payload(given, tool, m)
<1>1. /\ ~given.foreign /\ given.source = "none" /\ given.namespace = "none"
      /\ given.load_balancer # "none" => tool = AlbHealth
      /\ \/ RequiredArguments(tool) \subseteq given.arguments
         \/ tool \in RecordReads => tool = PodLogs /\ "pod_name" \in m
  BY DEF LlmMisleads
<1>2. /\ payload.arguments = given.arguments \cup WrittenArguments(tool, m)
      /\ payload.foreign = given.foreign
      /\ payload.source = IF tool \in ClusterTools \cup {PodLogs}
                            THEN context.kubernetes_source ELSE "none"
      /\ payload.namespace \in {"none"} \cup
           (IF tool \in ClusterTools \cup {PodLogs} THEN {context.namespace} ELSE {})
      /\ payload.load_balancer # "none" => tool = AlbHealth
  BY <1>1 DEF normalize_tool_payload, normalized_arguments, filled_source,
              filled_namespace, filled_load_balancer
<1>3. tool \in NamespacedReads =>
        /\ resolves(context.kubernetes_source, context.namespace)
        /\ resolves(context.kubernetes_source, "none")
  BY ContextResolves
<1> HIDE DEF context, payload
<1>4. tool \in NamespacedReads => resolves(payload.source, payload.namespace)
  BY <1>2, <1>3, NamespacedTools
<1>5. (payload.source # "none" \/ payload.namespace # "none") =>
        tool \in NamespacedReads \cup On(Infra, {"create_rca_snapshot"})
  BY <1>2, NamespacedTools
<1>6. payload.load_balancer # "none" => tool \in On(Infra, {"get_alb_target_health"})
  BY <1>2, NamespacedTools
<1>7. RequiredArguments(tool) \subseteq payload.arguments
  BY <1>1, <1>2, ArgumentsAreWritten
<1>. QED
  BY <1>1, <1>2, <1>4, <1>5, <1>6, <1>7 DEF accepts, payload

\* The exceptions of the property.
MayBeRefused(tool, m, plan) ==
  \/ tool \in DOMAIN plan.given /\ LlmMisleads(tool, plan.given[tool], m)
  \/ tool \in NamespacedReads /\ MessageMisleads(m)
  \/ AsksWrongCluster(tool, plan)

\* Every planned tool accepts its payload, but for them.
LEMMA PlansAreAccepted ==
  ASSUME NEW c \in ChatTypes, NEW m, NEW plan \in Plans(c, m), NEW tool \in plan.tools
  PROVE  accepts(tool, plan.payload[tool]) \/ MayBeRefused(tool, m, plan)
<1>1. ASSUME NEW capability, plan.tools = Bundle(c, m, capability),
             plan.payload = rule_payloads(m, capability, plan.tools),
             plan.given = NothingGiven
      PROVE  accepts(tool, plan.payload[tool]) \/ MayBeRefused(tool, m, plan)
  <2> DEFINE intent == IntentOf(SRE_INTENT_TO_CAPABILITY, capability, "none")
             context == build_sre_incident_context(m, intent)
  <2>1. plan.payload[tool] = rule_payload(tool, m, context)
    BY <1>1 DEF rule_payloads
  <2>2. tool = PodLogs /\ context.namespace = "kkpp" => AsksWrongCluster(tool, plan)
    BY <1>1, <2>1 DEF AsksWrongCluster, rule_payload, NothingGiven
  <2>3. tool \in RecordReads => tool = PodLogs /\ "pod_name" \in m
    BY <1>1, BundlesNameNoRecord
  <2>4. CASE tool \in NamespacedReads /\ MessageMisleads(m)
    BY <2>4 DEF MayBeRefused
  <2>5. CASE /\ tool \in NamespacedReads => ~MessageMisleads(m)
             /\ tool = PodLogs => context.namespace # "kkpp"
    BY <2>1, <2>3, <2>5, RulePayloadIsAccepted
  <2>. QED
    BY <2>2, <2>4, <2>5 DEF MayBeRefused
<1>2. CASE IsRulePlan(c, m, plan)
  <2>1. PICK capability : capability = IntentTable(c)[classify(c, m)]
    OBVIOUS
  <2>2. /\ plan.tools = Bundle(c, m, capability) /\ plan.given = NothingGiven
        /\ plan.payload = rule_payloads(m, capability, plan.tools)
    BY <1>2, <2>1 DEF IsRulePlan, rule_plan
  <2>. QED
    BY <1>1, <2>2
<1>3. CASE IsBundlePlan(c, m, plan)
  BY <1>1, <1>3 DEF IsBundlePlan
<1>4. CASE IsEmptyPlan(c, m, plan)
  BY <1>4 DEF IsEmptyPlan
<1>5. CASE IsChosenPlan(c, m, plan)
  <2>1. /\ tool \in DOMAIN plan.given
        /\ plan.payload[tool] = normalize_tool_payload(plan.given[tool], tool, m)
    BY <1>5 DEF IsChosenPlan
  <2>. QED
    BY <2>1, FilledPayloadIsAccepted DEF MayBeRefused
<1>. QED
  BY <1>2, <1>3, <1>4, <1>5, PlanCases

\* ------------------------------------ the runs ------------------------------------
\* The model cannot talk the rules out of the tools of a data request.
LEMMA DataPlan ==
  ASSUME NEW c \in ChatTypes, NEW m, NEW plan \in Plans(c, m), rule_plan(c, m).tools # {}
  PROVE  plan.tools # {}
<1>1. CASE IsBundlePlan(c, m, plan)
  BY <1>1, CopilotBundleIsNotEmpty DEF IsBundlePlan
<1>2. CASE IsRulePlan(c, m, plan) \/ IsEmptyPlan(c, m, plan) \/ IsChosenPlan(c, m, plan)
  BY <1>2 DEF IsRulePlan, IsEmptyPlan, IsChosenPlan
<1>. QED
  BY <1>1, <1>2, PlanCases

\* What a chat may call.
Callable(chat_type) ==
  RunnableReads \cup (IF chat_type = "farmer_bnpl" THEN {Checkout} ELSE {})

\* What the dispatcher makes of a call.
Outcome(tool, payload, down) ==
  IF tool = Checkout THEN "APPROVAL_REQUIRED"
  ELSE IF down \/ ~accepts(tool, payload) THEN "FAILED" ELSE "SUCCESS"

\* What holds of a plan when it is made.
PlanFits(chat_type, message, plan) ==
  /\ plan.tools \subseteq Callable(chat_type)
  /\ (plan.provider # "llm" /\ Checkout \in plan.tools) => "confirm_checkout" \in message
  /\ rule_plan(chat_type, message).tools # {} => plan.tools # {}
  /\ \A tool \in plan.tools :
       accepts(tool, plan.payload[tool]) \/ MayBeRefused(tool, message, plan)
  /\ (chat_type = "sre_copilot" /\ ~Has(message, {"cluster=eks", "cluster=onprem"})) =>
       InspectsOneSide(message, plan)

\* A run has a plan that fits its message, and a result for each planned tool.
RunFits ==
  \/ run = NoRun
  \/ /\ run.kind = "run" /\ run.chat_type \in ChatTypes /\ run.down \in BOOLEAN
     /\ PlanFits(run.chat_type, run.message, run.plan)
     /\ run.results = [tool \in run.plan.tools |->
                         Outcome(tool, run.plan.payload[tool], run.down)]
     /\ run.is_direct_response = (run.plan.direct_answer /\ run.plan.tools = {})

\* Every plan fits when it is made, with the model or without it.
LEMMA PlansFit ==
  ASSUME NEW c \in ChatTypes, NEW m, NEW plan \in Plans(c, m) PROVE PlanFits(c, m, plan)
  BY PlannedTools, RulesAskWhenConfirmed, DataPlan, PlansAreAccepted, PlansInspectOneSide
     DEF PlanFits, Callable

\* The dispatcher makes of a callable tool its outcome.
LEMMA CallableRuns ==
  ASSUME NEW c \in ChatTypes, NEW tool \in Callable(c), NEW payload, NEW down \in BOOLEAN
  PROVE  ExecuteResult(tool, payload, down) = Outcome(tool, payload, down)
<1>1. Checkout \notin RunnableReads
  BY CheckoutIsNoRead
<1>2. CASE tool \in RunnableReads
  BY <1>1, <1>2, Runs DEF Outcome
<1>3. CASE tool = Checkout
  BY <1>3, CheckoutAsks DEF Outcome
<1>. QED
  BY <1>2, <1>3 DEF Callable

\* Every run that is planned or ends preserves the invariant.
LEMMA RunStep == RunFits /\ [RunNext]_<<features, run>> => RunFits'
<1> SUFFICES ASSUME RunFits, [RunNext]_<<features, run>> PROVE RunFits'
  OBVIOUS
<1>1. CASE UNCHANGED <<features, run>>
  BY <1>1 DEF RunFits
<1>2. CASE EndRun
  BY <1>2 DEF EndRun, RunFits
<1>3. CASE RunPlan
  <2>1. PICK c \in ChatTypes, down \in BOOLEAN : \E tokens \in TokenSets[c] :
          \E plan \in Plans(c, Contents(tokens)) :
              run' = [kind |-> "run", chat_type |-> c, message |-> Contents(tokens),
                      plan |-> plan, down |-> down,
                      results |-> [tool \in plan.tools |->
                                     ExecuteResult(tool, plan.payload[tool], down)],
                      is_direct_response |-> plan.direct_answer /\ plan.tools = {},
                      bundle |-> [tool \in Deferred(c, plan.tools) |->
                                    plan.tools \ {tool}]]
    BY <1>3 DEF RunPlan
  <2>2. PICK tokens \in TokenSets[c] : \E plan \in Plans(c, Contents(tokens)) :
              run' = [kind |-> "run", chat_type |-> c, message |-> Contents(tokens),
                      plan |-> plan, down |-> down,
                      results |-> [tool \in plan.tools |->
                                     ExecuteResult(tool, plan.payload[tool], down)],
                      is_direct_response |-> plan.direct_answer /\ plan.tools = {},
                      bundle |-> [tool \in Deferred(c, plan.tools) |->
                                    plan.tools \ {tool}]]
    BY <2>1
  <2> DEFINE m == Contents(tokens)
  <2>3. PICK plan \in Plans(c, m) :
              run' = [kind |-> "run", chat_type |-> c, message |-> m,
                      plan |-> plan, down |-> down,
                      results |-> [tool \in plan.tools |->
                                     ExecuteResult(tool, plan.payload[tool], down)],
                      is_direct_response |-> plan.direct_answer /\ plan.tools = {},
                      bundle |-> [tool \in Deferred(c, plan.tools) |->
                                    plan.tools \ {tool}]]
    BY <2>2
  <2> HIDE DEF m
  <2>4. /\ run'.kind = "run" /\ run'.chat_type = c /\ run'.message = m
        /\ run'.plan = plan /\ run'.down = down
        /\ run'.results = [tool \in plan.tools |->
                             ExecuteResult(tool, plan.payload[tool], down)]
        /\ run'.is_direct_response = (plan.direct_answer /\ plan.tools = {})
    BY <2>3
  <2>5. PlanFits(c, m, plan)
    BY PlansFit
  <2>6. [tool \in plan.tools |-> ExecuteResult(tool, plan.payload[tool], down)] =
        [tool \in plan.tools |-> Outcome(tool, plan.payload[tool], down)]
    BY <2>5, CallableRuns DEF PlanFits
  <2>. QED
    BY <2>4, <2>5, <2>6 DEF RunFits
<1>. QED
  BY <1>1, <1>2, <1>3 DEF RunNext

\* Every reachable run fits.
LEMMA RunsFit == RunSpec => []RunFits
<1>1. RunInit => RunFits
  BY DEF RunInit, RunFits
<1>. QED
  BY <1>1, RunStep, PTL DEF RunSpec

\* No planned tool is unregistered or without an operation, and a call fails only with its
\* service, for a payload the model or the message asked for, or for logs asked of the
\* wrong cluster, for every message, answer of the model and chat.
THEOREM PlannedToolsRunHolds == RunSpec => []PlannedToolsRun
<1>1. RunFits => PlannedToolsRun
  <2> SUFFICES ASSUME RunFits, run.kind = "run", NEW tool \in run.plan.tools
               PROVE  /\ run.results[tool] # "raised"
                      /\ run.results[tool] = "FAILED" =>
                           \/ run.down
                           \/ /\ tool \in DOMAIN run.plan.given
                              /\ LlmMisleads(tool, run.plan.given[tool], run.message)
                           \/ tool \in NamespacedReads /\ MessageMisleads(run.message)
                           \/ AsksWrongCluster(tool, run.plan)
    BY DEF PlannedToolsRun
  <2>1. run # NoRun
    BY DEF NoRun
  <2>2. run.results[tool] = Outcome(tool, run.plan.payload[tool], run.down)
    BY <2>1 DEF RunFits
  <2>3. \/ accepts(tool, run.plan.payload[tool])
        \/ MayBeRefused(tool, run.message, run.plan)
    BY <2>1 DEF RunFits, PlanFits
  <2>4. run.results[tool] # "raised"
    BY <2>2 DEF Outcome
  <2>5. run.results[tool] = "FAILED" =>
          run.down \/ ~accepts(tool, run.plan.payload[tool])
    BY <2>2 DEF Outcome
  <2>. QED
    BY <2>3, <2>4, <2>5 DEF MayBeRefused
<1>. QED
  BY <1>1, RunsFit, PTL

\* A planned tool that is no read is the checkout of a farmer, which waits for an approval;
\* the rules plan it for a message with a confirmation only.
THEOREM OnlyAskedWritesHolds == RunSpec => []OnlyAskedWrites
<1>1. RunFits => OnlyAskedWrites
  <2> SUFFICES ASSUME RunFits, run.kind = "run", NEW tool \in run.plan.tools,
                      PermissionOf(tool) # "READ"
               PROVE  /\ run.chat_type = "farmer_bnpl"
                      /\ run.results[tool] = "APPROVAL_REQUIRED"
                      /\ run.plan.provider # "llm" => "confirm_checkout" \in run.message
    BY DEF OnlyAskedWrites
  <2>1. run # NoRun
    BY DEF NoRun
  <2>2. tool \in Callable(run.chat_type)
    BY <2>1 DEF RunFits, PlanFits
  <2>3. tool \notin RunnableReads
    BY PermissionIs DEF RunnableReads, Permissions
  <2>4. tool = Checkout /\ run.chat_type = "farmer_bnpl"
    BY <2>2, <2>3 DEF Callable
  <2>. QED
    BY <2>1, <2>4 DEF RunFits, PlanFits, Outcome
<1>. QED
  BY <1>1, RunsFit, PTL

\* A message the rules plan tools for is not answered without tools, whatever the model
\* answers.
THEOREM DataRequestGetsToolsHolds == RunSpec => []DataRequestGetsTools
<1>1. RunFits => DataRequestGetsTools
  <2> SUFFICES ASSUME RunFits, run.kind = "run",
                      rule_plan(run.chat_type, run.message).tools # {}
               PROVE  run.plan.tools # {} /\ ~run.is_direct_response
    BY DEF DataRequestGetsTools
  <2>1. run # NoRun
    BY DEF NoRun
  <2>2. run.plan.tools # {}
    BY <2>1 DEF RunFits, PlanFits
  <2>3. run.is_direct_response = (run.plan.direct_answer /\ run.plan.tools = {})
    BY <2>1 DEF RunFits
  <2>. QED
    BY <2>2, <2>3
<1>. QED
  BY <1>1, RunsFit, PTL

\* The calls of an SRE plan that look into a cluster look into one, whoever made the plan,
\* and read the namespace of the on-prem services on-prem, unless the message names them.
THEOREM OneSideIsInspectedHolds == RunSpec => []OneSideIsInspected
<1>1. RunFits => OneSideIsInspected
  <2> SUFFICES ASSUME RunFits, run.kind = "run", run.chat_type = "sre_copilot",
                      ~Has(run.message, {"cluster=eks", "cluster=onprem"})
               PROVE  \A tool \in Inspections(run.plan) :
                        /\ \A other \in Inspections(run.plan) :
                             SideOf(tool, run.plan) = SideOf(other, run.plan)
                        /\ (/\ run.plan.payload[tool].namespace = "kkpp"
                            /\ "namespace=kkpp" \notin run.message) =>
                              SideOf(tool, run.plan) = "onprem"
    BY DEF OneSideIsInspected
  <2>1. run # NoRun
    BY DEF NoRun
  <2>2. InspectsOneSide(run.message, run.plan)
    BY <2>1 DEF RunFits, PlanFits
  <2>. QED
    BY <2>2 DEF InspectsOneSide
<1>. QED
  BY <1>1, RunsFit, PTL

\* -------------------------------- the cache -----------------------------------
Locking == [pc : {"locking", "running"}, key : Keys, asked_at : Times]
Answering == [pc : {"answered"}, key : Keys, asked_at : Times, stored_at : Times]

\* An entry lives for a TTL from the time it was stored.
EntriesLiveForTtl ==
  \A k \in Keys : \/ cache[k] = NoEntry
                  \/ cache[k].expires_at = cache[k].stored_at + Ttl

\* A call in progress was made in the past.
CallsAreMade == \A t \in Threads : read[t] \in Locking => read[t].asked_at <= now

DispatchInv == /\ DispatchTypeOK
               /\ EntriesLiveForTtl
               /\ CallsAreMade
               /\ AnswersAreInTime

USE DispatcherAssumption

\* The cache is empty and no call is in progress.
LEMMA DispatchInitInv == DispatchInit => DispatchInv
  BY DEF DispatchInit, DispatchInv, DispatchTypeOK, EntriesLiveForTtl, CallsAreMade,
         AnswersAreInTime, Times, NoRead, Locking

\* Every step of every thread, and of the clock, preserves the invariant.
LEMMA DispatchNextInv == DispatchInv /\ [DispatchNext]_dispatchVars => DispatchInv'
<1> SUFFICES ASSUME DispatchInv, [DispatchNext]_dispatchVars PROVE DispatchInv'
  OBVIOUS
<1> USE DEF DispatchInv
<1>0. CASE UNCHANGED dispatchVars
  BY <1>0 DEF dispatchVars, DispatchTypeOK, EntriesLiveForTtl, CallsAreMade,
              AnswersAreInTime
<1>1. CASE Tick
  <2>1. now \in Times /\ now' \in Times /\ now < now'
    BY <1>1 DEF Tick, Times, DispatchTypeOK
  <2>2. cache' = cache /\ read' = read
    BY <1>1 DEF Tick
  <2>3. DispatchTypeOK'
    BY <2>1, <2>2 DEF DispatchTypeOK
  <2>4. EntriesLiveForTtl' /\ AnswersAreInTime'
    BY <2>2 DEF EntriesLiveForTtl, AnswersAreInTime
  <2>5. CallsAreMade'
    BY <2>1, <2>2 DEF CallsAreMade, Locking, Times
  <2>. QED
    BY <2>3, <2>4, <2>5
<1>2. ASSUME NEW t \in Threads, BeginRead(t) PROVE DispatchInv'
  <2>1. PICK k \in Keys :
          read' = [read EXCEPT ![t] = [pc |-> "locking", key |-> k, asked_at |-> now]]
    BY <1>2 DEF BeginRead
  <2>2. now' = now /\ cache' = cache
    BY <1>2 DEF BeginRead
  <2>3. [pc |-> "locking", key |-> k, asked_at |-> now] \in Locking
    BY DEF Locking, DispatchTypeOK
  <2>. QED
    BY <2>1, <2>2, <2>3 DEF DispatchTypeOK, EntriesLiveForTtl, CallsAreMade,
                            AnswersAreInTime, Locking, Times
<1>3. ASSUME NEW t \in Threads, CacheHit(t) PROVE DispatchInv'
  <2>1. read[t] \in Locking
    BY <1>3 DEF CacheHit, DispatchTypeOK, Locking, NoRead
  <2>2. /\ cache[read[t].key] \in Entries
        /\ cache[read[t].key].expires_at = cache[read[t].key].stored_at + Ttl
        /\ cache[read[t].key].expires_at > read[t].asked_at
    BY <1>3, <2>1 DEF CacheHit, IsHit, DispatchTypeOK, EntriesLiveForTtl, Locking
  <2>3. /\ Answered(read[t], cache[read[t].key].stored_at) \in Answering
        /\ Answered(read[t], cache[read[t].key].stored_at).asked_at -
             Answered(read[t], cache[read[t].key].stored_at).stored_at < Ttl
    BY <2>1, <2>2 DEF Answered, Answering, Locking, Entries, Times
  <2>4. /\ now' = now /\ cache' = cache
        /\ read' = [read EXCEPT ![t] = Answered(read[t], cache[read[t].key].stored_at)]
    BY <1>3 DEF CacheHit
  <2>5. \A u \in Threads : read'[u] = IF u = t
            THEN Answered(read[t], cache[read[t].key].stored_at) ELSE read[u]
    BY <2>4 DEF DispatchTypeOK
  <2>6. DispatchTypeOK'
    BY <2>3, <2>4 DEF DispatchTypeOK, Answering
  <2>7. EntriesLiveForTtl'
    BY <2>4 DEF EntriesLiveForTtl
  <2>8. CallsAreMade'
    BY <2>3, <2>4, <2>5 DEF CallsAreMade, Answering, Locking
  <2>9. AnswersAreInTime'
    BY <2>3, <2>5 DEF AnswersAreInTime
  <2>. QED
    BY <2>6, <2>7, <2>8, <2>9
<1>4. ASSUME NEW t \in Threads, CacheMiss(t) PROVE DispatchInv'
  <2>1. read[t] \in Locking
    BY <1>4 DEF CacheMiss, DispatchTypeOK, Locking, NoRead
  <2>2. /\ now' = now
        /\ cache' = [cache EXCEPT ![read[t].key] = NoEntry]
        /\ read' = [read EXCEPT ![t] = [read[t] EXCEPT !.pc = "running"]]
    BY <1>4 DEF CacheMiss
  <2>3. /\ [read[t] EXCEPT !.pc = "running"] \in Locking
        /\ [read[t] EXCEPT !.pc = "running"].asked_at = read[t].asked_at
        /\ [read[t] EXCEPT !.pc = "running"].pc = "running"
    BY <2>1 DEF Locking
  <2>4. \A u \in Threads :
          read'[u] = IF u = t THEN [read[t] EXCEPT !.pc = "running"] ELSE read[u]
    BY <2>2 DEF DispatchTypeOK
  <2>5. DispatchTypeOK'
    BY <2>1, <2>2, <2>3 DEF DispatchTypeOK, Locking
  <2>6. EntriesLiveForTtl'
    BY <2>2 DEF EntriesLiveForTtl, DispatchTypeOK
  <2>7. CallsAreMade' /\ AnswersAreInTime'
    BY <2>1, <2>2, <2>3, <2>4 DEF CallsAreMade, AnswersAreInTime
  <2>. QED
    BY <2>5, <2>6, <2>7
<1>5. ASSUME NEW t \in Threads, StoreRead(t) PROVE DispatchInv'
  <2>1. read[t] \in Locking
    BY <1>5 DEF StoreRead, DispatchTypeOK, Locking, NoRead
  <2>2. /\ now' = now
        /\ cache' = [cache EXCEPT ![read[t].key] =
                       [stored_at |-> now, expires_at |-> now + Ttl]]
        /\ read' = [read EXCEPT ![t] = Answered(read[t], now)]
    BY <1>5 DEF StoreRead
  <2>3. /\ Answered(read[t], now) \in Answering
        /\ Answered(read[t], now).asked_at - Answered(read[t], now).stored_at < Ttl
    BY <2>1 DEF Answered, Answering, Locking, Times, CallsAreMade, DispatchTypeOK
  <2>4. [stored_at |-> now, expires_at |-> now + Ttl] \in Entries
    BY DEF Entries, DispatchTypeOK, Times
  <2>5. \A u \in Threads : read'[u] = IF u = t THEN Answered(read[t], now) ELSE read[u]
    BY <2>2 DEF DispatchTypeOK
  <2>6. DispatchTypeOK'
    BY <2>2, <2>3, <2>4 DEF DispatchTypeOK, Answering
  <2>7. EntriesLiveForTtl'
    BY <2>2 DEF EntriesLiveForTtl, DispatchTypeOK
  <2>8. CallsAreMade'
    BY <2>2, <2>3, <2>5 DEF CallsAreMade, Answering, Locking
  <2>9. AnswersAreInTime'
    BY <2>3, <2>5 DEF AnswersAreInTime
  <2>. QED
    BY <2>6, <2>7, <2>8, <2>9
<1>6. ASSUME NEW t \in Threads, FailRead(t) \/ EndRead(t) PROVE DispatchInv'
  <2>1. now' = now /\ cache' = cache /\ read' = [read EXCEPT ![t] = NoRead]
    BY <1>6 DEF FailRead, EndRead
  <2>2. \A u \in Threads : read'[u] = IF u = t THEN NoRead ELSE read[u]
    BY <2>1 DEF DispatchTypeOK
  <2>3. NoRead \notin Locking /\ NoRead.pc = "idle"
    BY DEF NoRead, Locking
  <2>. QED
    BY <2>1, <2>2, <2>3 DEF DispatchTypeOK, EntriesLiveForTtl, CallsAreMade,
                            AnswersAreInTime
<1>. QED
  BY <1>0, <1>1, <1>2, <1>3, <1>4, <1>5, <1>6 DEF DispatchNext

\* No answer is older than its TTL when it is asked for, for any number of threads
\* and keys, any TTL and any bound of the clock.
THEOREM AnswersAreInTimeHolds == DispatchSpec => []AnswersAreInTime
<1>1. DispatchInv => AnswersAreInTime
  BY DEF DispatchInv
<1>. QED
  BY DispatchInitInv, DispatchNextInv, <1>1, PTL DEF DispatchSpec

\* The clock, the entries of the cache and the calls in progress have their types.
THEOREM DispatcherTypeCorrect == DispatchSpec => []DispatchTypeOK
<1>1. DispatchInv => DispatchTypeOK
  BY DEF DispatchInv
<1>. QED
  BY DispatchInitInv, DispatchNextInv, <1>1, PTL DEF DispatchSpec
==============================================================================
