------------------------------- MODULE AgentRun ------------------------------
(***************************************************************************)
(* AgentOrchestrator.run (agent/orchestrator.py): plan a message with the  *)
(* LLM planner, run every planned tool through the dispatcher, and give    *)
(* the evidence of the others to the RCA snapshot, which runs last.        *)
(***************************************************************************)
EXTENDS AgentPlanner, ToolDispatcher

CONSTANTS TokenSets,     \* chat type -> the messages
          LlmReplies     \* chat type -> what the LLM may answer

VARIABLE run             \* the run, with the plan it made

NoRun == [kind |-> "none"]
Snapshot == <<Infra, "create_rca_snapshot">>

\* The planner of the process: the rules when the LLM or its client raises.
Plans(chat_type, message) ==
  {rule_plan(chat_type, message)} \cup
  {llm_plan(chat_type, message, llm) : llm \in LlmReplies[chat_type]}

\* Only for the SRE copilot is the snapshot deferred; build_incident_context_bundle
\* gets the results of the tools that ran before it.
Deferred(chat_type, tools) == tools \cap When(chat_type = "sre_copilot", {Snapshot})

\* The services of the tools are all up, and have what they are asked for, or all fail.
\* (A raise of execute ends the run.)
RunPlan ==
  /\ run = NoRun
  /\ \E chat_type \in ChatTypes, down \in BOOLEAN :
       \E tokens \in TokenSets[chat_type] :
         LET message == Contents(tokens)
         IN \E plan \in Plans(chat_type, message) :
              run' = [kind |-> "run", chat_type |-> chat_type, message |-> message,
                      plan |-> plan, down |-> down,
                      results |-> [tool \in plan.tools |->
                                     ExecuteResult(tool, plan.payload[tool], down)],
                      is_direct_response |-> plan.direct_answer /\ plan.tools = {},
                      bundle |-> [tool \in Deferred(chat_type, plan.tools) |->
                                    plan.tools \ {tool}]]
  /\ UNCHANGED features

EndRun == run # NoRun /\ run' = NoRun /\ UNCHANGED features

RunInit == features \in SUBSET Features /\ run = NoRun
RunNext == RunPlan \/ EndRun
RunSpec == RunInit /\ [][RunNext]_<<features, run>>

---------------------------------------------------------------------------
\* The tools about one record, which only the LLM can name.
RecordReads ==
  On(Admin, {"get_credit_review_detail", "summarize_credit_risk", "get_bss_score_history"})
  \cup On(Infra, {"get_trace_by_id", "get_trace_error_spans", "get_pod_logs"})

\* The LLM gave a tool something to fail for: an argument it does not take or a value
\* it rejects, a cluster, a namespace or a load balancer of its own, or no name of
\* the record (that of a pod may be in the message).
LlmMisleads(tool, given, message) ==
  \/ given.foreign \/ given.source # "none" \/ given.namespace # "none"
  \/ given.load_balancer # "none" /\ tool # AlbHealth
  \/ /\ tool \in RecordReads /\ ~(RequiredArguments(tool) \subseteq given.arguments)
     /\ tool = PodLogs => "pod_name" \notin message

\* The message names a cluster or a namespace itself, or says on-prem of
\* service-catalog, the service that is assumed when none is named: its namespace is
\* not on the on-prem list.
MessageMisleads(message) ==
  \/ Has(message, {"cluster=eks", "cluster=onprem"} \cup NamedNamespaces)
  \/ /\ Has(message, {"onprem", "metallb"})
     /\ "service-catalog" \in message \/ ~Has(message, NamedServices)

\* The rules ask EKS for the logs of an on-prem pod: their payload has no source.
AsksWrongCluster(tool, plan) ==
  /\ tool = PodLogs /\ tool \notin DOMAIN plan.given
  /\ plan.payload[tool].namespace = "kkpp"

\* The tables of the planner, the registry, the dispatcher and the services fit:
\* whatever the message, the LLM and the settings, no planned tool is unknown to the
\* registry (execute would raise, dispatcher.py:412) or lacks an operation
\* (dispatcher.py:169), and while its service is up no call fails for its payload
\* (dispatcher.py:139), that is for a missing argument, an unknown one or a namespace
\* that is not allowed, unless the LLM or the message itself asked for that; what the
\* LLM leaves out is filled in (planner.py:2010).  The one exception the rules make
\* is named above.
PlannedToolsRun ==
  run.kind = "run" =>
    \A tool \in run.plan.tools :
      /\ run.results[tool] # "raised"
      /\ run.results[tool] = "FAILED" =>
           \/ run.down
           \/ /\ tool \in DOMAIN run.plan.given
              /\ LlmMisleads(tool, run.plan.given[tool], run.message)
           \/ tool \in NamespacedReads /\ MessageMisleads(run.message)
           \/ AsksWrongCluster(tool, run.plan)

\* The copilots of the staff only read, a farmer's chat never does more than ask
\* for the approval of one checkout, and the rules ask for it only when the farmer
\* said so (planner.py:437, :1985).
OnlyAskedWrites ==
  run.kind = "run" =>
    \A tool \in run.plan.tools :
      PermissionOf(tool) # "READ" =>
        /\ run.chat_type = "farmer_bnpl" /\ run.results[tool] = "APPROVAL_REQUIRED"
        /\ run.plan.provider # "llm" => "confirm_checkout" \in run.message

\* The cluster a call looks into.
SideOf(tool, plan) ==
  IF tool \in On(Infra, OnpremEdgeTools) THEN "onprem"
  ELSE IF tool \in ClusterTools \cup {PodLogs} /\ plan.payload[tool].source # "none"
    THEN plan.payload[tool].source
  ELSE "eks"

\* The calls of a plan that look into the cluster the planner inferred: those of the
\* cluster tools, the checks of the on-prem edge and the load balancer of EKS, but
\* not where the LLM wrote the cluster or the namespace, nor the logs that
\* AsksWrongCluster is about.
Inspections(plan) ==
  {tool \in plan.tools :
     /\ \/ tool \in ClusterTools \cup On(Infra, OnpremEdgeTools)
        \/ tool = PodLogs /\ tool \in DOMAIN plan.given
        \/ tool = AlbHealth /\ plan.payload[tool].load_balancer = "kkpp-catalog-api"
     /\ tool \in DOMAIN plan.given =>
          LET given == plan.given[tool]
          IN  given.source = "none" /\ given.namespace = "none" /\ given.load_balancer = "none"}

\* An SRE plan looks at one cluster, whether the rules made it, the LLM chose a
\* capability or the LLM chose the tools: unless the message names a cluster itself,
\* all its calls inspect the same side, although the context is inferred anew for
\* each tool of the LLM (planner.py:2085) and the edge, the source and the load
\* balancer by rules of their own (planner.py:1025, :1050, :1105); and the namespace
\* of the on-prem services, unless it is named, is only read on-prem.
OneSideIsInspected ==
  (/\ run.kind = "run" /\ run.chat_type = "sre_copilot"
   /\ ~Has(run.message, {"cluster=eks", "cluster=onprem"})) =>
    \A tool \in Inspections(run.plan) :
      /\ \A other \in Inspections(run.plan) :
           SideOf(tool, run.plan) = SideOf(other, run.plan)
      /\ (run.plan.payload[tool].namespace = "kkpp" /\ "namespace=kkpp" \notin run.message) =>
           SideOf(tool, run.plan) = "onprem"

\* A question about data is not answered from the LLM's memory: when the rules find
\* tools for a message, some tools run, whatever the LLM answers (that it needs
\* none, tools nobody may call, an intent of smalltalk), and its own text is not
\* sent as the answer (planner.py:1900).
DataRequestGetsTools ==
  (run.kind = "run" /\ rule_plan(run.chat_type, run.message).tools # {}) =>
    run.plan.tools # {} /\ ~run.is_direct_response
==============================================================================
