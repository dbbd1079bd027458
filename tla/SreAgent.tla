------------------------------ MODULE SreAgent -------------------------------
(***************************************************************************)
(* The SRE agent (alertmanager_agent/service.py) and the inspection        *)
(* watcher (alertmanager_agent/watcher.py).                                *)
(*                                                                         *)
(* A pass handles one webhook of Alertmanager, one manual inspection or    *)
(* one tick of the watcher: it plans, runs the READ tools of the plan,     *)
(* tells Slack what it collected, asks the LLM for an analysis and tells   *)
(* Slack that too.  Passes run in the threads of the API and of the        *)
(* watcher, and share the outbox (ai.notification_outbox) and the channel. *)
(***************************************************************************)
EXTENDS AlertTriage

CONSTANTS
  Threads,         \* passes
  Requests(_),     \* what may come to a pass
  WorldsOf(_),     \* the states of the systems that the tools may find for an alert
  DirectServices,  \* services the topology says are reached without CloudFront
  NotifyHealthy,   \* SRE_INSPECTION_WATCHER_NOTIFY_HEALTHY
  LlmMinStatus,    \* SRE_INSPECTION_WATCHER_LLM_MIN_STATUS
  MaxFaults        \* bound on the faults of a behaviour

STATUS_ORDER == [healthy |-> 0, warning |-> 1, degraded |-> 2]

ASSUME SreAssumption ==
  /\ None \notin Threads
  /\ NotifyHealthy \in BOOLEAN
  /\ LlmMinStatus \in DOMAIN STATUS_ORDER
  /\ MaxFaults \in Nat

VARIABLES
  at,         \* where each pass is
  stage,      \* the message a pass is about: its collection, then its analysis
  request,    \* what a pass handles
  world,      \* what its tools found
  run,        \* the LLM run of its analysis; each pass asks for one
  result,     \* what a pass reports of each message
  rows,       \* the outbox: key -> send_status
  channel,    \* messages in the Slack channel
  faults,     \* faults so far
  slack_url   \* whether RCA_SLACK_WEBHOOK_URL is set

passVars == <<at, stage, request, world, run, result>>
sreVars == <<passVars, rows, channel, faults, slack_url, features>>

Stages == {"sre_collection", "sre_analysis"}
Steps == {"idle", "collect", "summarize", "create", "send", "mark_sent", "mark_failed",
          "analyze", "done", "lost"}

\* The endpoints and the watcher: execute and notify are parameters of a request.
RequestOf(trigger, alert, firing, execute, notify) ==
  [trigger |-> trigger, alert |-> alert, firing |-> firing, execute |-> execute,
   notify |-> notify]
WatcherRequest(alert) == RequestOf("watcher", alert, TRUE, TRUE, FALSE)

\* The request of a pass that has not begun, the systems before they are looked at.
Absent == [kind |-> "none"]

---------------------------------------------------------------------------
\* What a pass makes of its request and of what it finds

\* is_read_tool_plan: the tools of the plan that are run.
ExecutedTools(t) ==
  {tool[2] : tool \in {p \in TriagePlan(request[t].alert).tools : PermissionOf(p) = "READ"}}

\* The snapshot is run last, and is one of the executed tools.
FailedTools(t) == ExecutedTools(t) \cap world[t].failing

Bundle_results(t) == EvidenceFor(request[t].alert, world[t])
ScenarioFor(t) ==
  ScenarioOf(request[t].alert, context_service(request[t].alert) \in DirectServices)
Verdicts(t) == build_failure_boundary_candidates(ScenarioFor(t), Bundle_results(t))

\* trim_boundary_candidates
ShownBoundaries(t) ==
  LET path == CROSS_DOMAIN_SCENARIOS[ScenarioFor(t)]
  IN  {path[i] : i \in DOMAIN path \cap 1 .. 6}

evaluate_inspection_status(t) ==
  LET statuses == {Verdicts(t)[boundary] : boundary \in ShownBoundaries(t)}
  IN  IF "degraded" \in statuses THEN "degraded"
      ELSE IF FailedTools(t) # {} \/ "unknown" \in statuses THEN "warning"
      ELSE "healthy"

should_run_llm(t) ==
  STATUS_ORDER[evaluate_inspection_status(t)] >= STATUS_ORDER[LlmMinStatus]

\* The fingerprint of a webhook is that of its alert, so an alert that fires again
\* has it again; that of an inspection contains the time.
Fingerprint(t) == IF request[t].trigger = "webhook" THEN None ELSE t

\* Mutant: the run of the analysis is not part of the key.
KeyOfAlert(t, of_stage) == <<request[t].alert, Fingerprint(t), of_stage, None>>

\* build_notification_idempotency_key; the channel and the recipient are fixed.
IdempotencyKey(t, of_stage) ==
  <<request[t].alert, Fingerprint(t), of_stage,
    IF of_stage = "sre_analysis" THEN run[t] ELSE None>>
Key(t) == IdempotencyKey(t, stage[t])

SendStatus(key) == IF key \in DOMAIN rows THEN rows[key] ELSE "none"
Put(key, status) == [k \in DOMAIN rows \cup {key} |-> IF k = key THEN status ELSE rows[k]]

---------------------------------------------------------------------------
\* The pass

Goto(t, step) == at' = [at EXCEPT ![t] = step]
Report(t, status) == result' = [result EXCEPT ![t][stage[t]] = status]
Fault == faults < MaxFaults /\ faults' = faults + 1

\* After the message about the collection comes the analysis, after that nothing.
Go_on(t) == Goto(t, IF stage[t] = "sre_collection" THEN "analyze" ELSE "done")

\* handle_webhook, handle_manual_inspection, run_once: without a firing alert the
\* webhook is SKIPPED, without execute only the plan is answered.
Receive(t) ==
  /\ at[t] = "idle"
  /\ \E r \in Requests(t) :
       /\ request' = [request EXCEPT ![t] = r]
       /\ Goto(t, IF r.firing /\ r.execute THEN "collect" ELSE "done")
  /\ UNCHANGED <<stage, world, run, result, rows, channel, faults, slack_url, features>>

\* _collect_evidence
Collect(t) ==
  /\ at[t] = "collect"
  /\ \E w \in WorldsOf(request[t].alert) : world' = [world EXCEPT ![t] = w]
  /\ Goto(t, IF request[t].trigger = "watcher" THEN "summarize"
             ELSE IF request[t].notify THEN "create" ELSE "done")
  /\ UNCHANGED <<stage, request, run, result, rows, channel, faults, slack_url, features>>

\* run_once after the collection: the summary goes to Slack without the outbox, and
\* a failure to send it is logged.
Summarize(t) ==
  /\ at[t] = "summarize"
  /\ \/ /\ \/ evaluate_inspection_status(t) = "healthy" /\ ~NotifyHealthy
           \/ ~slack_url
        /\ UNCHANGED <<channel, faults>>
     \/ /\ evaluate_inspection_status(t) # "healthy" \/ NotifyHealthy
        /\ slack_url
        /\ \/ channel' = channel \cup {<<"summary", t>>} /\ UNCHANGED faults
           \/ Fault /\ UNCHANGED channel
  /\ Goto(t, IF should_run_llm(t) THEN "analyze" ELSE "done")
  /\ UNCHANGED <<stage, request, world, run, result, rows, slack_url, features>>

\* _deliver_slack_notification up to the row: an existing row is kept as it is, and
\* one that is SENT needs no message.
Create(t) ==
  /\ at[t] = "create" /\ slack_url
  /\ rows' = IF SendStatus(Key(t)) = "none" THEN Put(Key(t), "PENDING") ELSE rows
  /\ IF SendStatus(Key(t)) = "SENT"
       THEN Report(t, "SENT") /\ Go_on(t)
       ELSE Goto(t, "send") /\ UNCHANGED result
  /\ UNCHANGED <<stage, request, world, run, channel, faults, slack_url, features>>

CreateSkipped(t) ==
  /\ at[t] = "create" /\ ~slack_url
  /\ Report(t, "SKIPPED") /\ Go_on(t)
  /\ UNCHANGED <<stage, request, world, run, rows, channel, faults, slack_url, features>>

CreateFails(t) ==
  /\ at[t] = "create" /\ slack_url
  /\ Fault
  /\ Report(t, "FAILED") /\ Go_on(t)
  /\ UNCHANGED <<stage, request, world, run, rows, channel, slack_url, features>>

\* The text sent is the pass's own, whatever the row contains.
Send(t) ==
  /\ at[t] = "send"
  /\ channel' = channel \cup {<<stage[t], t>>}
  /\ Goto(t, "mark_sent")
  /\ UNCHANGED <<stage, request, world, run, result, rows, faults, slack_url, features>>

\* The webhook raises, with the message delivered (a lost answer) or not.
SendFails(t) ==
  /\ at[t] = "send"
  /\ Fault
  /\ channel' \in {channel, channel \cup {<<stage[t], t>>}}
  /\ Goto(t, "mark_failed")
  /\ UNCHANGED <<stage, request, world, run, result, rows, slack_url, features>>

\* _safe_update_notification_status: a failure of the update is logged.
Mark(t) ==
  /\ at[t] \in {"mark_sent", "mark_failed"}
  /\ LET status == IF at[t] = "mark_sent" THEN "SENT" ELSE "FAILED"
     IN  /\ \/ rows' = Put(Key(t), status) /\ UNCHANGED faults
            \/ Fault /\ UNCHANGED rows
         /\ Report(t, status)
  /\ Go_on(t)
  /\ UNCHANGED <<stage, request, world, run, channel, slack_url, features>>

\* analyze_collected_result: the run is recorded, whatever its status, or the LLM
\* service raises and the analysis has no run.
Analyze(t) ==
  /\ at[t] = "analyze"
  /\ \/ run' = [run EXCEPT ![t] = t] /\ UNCHANGED faults
     \/ Fault /\ UNCHANGED run
  /\ stage' = [stage EXCEPT ![t] = "sre_analysis"]
  /\ Goto(t, "create")
  /\ UNCHANGED <<request, world, result, rows, channel, slack_url, features>>

\* The process stops: nothing takes the pass up again.
Lose(t) ==
  /\ at[t] \notin {"idle", "done", "lost"}
  /\ Fault
  /\ Goto(t, "lost")
  /\ UNCHANGED <<stage, request, world, run, result, rows, channel, slack_url, features>>

Pass(t) ==
  \/ Receive(t) \/ Collect(t) \/ Summarize(t) \/ Create(t) \/ CreateSkipped(t)
  \/ CreateFails(t) \/ Send(t) \/ SendFails(t) \/ Mark(t) \/ Analyze(t) \/ Lose(t)

SreNext == \E t \in Threads : Pass(t)

SreInit ==
  /\ at = [t \in Threads |-> "idle"]
  /\ stage = [t \in Threads |-> "sre_collection"]
  /\ request = [t \in Threads |-> Absent]
  /\ world = [t \in Threads |-> Absent]
  /\ run = [t \in Threads |-> None]
  /\ result = [t \in Threads |-> [s \in Stages |-> "none"]]
  /\ rows = <<>>
  /\ channel = {}
  /\ faults = 0
  /\ slack_url \in BOOLEAN
  /\ features = {}

SreSpec == SreInit /\ [][SreNext]_sreVars

---------------------------------------------------------------------------
\* Properties

Planned(t) == request[t] # Absent /\ request[t].firing
Collected(t) == world[t] # Absent

\* The words of an alert that ask for help, or for an action that is refused.
AsksForSomethingElse(alert) ==
  Has(build_sre_analysis_message(alert), {"help", "hello", "thanks", "mutating", "mutating_pod"})

\* The alert is classified twice, by infer_sre_intent from its labels and by the
\* planner from the message built of it: the planner never takes it for less, that is
\* for a later rule than that of its own intent or for small talk, so the tools of a
\* routing, a database or a queue alert are not left out.
AlertKeepsItsEvidence ==
  \A t \in Threads :
    (Planned(t) /\ ~AsksForSomethingElse(request[t].alert)) =>
       LET intent == TriagePlan(request[t].alert).intent
       IN  /\ RankOf(intent) <= RankOf(infer_sre_intent(request[t].alert))
           /\ intent \notin {"greeting", "thanks", "help", "unsupported"}

\* Whatever else the tools find, and however much of it, the cause that the alert
\* itself names is one of the first two candidates of the analysis (three are shown),
\* a database alert only when a second source agrees; and the three that classify the
\* alert, for the candidates, for Slack and for the LLM, tell one story.
OwnCauseIsShown ==
  \A t \in Threads :
    Collected(t) =>
      LET alert == request[t].alert
          own == OwnType(alert)
          shown == CandidatesOf(alert, Bundle_results(t))
          elsewhere == {f \in ApplicationFindings(Bundle_results(t)) : f.type = own}
      IN  /\ (own \notin {None, "db_hikaricp"} \/ (own # None /\ elsewhere # {})) =>
               own \in DOMAIN shown /\ shown[own] <= 2
          /\ own \in DOMAIN FocusOf => incident_focus(alert) = FocusOf[own]
          /\ determine_incident_type(alert, TriagePlan(alert).intent) = "routing" =>
               incident_focus(alert) = "sre_incident"

\* An analysis that was made and is reported as SENT is in the channel, even when the
\* same alert was analyzed before, is analyzed by another thread, or was told in part.
AnalysesAreTold ==
  \A t \in Threads :
    (run[t] # None /\ result[t].sre_analysis = "SENT") => <<"sre_analysis", t>> \in channel

\* A boundary that is reported healthy does what BOUNDARY_EXPECTED_SIGNALS says.
MeetsSignal(boundary, w) ==
  CASE boundary = "onprem_metallb" -> w.metallb = "reachable"
    [] boundary = "onprem_ingress" -> w.ingress = "routed"
    [] boundary = "k8s_service" -> w.endpoints = "ready" /\ w.pods = "running"
    [] boundary = "vpn_route" -> w.vpn = "up"
    [] boundary = "aws_target_group" -> w.edge = "healthy"
    [] OTHER -> TRUE
HealthyBoundaryMeetsItsSignal ==
  \A t \in Threads :
    Collected(t) => \A boundary \in DOMAIN Verdicts(t) :
      Verdicts(t)[boundary] = "healthy" => MeetsSignal(boundary, world[t])
=============================================================================
