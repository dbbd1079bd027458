# Verification of the AIOps backend

TLA+ models of `src/aiops_platform`, checked with TLC and, where the result
should not depend on an instance, proved with TLAPS. The models are of the code
as it is: each definition is translated from the lines that `PROJECT.json`
names in `map`.

## 1. The system

A FastAPI and FastMCP server. Handlers are synchronous functions that run in
a thread pool and share singleton services; the deployment runs two replicas.
Nearly all state is in PostgreSQL, and every repository method is a transaction
of its own, so between two calls of a service method anything may happen:
another request, an exception, the loss of the process.

| Component | State it keeps | Operations | Meets |
| --- | --- | --- | --- |
| `infra_rca` | incidents, alert rows, RCA jobs, snapshots, reports | Alertmanager webhook, run-due, resend of a report | the outbox, `llmops`, Kubernetes Jobs that call run-due |
| outbox (`llmops/repository.py`) | `ai.notification_outbox`, one row per idempotency key | insert or find, update of the status | every sender of emails and Slack messages |
| `ops_reports` | reports, their items, jobs | create, mail; a CronJob does both | `infra_rca` (reads), outbox, `llmops` |
| `prediction_scaling` agent | keys of announced risks, in memory | `run_once` by a watcher thread and by the API | Slack, `alertmanager_agent` |
| `prediction_scaling` evaluation | none | classifies predictions, HPA and KEDA state | the agent, `ops_reports`, `infra_rca` |
| `alertmanager_agent` | none but the outbox and LLM runs | collects evidence, ranks causes, analyses, notifies; a watcher inspects | `agent`, `infraops`, outbox, `llmops` |
| `orchestration` | chat sessions, messages, jobs, tool calls | answer a question, close a session | `agent`, `llmops` |
| `agent` | a TTL cache of READ results | plans tools by rules or with the LLM, dispatches them under a policy, judges boundaries | `mcp` registry, the tools' services |
| `llmops` | prompts, LLM runs, approvals, snapshots | completions, queries | the LLM provider |
| `mcp` | audit records | lists, previews and calls tools | the tools' services |
| `infraops` | none | reads of Prometheus, Loki, Tempo, Kubernetes, AWS, Argo CD | external systems |
| `farmer_bnpl`, `admin_riskops`, `farm_advisory`, `topology_knowledge` | none, or read only | tools | the database |
| application (`main.py`, `core`) | the two watcher threads | start, stop | |

Hard behaviour, by component (`hazards` in `PROJECT.json` has each at its line):

* **RCA pipeline.** Webhooks are retried, duplicated and reordered; run-due calls
  of several pods and of operators overlap, list the same jobs and race to
  claim them; a pod times out and is retried while its first call goes on; an
  exception can come after the report is stored or after the job succeeded; a
  lost process leaves what it had committed. Correct means: one job per alert,
  one run and one report per job, notices and statuses that are backed by what
  was done, and no job lost without a cause.
* **Outbox.** Read, send and record are three steps. Correct means: SENT is never
  a lie, and passes that do not overlap do not repeat a message.
* **Operations reports.** The exception handler stores a second report; retries
  of the CronJob start from the beginning; mails have no idempotency key.
  Correct means: job, report and outbox rows contradict each other only where
  something failed, and a pod gets through in the end.
* **Predictive Slack agent.** The set of keys is shared by runs of different
  scope, and is not locked across the message. Correct means: what is
  remembered was announced, inspections follow messages and are not lost, a
  lasting risk is announced, and repeats have a cause.
* **Orchestration.** A turn is a dozen transactions, each of which may raise before
  or after it has committed, next to other turns and to the closing of the session.
  Correct means: a closed session takes no new question, job, calls and answer tell
  the same story, a call is linked to the LLM run made from it, approvals are of
  recorded calls, and a question is answered.
* **Tools: registry, server, planner, dispatcher.** Four tables name the same tools,
  and plans come from keywords or from an LLM. Correct means: the tables agree,
  no plan leaves what its chat may do, and a question about data is not answered
  without data. The cache is shared by threads: no answer is older than its TTL.
* **SRE agent.** An alert is classified several times, by its labels, by a sentence
  made of them, and for its findings; the state of many systems is judged from the
  words of their answers; messages of repeated and concurrent alerts share keys.
  Correct means: the right tools are run, the alert's own cause is among the
  causes shown, a healthy verdict is true, and an analysis that is reported as told
  has been told.

## 2. Modules

| Module | What it is |
| --- | --- |
| `RcaJobLifecycle` | abstract specification: what the job table of the RCA pipeline promises |
| `InfraRca` | the pipeline of `infra_rca/service.py`; implements `RcaJobLifecycle` |
| `InfraRcaInductive` | its inductive invariant |
| `InfraRcaProofs` | theorems about it |
| `NotificationOutbox` | a delivery under an idempotency key |
| `NotificationOutboxProofs` | theorems about it |
| `OpsReports` | reports, their mailing and the retries of the CronJob |
| `OpsReportsProofs` | theorems about it |
| `PredictiveSlackAgent` | the runs of the predictive scaling Slack agent |
| `PredictiveSlackAgentProofs` | theorems about it |
| `McpRegistry` | the tools, their permissions and the policy, under the feature switches |
| `McpServer` | the server's tools: what a call answers and what is audited |
| `AgentPlanner` | the rules of the three planners and the validation of an LLM plan (operators) |
| `ToolDispatcher` | the operations of the dispatcher, and its cache shared by threads |
| `AgentRun` | a run of the agent: plan, tools, snapshot |
| `DecisionsProofs` | theorems about the server, the plans and the cache |
| `ChatOrchestration` | turns in chat sessions |
| `ChatOrchestrationProofs` | theorems about its sessions |
| `ChatTurnProofs` | theorems about what is stored of a turn |
| `IncidentEvidence` | what the READ tools answer, the verdicts on boundaries, the candidates for the cause (operators) |
| `AlertTriage` | what an alert is taken for (operators) |
| `SreAgent` | webhooks, inspections and ticks of the watcher, with their messages |
| `SreAgentProofs` | theorems about it |
| `MC*` | instances for TLC |

How they fit together. `InfraRca` and `NotificationOutbox` are separate because
the pipeline never reads what became of a message: `_send_rca_notifications`
catches everything, so for the pipeline a notice is "a row may exist now"
(`MailRows`), and what happens to the row is `NotificationOutbox`, for RCA and
for `alertmanager_agent` alike. The operations reports do *not* use
the outbox that way (no key, and the update inside the try block), so
`OpsReports` models its own delivery.

`McpRegistry` is the table that `McpServer`, `AgentPlanner` and `ToolDispatcher`
are held against. `AgentRun` puts planner and dispatcher together: it plans a message
and executes the plan. `AlertTriage` feeds the sentence it makes of an alert to the
operators of `AgentPlanner`, and the plan that comes out decides which answers of
`IncidentEvidence` there are; `SreAgent` composes the two with the delivery of the
messages. `ChatOrchestration` takes the result of an agent run as an input
(`AgentResults`): a turn stores the statuses and does not look at the tools.

### InfraRca

State: the rows of `ai.incidents`, `ai.incident_alerts`, `ai.job_runs`,
`ai.observability_snapshots`, the recorded LLM run, `ai.rca_reports` and the
notices, next to the program counters of deliveries (`webhookPc`) and of server
threads in `run_due_rca_jobs` (`pc`, `batch`, `cur`). A job is named by the
delivery that created it. Each action is one committed repository call or one
call of another system; the early returns of the handler are in
`UpsertIncidentAlert`, and the loop over the batch is `ClaimJob`, `SkipClaimed`
and `EndRun`. `Raise` is an exception inside the try block of
`_run_scheduled_rca_job`, `HandleException` its handler, `LoseWorker` and
`LoseDelivery` a lost process or an exception nobody catches. A Kubernetes Job
has two attempts (`backoffLimit: 1`), each of them a call of run-due after the
job is due (`PodCall`), that may time out (`PodTimeout`) while the thread goes
on.

Abstracted: labels, texts, evidence and report contents; the order of a batch
(any due jobs, as many as the limit); tool-call audit rows; time, except that a
job becomes due (the clocks of pod and server are taken to agree).

### NotificationOutbox

A pass is one trip through the delivery code for one recipient. `Create` inserts
the row or finds it, `Send` is the provider, `Mark` the update. `SendUnconfirmed`
is a provider that accepts the message and an exception after that; `MarkFails` the
swallowed update; `Crash` a lost process. `overlap` is a history variable: the keys two
passes have worked on at a time.

### OpsReports

A call is a pod of the CronJob (creates a report, then mails it to everyone) or
a request (creates one, or mails any stored one to some). A call stores at most
two reports: `<<c, "result">>` in the try block, `<<c, "failure">>` in the
handler. The pods of a Job come one after another, the next one only after a
failure (`MayStart`); how many there are is `Attempts`, at most 7 with the
default `backoffLimit`. `Expire` is the Job's `activeDeadlineSeconds`: the pod
is killed and no other comes. The recipients of a request are distinct, and are
served in any order. A process lost between the last update and its end is not
told from one that has ended.

### PredictiveSlackAgent

One process: its watcher and its API threads over `_sent_notification_keys`. A
risk is what `build_notification_key` tells apart. A request may look at one
service or all, with any threshold, and its horizon and include flags may give
another key for the same service. `told` and `dropped` are history variables of
the properties. A webhook URL is configured, the inspections are enabled, and the
watcher looks at every service and deduplicates, as the defaults have it.

### McpRegistry, McpServer, AgentPlanner, AgentRun

A message is the set of its keywords; `Contents` closes it under the keywords that
contain one another ("checkout" in "checkout_confirm"), since the code searches for
substrings. The `if` chains of the code whose conditions overlap are chains of IF: a
CASE with overlapping guards may take any of them, so it is kept for disjoint ones. A
rule is a pair of keywords and intent, tried in order (`FirstMatch`).
A plan is a set of tools with a payload for each: which of the arguments without a
default it gives, whether it has one that the tool does not take or whose value it
rejects (`foreign`), and the cluster, the namespace and the load balancer. The rules
write payloads of their own (`rule_payload`); what the LLM gives a tool is kept and
completed (`normalize_tool_payload`, whose parts are `normalized_arguments`,
`filled_source`, `filled_namespace` and `filled_load_balancer`), with a context that
is inferred anew for each tool. `given` remembers what the LLM gave, for the
properties. Arguments with a default are left out where they cannot make a call fail,
and so are the values of the others. The LLM may answer anything in `LlmAnswers`: a
direct answer, a capability or an intent of its own, tools that do not exist or are
not for the chat, payloads that lack an argument or have a wrong one. A call of the
server is one step, since calls share nothing but the audit table.

A call made by the dispatcher fails when its service is down or when `operation(**payload)`
does not accept the payload (`accepts`): a required argument is missing, one is
unknown, or the cluster does not let the namespace be read. `RequiredBy` is read off
the signatures, `NamespaceAllowlist` off the deployment's ConfigMap.

### ToolDispatcher

`now` is the monotonic clock. A call reads it before it waits for the lock (`BeginRead`),
finds an entry or drops an expired one under the lock (`CacheHit`, `CacheMiss`), runs
without it and stores (`StoreRead`) or raises (`FailRead`). A slow read replaces a
fresher entry, as in the code; what is stored then counts as fresh.

### ChatOrchestration

The state of a turn is a record with its place in `_answer_chat` (`pc`), next to the
tables. Each repository call is an action that ends in one of three ways: committed,
raised without a commit, or committed and raised (`Outcomes`). `Crash` is the loss
of the process. The LLM client's attempts are steps (`CallLlm`). `closing` is a
history variable: the length of a session and the turns that ran when it was closed
first; `hurt` says that a fault hit the turn. `_finish_job` overwrites any status and
`_append_message` asks nothing about the session, as in the code.

### IncidentEvidence, AlertTriage, SreAgent

A world is the state of what the tools look at, a class per system (the ingress
routes, answers 500, has no healthy upstream, has no rule, cannot be reached), and
which reads raise. An answer is two sets of words, of its keys and of its values,
because the verdicts search the values and the candidates the JSON text. What is
not looked for is left out. Patterns are sets of words that occur together. The
candidates are a function from each cause shown to its place, which is one more than
the number of visible causes that `IsBefore` puts ahead of it: the sort and the cut
to three of the code. An
alert is its normalized name, service, cluster, component, pod, the words of its
summary and description, and those of its other labels and annotations (`others`).

A pass (`Threads`) handles a webhook, a manual inspection or a tick of the watcher:
`Receive`, `Collect`, then for the watcher `Summarize`, then a delivery for the
collection, `Analyze`, and a delivery for the analysis. `rows` is the outbox under
the keys of `build_notification_idempotency_key`. The delivery is that of
`NotificationOutbox` with the key and the message the agent gives it. Faults are
exceptions of the outbox, of Slack and of the LLM service, and lost processes.

## 3. Runs

| Run | Instance | Shows |
| --- | --- | --- |
| `rca_safety` | 2 deliveries, 2 threads, bodies firing / resolved / mixed group, 2 alerts on one incident, 1 fault | `OneJobPerAlert`, `ExclusiveRun`, `ReportProvenance`, `NoticesAreTrue`, `StatusIsBacked`, `FaultsAccountForLosses`, refinement of `RcaJobLifecycle` |
| `rca_liveness` | 2 alerts that fire in order, a runner pod each, batches of 1, 2 threads, 1 fault | `ScheduledJobIsClaimed`, `ClaimedJobEnds` |
| `rca_lost_alert` | 2 deliveries of one firing alert, 1 fault | violation: a delivery that fails between alert row and job loses the RCA |
| `outbox_safety` | 4 passes, 2 keys, 2 faults | `SentIsAccepted`, `OnceWhenAlone`, `QuietSentIsFinal` |
| `outbox_duplicate` | 2 passes, 1 key, no fault | violation: overlapping passes send twice |
| `ops_reports` | 2 pods, 1 request, 2 recipients, 1 fault | `SucceededJobIsComplete`, `SentReportWasDelivered`, `RetriesRepeatOnlyFaults`, `FaultsAccountForContradictions`, `CronJobGetsThrough` |
| `predictive` | watcher and 1 API thread, 2 services, 3 risks, 1 fault | `KeysWereSent`, `InspectionFollowsMessage`, `InspectionsAreLostToFaultsOnly`, `RepeatsAreOfDroppedKeys`, `LastingRiskIsAnnounced` |
| `predictive_repeat` | the same, no fault | violation: an API run makes the watcher repeat itself |
| `decisions` | all settings and all tools of the server; messages of up to two keywords per chat with the LLM's answers and payloads; 2 threads on 2 cache keys, TTL 2 | `CallsMatchTheirPolicy`, `PlannedToolsRun`, `OnlyAskedWrites`, `OneSideIsInspected`, `DataRequestGetsTools`, `AnswersAreInTime` |
| `chat` | 2 turns in 1 session, 2 tools with every status, 1 fault | `ClosedSessionTakesNoNewQuestions`, `JobTellsTheAnswer`, `LinksStayInTheTurn`, `ApprovalsAreOfRecordedCalls`, `QuestionsAreAnswered` |
| `sre` | 2 passes on one alert, 2 faults; 35000 alerts in 3 worlds, 9 alerts in all worlds two differences away from the calm one | `AlertKeepsItsEvidence`, `OwnCauseIsShown`, `AnalysesAreTold` |
| `sre_evidence` | 1 alert of an on-prem service in those worlds | violation: a failing ingress is reported as healthy |

Why these bounds are enough to be worth something: every race above is between
two actors, and each instance has two of each kind that races, a key or an
incident they share, and one fault that may strike at any step of any of them
(two for the outbox, where a fault and its retry matter). Two alerts on one
incident exercise the dedup key; a mixed group exercises the choice of the
primary alert. Batches of two reach the "listed but claimed by another" case.

`rca_liveness` needs two jobs that are due at a time and a batch that holds one of
them only, so its `ACTION_CONSTRAINTS` give up what does not bear on their competition: the
second alert fires after the first delivery has been answered, no delivery is lost
(a fault may strike anywhere else), a job becomes due after its delivery, only the
pods call run-due, the analysis of one alert succeeds and the one of the other fails in
any way, and no email has a recipient. A condition on steps could make a liveness
property true by blocking a fair step that is enabled; each of these leaves such a
step a variant that is permitted, and the mutants of both properties are found under
it.

`MaxFaults` bounds exceptions and losses, and nothing else is cut: no counter
grows without a fault or a pass to grow it. The mutants in `PROJECT.json` are
plausible mistakes in the code, one per property and run, and each is found
within the same bounds.

In `decisions` and `sre`, parts that share no state are at rest while another one
moves: the sum of their state spaces is explored, not the product. Two keywords meet
every pair of rules, and rules are all that relates keywords; a keyword that
only chooses the argument of a tool is left out. The worlds of `sre` differ from the
calm one in two places because a candidate or a verdict depends on at most two
answers at a time (the alert's own, and one that competes with it), and `Storm`
has everything broken. The farmer's chat stands for all three in `chat`: it has
every kind of answer the others have.

Deadlock is not checked where the instances end: when their deliveries, passes,
turns or calls are used up. `decisions` never ends, and is checked.

## 4. Fairness

* `InfraRca`: a delivery and a run-due call under way go on (threads run), time
  passes, and a runner pod that is due is served again and again until it has
  been (strong fairness: requests wait for a thread of the pool). No delivery
  and no operator call is assumed.
  `ScheduledJobIsClaimed` has one exception, `LeftOut`: a pod asks for a batch of
  `RCA_JOB_RUNNER_LIMIT` jobs (20, `core/config.py:313` and `configmap.yaml:97`; the
  endpoint itself defaults to 10 and the service clamps to 1..50), and when that many
  others are due its own may not be listed. The pod then ends well, and the job stays
  QUEUED until somebody calls run-due. The limit of 1 with two due jobs in the
  instance is the same situation as 20 with 21.
* `OpsReports`: the CronJob starts pods until one ends well or the Job's deadline is
  reached (a fault, counted with the others); calls under way go on.
* `PredictiveSlackAgent`: the watcher loop runs, and a message that is tried again
  and again is accepted some day (strong fairness of `SendAccepted`). No request
  is assumed.
* `ChatOrchestration`: a turn that has begun is a thread that goes on; every call it
  makes has a timeout, and the LLM is tried three times. Nobody has to ask.

## 5. Proofs

Every safety property that a passing run checks is a theorem for all values of the
constants. Where an argument needed an invariant of its own, TLC checked that
invariant on the instances of the runs (with two faults for the chat, the pipeline
and the reports) before it was proved.

`InfraRcaProofs` proves, for any sets of deliveries, workers, alerts, incidents and
requests, any limit and any number of faults: type correctness, `OneJobPerAlert`,
`ExclusiveRun`, `ReportProvenance`, `NoticesAreTrue`, `StatusIsBacked`,
`FaultsAccountForLosses`, and that `Spec` implements `RcaJobLifecycle`. The only
assumption is `RcaAssumption` (the types of the constants).

None of these is inductive alone. `IInv` (in `InfraRcaInductive`) is the type
invariant and

* `DeliveryInv`: a delivery past the duplicate check owns its fingerprint: it has
  an alert row, and no other delivery of that fingerprint is past the check or
  has a job. This is what the unique key on the alert row gives.
* `RunInv`: a worker that runs a job is the only one, and the job has the status that
  goes with the place of the worker. This is what the conditional update of the claim
  gives.
* `EvidenceInv`: what is stored for a job by the point its worker has
  reached, or that was reached when the worker was lost.
* `IncidentInv`: the properties about statuses and notices.

Each conjunct is preserved by each action (one step per action), assuming all;
the refinement follows from the same invariant, since a claim happens only from
QUEUED and a report is published only by the one worker of a RUNNING job.

`FaultsAccountForLosses` counts. The handler that makes a job FAILED over a stored
report is no fault, so `LossInv` counts a job as hit (`Hit`) from the exception on:
the jobs that are hit are no more than the faults, because every step adds at most
one of them, and only a step that costs a fault adds any.

`NotificationOutboxProofs` proves the type invariant, `SentIsAccepted`,
`OnceWhenAlone` and `QuietSentIsFinal` for any passes, keys and faults, from an
invariant that counts the messages of a key that has never seen two passes at a time.

`OpsReportsProofs` proves the type invariant, `SucceededJobIsComplete`,
`SentReportWasDelivered`, `RetriesRepeatOnlyFaults` and
`FaultsAccountForContradictions` for any pods, requests, recipients and faults, from
`OpsAssumption`. Beyond the types the invariant says what a call has stored by the
place it has reached (`CreateInv`), that a mailing is of a stored report and to
somebody (`MailInv`), that one row of a call at most is PENDING while it works
(`OutboxInv`), and that pods follow one another and each failed one has cost a
fault (`PodInv`, by induction over the steps on the cardinality of `Aborted`).
The contradictions are counted like the losses of the pipeline, in two sets, of jobs
and of messages (`HitInv`): a loss of the process hits one of the two, since no call
makes its report and mails it at the same time (`RowInv`).

`PredictiveSlackAgentProofs` proves the type invariant and all four safety properties
of the run `predictive` for any threads, services, risks and thresholds. `MessageInv`
says what a run has announced by the place it has reached; `ToldInv`, that what the
watcher has told and is still current is a key unless an API run dropped it, and is
among the candidates of a run of the watcher that has begun.

`DecisionsProofs` proves the properties of `decisions` for every tool, every set of
messages (`TokenSets`) and every set of answers of the LLM (`LlmReplies`).
`CallsMatchTheirPolicy` rests on lemmas about the tables: the permissions have no tool
in common (`PermissionsAreDisjoint`), the wrappers of the servers are the registry
(`WrappedTools`), and each kind of wrapper does what the policy says of the tools it
wraps (`WrappersFollowPolicy`). For the planner, `PlanCases` says
what a plan can be (that of the rules, the bundle of a capability the LLM named, an
empty one, or tools it chose and the validation let through, with their payloads
completed), and `RunFits` with `PlanFits` is the invariant of a run: its tools are reads
that the dispatcher has an operation for, and the checkout for a farmer, whose rule is
the first one and wants a confirmation (`CheckoutIsConfirmed`); a request for data
has tools (`DataPlan`), because no bundle of a copilot is empty
(`CopilotBundleIsNotEmpty`); its payloads are accepted (`PlansAreAccepted`), because
every required argument is written by the rules or completed unless it names a record
(`ArgumentsAreWritten`), and the namespace and the cluster of an inferred context fit
(`ContextResolves`) unless the message itself breaks them; and its cluster calls look into
one cluster (`PlansInspectOneSide`), because edge, source, namespace and load balancer of a
context agree for any message and intent (`PartsOfContext`, `ContextHasOneSide`) and the
context of each tool is inferred from the same message. `AnswersAreInTime` is proved for
any threads, keys, TTL and clock: an entry expires a TTL after it was stored
(`EntriesLiveForTtl`), and the clock a call has read is not ahead of the clock
(`CallsAreMade`), so an answer that is stored later than it was asked for is in time,
too.

`ChatOrchestrationProofs` proves the type invariant of the chat and
`ClosedSessionTakesNoNewQuestions` for any turns, sessions, tools and faults. A turn
checks its session once; `TurnsInv` says that a turn that runs in a closed session
ran when it was closed. It is kept because a session that is closed is never opened
again, and because closing it a second time does not take the note anew.

`ChatTurnProofs` proves `JobTellsTheAnswer`, `LinksStayInTheTurn` and
`ApprovalsAreOfRecordedCalls`, also for any results of the tools. What is stored of a
turn is stored in transactions of their own, any of which may commit and raise, so
`Story` says by the place a turn has reached which rows, runs, snapshots, approvals and
answers there are and how they fit: `RowsFit`, `JobFits`, `ContentFits`, `RunsFit`,
`ApprovalsFit`, `AnswerFits`. The links need two facts: no row is linked before the
last run of its turn is recorded, and all rows are linked at once. A step of another
turn keeps the story (`KeepsStory`), since every query of the code names the turn's
own job.

`SreAgentProofs` proves `AnalysesAreTold` for any passes, requests, worlds and
faults. A row whose key has the run of a pass is made SENT by that pass only, after
its message (`SentRowsAreTold`, `MarksFollowMessages`), since a run belongs to one
pass (`RunsAreOwn`) and a pass reports nothing of its analysis before it has made it
(`PassesAreInOrder`). `AlertKeepsItsEvidence` is proved for any alert: the phrase made
of an intent satisfies the planner's rule of that intent (`PhraseHitsRule`), so the
first rule that is satisfied is that one or one before it. `OwnCauseIsShown` is proved
for any alert and any answers of the tools: the cause of the alert has confidence
"high" (`OwnIsCertain`: it is forced to, or the alert and a tool are two sources), and
only PostgreSQL saturation may be ranked before a cause that an alert names
(`OwnCauseIsFirst`), so it has place 1 or 2. The proof gave the property its bound: the
runs had asked for a place among the three.

Only model-checked: the liveness properties `ScheduledJobIsClaimed`, `ClaimedJobEnds`,
`CronJobGetsThrough`, `LastingRiskIsAnnounced` and `QuestionsAreAnswered` (liveness
under fairness is out of the prover's reach), and the violated properties of section 6.

## 6. Findings

1. A webhook delivery that fails after the alert row is stored loses the RCA of
   the alert: its retry is taken for a duplicate (`rca_lost_alert`).
2. The idempotency key of the outbox does not keep overlapping passes from
   sending twice (`outbox_duplicate`).
3. A run of the predictive Slack agent over one service forgets the keys of all
   (`predictive_repeat`).
4. Evidence is searched without its keys, so a boundary whose check failed may be
   called healthy with high confidence (`sre_evidence`).

Met while modelling, and in the models as the code has it, with no document that says
otherwise:

* `trim_boundary_candidates` keeps six boundaries, and the path to an on-prem service
  has seven: the watcher never counts `pod_application`.
* A failed read of the VPN tunnels is answered with a note that contains "failed", and
  `vpn_route` is then degraded.
* The JSON text of a good Prometheus answer contains the key "error", so the word counts
  as an error wherever HikariCP or PostgreSQL is mentioned; the visibility timeout
  makes any answer of a dead letter queue a finding of SQS consumption.
* The tunnels are always looked up for routing, checkout and general incidents, so the
  scenario of these is always the one from the edge to on-prem.
* A database alert that no second source confirms is not among the candidates.
* The rules ask for the logs of a pod without a source, so EKS is asked, and for an
  on-prem service its namespace is refused there; the plans of the LLM get the source.
* A message that says on-prem and points to no service is taken to be about
  `service-catalog`, whose namespace the on-prem cluster does not let be read: every
  cluster read of that plan fails.
* Arguments that the LLM leaves out are completed except for the tools about one
  record (`RecordReads`): the call fails, and the answer is made without it.
* With more jobs due than a batch holds, a pod may end well without its own job.
* An alert whose text asks for help, or mentions an action that is refused, gets no
  tools.
* A slow read replaces a fresher cache entry, and lives a TTL from then on.
* A closed session still gets the question and the answer of a turn that had passed
  the check; the answer of a farmer that shows internals is replaced while its
  metadata still says that it is the LLM's.
* The collection of an alert that fires again is reported as SENT without a message.

## 7. Not modelled, and the plan

Not modelled: `farmer_bnpl`, `admin_riskops`, `farm_advisory` and `topology_knowledge`
keep no state that a step could leave inconsistent, and their answers are data to
the models above. The classification of `prediction_scaling/service.py` has no state
either; its verdicts are inputs of `PredictiveSlackAgent`. `main.py` starts the two
watchers once and stops them at the end. Prompts, the review of approvals, masking,
the layout of messages and metrics are left out.

Of the modelled components, left out: the transports of `infraops` and its WRITE
previews; the values of tool arguments other than cluster, namespace and load
balancer; queries that only
list rows; the schema validation of LLM answers, whose outcome is an input.

Left of the plan: the risk classification of `prediction_scaling/service.py` as pure
operators, and an abstract specification of a turn of the chat (asked, then answered or
failed, once) that `ChatOrchestration` implements, with its refinement proved from
`StoryInv`.
