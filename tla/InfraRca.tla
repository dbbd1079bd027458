------------------------------ MODULE InfraRca ------------------------------
(***************************************************************************)
(* The root-cause-analysis pipeline of infra_rca/service.py: Alertmanager  *)
(* webhook deliveries that record incidents and queue one RCA job, and the *)
(* run-due calls that claim and run the queued jobs.                       *)
(*                                                                         *)
(* Every repository method commits its own transaction, so each action     *)
(* below is one committed step and anything may happen between two of      *)
(* them: another delivery, another run-due call, an exception, the loss of *)
(* the process.  The database survives; the state of a delivery or of a    *)
(* run-due call does not.                                                  *)
(*                                                                         *)
(* A job is named by the delivery that created it, so Webhooks is both the *)
(* set of deliveries and the set of jobs there can be.                     *)
(***************************************************************************)
EXTENDS Integers, Sequences, FiniteSets

CONSTANTS
    Webhooks,       \* webhook deliveries, the retries of Alertmanager included
    Workers,        \* server threads that can serve POST /rca/jobs/run-due
    Alerts,         \* alert fingerprints
    Incidents,      \* incident dedup keys
    IncidentOf,     \* the dedup key of each fingerprint (several may share one)
    Requests,       \* the webhook bodies: sequences of [alert, status]
    Limit,          \* the limit parameter of run-due
    RunnerEnabled,  \* RCA_JOB_RUNNER_ENABLED: a Kubernetes Job per RCA job
    MaxFaults,      \* bound on the exceptions and process losses of a behaviour
    None            \* no job, no caller, no alert

AlertStatuses == {"FIRING", "RESOLVED"}

AlertEvent == [alert : Alerts, status : AlertStatuses]

ASSUME RcaAssumption ==
    /\ IncidentOf \in [Alerts -> Incidents]
    /\ Requests \subseteq Seq(AlertEvent) \ {<<>>}
    /\ Limit \in Int
    /\ RunnerEnabled \in BOOLEAN
    /\ MaxFaults \in Nat
    /\ None \notin Webhooks \cup Alerts

VARIABLES
    webhookPc,      \* where each delivery is in handle_alertmanager_webhook
    request,        \* the primary alert of each delivery
    incident,       \* incident_status of each row of ai.incidents
    alertRow,       \* alert_status of each row of ai.incident_alerts
    preliminary,    \* the incidents with an outbox row for a preliminary email
    job,            \* run_status of each row of ai.job_runs
    due,            \* the jobs whose scheduled_at has passed
    tries,          \* attempts the Kubernetes runner of a job has left
    pc,             \* where each worker is in run_due_rca_jobs
    batch,          \* the listed jobs a worker has still to look at
    cur,            \* the job a worker is running
    caller,         \* the runner pod that waits for a worker's answer
    snapshot,       \* snapshot_status of a job's observability snapshot
    llmRun,         \* run_status of the recorded RCA completion of a job
    reports,        \* number of ai.rca_reports rows a job has stored
    dashboard,      \* dashboard notification of a job
    finalMail,      \* the jobs whose report has an outbox row for a final email
    faults          \* exceptions and process losses so far

deliveryVars == <<webhookPc, request>>
alertVars    == <<incident, alertRow, preliminary>>
runnerVars   == <<due, tries>>
workerVars   == <<pc, batch, cur, caller>>
evidenceVars == <<snapshot, llmRun>>
resultVars   == <<reports, dashboard, finalMail>>

vars == <<deliveryVars, alertVars, job, runnerVars, workerVars,
          evidenceVars, resultVars, faults>>

-----------------------------------------------------------------------------
(* Types and initial state *)

IncidentStatuses == {"none", "FIRING", "INVESTIGATING", "ANALYZED", "RESOLVED"}
JobStatuses      == {"none", "QUEUED", "RUNNING", "SUCCEEDED", "FAILED"}

LlmFailures      == {"VALIDATION_FAILED", "FAILED"}

\* Mutant: a manifest without the backoffLimit, taken for no retry.
OneRunnerAttempt == 1

\* A pod is tried once and, because of backoffLimit 1, once more.
RunnerAttempts == 2

WebhookPcs == {"idle", "incident", "alert", "preliminary", "create_job",
               "schedule", "acked", "lost"}

\* Inside the try block of _run_scheduled_rca_job, before and after the report.
BeforeReport == {"snapshot", "collect", "llm", "report",
                 "investigating", "fail", "failed_notice"}
AfterReport  == {"analyzed", "succeed", "ready_notice", "final_mail"}
TryPcs       == BeforeReport \cup AfterReport
RunPcs       == TryPcs \cup {"except"}

TypeOK ==
    /\ webhookPc \in [Webhooks -> WebhookPcs]
    /\ request \in [Webhooks -> [alert : Alerts \cup {None},
                                 status : AlertStatuses \cup {"none"}]]
    /\ incident \in [Incidents -> IncidentStatuses]
    /\ alertRow \in [Alerts -> AlertStatuses \cup {"none"}]
    /\ preliminary \in SUBSET Incidents
    /\ job \in [Webhooks -> JobStatuses]
    /\ due \in SUBSET Webhooks
    /\ tries \in [Webhooks -> 0 .. RunnerAttempts]
    /\ pc \in [Workers -> RunPcs \cup {"idle", "loop"}]
    /\ batch \in [Workers -> SUBSET Webhooks]
    /\ cur \in [Workers -> Webhooks \cup {None}]
    /\ caller \in [Workers -> Webhooks \cup {None}]
    /\ snapshot \in [Webhooks -> {"none", "COLLECTING", "COMPLETED"}]
    /\ llmRun \in [Webhooks -> {"none", "SUCCESS"} \cup LlmFailures]
    /\ reports \in [Webhooks -> Nat]
    /\ dashboard \in [Webhooks -> {"none", "failed", "ready"}]
    /\ finalMail \in SUBSET Webhooks
    /\ faults \in 0 .. MaxFaults

Init ==
    /\ webhookPc = [w \in Webhooks |-> "idle"]
    /\ request = [w \in Webhooks |-> [alert |-> None, status |-> "none"]]
    /\ incident = [i \in Incidents |-> "none"]
    /\ alertRow = [a \in Alerts |-> "none"]
    /\ preliminary = {}
    /\ job = [w \in Webhooks |-> "none"]
    /\ due = {}
    /\ tries = [w \in Webhooks |-> 0]
    /\ pc = [k \in Workers |-> "idle"]
    /\ batch = [k \in Workers |-> {}]
    /\ cur = [k \in Workers |-> None]
    /\ caller = [k \in Workers |-> None]
    /\ snapshot = [w \in Webhooks |-> "none"]
    /\ llmRun = [w \in Webhooks |-> "none"]
    /\ reports = [w \in Webhooks |-> 0]
    /\ dashboard = [w \in Webhooks |-> "none"]
    /\ finalMail = {}
    /\ faults = 0

IncidentOfJob(j) == IncidentOf[request[j].alert]

-----------------------------------------------------------------------------
(* Webhook deliveries: handle_alertmanager_webhook *)

\* The first firing alert of the body, or its first alert when none fires.
\* The other alerts of the group are not looked at.
IsPrimary(body, i) ==
    \/ /\ body[i].status = "FIRING"
       /\ \A h \in 1 .. i - 1 : body[h].status # "FIRING"
    \/ /\ i = 1
       /\ \A h \in DOMAIN body : body[h].status # "FIRING"

Deliver(w) ==
    /\ webhookPc[w] = "idle"
    /\ \E body \in Requests : \E i \in DOMAIN body :
        /\ IsPrimary(body, i)
        /\ request' = [request EXCEPT ![w] = body[i]]
    /\ webhookPc' = [webhookPc EXCEPT ![w] = "incident"]
    /\ UNCHANGED <<alertVars, job, runnerVars, workerVars, evidenceVars,
                   resultVars, faults>>

\* on conflict (dedup_key) do update: the status is overwritten, whatever an
\* RCA run has made of it.
UpsertIncident(w) ==
    /\ webhookPc[w] = "incident"
    /\ incident' = [incident EXCEPT ![IncidentOfJob(w)] = request[w].status]
    /\ webhookPc' = [webhookPc EXCEPT ![w] = "alert"]
    /\ UNCHANGED <<request, alertRow, preliminary, job, runnerVars, workerVars,
                   evidenceVars, resultVars, faults>>

\* Mutant: a duplicate is an alert whose job exists, not one whose row does.
UpsertIncidentAlertByJob(w) ==
    LET a == request[w].alert
        duplicate == \E v \in Webhooks :
                        job[v] # "none" /\ request[v].alert = a
        answered == request[w].status = "RESOLVED" \/ duplicate
    IN  /\ webhookPc[w] = "alert"
        /\ alertRow' = [alertRow EXCEPT ![a] = request[w].status]
        /\ webhookPc' = [webhookPc EXCEPT
                            ![w] = IF answered THEN "acked" ELSE "preliminary"]
        /\ UNCHANGED <<request, incident, preliminary, job, runnerVars,
                       workerVars, evidenceVars, resultVars, faults>>

\* The insert tells whether the fingerprint is new; only a new firing alert
\* goes on, a resolved one and a duplicate are answered at once.
UpsertIncidentAlert(w) ==
    LET a == request[w].alert
        duplicate == alertRow[a] # "none"
        answered == request[w].status = "RESOLVED" \/ duplicate
    IN  /\ webhookPc[w] = "alert"
        /\ alertRow' = [alertRow EXCEPT ![a] = request[w].status]
        /\ webhookPc' = [webhookPc EXCEPT
                            ![w] = IF answered THEN "acked" ELSE "preliminary"]
        /\ UNCHANGED <<request, incident, preliminary, job, runnerVars,
                       workerVars, evidenceVars, resultVars, faults>>

\* _send_rca_notifications never raises.  It stores the outbox row of each
\* recipient before it sends, or stores none: there may be no recipient, and a
\* failed insert is logged and skipped.  What becomes of a row is the subject
\* of module NotificationOutbox; here only its existence matters.
MailRows(rows, x) == {rows, rows \cup {x}}

SendPreliminary(w) ==
    /\ webhookPc[w] = "preliminary"
    /\ preliminary' \in MailRows(preliminary, IncidentOfJob(w))
    /\ webhookPc' = [webhookPc EXCEPT ![w] = "create_job"]
    /\ UNCHANGED <<request, incident, alertRow, job, runnerVars, workerVars,
                   evidenceVars, resultVars, faults>>

CreateJob(w) ==
    /\ webhookPc[w] = "create_job"
    /\ job' = [job EXCEPT ![w] = "QUEUED"]
    /\ webhookPc' = [webhookPc EXCEPT ![w] = "schedule"]
    /\ UNCHANGED <<request, alertVars, runnerVars, workerVars, evidenceVars,
                   resultVars, faults>>

\* A Kubernetes Job with its two attempts, or none: the runner is disabled, or
\* its creation failed and was logged.  The delivery is acknowledged anyway.
ScheduleRunner(w) ==
    /\ webhookPc[w] = "schedule"
    /\ \E n \in IF RunnerEnabled THEN {0, RunnerAttempts} ELSE {0} :
            tries' = [tries EXCEPT ![w] = n]
    /\ webhookPc' = [webhookPc EXCEPT ![w] = "acked"]
    /\ UNCHANGED <<request, alertVars, job, due, workerVars, evidenceVars,
                   resultVars, faults>>

\* A repository call raises, or the process is lost: the delivery is not
\* acknowledged.  The retry of Alertmanager is another delivery.
LoseDelivery(w) ==
    /\ webhookPc[w] \notin {"idle", "acked", "lost"}
    /\ faults < MaxFaults
    /\ faults' = faults + 1
    /\ webhookPc' = [webhookPc EXCEPT ![w] = "lost"]
    /\ UNCHANGED <<request, alertVars, job, runnerVars, workerVars,
                   evidenceVars, resultVars>>

-----------------------------------------------------------------------------
(* Run-due calls: run_due_rca_jobs *)

\* Time passes the scheduled_at of a job.
BecomeDue(j) ==
    /\ job[j] # "none"
    /\ j \notin due
    /\ due' = due \cup {j}
    /\ UNCHANGED <<deliveryVars, alertVars, job, tries, workerVars,
                   evidenceVars, resultVars, faults>>

ClampedLimit == IF Limit < 1 THEN 1 ELSE IF Limit > 50 THEN 50 ELSE Limit

DueJobs == {j \in due : job[j] = "QUEUED"}

\* list_due_rca_jobs: every queued job that is due, or as many as the limit.
IsDueBatch(S) ==
    /\ Cardinality(S) <= ClampedLimit
    /\ S = DueJobs \/ Cardinality(S) = ClampedLimit

ListDueJobs(k, c) ==
    /\ pc[k] = "idle"
    /\ \E S \in SUBSET DueJobs :
        /\ IsDueBatch(S)
        /\ batch' = [batch EXCEPT ![k] = S]
    /\ pc' = [pc EXCEPT ![k] = "loop"]
    /\ caller' = [caller EXCEPT ![k] = c]
    /\ UNCHANGED <<deliveryVars, alertVars, job, due, cur, evidenceVars,
                   resultVars, faults>>

\* Mutant: a pod that is tried however often it has failed.
PodCallForever(k, j) ==
    /\ j \in due
    /\ \A other \in Workers : caller[other] # j
    /\ tries' = [tries EXCEPT ![j] = @ - 1]
    /\ ListDueJobs(k, j)

\* The pod sleeps until scheduled_at, then posts run-due and waits.
PodCall(k, j) ==
    /\ j \in due
    /\ tries[j] > 0
    /\ \A other \in Workers : caller[other] # j
    /\ tries' = [tries EXCEPT ![j] = @ - 1]
    /\ ListDueJobs(k, j)

\* Anybody else who posts run-due.
OperatorCall(k) ==
    /\ UNCHANGED tries
    /\ ListDueJobs(k, None)

\* The pod's urlopen times out; the server thread goes on.
PodTimeout(k) ==
    /\ caller[k] # None
    /\ caller' = [caller EXCEPT ![k] = None]
    /\ UNCHANGED <<deliveryVars, alertVars, job, runnerVars, pc, batch, cur,
                   evidenceVars, resultVars, faults>>

\* Mutant: the claim relies on the listing and does not test the status.
ClaimListedJob(k, j) ==
    /\ pc[k] = "loop"
    /\ j \in batch[k]
    /\ job' = [job EXCEPT ![j] = "RUNNING"]
    /\ batch' = [batch EXCEPT ![k] = @ \ {j}]
    /\ cur' = [cur EXCEPT ![k] = j]
    /\ pc' = [pc EXCEPT ![k] = "snapshot"]
    /\ UNCHANGED <<deliveryVars, alertVars, runnerVars, caller, evidenceVars,
                   resultVars, faults>>

\* mark_rca_job_running: update ... where run_status = 'QUEUED'.
ClaimJob(k, j) ==
    /\ pc[k] = "loop"
    /\ j \in batch[k]
    /\ job[j] = "QUEUED"
    /\ job' = [job EXCEPT ![j] = "RUNNING"]
    /\ batch' = [batch EXCEPT ![k] = @ \ {j}]
    /\ cur' = [cur EXCEPT ![k] = j]
    /\ pc' = [pc EXCEPT ![k] = "snapshot"]
    /\ UNCHANGED <<deliveryVars, alertVars, runnerVars, caller, evidenceVars,
                   resultVars, faults>>

SkipClaimed(k, j) ==
    /\ pc[k] = "loop"
    /\ j \in batch[k]
    /\ job[j] # "QUEUED"
    /\ batch' = [batch EXCEPT ![k] = @ \ {j}]
    /\ UNCHANGED <<deliveryVars, alertVars, job, runnerVars, pc, cur, caller,
                   evidenceVars, resultVars, faults>>

\* The answer of run-due: the pod that still waits for it completes.
EndRun(k) ==
    /\ pc[k] = "loop"
    /\ batch[k] = {}
    /\ tries' = [j \in Webhooks |-> IF j = caller[k] THEN 0 ELSE tries[j]]
    /\ pc' = [pc EXCEPT ![k] = "idle"]
    /\ caller' = [caller EXCEPT ![k] = None]
    /\ UNCHANGED <<deliveryVars, alertVars, job, due, batch, cur, evidenceVars,
                   resultVars, faults>>

-----------------------------------------------------------------------------
(* One RCA job: _run_scheduled_rca_job *)

\* A worker goes from one point of the method to another.
Goto(k, from, to) ==
    /\ pc[k] = from
    /\ pc' = [pc EXCEPT ![k] = to]

\* The last statement for a job: back to the loop over the batch.
Return(k, from) ==
    /\ Goto(k, from, "loop")
    /\ cur' = [cur EXCEPT ![k] = None]

StartSnapshot(k) ==
    /\ Goto(k, "snapshot", "collect")
    /\ snapshot' = [snapshot EXCEPT ![cur[k]] = "COLLECTING"]
    /\ UNCHANGED <<deliveryVars, alertVars, job, runnerVars, batch, cur, caller,
                   llmRun, resultVars, faults>>

\* A source that fails becomes an evidence item with an error, so there is
\* always an item and the snapshot completes.
CompleteSnapshot(k) ==
    /\ Goto(k, "collect", "llm")
    /\ snapshot' = [snapshot EXCEPT ![cur[k]] = "COMPLETED"]
    /\ UNCHANGED <<deliveryVars, alertVars, job, runnerVars, batch, cur, caller,
                   llmRun, resultVars, faults>>

\* Mutant: an answer that fails the schema is good enough for a report.
RunLenientCompletion(k) ==
    /\ \E s \in {"SUCCESS"} \cup LlmFailures :
        /\ Goto(k, "llm", IF s # "FAILED" THEN "report" ELSE "investigating")
        /\ llmRun' = [llmRun EXCEPT ![cur[k]] = s]
    /\ UNCHANGED <<deliveryVars, alertVars, job, runnerVars, batch, cur, caller,
                   snapshot, resultVars, faults>>

\* Mutant: the completion is repeated until it succeeds.
RepeatRcaCompletion(k) ==
    /\ \E s \in {"SUCCESS"} \cup LlmFailures :
        /\ Goto(k, "llm", IF s = "SUCCESS" THEN "report" ELSE "llm")
        /\ llmRun' = [llmRun EXCEPT ![cur[k]] = s]
    /\ UNCHANGED <<deliveryVars, alertVars, job, runnerVars, batch, cur, caller,
                   snapshot, resultVars, faults>>

\* record_llm_run stores the outcome of the completion, a provider error and an
\* answer that fails the schema included.
RunRcaCompletion(k) ==
    /\ \E s \in {"SUCCESS"} \cup LlmFailures :
        /\ Goto(k, "llm", IF s = "SUCCESS" THEN "report" ELSE "investigating")
        /\ llmRun' = [llmRun EXCEPT ![cur[k]] = s]
    /\ UNCHANGED <<deliveryVars, alertVars, job, runnerVars, batch, cur, caller,
                   snapshot, resultVars, faults>>

\* update_incident_status: unconditional, and the incident may have been
\* resolved or may be firing again since the job was queued.
SetIncident(k, status) ==
    /\ incident' = [incident EXCEPT ![IncidentOfJob(cur[k])] = status]
    /\ UNCHANGED <<deliveryVars, alertRow, preliminary, job, runnerVars, batch,
                   cur, caller, evidenceVars, resultVars, faults>>

\* Mutant: the incident of a failed completion is taken for analyzed.
MarkFailureAnalyzed(k) ==
    Goto(k, "investigating", "fail") /\ SetIncident(k, "ANALYZED")

MarkInvestigating(k) ==
    Goto(k, "investigating", "fail") /\ SetIncident(k, "INVESTIGATING")

MarkAnalyzed(k) ==
    Goto(k, "analyzed", "succeed") /\ SetIncident(k, "ANALYZED")

CreateReport(k) ==
    /\ Goto(k, "report", "analyzed")
    /\ reports' = [reports EXCEPT ![cur[k]] = @ + 1]
    /\ UNCHANGED <<deliveryVars, alertVars, job, runnerVars, batch, cur, caller,
                   evidenceVars, dashboard, finalMail, faults>>

\* finish_job: unconditional as well.
FinishJob(k, status) ==
    /\ job' = [job EXCEPT ![cur[k]] = status]
    /\ UNCHANGED <<deliveryVars, alertVars, runnerVars, batch, caller,
                   evidenceVars, resultVars, faults>>

FinishSucceeded(k) ==
    /\ Goto(k, "succeed", "ready_notice")
    /\ FinishJob(k, "SUCCEEDED")
    /\ UNCHANGED cur

\* Mutant: the early return for a failed completion forgets finish_job.
ForgetFailedJob(k) ==
    /\ Goto(k, "fail", "failed_notice")
    /\ UNCHANGED <<deliveryVars, alertVars, job, runnerVars, batch, cur, caller,
                   evidenceVars, resultVars, faults>>

FinishFailed(k) ==
    /\ Goto(k, "fail", "failed_notice")
    /\ FinishJob(k, "FAILED")
    /\ UNCHANGED cur

NotifyReady(k) ==
    /\ Goto(k, "ready_notice", "final_mail")
    /\ dashboard' = [dashboard EXCEPT ![cur[k]] = "ready"]
    /\ UNCHANGED <<deliveryVars, alertVars, job, runnerVars, batch, cur, caller,
                   evidenceVars, reports, finalMail, faults>>

NotifyFailed(k) ==
    /\ Return(k, "failed_notice")
    /\ dashboard' = [dashboard EXCEPT ![cur[k]] = "failed"]
    /\ UNCHANGED <<deliveryVars, alertVars, job, runnerVars, batch, caller,
                   evidenceVars, reports, finalMail, faults>>

SendFinal(k) ==
    /\ Return(k, "final_mail")
    /\ finalMail' \in MailRows(finalMail, cur[k])
    /\ UNCHANGED <<deliveryVars, alertVars, job, runnerVars, batch, caller,
                   evidenceVars, reports, dashboard, faults>>

\* A repository call of the try block raises.
Raise(k) ==
    /\ pc[k] \in TryPcs
    /\ faults < MaxFaults
    /\ faults' = faults + 1
    /\ pc' = [pc EXCEPT ![k] = "except"]
    /\ UNCHANGED <<deliveryVars, alertVars, job, runnerVars, batch, cur, caller,
                   evidenceVars, resultVars>>

\* Mutant: an exception puts the job back in the queue.
RequeueAfterException(k) ==
    /\ Return(k, "except")
    /\ FinishJob(k, "QUEUED")

\* The exception handler: the job is FAILED, whatever it was.
HandleException(k) ==
    /\ Return(k, "except")
    /\ FinishJob(k, "FAILED")

\* The process is lost, or an exception leaves run_due_rca_jobs (the claim or
\* the exception handler's own finish_job fails): the rest of the batch is
\* dropped, and the pod that waited fails.
LoseWorker(k) ==
    /\ pc[k] # "idle"
    /\ faults < MaxFaults
    /\ faults' = faults + 1
    /\ pc' = [pc EXCEPT ![k] = "idle"]
    /\ batch' = [batch EXCEPT ![k] = {}]
    /\ cur' = [cur EXCEPT ![k] = None]
    /\ caller' = [caller EXCEPT ![k] = None]
    /\ UNCHANGED <<deliveryVars, alertVars, job, runnerVars, evidenceVars,
                   resultVars>>

\* Mutant: a resend that does not look the report up.
SendAnyReportEmail(j) ==
    /\ job[j] # "none"
    /\ finalMail' \in MailRows(finalMail, j)
    /\ UNCHANGED <<deliveryVars, alertVars, job, runnerVars, workerVars,
                   evidenceVars, reports, dashboard, faults>>

\* POST /rca/reports/{id}/send-email: the final email again, for a report that
\* is stored.
SendReportEmail(j) ==
    /\ reports[j] > 0
    /\ finalMail' \in MailRows(finalMail, j)
    /\ UNCHANGED <<deliveryVars, alertVars, job, runnerVars, workerVars,
                   evidenceVars, reports, dashboard, faults>>

-----------------------------------------------------------------------------
(* Specification *)

WebhookStep(w) ==
    \/ UpsertIncident(w)
    \/ UpsertIncidentAlert(w)
    \/ SendPreliminary(w)
    \/ CreateJob(w)
    \/ ScheduleRunner(w)

WorkerStep(k) ==
    \/ \E j \in Webhooks : ClaimJob(k, j) \/ SkipClaimed(k, j)
    \/ EndRun(k)
    \/ StartSnapshot(k)
    \/ CompleteSnapshot(k)
    \/ RunRcaCompletion(k)
    \/ MarkInvestigating(k)
    \/ FinishFailed(k)
    \/ NotifyFailed(k)
    \/ CreateReport(k)
    \/ MarkAnalyzed(k)
    \/ FinishSucceeded(k)
    \/ NotifyReady(k)
    \/ SendFinal(k)
    \/ HandleException(k)

Next ==
    \/ \E w \in Webhooks : \/ Deliver(w)
                           \/ WebhookStep(w)
                           \/ LoseDelivery(w)
                           \/ BecomeDue(w)
                           \/ SendReportEmail(w)
    \/ \E k \in Workers : \/ \E j \in Webhooks : PodCall(k, j)
                          \/ OperatorCall(k)
                          \/ PodTimeout(k)
                          \/ WorkerStep(k)
                          \/ Raise(k)
                          \/ LoseWorker(k)

Spec == Init /\ [][Next]_vars

\* A delivery and a run-due call that are under way go on; time passes; a
\* runner pod whose time has come gets its call served, even when the server
\* threads are busy now and then (requests wait for a thread of the pool).
\* Nobody has to deliver a webhook or to call run-due by hand.
Fairness ==
    /\ \A w \in Webhooks : /\ WF_vars(WebhookStep(w))
                           /\ WF_vars(BecomeDue(w))
                           /\ SF_vars(\E k \in Workers : PodCall(k, w))
    /\ \A k \in Workers : WF_vars(WorkerStep(k))
-----------------------------------------------------------------------------
(* Properties *)

Runs(k, j) == pc[k] \in RunPcs /\ cur[k] = j

\* A delivery got past the duplicate check: it is the one that schedules.
Schedules(w) == webhookPc[w] \in {"preliminary", "create_job", "schedule"}

\* An alert gets at most one RCA job, however often and however concurrently
\* its webhook is delivered, retried after a lost delivery, resolved and fired
\* again, and only a firing delivery creates it (service.py 113-136).
OneJobPerAlert ==
    \A w \in Webhooks : job[w] # "none" =>
        /\ request[w].status = "FIRING"
        /\ \A v \in Webhooks \ {w} :
                job[v] # "none" => request[v].alert # request[w].alert

\* Two run-due calls never run the same job, although both may have listed it
\* before either claimed it; and a worker never runs a job it has not claimed
\* (list_due_rca_jobs and mark_rca_job_running are separate transactions).
ExclusiveRun ==
    \A k \in Workers : \A j \in Webhooks : Runs(k, j) =>
        /\ job[j] \in {"RUNNING", "SUCCEEDED", "FAILED"}
        /\ \A m \in Workers \ {k} : ~Runs(m, j)

\* A job stores at most one report, and only from a successful LLM run over a
\* completed snapshot; a SUCCEEDED job has its report.  Nothing in the schema
\* makes rca_reports unique: this rests on the claim.
ReportProvenance ==
    \A j \in Webhooks :
        /\ reports[j] <= 1
        /\ reports[j] = 1 => /\ llmRun[j] = "SUCCESS"
                             /\ snapshot[j] = "COMPLETED"
                             /\ job[j] \in {"RUNNING", "SUCCEEDED", "FAILED"}
        /\ job[j] = "SUCCEEDED" => reports[j] = 1

\* What is announced has happened: a preliminary email only for an incident
\* that fired, a final email and a "report is ready" notice only for a stored
\* report, a "generation failed" notice only for a FAILED job without one, also
\* when an exception, another run or a resend intervenes.
NoticesAreTrue ==
    /\ \A i \in preliminary : \E w \in Webhooks :
            request[w].status = "FIRING" /\ IncidentOfJob(w) = i
    /\ \A j \in Webhooks :
        /\ j \in finalMail => reports[j] = 1
        /\ dashboard[j] = "ready" => reports[j] = 1
        /\ dashboard[j] = "failed" => reports[j] = 0 /\ job[j] = "FAILED"

\* The status of an incident is backed by a run: ANALYZED by a stored report,
\* INVESTIGATING by a failed LLM run, of a job of that very incident, whichever
\* deliveries overwrote the status in between.
StatusIsBacked ==
    \A i \in Incidents :
        /\ incident[i] = "ANALYZED" =>
              \E j \in Webhooks : job[j] # "none" /\ IncidentOfJob(j) = i
                                  /\ reports[j] = 1
        /\ incident[i] = "INVESTIGATING" =>
              \E j \in Webhooks : job[j] # "none" /\ IncidentOfJob(j) = i
                                  /\ llmRun[j] \in LlmFailures

Orphaned(j) == job[j] = "RUNNING" /\ \A k \in Workers : ~Runs(k, j)

\* A job is left RUNNING with nobody to finish it, or is FAILED although its
\* report is stored, only through an exception or a loss of its own: each such
\* job has cost at least one.  Without one every claimed job is finished.
FaultsAccountForLosses ==
    Cardinality({j \in Webhooks : \/ Orphaned(j)
                                  \/ job[j] = "FAILED" /\ reports[j] = 1})
        <= faults

Lifecycle == INSTANCE RcaJobLifecycle WITH Jobs <- Webhooks

\* The job table behaves as module RcaJobLifecycle promises.
ImplementsLifecycle == Lifecycle!Spec

\* The call of the pod of a job lists others only: more are due than the limit.
LeftOut(j) ==
    \E k \in Workers : /\ caller[k] = j /\ pc[k] # "idle"
                       /\ job[j] = "QUEUED" /\ j \notin batch[k]

\* A queued job whose runner was created is claimed, by the call of its own pod or
\* of another one: each of its two attempts starts after the job is due, so one lost
\* call does not leave it queued, and neither does a timeout or a pod that lists it
\* at the same moment.  Only a batch that others fill can leave it out; its own pod
\* then completes without it and nobody else is sure to call again.
ScheduledJobIsClaimed ==
    \A j \in Webhooks :
        (job[j] = "QUEUED" /\ tries[j] = RunnerAttempts) ~>
            (job[j] # "QUEUED" \/ LeftOut(j))

\* A claimed job ends SUCCEEDED or FAILED unless its worker is lost.
ClaimedJobEnds ==
    \A j \in Webhooks :
        job[j] = "RUNNING" ~>
            (job[j] \in {"SUCCEEDED", "FAILED"} \/ Orphaned(j))

\* "A new firing alert leads to the preliminary RCA notice and the final RCA
\* flow" (docs/deployment.md 97): an acknowledged firing delivery has a job for
\* its alert, or another delivery is about to create it.
AcknowledgedFiringIsScheduled ==
    \A w \in Webhooks :
        webhookPc[w] = "acked" /\ request[w].status = "FIRING" =>
            \E v \in Webhooks : /\ request[v].alert = request[w].alert
                                /\ (job[v] # "none" \/ Schedules(v))
=============================================================================
