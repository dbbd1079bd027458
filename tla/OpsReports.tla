----------------------------- MODULE OpsReports -----------------------------
(***************************************************************************)
(* Operations reports of ops_reports/service.py: a call of                 *)
(* create_ops_report stores a report and the outcome of its job, a call of *)
(* send_ops_report_email mails a stored report to its recipients.  The     *)
(* pods of the daily CronJob (ops_reports/job_runner.py) do one after the  *)
(* other; users of the API do either.                                      *)
(*                                                                         *)
(* Each repository call commits on its own.  A call is a trip through this *)
(* code: a pod of the CronJob, or a request.  It stores at most two rows   *)
(* of ai.ops_reports, "result" inside the try block and "failure" in the   *)
(* exception handler.                                                      *)
(***************************************************************************)
EXTENDS Naturals, FiniteSets

CONSTANTS
    Attempts,    \* pods of the Job: the first one and its retries
    Requests,    \* API requests
    Recipients,  \* OPS_REPORT_EMAIL_RECIPIENTS, and who a request may name
    MaxFaults,   \* bound on the exceptions, losses and deadlines
    None         \* no report yet

Calls == Attempts \cup Requests

Reports == Calls \X {"result", "failure"}

ASSUME OpsAssumption ==
    /\ Attempts \cap Requests = {}
    /\ Recipients # {}
    /\ MaxFaults \in Nat
    /\ None \notin Reports

VARIABLES
    pc,          \* where each call is
    job,         \* run_status of the row of ai.job_runs of each call
    llmRun,      \* run_status of the report completion of each call
    status,      \* report_status of each row of ai.ops_reports
    children,    \* how many of a call's report items are stored
    report,      \* the report each call answers with or mails
    recipients,  \* the recipients a call mails to
    outbox,      \* send_status of a call's outbox row for each recipient
    accepted,    \* the recipients whose message the mail server has accepted
    expired,     \* the Job of the CronJob has reached activeDeadlineSeconds
    faults       \* exceptions, process losses and deadlines so far

reportVars == <<job, llmRun, status, children>>
mailVars   == <<recipients, outbox, accepted>>

vars == <<pc, reportVars, report, mailVars, expired, faults>>

\* Inside the try block of create_ops_report.
TryPcs  == {"complete", "store", "children", "finish", "read"}
MailPcs == {"open", "mail", "deliver", "mark_sent", "mark_failed"}
BusyPcs == TryPcs \cup {"except", "store_failure"} \cup MailPcs

TypeOK ==
    /\ pc \in [Calls -> BusyPcs \cup {"idle", "done", "aborted"}]
    /\ job \in [Calls -> {"none", "RUNNING", "SUCCEEDED", "FAILED"}]
    /\ llmRun \in [Calls -> {"none", "SUCCESS", "FAILED"}]
    /\ status \in [Reports -> {"none", "COMPLETED", "FAILED", "SENT"}]
    /\ children \in [Calls -> {"none", "some", "all"}]
    /\ report \in [Calls -> Reports \cup {None}]
    /\ recipients \in [Calls -> SUBSET Recipients]
    /\ outbox \in [Calls -> [Recipients -> {"none", "PENDING", "SENT",
                                            "FAILED"}]]
    /\ accepted \in [Calls -> SUBSET Recipients]
    /\ expired \in BOOLEAN
    /\ faults \in 0 .. MaxFaults

Init ==
    /\ pc = [c \in Calls |-> "idle"]
    /\ job = [c \in Calls |-> "none"]
    /\ llmRun = [c \in Calls |-> "none"]
    /\ status = [r \in Reports |-> "none"]
    /\ children = [c \in Calls |-> "none"]
    /\ report = [c \in Calls |-> None]
    /\ recipients = [c \in Calls |-> {}]
    /\ outbox = [c \in Calls |-> [x \in Recipients |-> "none"]]
    /\ accepted = [c \in Calls |-> {}]
    /\ expired = FALSE
    /\ faults = 0

Goto(c, from, to) ==
    /\ pc[c] = from
    /\ pc' = [pc EXCEPT ![c] = to]

Fault ==
    /\ faults < MaxFaults
    /\ faults' = faults + 1

-----------------------------------------------------------------------------
(* create_ops_report *)

\* Mutant: the retries do not look at how the last pod ended.
StartAnyway(c) == TRUE

\* Mutant: a failed pod is the last one.
StartOnce(c) == c \in Attempts => \A a \in Attempts : pc[a] = "idle"

\* A request may come at any time.  The pods of a Job follow one another, and
\* the next one comes only when the ones before have failed: concurrencyPolicy
\* is Forbid, restartPolicy is Never, and the backoffLimit is the default.
MayStart(c) ==
    c \in Attempts => /\ ~expired
                      /\ \A a \in Attempts : pc[a] \in {"idle", "aborted"}

CreateJob(c) ==
    /\ MayStart(c)
    /\ Goto(c, "idle", "complete")
    /\ job' = [job EXCEPT ![c] = "RUNNING"]
    /\ UNCHANGED <<llmRun, status, children, report, mailVars, expired, faults>>

\* The evidence is read, a source that fails becomes an item with an error,
\* and the completion is recorded with its outcome.
RunOpsReportCompletion(c) ==
    /\ Goto(c, "complete", "store")
    /\ \E s \in {"SUCCESS", "FAILED"} : llmRun' = [llmRun EXCEPT ![c] = s]
    /\ UNCHANGED <<job, status, children, report, mailVars, expired, faults>>

\* A failed completion still gives a report, with status FAILED.
CreateReport(c) ==
    /\ Goto(c, "store", "children")
    /\ status' = [status EXCEPT ![<<c, "result">>] =
                      IF llmRun[c] = "SUCCESS" THEN "COMPLETED" ELSE "FAILED"]
    /\ UNCHANGED <<job, llmRun, children, report, mailVars, expired, faults>>

PersistReportChildren(c) ==
    /\ Goto(c, "children", "finish")
    /\ children' = [children EXCEPT ![c] = "all"]
    /\ UNCHANGED <<job, llmRun, status, report, mailVars, expired, faults>>

\* One of the inserts raises; the ones before it are committed.
PersistSomeChildren(c) ==
    /\ Goto(c, "children", "except")
    /\ Fault
    /\ children' = [children EXCEPT ![c] = "some"]
    /\ UNCHANGED <<job, llmRun, status, report, mailVars, expired>>

\* Mutant: the status of the report is written to the job.
FinishWithReportStatus(c) ==
    /\ Goto(c, "finish", "read")
    /\ job' = [job EXCEPT ![c] = status[<<c, "result">>]]
    /\ UNCHANGED <<llmRun, status, children, report, mailVars, expired, faults>>

\* Mutant: the two outcomes are swapped.
FinishSwapped(c) ==
    /\ Goto(c, "finish", "read")
    /\ job' = [job EXCEPT ![c] = IF llmRun[c] = "SUCCESS" THEN "FAILED"
                                                          ELSE "SUCCEEDED"]
    /\ UNCHANGED <<llmRun, status, children, report, mailVars, expired, faults>>

FinishJob(c) ==
    /\ Goto(c, "finish", "read")
    /\ job' = [job EXCEPT ![c] = IF llmRun[c] = "SUCCESS" THEN "SUCCEEDED"
                                                          ELSE "FAILED"]
    /\ UNCHANGED <<llmRun, status, children, report, mailVars, expired, faults>>

\* Where a call goes with the report it has made: a pod mails it.
AfterCreate(c) == IF c \in Attempts THEN "open" ELSE "done"

\* get_ops_report reads the report and its items for the answer.
ReadBack(c) ==
    /\ Goto(c, "read", AfterCreate(c))
    /\ report' = [report EXCEPT ![c] = <<c, "result">>]
    /\ UNCHANGED <<reportVars, mailVars, expired, faults>>

\* Any repository call of the try block raises, the read-back included.
Raise(c) ==
    /\ pc[c] \in TryPcs
    /\ Fault
    /\ pc' = [pc EXCEPT ![c] = "except"]
    /\ UNCHANGED <<reportVars, report, mailVars, expired>>

\* Mutant: the handler stores the failure report and leaves the job.
KeepJob(c) ==
    /\ Goto(c, "except", "store_failure")
    /\ UNCHANGED <<reportVars, report, mailVars, expired, faults>>

\* The handler: the job is FAILED, whatever it was ...
FailJob(c) ==
    /\ Goto(c, "except", "store_failure")
    /\ job' = [job EXCEPT ![c] = "FAILED"]
    /\ UNCHANGED <<llmRun, status, children, report, mailVars, expired, faults>>

\* ... and a FAILED report is stored, also next to one that is stored already.
CreateFailureReport(c) ==
    /\ Goto(c, "store_failure", AfterCreate(c))
    /\ status' = [status EXCEPT ![<<c, "failure">>] = "FAILED"]
    /\ report' = [report EXCEPT ![c] = <<c, "failure">>]
    /\ UNCHANGED <<job, llmRun, children, mailVars, expired, faults>>

-----------------------------------------------------------------------------
(* send_ops_report_email *)

\* A pod mails its own report to everyone, whatever the status of the report.
OpenOwnReport(c) ==
    /\ Goto(c, "open", "mail")
    /\ recipients' = [recipients EXCEPT ![c] = Recipients]
    /\ UNCHANGED <<reportVars, report, outbox, accepted, expired, faults>>

\* A request mails any stored report to anyone.
OpenReport(c, r) ==
    /\ c \in Requests
    /\ Goto(c, "idle", "mail")
    /\ status[r] # "none"
    /\ report' = [report EXCEPT ![c] = r]
    /\ \E X \in (SUBSET Recipients) \ {{}} :
            recipients' = [recipients EXCEPT ![c] = X]
    /\ UNCHANGED <<reportVars, outbox, accepted, expired, faults>>

\* The outbox row is always a new one: the email has no idempotency key.
CreateNotification(c, x) ==
    /\ Goto(c, "mail", "deliver")
    /\ x \in recipients[c]
    /\ outbox[c][x] = "none"
    /\ outbox' = [outbox EXCEPT ![c][x] = "PENDING"]
    /\ UNCHANGED <<reportVars, report, recipients, accepted, expired, faults>>

\* send_html: accepted, or refused with an exception.
Deliver(c, x) ==
    /\ outbox[c][x] = "PENDING"
    /\ \/ /\ Goto(c, "deliver", "mark_sent")
          /\ accepted' = [accepted EXCEPT ![c] = @ \cup {x}]
       \/ /\ Goto(c, "deliver", "mark_failed")
          /\ UNCHANGED accepted
    /\ UNCHANGED <<reportVars, report, recipients, outbox, expired, faults>>

\* Accepted, and the exception comes when the connection is closed.
DeliverUnconfirmed(c, x) ==
    /\ outbox[c][x] = "PENDING"
    /\ Goto(c, "deliver", "mark_failed")
    /\ Fault
    /\ accepted' = [accepted EXCEPT ![c] = @ \cup {x}]
    /\ UNCHANGED <<reportVars, report, recipients, outbox, expired>>

Mark(c, x, from, sendStatus) ==
    /\ outbox[c][x] = "PENDING"
    /\ Goto(c, from, "mail")
    /\ outbox' = [outbox EXCEPT ![c][x] = sendStatus]
    /\ UNCHANGED <<reportVars, report, recipients, accepted, expired, faults>>

MarkSent(c, x) == Mark(c, x, "mark_sent", "SENT")

MarkFailed(c, x) == Mark(c, x, "mark_failed", "FAILED")

\* The update to SENT is inside the try block of the delivery: when it raises,
\* the handler marks the delivered message FAILED.
MarkSentRaises(c) ==
    /\ Goto(c, "mark_sent", "mark_failed")
    /\ Fault
    /\ UNCHANGED <<reportVars, report, mailVars, expired>>

Mailed(c) == \A x \in recipients[c] : outbox[c][x] \in {"SENT", "FAILED"}

\* Mutant: one recipient is enough.
AnySent(c) == \E x \in recipients[c] : outbox[c][x] = "SENT"

AllSent(c) == \A x \in recipients[c] : outbox[c][x] = "SENT"

\* After the last recipient: the report is SENT when everyone has it, FAILED
\* reports included.  A pod ends well even if nobody has it.
CloseMailing(c) ==
    /\ Goto(c, "mail", "done")
    /\ Mailed(c)
    /\ status' = [status EXCEPT ![report[c]] = IF AllSent(c) THEN "SENT"
                                                             ELSE @]
    /\ UNCHANGED <<job, llmRun, children, report, mailVars, expired, faults>>

\* The process is lost, or an exception is raised outside the try blocks: in a
\* handler, by an outbox insert, by the update of the report.
Abort(c) ==
    /\ pc[c] \in BusyPcs
    /\ Fault
    /\ pc' = [pc EXCEPT ![c] = "aborted"]
    /\ UNCHANGED <<reportVars, report, mailVars, expired>>

\* The Job is given up: its pod is killed and there is no further one.
Expire ==
    /\ ~expired
    /\ \E a \in Attempts : pc[a] # "idle"
    /\ \A a \in Attempts : pc[a] # "done"
    /\ Fault
    /\ expired' = TRUE
    /\ pc' = [c \in Calls |-> IF c \in Attempts /\ pc[c] # "idle"
                            THEN "aborted" ELSE pc[c]]
    /\ UNCHANGED <<reportVars, report, mailVars>>

-----------------------------------------------------------------------------
(* Specification *)

CreateStep(c) ==
    \/ RunOpsReportCompletion(c)
    \/ CreateReport(c)
    \/ PersistReportChildren(c)
    \/ FinishJob(c)
    \/ ReadBack(c)
    \/ FailJob(c)
    \/ CreateFailureReport(c)

MailStep(c) ==
    \/ OpenOwnReport(c)
    \/ \E x \in Recipients : \/ CreateNotification(c, x)
                             \/ Deliver(c, x)
                             \/ MarkSent(c, x)
                             \/ MarkFailed(c, x)
    \/ CloseMailing(c)

Next ==
    \/ \E c \in Calls :
        \/ CreateJob(c)
        \/ CreateStep(c)
        \/ MailStep(c)
        \/ \E r \in Reports : OpenReport(c, r)
        \/ \E x \in Recipients : DeliverUnconfirmed(c, x)
        \/ PersistSomeChildren(c)
        \/ Raise(c)
        \/ MarkSentRaises(c)
        \/ Abort(c)
    \/ Expire

Spec == Init /\ [][Next]_vars

\* The CronJob fires and retries failed pods; a call under way goes on.  No
\* request has to come.
Fairness ==
    /\ WF_vars(\E a \in Attempts : CreateJob(a))
    /\ \A c \in Calls : WF_vars(CreateStep(c) \/ MailStep(c))

FairSpec == Spec /\ Fairness

-----------------------------------------------------------------------------
(* Properties *)

\* A SUCCEEDED job is the whole story: a successful completion, its report with
\* every item stored, and no failure report next to it.  The handler that stores
\* the failure report may run after finish_job (service.py 160-205).
SucceededJobIsComplete ==
    \A c \in Calls : job[c] = "SUCCEEDED" =>
        /\ llmRun[c] = "SUCCESS"
        /\ status[<<c, "result">>] \in {"COMPLETED", "SENT"}
        /\ children[c] = "all"
        /\ status[<<c, "failure">>] = "none"

\* A report is SENT only if one and the same call has delivered it to every
\* recipient it was asked to mail, whatever other calls do with that report.
SentReportWasDelivered ==
    \A r \in Reports : status[r] = "SENT" =>
        \E c \in Calls : /\ pc[c] = "done"
                         /\ report[c] = r
                         /\ recipients[c] # {}
                         /\ recipients[c] \subseteq accepted[c]

\* The retries of a Job cost duplicates only with faults: a recipient gets the
\* mail of one pod, and of one more pod for each fault.
RetriesRepeatOnlyFaults ==
    \A x \in Recipients :
        Cardinality({a \in Attempts : x \in accepted[a]}) <= 1 + faults

\* A job left RUNNING, or FAILED although its report was completed.
ContradictedJob(c) ==
    \/ job[c] = "RUNNING" /\ pc[c] = "aborted"
    \/ /\ job[c] = "FAILED"
       /\ llmRun[c] = "SUCCESS"
       /\ status[<<c, "result">>] # "none"

\* A delivered message whose row is FAILED, or PENDING with nobody at work.
ContradictedMail(c, x) ==
    /\ x \in accepted[c]
    /\ \/ outbox[c][x] = "FAILED"
       \/ outbox[c][x] = "PENDING" /\ pc[c] = "aborted"

\* Each contradiction in what is stored has cost a fault of its own, of a job as
\* of a message.
FaultsAccountForContradictions ==
    Cardinality({c \in Calls : ContradictedJob(c)})
      + Cardinality({d \in Calls \X Recipients : ContradictedMail(d[1], d[2])})
    <= faults

\* The CronJob gets through: with more pods than faults, one of them tells every
\* recipient or records why it could not, unless the Job reaches its deadline.
CronJobGetsThrough ==
    MaxFaults < Cardinality(Attempts) =>
        <>(expired \/ \E a \in Attempts : pc[a] = "done" /\ Mailed(a))
=============================================================================
