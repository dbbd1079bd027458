------------------------- MODULE InfraRcaInductive -------------------------
(***************************************************************************)
(* The inductive invariant of InfraRca: the properties a reader wants, and *)
(* what has to be known of deliveries and workers for a step to keep them. *)
(* Each part is preserved by every step given the parts before it.         *)
(***************************************************************************)
EXTENDS InfraRca

\* A delivery under way has its primary alert, and one that has not started
\* has none yet.
RequestKnown ==
    \A w \in Webhooks :
        /\ webhookPc[w] # "idle" => request[w] \in AlertEvent
        /\ webhookPc[w] = "idle" => request[w].status = "none"

\* A worker inside _run_scheduled_rca_job has its job.
CurKnown ==
    \A k \in Workers : pc[k] \in RunPcs => cur[k] \in Webhooks

TypeInv == TypeOK /\ RequestKnown /\ CurKnown

\* The delivery that is scheduling, or has scheduled, the job of its alert.
Owner(w) == Schedules(w) \/ job[w] # "none"

\* The row of incident_alerts is what keeps a second owner out: an owner's
\* alert has one, and the step that makes an owner is the step that inserts it.
DeliveryInv ==
    \A w \in Webhooks :
        /\ job[w] # "none" => webhookPc[w] \in {"schedule", "acked", "lost"}
        /\ Owner(w) => /\ request[w].status = "FIRING"
                       /\ alertRow[request[w].alert] # "none"
        /\ \A v \in Webhooks : Owner(v) /\ Owner(w)
                               /\ request[v].alert = request[w].alert => v = w

\* Where a worker can be with a job in each status.
WorkingPcs == {"snapshot", "collect", "llm", "report", "investigating", "fail",
               "analyzed", "succeed"}

\* The claim gives a job to one worker, who keeps it until the method returns;
\* what is left to do after finish_job is done with the status it has written.
RunInv ==
    /\ \A k \in Workers :
        /\ pc[k] \in WorkingPcs => job[cur[k]] = "RUNNING"
        /\ pc[k] \in {"ready_notice", "final_mail"} => job[cur[k]] = "SUCCEEDED"
        /\ pc[k] = "failed_notice" => job[cur[k]] = "FAILED"
        /\ pc[k] \in RunPcs =>
              job[cur[k]] \in {"RUNNING", "SUCCEEDED", "FAILED"}
    /\ \A k, m \in Workers :
        pc[k] \in RunPcs /\ pc[m] \in RunPcs /\ cur[k] = cur[m] => k = m

\* What a worker knows of the evidence and the results of its job.
WorkerEvidence(k) ==
    LET j == cur[k]
    IN  /\ pc[k] \in RunPcs => dashboard[j] # "failed"
        /\ pc[k] \in BeforeReport => reports[j] = 0
        /\ pc[k] \in AfterReport => reports[j] = 1
        /\ pc[k] \in {"llm", "report"} => snapshot[j] = "COMPLETED"
        /\ pc[k] \in {"snapshot", "collect", "llm"} => llmRun[j] = "none"
        /\ pc[k] = "report" => llmRun[j] = "SUCCESS"
        /\ pc[k] \in {"investigating", "fail", "failed_notice"} =>
                llmRun[j] \in LlmFailures

\* What everybody can rely on about a job, whoever runs it or ran it.
JobEvidence(j) ==
    /\ job[j] \in {"none", "QUEUED"} =>
            /\ reports[j] = 0
            /\ llmRun[j] = "none"
            /\ dashboard[j] = "none"
    /\ reports[j] \in {0, 1}
    /\ reports[j] = 1 => llmRun[j] = "SUCCESS" /\ snapshot[j] = "COMPLETED"
    /\ job[j] = "SUCCEEDED" => reports[j] = 1
    /\ j \in finalMail => reports[j] = 1
    /\ dashboard[j] = "ready" => reports[j] = 1
    /\ dashboard[j] = "failed" => reports[j] = 0 /\ job[j] = "FAILED"

EvidenceInv ==
    /\ \A k \in Workers : WorkerEvidence(k)
    /\ \A j \in Webhooks : JobEvidence(j)

\* The incident table and the preliminary emails.
IncidentInv ==
    /\ StatusIsBacked
    /\ \A i \in preliminary : \E w \in Webhooks :
            request[w].status = "FIRING" /\ IncidentOfJob(w) = i

\* The jobs that have cost a fault: one that is lost or contradicted, and one
\* whose exception is still to be handled.
Hit(j) ==
    \/ Orphaned(j)
    \/ job[j] = "FAILED" /\ reports[j] = 1
    \/ \E k \in Workers : pc[k] = "except" /\ cur[k] = j

HitJobs == {j \in Webhooks : Hit(j)}

\* Each of them has cost one of its own.  The exception is counted when it is
\* raised: the handler that makes the job FAILED is no fault.
LossInv ==
    /\ IsFiniteSet(HitJobs)
    /\ Cardinality(HitJobs) <= faults

\* The inductive invariant.  It implies TypeOK, OneJobPerAlert, ExclusiveRun,
\* ReportProvenance, NoticesAreTrue and StatusIsBacked, and it is what the
\* refinement of RcaJobLifecycle and the count of the losses need.
IInv == TypeInv /\ DeliveryInv /\ RunInv /\ EvidenceInv /\ IncidentInv
=============================================================================
