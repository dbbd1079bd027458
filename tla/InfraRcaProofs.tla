--------------------------- MODULE InfraRcaProofs ---------------------------
(***************************************************************************)
(* Proofs about InfraRca, for any number of deliveries, workers, alerts    *)
(* and incidents, any limit and any bound on faults: the invariant IInv of *)
(* InfraRcaInductive part by part, the properties it implies, the count of *)
(* the jobs that were lost, and the refinement of RcaJobLifecycle.         *)
(***************************************************************************)
EXTENDS InfraRcaInductive, FiniteSetTheorems, TLAPS

-----------------------------------------------------------------------------
(* Type correctness *)

LEMMA BodyType ==
    ASSUME NEW body \in Requests, NEW i \in DOMAIN body
    PROVE  body[i] \in AlertEvent
<1>1. body \in Seq(AlertEvent)
    BY RcaAssumption DEF RcaAssumption
<1> QED
    BY <1>1

\* The values the actions write are in the declared sets.
LEMMA ValueTypes ==
    /\ {"FIRING", "RESOLVED"} \subseteq IncidentStatuses
    /\ {"INVESTIGATING", "ANALYZED"} \subseteq IncidentStatuses
    /\ {"QUEUED", "RUNNING", "SUCCEEDED", "FAILED"} \subseteq JobStatuses
    /\ None \notin Webhooks /\ None \notin Alerts
BY RcaAssumption DEF IncidentStatuses, JobStatuses, RcaAssumption

LEMMA InitType == Init => TypeInv
BY RcaAssumption
   DEF RcaAssumption, Init, TypeInv, TypeOK, RequestKnown, CurKnown, WebhookPcs,
       IncidentStatuses, JobStatuses, RunnerAttempts, RunPcs, TryPcs,
       BeforeReport, AfterReport

\* The incident of a delivery under way is a row of the incident table.
LEMMA IncidentType ==
    ASSUME RequestKnown, NEW w \in Webhooks, webhookPc[w] # "idle"
    PROVE  IncidentOfJob(w) \in Incidents
BY RcaAssumption DEF RequestKnown, RcaAssumption, IncidentOfJob, AlertEvent

\* Every action keeps the types: the cases of Next one by one.
LEMMA StepType == TypeInv /\ [Next]_vars => TypeInv'
<1> SUFFICES ASSUME TypeInv, [Next]_vars
             PROVE  TypeInv'
    OBVIOUS
<1> USE DEF TypeInv, TypeOK, RequestKnown, CurKnown, deliveryVars, alertVars,
            runnerVars, workerVars, evidenceVars, resultVars
<1>1. ASSUME NEW w \in Webhooks, Deliver(w)
      PROVE  TypeInv'
    BY <1>1, BodyType
       DEF Deliver, WebhookPcs, AlertEvent, AlertStatuses
<1>2. ASSUME NEW w \in Webhooks, UpsertIncident(w)
      PROVE  TypeInv'
    <2>1. request[w].status \in IncidentStatuses
        BY <1>2, ValueTypes DEF UpsertIncident, AlertEvent, AlertStatuses
    <2>2. incident' \in [Incidents -> IncidentStatuses]
        BY <1>2, <2>1 DEF UpsertIncident
    <2> QED
        BY <1>2, <2>2 DEF UpsertIncident, WebhookPcs
<1>3. ASSUME NEW w \in Webhooks, UpsertIncidentAlert(w)
      PROVE  TypeInv'
    BY <1>3
       DEF UpsertIncidentAlert, WebhookPcs, AlertEvent, AlertStatuses
<1>4. ASSUME NEW w \in Webhooks, SendPreliminary(w)
      PROVE  TypeInv'
    BY <1>4, IncidentType
       DEF SendPreliminary, MailRows, WebhookPcs
<1>5. ASSUME NEW w \in Webhooks, CreateJob(w)
      PROVE  TypeInv'
    BY <1>5, ValueTypes
       DEF CreateJob, WebhookPcs
<1>6. ASSUME NEW w \in Webhooks, ScheduleRunner(w)
      PROVE  TypeInv'
    BY <1>6
       DEF ScheduleRunner, WebhookPcs, RunnerAttempts
<1>7. ASSUME NEW w \in Webhooks, LoseDelivery(w)
      PROVE  TypeInv'
    BY <1>7, RcaAssumption
       DEF LoseDelivery, RcaAssumption, WebhookPcs
<1>8. ASSUME NEW w \in Webhooks, BecomeDue(w)
      PROVE  TypeInv'
    BY <1>8
       DEF BecomeDue
<1>9. ASSUME NEW w \in Webhooks, SendReportEmail(w)
      PROVE  TypeInv'
    BY <1>9
       DEF SendReportEmail, MailRows
<1>10. ASSUME NEW k \in Workers, NEW j \in Webhooks, PodCall(k, j)
       PROVE  TypeInv'
    BY <1>10
       DEF PodCall, ListDueJobs, DueJobs, RunnerAttempts, RunPcs, TryPcs,
           BeforeReport, AfterReport
<1>11. ASSUME NEW k \in Workers, NEW j \in Webhooks, ClaimJob(k, j)
       PROVE  TypeInv'
    BY <1>11, ValueTypes
       DEF ClaimJob, RunPcs, TryPcs, BeforeReport, AfterReport
<1>12. ASSUME NEW k \in Workers, NEW j \in Webhooks, SkipClaimed(k, j)
       PROVE  TypeInv'
    BY <1>12
       DEF SkipClaimed
<1>13. ASSUME NEW k \in Workers, OperatorCall(k)
       PROVE  TypeInv'
    BY <1>13
       DEF OperatorCall, ListDueJobs, DueJobs, RunPcs, TryPcs, BeforeReport,
           AfterReport
<1>14. ASSUME NEW k \in Workers, PodTimeout(k)
       PROVE  TypeInv'
    BY <1>14
       DEF PodTimeout
<1>15. ASSUME NEW k \in Workers, EndRun(k)
       PROVE  TypeInv'
    BY <1>15
       DEF EndRun, RunnerAttempts, RunPcs, TryPcs, BeforeReport, AfterReport
<1>16. ASSUME NEW k \in Workers, StartSnapshot(k)
       PROVE  TypeInv'
    BY <1>16
       DEF StartSnapshot, Goto, RunPcs, TryPcs, BeforeReport, AfterReport
<1>17. ASSUME NEW k \in Workers, CompleteSnapshot(k)
       PROVE  TypeInv'
    BY <1>17
       DEF CompleteSnapshot, Goto, RunPcs, TryPcs, BeforeReport, AfterReport
<1>18. ASSUME NEW k \in Workers, RunRcaCompletion(k)
       PROVE  TypeInv'
    <2>1. llmRun' \in [Webhooks -> {"none", "SUCCESS"} \cup LlmFailures]
        BY <1>18 DEF RunRcaCompletion
    <2> QED
        BY <1>18, <2>1 DEF RunRcaCompletion, Goto, RunPcs, TryPcs, BeforeReport,
                         AfterReport
<1>19. ASSUME NEW k \in Workers, MarkInvestigating(k)
       PROVE  TypeInv'
    BY <1>19, ValueTypes
       DEF MarkInvestigating, Goto, SetIncident, IncidentOfJob, RunPcs,
           TryPcs, BeforeReport, AfterReport
<1>20. ASSUME NEW k \in Workers, FinishFailed(k)
       PROVE  TypeInv'
    BY <1>20, ValueTypes
       DEF FinishFailed, Goto, FinishJob, RunPcs, TryPcs, BeforeReport,
           AfterReport
<1>21. ASSUME NEW k \in Workers, NotifyFailed(k)
       PROVE  TypeInv'
    BY <1>21
       DEF NotifyFailed, Return, Goto, RunPcs, TryPcs, BeforeReport,
           AfterReport
<1>22. ASSUME NEW k \in Workers, CreateReport(k)
       PROVE  TypeInv'
    BY <1>22
       DEF CreateReport, Goto, RunPcs, TryPcs, BeforeReport, AfterReport
<1>23. ASSUME NEW k \in Workers, MarkAnalyzed(k)
       PROVE  TypeInv'
    BY <1>23, ValueTypes
       DEF MarkAnalyzed, Goto, SetIncident, IncidentOfJob, RunPcs, TryPcs,
           BeforeReport, AfterReport
<1>24. ASSUME NEW k \in Workers, FinishSucceeded(k)
       PROVE  TypeInv'
    BY <1>24, ValueTypes
       DEF FinishSucceeded, Goto, FinishJob, RunPcs, TryPcs, BeforeReport,
           AfterReport
<1>25. ASSUME NEW k \in Workers, NotifyReady(k)
       PROVE  TypeInv'
    BY <1>25
       DEF NotifyReady, Goto, RunPcs, TryPcs, BeforeReport, AfterReport
<1>26. ASSUME NEW k \in Workers, SendFinal(k)
       PROVE  TypeInv'
    BY <1>26
       DEF SendFinal, Return, Goto, MailRows, RunPcs, TryPcs, BeforeReport,
           AfterReport
<1>27. ASSUME NEW k \in Workers, HandleException(k)
       PROVE  TypeInv'
    BY <1>27, ValueTypes
       DEF HandleException, Return, Goto, FinishJob, RunPcs, TryPcs,
           BeforeReport, AfterReport
<1>28. ASSUME NEW k \in Workers, Raise(k)
       PROVE  TypeInv'
    BY <1>28, RcaAssumption
       DEF Raise, RcaAssumption, RunPcs, TryPcs, BeforeReport, AfterReport
<1>29. ASSUME NEW k \in Workers, LoseWorker(k)
       PROVE  TypeInv'
    BY <1>29, RcaAssumption
       DEF LoseWorker, RcaAssumption, RunPcs, TryPcs, BeforeReport,
           AfterReport
<1>30. CASE UNCHANGED vars
    BY <1>30 DEF vars
<1> QED
    BY <1>1, <1>2, <1>3, <1>4, <1>5, <1>6, <1>7, <1>8, <1>9, <1>10, <1>11,
       <1>12, <1>13, <1>14, <1>15, <1>16, <1>17, <1>18, <1>19, <1>20, <1>21,
       <1>22, <1>23, <1>24, <1>25, <1>26, <1>27, <1>28, <1>29, <1>30
       DEF Next, WebhookStep, WorkerStep
-----------------------------------------------------------------------------
(* What a step may do to one part of the state *)

\* The job table: a row is created by its delivery, claimed while QUEUED, and
\* finished by the worker that runs it.
JobStep ==
    \/ UNCHANGED job
    \/ \E w \in Webhooks : CreateJob(w)
    \/ \E k \in Workers, j \in Webhooks : ClaimJob(k, j)
    \/ \E k \in Workers : \/ FinishSucceeded(k)
                          \/ FinishFailed(k)
                          \/ HandleException(k)

LEMMA JobSteps == [Next]_vars => JobStep
<1> SUFFICES ASSUME [Next]_vars
             PROVE  JobStep
    OBVIOUS
<1>1. ASSUME NEW w \in Webhooks,
             \/ Deliver(w) \/ WebhookStep(w) \/ LoseDelivery(w)
             \/ BecomeDue(w) \/ SendReportEmail(w)
      PROVE  JobStep
    BY <1>1
       DEF JobStep, WebhookStep, Deliver, UpsertIncident, UpsertIncidentAlert,
           SendPreliminary, ScheduleRunner, LoseDelivery, BecomeDue,
           SendReportEmail
<1>2. ASSUME NEW k \in Workers, WorkerStep(k)
      PROVE  JobStep
    BY <1>2
       DEF JobStep, WorkerStep, SkipClaimed, EndRun, StartSnapshot,
           CompleteSnapshot, RunRcaCompletion, MarkInvestigating, NotifyFailed,
           CreateReport, MarkAnalyzed, NotifyReady, SendFinal, SetIncident
<1>3. ASSUME NEW k \in Workers,
             \/ \E j \in Webhooks : PodCall(k, j)
             \/ OperatorCall(k) \/ PodTimeout(k) \/ Raise(k) \/ LoseWorker(k)
      PROVE  JobStep
    BY <1>3
       DEF JobStep, PodCall, OperatorCall, ListDueJobs, PodTimeout, Raise,
           LoseWorker
<1>4. CASE UNCHANGED vars
    BY <1>4 DEF vars, JobStep
<1> QED
    BY <1>1, <1>2, <1>3, <1>4 DEF Next

\* Where the deliveries are, and the rows of incident_alerts.
DeliveryStep(w) ==
    \/ Deliver(w)
    \/ UpsertIncident(w)
    \/ UpsertIncidentAlert(w)
    \/ SendPreliminary(w)
    \/ CreateJob(w)
    \/ ScheduleRunner(w)
    \/ LoseDelivery(w)

LEMMA DeliverySteps ==
    [Next]_vars => \/ UNCHANGED <<webhookPc, request, alertRow>>
                   \/ \E w \in Webhooks : DeliveryStep(w)
<1> DEFINE Goal == \/ UNCHANGED <<webhookPc, request, alertRow>>
                   \/ \E w \in Webhooks : DeliveryStep(w)
<1> SUFFICES ASSUME [Next]_vars
             PROVE  Goal
    OBVIOUS
<1> USE DEF deliveryVars, alertVars
<1>1. ASSUME NEW w \in Webhooks,
             \/ Deliver(w) \/ WebhookStep(w) \/ LoseDelivery(w)
             \/ BecomeDue(w) \/ SendReportEmail(w)
      PROVE  Goal
    BY <1>1 DEF WebhookStep, DeliveryStep, BecomeDue, SendReportEmail
<1>2. ASSUME NEW k \in Workers, WorkerStep(k)
      PROVE  Goal
    BY <1>2
       DEF WorkerStep, ClaimJob, SkipClaimed, EndRun, StartSnapshot,
           CompleteSnapshot, RunRcaCompletion, MarkInvestigating, NotifyFailed,
           CreateReport, MarkAnalyzed, NotifyReady, SendFinal, SetIncident,
           FinishFailed, FinishSucceeded, HandleException, FinishJob
<1>3. ASSUME NEW k \in Workers,
             \/ \E j \in Webhooks : PodCall(k, j)
             \/ OperatorCall(k) \/ PodTimeout(k) \/ Raise(k) \/ LoseWorker(k)
      PROVE  Goal
    BY <1>3
       DEF PodCall, OperatorCall, ListDueJobs, PodTimeout, Raise, LoseWorker
<1>4. CASE UNCHANGED vars
    BY <1>4 DEF vars
<1> QED
    BY <1>1, <1>2, <1>3, <1>4 DEF Next

\* A job row is created by CreateJob and never deleted.
LEMMA JobsPersist ==
    ASSUME TypeInv, RunInv, [Next]_vars, NEW j \in Webhooks
    PROVE  /\ job[j] # "none" => job'[j] # "none"
           /\ job'[j] # "none" => job[j] # "none" \/ CreateJob(j)
<1> USE DEF TypeInv, TypeOK, CurKnown, RunInv
<1>1. CASE UNCHANGED job
    BY <1>1
<1>2. ASSUME NEW w \in Webhooks, CreateJob(w)
      PROVE  /\ job[j] # "none" => job'[j] # "none"
             /\ job'[j] # "none" => job[j] # "none" \/ CreateJob(j)
    BY <1>2 DEF CreateJob
<1>3. ASSUME NEW k \in Workers, NEW i \in Webhooks, ClaimJob(k, i)
      PROVE  job'[j] # "none" <=> job[j] # "none"
    BY <1>3 DEF ClaimJob
<1>4. ASSUME NEW k \in Workers,
             FinishSucceeded(k) \/ FinishFailed(k) \/ HandleException(k)
      PROVE  job'[j] # "none" <=> job[j] # "none"
    <2>1. pc[k] \in RunPcs
        BY <1>4 DEF FinishSucceeded, FinishFailed, HandleException, Return,
                    Goto, RunPcs, TryPcs, BeforeReport, AfterReport
    <2> QED
        BY <1>4, <2>1, SMTT(30)
           DEF FinishSucceeded, FinishFailed, HandleException, FinishJob
<1> QED
    BY <1>1, <1>2, <1>3, <1>4, JobSteps DEF JobStep

-----------------------------------------------------------------------------
(* Deliveries: one owner per alert *)

LEMMA InitDelivery == Init => DeliveryInv
BY DEF Init, DeliveryInv, Owner, Schedules

LEMMA StepDelivery ==
    TypeInv /\ RunInv /\ DeliveryInv /\ [Next]_vars => DeliveryInv'
<1> SUFFICES ASSUME TypeInv, RunInv, DeliveryInv, [Next]_vars
             PROVE  DeliveryInv'
    OBVIOUS
<1>1. \A j \in Webhooks :
            /\ job[j] # "none" => job'[j] # "none"
            /\ job'[j] # "none" => job[j] # "none" \/ CreateJob(j)
    BY JobsPersist
<1> USE DEF TypeInv, TypeOK, RequestKnown, DeliveryInv, Owner, Schedules
<1>2. CASE UNCHANGED <<webhookPc, request, alertRow>>
    <2>1. \A j \in Webhooks : ~CreateJob(j)
        BY <1>2 DEF CreateJob
    <2> QED
        BY <1>1, <1>2, <2>1
<1>3. ASSUME NEW w \in Webhooks, Deliver(w)
      PROVE  DeliveryInv'
    <2>1. ~Owner(w) /\ UNCHANGED <<alertRow, job>>
        BY <1>3 DEF Deliver, alertVars
    <2> QED
        BY <1>3, <2>1 DEF Deliver
<1>4. ASSUME NEW w \in Webhooks, UpsertIncident(w)
      PROVE  DeliveryInv'
    BY <1>4 DEF UpsertIncident, alertVars
<1>5. ASSUME NEW w \in Webhooks, UpsertIncidentAlert(w)
      PROVE  DeliveryInv'
    <2>1. request[w] \in AlertEvent
        BY <1>5 DEF UpsertIncidentAlert
    <2> QED
        BY <1>5, <2>1 DEF UpsertIncidentAlert, AlertEvent, AlertStatuses
<1>6. ASSUME NEW w \in Webhooks, SendPreliminary(w)
      PROVE  DeliveryInv'
    BY <1>6 DEF SendPreliminary
<1>7. ASSUME NEW w \in Webhooks, CreateJob(w)
      PROVE  DeliveryInv'
    BY <1>7 DEF CreateJob, alertVars
<1>8. ASSUME NEW w \in Webhooks, ScheduleRunner(w)
      PROVE  DeliveryInv'
    BY <1>8 DEF ScheduleRunner, alertVars
<1>9. ASSUME NEW w \in Webhooks, LoseDelivery(w)
      PROVE  DeliveryInv'
    BY <1>9 DEF LoseDelivery, alertVars
<1> QED
    BY <1>2, <1>3, <1>4, <1>5, <1>6, <1>7, <1>8, <1>9, DeliverySteps
       DEF DeliveryStep

-----------------------------------------------------------------------------
(* Workers: one worker per claimed job *)

LEMMA InitRun == Init => RunInv
BY DEF Init, RunInv, RunPcs, TryPcs, BeforeReport, AfterReport, WorkingPcs

\* The steps of a worker inside one job that leave the job row alone.
Move(k) ==
    \/ StartSnapshot(k)
    \/ CompleteSnapshot(k)
    \/ RunRcaCompletion(k)
    \/ MarkInvestigating(k)
    \/ CreateReport(k)
    \/ MarkAnalyzed(k)
    \/ NotifyReady(k)

\* The steps after which a worker has no job.
Leave(k) ==
    \/ \E j \in Webhooks : PodCall(k, j) \/ SkipClaimed(k, j)
    \/ OperatorCall(k)
    \/ EndRun(k)
    \/ NotifyFailed(k)
    \/ SendFinal(k)
    \/ LoseWorker(k)

LEMMA WorkerSteps ==
    [Next]_vars =>
        \/ UNCHANGED <<pc, cur>> /\ (UNCHANGED job
                                     \/ \E w \in Webhooks : CreateJob(w))
        \/ \E k \in Workers : \/ \E j \in Webhooks : ClaimJob(k, j)
                              \/ Move(k)
                              \/ Leave(k)
                              \/ FinishSucceeded(k)
                              \/ FinishFailed(k)
                              \/ HandleException(k)
                              \/ Raise(k)
<1> SUFFICES ASSUME [Next]_vars,
                    ~ \E k \in Workers : \/ \E j \in Webhooks : ClaimJob(k, j)
                                         \/ Move(k)
                                         \/ Leave(k)
                                         \/ FinishSucceeded(k)
                                         \/ FinishFailed(k)
                                         \/ HandleException(k)
                                         \/ Raise(k)
             PROVE  UNCHANGED <<pc, cur>> /\ (UNCHANGED job
                                     \/ \E w \in Webhooks : CreateJob(w))
    OBVIOUS
<1> USE DEF workerVars
<1>1. ASSUME NEW w \in Webhooks,
             \/ Deliver(w) \/ WebhookStep(w) \/ LoseDelivery(w)
             \/ BecomeDue(w) \/ SendReportEmail(w)
      PROVE  UNCHANGED <<pc, cur>>
    BY <1>1
       DEF WebhookStep, Deliver, UpsertIncident, UpsertIncidentAlert, CreateJob,
           SendPreliminary, ScheduleRunner, LoseDelivery, BecomeDue,
           SendReportEmail
<1>2. ASSUME NEW k \in Workers, PodTimeout(k)
      PROVE  UNCHANGED <<pc, cur>>
    BY <1>2 DEF PodTimeout
<1>3. CASE UNCHANGED vars
    BY <1>3 DEF vars
<1>4. UNCHANGED <<pc, cur>>
    BY <1>1, <1>2, <1>3 DEF Next, WorkerStep, Move, Leave
<1> QED
    BY <1>4, JobSteps DEF JobStep

LEMMA StepRun ==
    TypeInv /\ RunInv /\ DeliveryInv /\ [Next]_vars => RunInv'
<1> SUFFICES ASSUME TypeInv, RunInv, DeliveryInv, [Next]_vars
             PROVE  RunInv'
    OBVIOUS
<1> USE DEF TypeInv, TypeOK, CurKnown, RunInv, RunPcs, TryPcs, BeforeReport,
            AfterReport, WorkingPcs
<1>1. CASE UNCHANGED <<pc, cur, job>>
    BY <1>1
<1>2. ASSUME NEW w \in Webhooks, CreateJob(w), UNCHANGED <<pc, cur>>
      PROVE  RunInv'
    <2>1. job[w] = "none"
        BY <1>2 DEF CreateJob, DeliveryInv
    <2>2. \A k \in Workers : pc[k] \in RunPcs => cur[k] # w
        BY <2>1
    <2> QED
        BY <1>2, <2>2 DEF CreateJob
<1>3. ASSUME NEW k \in Workers, NEW j \in Webhooks, ClaimJob(k, j)
      PROVE  RunInv'
    <2>1. \A m \in Workers : pc[m] \in RunPcs => cur[m] # j
        BY <1>3 DEF ClaimJob
    <2> QED
        BY <1>3, <2>1 DEF ClaimJob
<1>4. ASSUME NEW k \in Workers, Move(k)
      PROVE  RunInv'
    <2>1. /\ pc[k] \in WorkingPcs \cup {"ready_notice"}
          /\ UNCHANGED <<cur, job>>
        BY <1>4
           DEF Move, StartSnapshot, CompleteSnapshot, RunRcaCompletion,
               MarkInvestigating, CreateReport, MarkAnalyzed, NotifyReady, Goto,
               SetIncident
    <2>2. PICK to \in WorkingPcs \cup {"final_mail"} :
            /\ pc' = [pc EXCEPT ![k] = to]
            /\ pc[k] = "ready_notice" <=> to = "final_mail"
        BY <1>4
           DEF Move, StartSnapshot, CompleteSnapshot, RunRcaCompletion,
               MarkInvestigating, CreateReport, MarkAnalyzed, NotifyReady, Goto
    <2> QED
        BY <2>1, <2>2
<1>5. ASSUME NEW k \in Workers, Leave(k)
      PROVE  RunInv'
    <2>1. /\ \E to \in {"idle", "loop"} : pc' = [pc EXCEPT ![k] = to]
          /\ \A m \in Workers \ {k} : cur'[m] = cur[m]
          /\ UNCHANGED job
        BY <1>5
           DEF Leave, PodCall, OperatorCall, ListDueJobs, SkipClaimed, EndRun,
               NotifyFailed, SendFinal, LoseWorker, Return, Goto
    <2> QED
        BY <2>1
<1>6. ASSUME NEW k \in Workers, FinishSucceeded(k)
      PROVE  RunInv'
    BY <1>6 DEF FinishSucceeded, Goto, FinishJob
<1>7. ASSUME NEW k \in Workers, FinishFailed(k)
      PROVE  RunInv'
    BY <1>7 DEF FinishFailed, Goto, FinishJob
<1>8. ASSUME NEW k \in Workers, HandleException(k)
      PROVE  RunInv'
    BY <1>8 DEF HandleException, Return, Goto, FinishJob
<1>9. ASSUME NEW k \in Workers, Raise(k)
      PROVE  RunInv'
    BY <1>9 DEF Raise
<1> QED
    BY <1>1, <1>2, <1>3, <1>4, <1>5, <1>6, <1>7, <1>8, <1>9, WorkerSteps

-----------------------------------------------------------------------------
(* Evidence and results: what is stored for a job, and what its worker knows *)

LEMMA InitEvidence == Init => EvidenceInv
BY DEF Init, EvidenceInv, WorkerEvidence, JobEvidence, RunPcs, TryPcs,
       BeforeReport, AfterReport

\* The steps of a delivery and of time, which touch no job of a worker.
LEMMA DeliveryEvidence ==
    ASSUME TypeInv, DeliveryInv, RunInv, EvidenceInv, NEW w \in Webhooks,
           \/ Deliver(w) \/ WebhookStep(w) \/ LoseDelivery(w)
           \/ BecomeDue(w) \/ SendReportEmail(w)
    PROVE  EvidenceInv'
<1> USE DEF TypeInv, TypeOK, CurKnown, RunInv, EvidenceInv, WorkerEvidence,
            JobEvidence, workerVars, evidenceVars, resultVars
<1>1. CASE CreateJob(w)
    <2>1. job[w] = "none" /\ job' = [job EXCEPT ![w] = "QUEUED"]
        BY <1>1 DEF CreateJob, DeliveryInv
    <2>2. UNCHANGED <<pc, cur, snapshot, llmRun, reports, dashboard, finalMail>>
        BY <1>1 DEF CreateJob
    <2>3. \A k \in Workers : WorkerEvidence(k)'
        BY <2>2
    <2>4. \A j \in Webhooks : JobEvidence(j)'
        BY <2>1, <2>2
    <2> QED
        BY <2>3, <2>4
<1>2. CASE SendReportEmail(w)
    <2>1. UNCHANGED <<pc, cur, job, snapshot, llmRun, reports, dashboard>>
        BY <1>2 DEF SendReportEmail
    <2>2. reports[w] = 1 /\ finalMail' \subseteq finalMail \cup {w}
        BY <1>2 DEF SendReportEmail, MailRows
    <2> QED
        BY <2>1, <2>2
<1>3. CASE \/ Deliver(w) \/ UpsertIncident(w) \/ UpsertIncidentAlert(w)
           \/ SendPreliminary(w) \/ ScheduleRunner(w) \/ LoseDelivery(w)
           \/ BecomeDue(w)
    <2>1. UNCHANGED <<pc, cur, job, snapshot, llmRun, reports, dashboard,
                      finalMail>>
        BY <1>3
           DEF Deliver, UpsertIncident, UpsertIncidentAlert, SendPreliminary,
               ScheduleRunner, LoseDelivery, BecomeDue
    <2> QED
        BY <2>1
<1> QED
    BY <1>1, <1>2, <1>3 DEF WebhookStep

LEMMA StepEvidence ==
    TypeInv /\ DeliveryInv /\ RunInv /\ EvidenceInv /\ [Next]_vars
        => EvidenceInv'
<1> SUFFICES ASSUME TypeInv, DeliveryInv, RunInv, EvidenceInv, [Next]_vars
             PROVE  EvidenceInv'
    OBVIOUS
<1>1. ASSUME NEW w \in Webhooks,
             \/ Deliver(w) \/ WebhookStep(w) \/ LoseDelivery(w)
             \/ BecomeDue(w) \/ SendReportEmail(w)
      PROVE  EvidenceInv'
    BY <1>1, DeliveryEvidence
<1> USE DEF TypeInv, TypeOK, CurKnown, RunInv, WorkingPcs, EvidenceInv,
            WorkerEvidence, JobEvidence, RunPcs, TryPcs, BeforeReport,
            AfterReport, workerVars, evidenceVars, resultVars
<1>2. ASSUME NEW k \in Workers,
             \/ \E j \in Webhooks : PodCall(k, j) \/ SkipClaimed(k, j)
             \/ OperatorCall(k) \/ PodTimeout(k) \/ EndRun(k) \/ LoseWorker(k)
      PROVE  EvidenceInv'
    <2>1. /\ \/ pc' = pc
             \/ \E to \in {"idle", "loop"} : pc' = [pc EXCEPT ![k] = to]
          /\ \A m \in Workers : pc'[m] \in RunPcs => cur'[m] = cur[m]
          /\ UNCHANGED <<job, snapshot, llmRun, reports, dashboard, finalMail>>
        BY <1>2
           DEF PodCall, OperatorCall, ListDueJobs, SkipClaimed, PodTimeout,
               EndRun, LoseWorker
    <2> QED
        BY <2>1
<1>3. ASSUME NEW k \in Workers, NEW j \in Webhooks, ClaimJob(k, j)
      PROVE  EvidenceInv'
    BY <1>3
       DEF ClaimJob
<1>4. ASSUME NEW k \in Workers, StartSnapshot(k)
      PROVE  EvidenceInv'
    BY <1>4
       DEF StartSnapshot, Goto
<1>5. ASSUME NEW k \in Workers, CompleteSnapshot(k)
      PROVE  EvidenceInv'
    BY <1>5
       DEF CompleteSnapshot, Goto
<1>6. ASSUME NEW k \in Workers, RunRcaCompletion(k)
      PROVE  EvidenceInv'
    BY <1>6
       DEF RunRcaCompletion, Goto, LlmFailures
<1>7. ASSUME NEW k \in Workers, MarkInvestigating(k)
      PROVE  EvidenceInv'
    BY <1>7
       DEF MarkInvestigating, Goto, SetIncident
<1>8. ASSUME NEW k \in Workers, FinishFailed(k)
      PROVE  EvidenceInv'
    BY <1>8
       DEF FinishFailed, Goto, FinishJob
<1>9. ASSUME NEW k \in Workers, NotifyFailed(k)
      PROVE  EvidenceInv'
    BY <1>9
       DEF NotifyFailed, Return, Goto
<1>10. ASSUME NEW k \in Workers, CreateReport(k)
       PROVE  EvidenceInv'
    BY <1>10
       DEF CreateReport, Goto
<1>11. ASSUME NEW k \in Workers, MarkAnalyzed(k)
       PROVE  EvidenceInv'
    BY <1>11
       DEF MarkAnalyzed, Goto, SetIncident
<1>12. ASSUME NEW k \in Workers, FinishSucceeded(k)
       PROVE  EvidenceInv'
    BY <1>12
       DEF FinishSucceeded, Goto, FinishJob
<1>13. ASSUME NEW k \in Workers, NotifyReady(k)
       PROVE  EvidenceInv'
    BY <1>13
       DEF NotifyReady, Goto
<1>14. ASSUME NEW k \in Workers, SendFinal(k)
       PROVE  EvidenceInv'
    BY <1>14
       DEF SendFinal, Return, Goto, MailRows
<1>15. ASSUME NEW k \in Workers, HandleException(k)
       PROVE  EvidenceInv'
    BY <1>15
       DEF HandleException, Return, Goto, FinishJob
<1>16. ASSUME NEW k \in Workers, Raise(k)
       PROVE  EvidenceInv'
    BY <1>16
       DEF Raise
<1>17. CASE UNCHANGED vars
    BY <1>17 DEF vars
<1> QED
    BY <1>1, <1>2, <1>3, <1>4, <1>5, <1>6, <1>7, <1>8, <1>9, <1>10, <1>11,
       <1>12, <1>13, <1>14, <1>15, <1>16, <1>17
       DEF Next, WorkerStep

-----------------------------------------------------------------------------
(* Incidents: a status is backed by a run *)

\* Who writes reports, completions, incidents and preliminary emails.
TableSteps ==
    /\ UNCHANGED reports \/ \E k \in Workers : CreateReport(k)
    /\ UNCHANGED llmRun \/ \E k \in Workers : RunRcaCompletion(k)
    /\ \/ UNCHANGED incident
       \/ \E w \in Webhooks : UpsertIncident(w)
       \/ \E k \in Workers : MarkInvestigating(k) \/ MarkAnalyzed(k)
    /\ UNCHANGED preliminary \/ \E w \in Webhooks : SendPreliminary(w)

LEMMA TableStep == [Next]_vars => TableSteps
<1> SUFFICES ASSUME [Next]_vars
             PROVE  TableSteps
    OBVIOUS
<1> USE DEF TableSteps, alertVars, evidenceVars, resultVars
<1>1. ASSUME NEW w \in Webhooks,
             \/ Deliver(w) \/ WebhookStep(w) \/ LoseDelivery(w)
             \/ BecomeDue(w) \/ SendReportEmail(w)
      PROVE  TableSteps
    BY <1>1
       DEF WebhookStep, Deliver, UpsertIncident, UpsertIncidentAlert, CreateJob,
           SendPreliminary, ScheduleRunner, LoseDelivery, BecomeDue,
           SendReportEmail
<1>2. ASSUME NEW k \in Workers, WorkerStep(k)
      PROVE  TableSteps
    BY <1>2
       DEF WorkerStep, ClaimJob, SkipClaimed, EndRun, StartSnapshot,
           CompleteSnapshot, RunRcaCompletion, MarkInvestigating, NotifyFailed,
           CreateReport, MarkAnalyzed, NotifyReady, SendFinal, SetIncident,
           FinishFailed, FinishSucceeded, HandleException, FinishJob
<1>3. ASSUME NEW k \in Workers,
             \/ \E j \in Webhooks : PodCall(k, j)
             \/ OperatorCall(k) \/ PodTimeout(k) \/ Raise(k) \/ LoseWorker(k)
      PROVE  TableSteps
    BY <1>3
       DEF PodCall, OperatorCall, ListDueJobs, PodTimeout, Raise, LoseWorker
<1>4. CASE UNCHANGED vars
    BY <1>4 DEF vars
<1> QED
    BY <1>1, <1>2, <1>3, <1>4 DEF Next

\* What backs a status stays: the alert of a delivery, its report and its
\* failed completion.
LEMMA BackingPersists ==
    ASSUME TypeInv, RunInv, DeliveryInv, EvidenceInv, [Next]_vars,
           NEW j \in Webhooks
    PROVE  /\ request[j].status = "FIRING" => request'[j] = request[j]
           /\ job[j] # "none" => job'[j] # "none" /\ request'[j] = request[j]
           /\ reports[j] = 1 => reports'[j] = 1
           /\ llmRun[j] \in LlmFailures => llmRun'[j] \in LlmFailures
<1>1. webhookPc[j] # "idle" => request'[j] = request[j]
    BY DeliverySteps
       DEF DeliveryStep, Deliver, UpsertIncident, UpsertIncidentAlert,
           SendPreliminary, CreateJob, ScheduleRunner, LoseDelivery,
           TypeInv, TypeOK
<1>2. request[j].status = "FIRING" => webhookPc[j] # "idle"
    BY DEF TypeInv, RequestKnown
<1>3. job[j] # "none" => webhookPc[j] # "idle" /\ job'[j] # "none"
    BY JobsPersist DEF DeliveryInv
<1>4. reports[j] = 1 => reports'[j] = 1
    <2>1. ASSUME NEW k \in Workers, CreateReport(k), reports[j] = 1
          PROVE  cur[k] # j
        BY <2>1
           DEF CreateReport, Goto, EvidenceInv, WorkerEvidence, BeforeReport
    <2> QED
        BY <2>1, TableStep DEF TableSteps, CreateReport, TypeInv, TypeOK
<1>5. llmRun[j] \in LlmFailures => llmRun'[j] \in LlmFailures
    <2>1. ASSUME NEW k \in Workers, RunRcaCompletion(k),
                 llmRun[j] \in LlmFailures
          PROVE  cur[k] # j
        BY <2>1
           DEF RunRcaCompletion, Goto, EvidenceInv, WorkerEvidence, LlmFailures
    <2> QED
        BY <2>1, TableStep DEF TableSteps, RunRcaCompletion, TypeInv, TypeOK
<1> QED
    BY <1>1, <1>2, <1>3, <1>4, <1>5

LEMMA InitIncident == Init => IncidentInv
BY DEF Init, IncidentInv, StatusIsBacked

LEMMA StepIncident ==
    TypeInv /\ RunInv /\ DeliveryInv /\ EvidenceInv /\ IncidentInv
      /\ [Next]_vars
        => IncidentInv'
<1> SUFFICES ASSUME TypeInv, RunInv, DeliveryInv, EvidenceInv, IncidentInv,
                    [Next]_vars
             PROVE  IncidentInv'
    OBVIOUS
<1>1. ASSUME NEW i \in Incidents, incident'[i] = incident[i]
      PROVE  /\ incident'[i] = "ANALYZED" =>
                  \E j \in Webhooks : job'[j] # "none" /\ IncidentOfJob(j)' = i
                                      /\ reports'[j] = 1
             /\ incident'[i] = "INVESTIGATING" =>
                  \E j \in Webhooks : job'[j] # "none" /\ IncidentOfJob(j)' = i
                                      /\ llmRun'[j] \in LlmFailures
    <2>1. CASE incident[i] = "ANALYZED"
        <3> PICK j \in Webhooks : job[j] # "none" /\ IncidentOfJob(j) = i
                                  /\ reports[j] = 1
            BY <2>1 DEF IncidentInv, StatusIsBacked
        <3> QED
            BY <1>1, <2>1, BackingPersists DEF IncidentOfJob
    <2>2. CASE incident[i] = "INVESTIGATING"
        <3> PICK j \in Webhooks : job[j] # "none" /\ IncidentOfJob(j) = i
                                  /\ llmRun[j] \in LlmFailures
            BY <2>2 DEF IncidentInv, StatusIsBacked
        <3> QED
            BY <1>1, <2>2, BackingPersists DEF IncidentOfJob
    <2> QED
        BY <1>1, <2>1, <2>2
<1>2. StatusIsBacked'
    <2>1. CASE UNCHANGED incident
        BY <1>1, <2>1 DEF StatusIsBacked
    <2>2. ASSUME NEW w \in Webhooks, UpsertIncident(w)
          PROVE  StatusIsBacked'
        <3>1. request[w].status \in {"FIRING", "RESOLVED"}
            BY <2>2 DEF UpsertIncident, TypeInv, RequestKnown, AlertEvent,
                        AlertStatuses
        <3> QED
            BY <1>1, <2>2, <3>1
               DEF StatusIsBacked, UpsertIncident, TypeInv, TypeOK
    <2>3. ASSUME NEW k \in Workers, MarkInvestigating(k)
          PROVE  StatusIsBacked'
        <3>1. /\ cur[k] \in Webhooks
              /\ job[cur[k]] # "none"
              /\ llmRun[cur[k]] \in LlmFailures
            BY <2>3 DEF MarkInvestigating, Goto, TypeInv, CurKnown, RunInv,
                        WorkingPcs, RunPcs, TryPcs, BeforeReport, EvidenceInv,
                        WorkerEvidence
        <3>2. incident' = [incident EXCEPT
                                ![IncidentOfJob(cur[k])] = "INVESTIGATING"]
            BY <2>3 DEF MarkInvestigating, SetIncident
        <3> QED
            BY <1>1, <3>1, <3>2, BackingPersists
               DEF StatusIsBacked, IncidentOfJob, TypeInv, TypeOK
    <2>4. ASSUME NEW k \in Workers, MarkAnalyzed(k)
          PROVE  StatusIsBacked'
        <3>1. /\ cur[k] \in Webhooks
              /\ job[cur[k]] # "none"
              /\ reports[cur[k]] = 1
            BY <2>4 DEF MarkAnalyzed, Goto, TypeInv, CurKnown, RunInv,
                        WorkingPcs, RunPcs, TryPcs, AfterReport, EvidenceInv,
                        WorkerEvidence
        <3>2. incident' =
                [incident EXCEPT ![IncidentOfJob(cur[k])] = "ANALYZED"]
            BY <2>4 DEF MarkAnalyzed, SetIncident
        <3> QED
            BY <1>1, <3>1, <3>2, BackingPersists
               DEF StatusIsBacked, IncidentOfJob, TypeInv, TypeOK
    <2> QED
        BY <2>1, <2>2, <2>3, <2>4, TableStep DEF TableSteps
<1>3. ASSUME NEW i \in preliminary'
      PROVE  \E w \in Webhooks :
                request'[w].status = "FIRING" /\ IncidentOfJob(w)' = i
    <2>1. CASE i \in preliminary
        <3> PICK w \in Webhooks :
                    request[w].status = "FIRING" /\ IncidentOfJob(w) = i
            BY <2>1 DEF IncidentInv
        <3> QED
            BY BackingPersists DEF IncidentOfJob
    <2>2. CASE i \notin preliminary
        <3> PICK w \in Webhooks : SendPreliminary(w)
            BY <1>3, <2>2, TableStep DEF TableSteps
        <3>1. i = IncidentOfJob(w) /\ UNCHANGED request
            BY <1>3, <2>2 DEF SendPreliminary, MailRows
        <3>2. request[w].status = "FIRING"
            BY DEF SendPreliminary, DeliveryInv, Owner, Schedules
        <3> QED
            BY <3>1, <3>2 DEF IncidentOfJob
    <2> QED
        BY <2>1, <2>2
<1> QED
    BY <1>2, <1>3 DEF IncidentInv

-----------------------------------------------------------------------------
(* Losses: each job that is lost or contradicted has cost a fault *)

LEMMA InitLosses == Init => LossInv
<1> SUFFICES ASSUME Init
             PROVE  LossInv
    OBVIOUS
<1>1. HitJobs = {}
    BY DEF HitJobs, Hit, Orphaned, Init
<1> QED
    BY <1>1, FS_EmptySet DEF LossInv, Init

\* A step of a delivery, of time or of a pod that gives up hits no job; a
\* delivery may be lost.
LEMMA DeliveryHits ==
    ASSUME IInv, NEW w \in Webhooks,
           \/ Deliver(w) \/ WebhookStep(w) \/ LoseDelivery(w)
           \/ BecomeDue(w) \/ SendReportEmail(w)
    PROVE  HitJobs' \subseteq HitJobs /\ faults' \in {faults, faults + 1}
<1>1. UNCHANGED <<pc, cur, reports>> /\ faults' \in {faults, faults + 1}
    BY DEF WebhookStep, Deliver, UpsertIncident, UpsertIncidentAlert, CreateJob,
           SendPreliminary, ScheduleRunner, LoseDelivery, BecomeDue,
           SendReportEmail, workerVars, resultVars
<1>2. \A j \in Webhooks : job'[j] \in {"RUNNING", "FAILED"} => job'[j] = job[j]
    BY DEF WebhookStep, Deliver, UpsertIncident, UpsertIncidentAlert, CreateJob,
           SendPreliminary, ScheduleRunner, LoseDelivery, BecomeDue,
           SendReportEmail, IInv, TypeInv, TypeOK
<1> QED
    BY <1>1, <1>2 DEF HitJobs, Hit, Orphaned, Runs

\* What a worker does without an exception hits no job.
LEMMA WorkerHits ==
    ASSUME IInv, NEW k \in Workers,
           \/ \E j \in Webhooks : PodCall(k, j)
           \/ OperatorCall(k) \/ PodTimeout(k) \/ WorkerStep(k)
    PROVE  HitJobs' \subseteq HitJobs /\ faults' = faults
<1> DEFINE NoHit == HitJobs' \subseteq HitJobs /\ faults' = faults
<1> USE DEF IInv, TypeInv, TypeOK, CurKnown, RunInv, WorkingPcs, RunPcs, TryPcs,
            BeforeReport, AfterReport, HitJobs, Hit, Orphaned, Runs
<1>1. CASE \/ \E j \in Webhooks : PodCall(k, j) \/ SkipClaimed(k, j)
           \/ OperatorCall(k) \/ PodTimeout(k) \/ EndRun(k)
    <2>1. /\ pc[k] \in {"idle", "loop"} \/ pc' = pc
          /\ pc' = pc \/ \E to \in {"idle", "loop"} : pc' = [pc EXCEPT ![k] = to]
          /\ UNCHANGED <<cur, job, reports, faults>>
        BY <1>1 DEF PodCall, OperatorCall, ListDueJobs, SkipClaimed, PodTimeout,
                    EndRun, resultVars
    <2> QED
        BY <2>1
<1>2. ASSUME NEW j \in Webhooks, ClaimJob(k, j)
      PROVE  NoHit
    BY <1>2 DEF ClaimJob, resultVars
<1>3. CASE Move(k)
    <2>1. /\ pc[k] \in WorkingPcs \cup {"ready_notice"}
          /\ UNCHANGED <<cur, job, faults>>
          /\ \E to \in TryPcs : pc' = [pc EXCEPT ![k] = to]
        BY <1>3
           DEF Move, StartSnapshot, CompleteSnapshot, RunRcaCompletion,
               MarkInvestigating, CreateReport, MarkAnalyzed, NotifyReady, Goto,
               SetIncident
    <2>2. \A j \in Webhooks : job[j] = "FAILED" => reports'[j] = reports[j]
        BY <1>3
           DEF Move, StartSnapshot, CompleteSnapshot, RunRcaCompletion,
               MarkInvestigating, CreateReport, MarkAnalyzed, NotifyReady, Goto,
               SetIncident, resultVars
    <2> QED
        BY <2>1, <2>2
<1>4. CASE FinishSucceeded(k)
    BY <1>4 DEF FinishSucceeded, Goto, FinishJob, resultVars
<1>5. CASE FinishFailed(k)
    <2>1. reports[cur[k]] = 0
        BY <1>5 DEF FinishFailed, Goto, EvidenceInv, WorkerEvidence
    <2> QED
        BY <1>5, <2>1 DEF FinishFailed, Goto, FinishJob, resultVars
<1>6. CASE NotifyFailed(k) \/ SendFinal(k)
    <2>1. /\ job[cur[k]] \in {"SUCCEEDED", "FAILED"}
          /\ pc[k] \in RunPcs \ {"except"}
          /\ pc' = [pc EXCEPT ![k] = "loop"]
          /\ cur' = [cur EXCEPT ![k] = None]
          /\ UNCHANGED <<job, reports, faults>>
        BY <1>6 DEF NotifyFailed, SendFinal, Return, Goto
    <2> QED
        BY <2>1
<1>7. CASE HandleException(k)
    <2>1. /\ pc[k] = "except"
          /\ pc' = [pc EXCEPT ![k] = "loop"]
          /\ cur' = [cur EXCEPT ![k] = None]
          /\ job' = [job EXCEPT ![cur[k]] = "FAILED"]
          /\ UNCHANGED <<reports, faults>>
        BY <1>7 DEF HandleException, Return, Goto, FinishJob, resultVars
    <2> QED
        BY <2>1
<1> QED
    BY <1>1, <1>2, <1>3, <1>4, <1>5, <1>6, <1>7 DEF WorkerStep, Move

\* An exception, and the loss of a worker, hit the worker's job and no other.
LEMMA FaultHits ==
    ASSUME IInv, NEW k \in Workers, Raise(k) \/ LoseWorker(k)
    PROVE  HitJobs' \subseteq HitJobs \cup {cur[k]} /\ faults' = faults + 1
<1> USE DEF IInv, TypeInv, TypeOK, RunPcs, HitJobs, Hit, Orphaned, Runs,
            resultVars
<1>1. CASE Raise(k)
    BY <1>1 DEF Raise
<1>2. CASE LoseWorker(k)
    BY <1>2 DEF LoseWorker
<1> QED
    BY <1>1, <1>2

LEMMA StepHits ==
    ASSUME IInv, [Next]_vars
    PROVE  \/ HitJobs' \subseteq HitJobs /\ faults' \in {faults, faults + 1}
           \/ \E x : HitJobs' \subseteq HitJobs \cup {x} /\ faults' = faults + 1
<1>1. CASE UNCHANGED vars
    BY <1>1 DEF vars, workerVars, resultVars, HitJobs, Hit, Orphaned, Runs
<1> QED
    BY <1>1, DeliveryHits, WorkerHits, FaultHits DEF Next

\* One element more makes a finite set greater by at most one.
LEMMA OneMore ==
    ASSUME NEW S, NEW T, IsFiniteSet(S), NEW x, T \subseteq S \cup {x}
    PROVE  /\ IsFiniteSet(T)
           /\ Cardinality(S) \in Nat /\ Cardinality(T) \in Nat
           /\ Cardinality(T) <= Cardinality(S) + 1
<1>1. Cardinality(S) \in Nat
    BY FS_CardinalityType
<1>2. IsFiniteSet(S \cup {x})
    BY FS_AddElement
<1>3. \/ Cardinality(S \cup {x}) = Cardinality(S)
      \/ Cardinality(S \cup {x}) = Cardinality(S) + 1
    BY FS_AddElement
<1>4. /\ IsFiniteSet(T)
      /\ Cardinality(T) \in Nat
      /\ Cardinality(T) <= Cardinality(S \cup {x})
    BY <1>2, FS_Subset, FS_CardinalityType
<1> QED
    BY <1>1, <1>3, <1>4

LEMMA StepLosses == IInv /\ LossInv /\ [Next]_vars => LossInv'
<1> SUFFICES ASSUME IInv, LossInv, [Next]_vars
             PROVE  LossInv'
    OBVIOUS
<1>1. faults \in Nat
    BY RcaAssumption DEF RcaAssumption, IInv, TypeInv, TypeOK
<1>2. IsFiniteSet(HitJobs) /\ Cardinality(HitJobs) \in Nat
    BY FS_CardinalityType DEF LossInv
<1>3. CASE HitJobs' \subseteq HitJobs /\ faults' \in {faults, faults + 1}
    <2>1. /\ IsFiniteSet(HitJobs')
          /\ Cardinality(HitJobs') \in Nat
          /\ Cardinality(HitJobs') <= Cardinality(HitJobs)
        BY <1>2, <1>3, FS_Subset, FS_CardinalityType
    <2> QED
        BY <1>1, <1>2, <1>3, <2>1 DEF LossInv
<1>4. ASSUME NEW x, HitJobs' \subseteq HitJobs \cup {x}, faults' = faults + 1
      PROVE  LossInv'
    <2>1. /\ IsFiniteSet(HitJobs')
          /\ Cardinality(HitJobs') \in Nat
          /\ Cardinality(HitJobs') <= Cardinality(HitJobs) + 1
        BY <1>2, <1>4, OneMore
    <2> QED
        BY <1>1, <1>2, <1>4, <2>1 DEF LossInv
<1> QED
    BY <1>3, <1>4, StepHits

LEMMA CountLosses == IInv /\ LossInv => FaultsAccountForLosses
<1> SUFFICES ASSUME IInv, LossInv
             PROVE  FaultsAccountForLosses
    OBVIOUS
<1> DEFINE Lost == {j \in Webhooks : \/ Orphaned(j)
                                     \/ job[j] = "FAILED" /\ reports[j] = 1}
<1>1. Lost \subseteq HitJobs
    BY DEF HitJobs, Hit
<1>2. /\ Cardinality(Lost) \in Nat
      /\ Cardinality(HitJobs) \in Nat
      /\ Cardinality(Lost) <= Cardinality(HitJobs)
    BY <1>1, FS_Subset, FS_CardinalityType DEF LossInv
<1>3. Cardinality(Lost) <= faults
    BY <1>2, RcaAssumption DEF LossInv, RcaAssumption, IInv, TypeInv, TypeOK
<1> QED
    BY <1>3 DEF FaultsAccountForLosses

-----------------------------------------------------------------------------
(* The properties *)

LEMMA Invariance == Spec => []IInv
<1>1. Init => IInv
    BY InitType, InitDelivery, InitRun, InitEvidence, InitIncident DEF IInv
<1>2. IInv /\ [Next]_vars => IInv'
    BY StepType, StepDelivery, StepRun, StepEvidence, StepIncident DEF IInv
<1> QED
    BY <1>1, <1>2, PTL DEF Spec

\* Every variable stays in its set: the columns the code writes, and where the
\* deliveries and workers are (service.py 87-314).
THEOREM TypeCorrect == Spec => []TypeOK
<1>1. IInv => TypeOK
    BY DEF IInv, TypeInv
<1> QED
    BY <1>1, Invariance, PTL

\* However many deliveries of an alert there are, and however they interleave,
\* one of them creates its RCA job (service.py 113-136).
THEOREM OneJobPerAlertHolds == Spec => []OneJobPerAlert
<1>1. IInv => OneJobPerAlert
    BY DEF IInv, DeliveryInv, OneJobPerAlert, Owner
<1> QED
    BY <1>1, Invariance, PTL

\* A job is run by one worker at most, and only once it is claimed
\* (service.py 196-206, repository.py 756-771).
THEOREM ExclusiveRunHolds == Spec => []ExclusiveRun
<1>1. IInv => ExclusiveRun
    BY DEF IInv, RunInv, ExclusiveRun, Runs
<1> QED
    BY <1>1, Invariance, PTL

\* At most one report per job, from a successful completion over a completed
\* snapshot (service.py 220-275).
THEOREM ReportProvenanceHolds == Spec => []ReportProvenance
<1>1. IInv => ReportProvenance
    BY DEF IInv, TypeInv, TypeOK, JobStatuses, EvidenceInv, JobEvidence,
           ReportProvenance
<1> QED
    BY <1>1, Invariance, PTL

\* No email and no dashboard notice announces what has not happened
\* (service.py 130-139, 237-305, 316-343).
THEOREM NoticesAreTrueHolds == Spec => []NoticesAreTrue
<1>1. IInv => NoticesAreTrue
    BY DEF IInv, EvidenceInv, JobEvidence, IncidentInv, NoticesAreTrue
<1> QED
    BY <1>1, Invariance, PTL

\* ANALYZED and INVESTIGATING are backed by a run of the same incident
\* (service.py 237-241, 276-280).
THEOREM StatusIsBackedHolds == Spec => []StatusIsBacked
<1>1. IInv => StatusIsBacked
    BY DEF IInv, IncidentInv
<1> QED
    BY <1>1, Invariance, PTL

\* A job left RUNNING with nobody to finish it, or FAILED although its report is
\* stored, has cost an exception or a loss of its own, however the deliveries and
\* the run-due calls interleave (service.py 196-314).
THEOREM FaultsAccountForLossesHolds == Spec => []FaultsAccountForLosses
<1>1. Init => LossInv
    BY InitLosses
<1>2. IInv /\ LossInv /\ [Next]_vars => LossInv'
    BY StepLosses
<1>3. IInv /\ LossInv => FaultsAccountForLosses
    BY CountLosses
<1> QED
    BY <1>1, <1>2, <1>3, Invariance, PTL DEF Spec

-----------------------------------------------------------------------------
(* Refinement: the job table implements RcaJobLifecycle *)

LEMMA InitLifecycle == Init => Lifecycle!Init
BY DEF Init, Lifecycle!Init

\* A step that writes no job row stores at most a report, and the report of a
\* RUNNING job that has none.
LEMMA PublishLifecycle ==
    ASSUME IInv, [Next]_vars, UNCHANGED job
    PROVE  [Lifecycle!Next]_(Lifecycle!jobVars)
<1>1. CASE UNCHANGED reports
    BY <1>1 DEF Lifecycle!jobVars
<1>2. ASSUME NEW k \in Workers, CreateReport(k)
      PROVE  Lifecycle!Publish(cur[k]) /\ cur[k] \in Webhooks
    <2>1. /\ cur[k] \in Webhooks
          /\ job[cur[k]] = "RUNNING"
          /\ reports[cur[k]] = 0
        BY <1>2 DEF CreateReport, Goto, IInv, TypeInv, CurKnown, RunInv,
                    WorkingPcs, RunPcs, TryPcs, BeforeReport, EvidenceInv,
                    WorkerEvidence
    <2> QED
        BY <1>2, <2>1 DEF CreateReport, Lifecycle!Publish, IInv, TypeInv, TypeOK
<1> QED
    BY <1>1, <1>2, TableStep DEF TableSteps, Lifecycle!Next

LEMMA StepLifecycle ==
    IInv /\ [Next]_vars => [Lifecycle!Next]_(Lifecycle!jobVars)
<1> SUFFICES ASSUME IInv, [Next]_vars
             PROVE  [Lifecycle!Next]_(Lifecycle!jobVars)
    OBVIOUS
<1> USE DEF resultVars
<1>1. CASE UNCHANGED job
    BY <1>1, PublishLifecycle
<1>2. ASSUME NEW w \in Webhooks, CreateJob(w)
      PROVE  Lifecycle!Create(w)
    BY <1>2 DEF CreateJob, Lifecycle!Create, IInv, DeliveryInv
<1>3. ASSUME NEW k \in Workers, NEW j \in Webhooks, ClaimJob(k, j)
      PROVE  Lifecycle!Claim(j)
    BY <1>3 DEF ClaimJob, Lifecycle!Claim
<1>4. ASSUME NEW k \in Workers, FinishSucceeded(k)
      PROVE  Lifecycle!Succeed(cur[k]) /\ cur[k] \in Webhooks
    BY <1>4 DEF FinishSucceeded, Goto, FinishJob, Lifecycle!Succeed, IInv,
                TypeInv, CurKnown, RunInv, WorkingPcs, RunPcs, TryPcs,
                AfterReport, EvidenceInv, WorkerEvidence
<1>5. ASSUME NEW k \in Workers, FinishFailed(k)
      PROVE  Lifecycle!Fail(cur[k]) /\ cur[k] \in Webhooks
    BY <1>5 DEF FinishFailed, Goto, FinishJob, Lifecycle!Fail, IInv, TypeInv,
                CurKnown, RunInv, WorkingPcs, RunPcs, TryPcs, BeforeReport
<1>6. ASSUME NEW k \in Workers, HandleException(k)
      PROVE  \/ Lifecycle!Fail(cur[k]) /\ cur[k] \in Webhooks
             \/ UNCHANGED <<job, reports>>
    <2>1. /\ cur[k] \in Webhooks
          /\ job[cur[k]] \in {"RUNNING", "SUCCEEDED", "FAILED"}
        BY <1>6 DEF HandleException, Return, Goto, IInv, TypeInv, CurKnown,
                    RunInv, RunPcs
    <2>2. job' = [job EXCEPT ![cur[k]] = "FAILED"] /\ UNCHANGED reports
        BY <1>6 DEF HandleException, FinishJob
    <2>3. CASE job[cur[k]] = "FAILED"
        BY <2>1, <2>2, <2>3 DEF IInv, TypeInv, TypeOK
    <2>4. CASE job[cur[k]] # "FAILED"
        BY <2>1, <2>2, <2>4 DEF Lifecycle!Fail
    <2> QED
        BY <2>3, <2>4
<1> QED
    BY <1>1, <1>2, <1>3, <1>4, <1>5, <1>6, JobSteps
       DEF JobStep, Lifecycle!Next, Lifecycle!jobVars

\* Whatever the deliveries and the workers do, and whatever faults there are,
\* a job is created, claimed, published and finished as RcaJobLifecycle says
\* (orchestration/repository.py 398-485, infra_rca/repository.py 756-771).
THEOREM LifecycleRefined == Spec => ImplementsLifecycle
<1> USE DEF ImplementsLifecycle, Lifecycle!Spec
<1>1. Init => Lifecycle!Init
    BY InitLifecycle
<1>2. IInv /\ [Next]_vars => [Lifecycle!Next]_(Lifecycle!jobVars)
    BY StepLifecycle
<1> QED
    BY <1>1, <1>2, Invariance, PTL DEF Spec

=============================================================================
