-------------------------- MODULE OpsReportsProofs --------------------------
(***************************************************************************)
(* Proofs about OpsReports, for any pods, requests and recipients and any  *)
(* bound on faults.                                                        *)
(***************************************************************************)
EXTENDS OpsReports, FiniteSetTheorems, TLAPS

\* The part of the calls that make reports.
CreatePcs == TryPcs \cup {"except", "store_failure"}

\* What a call has stored by the place it has reached.
CreateInv ==
    \A c \in Calls :
        /\ pc[c] \in {"idle", "complete", "store"} =>
                status[<<c, "result">>] = "none"
        /\ pc[c] \in {"children", "finish", "read"} =>
                status[<<c, "result">>] # "none"
        /\ pc[c] = "idle" => job[c] = "none"
        /\ pc[c] \in {"complete", "store", "children", "finish"} =>
                job[c] = "RUNNING"
        /\ pc[c] \in {"store", "children", "finish"} => llmRun[c] # "none"
        /\ pc[c] \in {"children", "finish"} /\ llmRun[c] = "SUCCESS" =>
                status[<<c, "result">>] \in {"COMPLETED", "SENT"}
        /\ pc[c] = "finish" => children[c] = "all"
        /\ pc[c] \in TryPcs \cup {"except", "idle"} =>
                status[<<c, "failure">>] = "none"
        /\ pc[c] = "store_failure" => job[c] = "FAILED"

\* A call mails a report that is stored, to somebody.
CallMails(c) ==
    /\ pc[c] \in MailPcs => /\ report[c] \in Reports
                            /\ status[report[c]] # "none"
    /\ pc[c] \in MailPcs \ {"open"} => recipients[c] # {}

MailInv == \A c \in Calls : CallMails(c)

\* One message of a call is under way at most, and a row is SENT only when the
\* server has accepted the message.
OutboxInv ==
    \A c \in Calls : \A x \in Recipients :
        /\ outbox[c][x] = "SENT" => x \in accepted[c]
        /\ outbox[c][x] = "PENDING" /\ pc[c] = "mark_sent" => x \in accepted[c]
        /\ pc[c] \in CreatePcs \cup {"idle", "open"} => outbox[c][x] = "none"
        /\ outbox[c][x] = "PENDING" => pc[c] # "mail"
        /\ outbox[c][x] = "PENDING" /\ pc[c] \in MailPcs =>
                \A y \in Recipients : outbox[c][y] = "PENDING" => x = y

ReportInv ==
    /\ TypeOK
    /\ CreateInv
    /\ MailInv
    /\ OutboxInv
    /\ SucceededJobIsComplete
    /\ SentReportWasDelivered

LEMMA InitReports == Init => ReportInv
<1> SUFFICES ASSUME Init PROVE ReportInv
    OBVIOUS
<1> USE OpsAssumption
    DEF OpsAssumption, Init, TryPcs, MailPcs, BusyPcs, CreatePcs
<1>1. TypeOK
    <2>1. outbox \in [Calls -> [Recipients -> {"none", "PENDING", "SENT",
                                               "FAILED"}]]
        OBVIOUS
    <2>2. /\ recipients \in [Calls -> SUBSET Recipients]
          /\ accepted \in [Calls -> SUBSET Recipients]
        OBVIOUS
    <2>3. status \in [Reports -> {"none", "COMPLETED", "FAILED", "SENT"}]
        OBVIOUS
    <2>4. faults \in 0 .. MaxFaults
        OBVIOUS
    <2> QED
        BY <2>1, <2>2, <2>3, <2>4 DEF TypeOK
<1>2. \A c \in Calls : <<c, "result">> \in Reports /\ <<c, "failure">> \in Reports
    BY DEF Reports
<1>3. CreateInv /\ SucceededJobIsComplete
    BY <1>2 DEF CreateInv, SucceededJobIsComplete
<1>4. MailInv /\ OutboxInv
    BY DEF MailInv, CallMails, OutboxInv
<1>5. SentReportWasDelivered
    BY DEF SentReportWasDelivered
<1> QED
    BY <1>1, <1>3, <1>4, <1>5 DEF ReportInv

-----------------------------------------------------------------------------
(* Type correctness *)

LEMMA CallsOfReports ==
    \A c \in Calls : <<c, "result">> \in Reports /\ <<c, "failure">> \in Reports
BY DEF Reports

LEMMA StepTypeOK == TypeOK /\ [Next]_vars => TypeOK'
<1> SUFFICES ASSUME TypeOK, [Next]_vars
             PROVE  TypeOK'
    OBVIOUS
<1> USE OpsAssumption, CallsOfReports
    DEF OpsAssumption, TypeOK, BusyPcs, TryPcs, MailPcs, reportVars, mailVars
<1>1. ASSUME NEW c \in Calls, CreateJob(c)
      PROVE  TypeOK'
    BY <1>1 DEF CreateJob, Goto
<1>2. ASSUME NEW c \in Calls, CreateStep(c)
      PROVE  TypeOK'
    <2>1. CASE RunOpsReportCompletion(c)
        BY <2>1 DEF RunOpsReportCompletion, Goto
    <2>2. CASE CreateReport(c)
        BY <2>2 DEF CreateReport, Goto
    <2>3. CASE PersistReportChildren(c)
        BY <2>3 DEF PersistReportChildren, Goto
    <2>4. CASE FinishJob(c)
        BY <2>4 DEF FinishJob, Goto
    <2>5. CASE ReadBack(c)
        BY <2>5 DEF ReadBack, AfterCreate, Goto
    <2>6. CASE FailJob(c)
        BY <2>6 DEF FailJob, Goto
    <2>7. CASE CreateFailureReport(c)
        BY <2>7 DEF CreateFailureReport, AfterCreate, Goto
    <2> QED
        BY <1>2, <2>1, <2>2, <2>3, <2>4, <2>5, <2>6, <2>7 DEF CreateStep
<1>3. ASSUME NEW c \in Calls, MailStep(c)
      PROVE  TypeOK'
    <2>1. CASE OpenOwnReport(c)
        BY <2>1 DEF OpenOwnReport, Goto
    <2>2. ASSUME NEW x \in Recipients, CreateNotification(c, x)
          PROVE  TypeOK'
        <3>1. outbox' \in [Calls -> [Recipients -> {"none", "PENDING", "SENT",
                                                     "FAILED"}]]
            BY <2>2 DEF CreateNotification
        <3>2. pc' \in [Calls -> BusyPcs \cup {"idle", "done", "aborted"}]
            BY <2>2 DEF CreateNotification, Goto
        <3> QED
            BY <2>2, <3>1, <3>2 DEF CreateNotification
    <2>3. ASSUME NEW x \in Recipients, Deliver(c, x)
          PROVE  TypeOK'
        <3>1. accepted' \in [Calls -> SUBSET Recipients]
            BY <2>3 DEF Deliver
        <3>2. pc' \in [Calls -> BusyPcs \cup {"idle", "done", "aborted"}]
            BY <2>3 DEF Deliver, Goto
        <3> QED
            BY <2>3, <3>1, <3>2 DEF Deliver
    <2>4. ASSUME NEW x \in Recipients, MarkSent(c, x) \/ MarkFailed(c, x)
          PROVE  TypeOK'
        <3>1. PICK from \in {"mark_sent", "mark_failed"},
                   sendStatus \in {"SENT", "FAILED"} :
                    Mark(c, x, from, sendStatus)
            BY <2>4 DEF MarkSent, MarkFailed
        <3>2. outbox' \in [Calls -> [Recipients -> {"none", "PENDING", "SENT",
                                                     "FAILED"}]]
            BY <3>1 DEF Mark
        <3>3. pc' \in [Calls -> BusyPcs \cup {"idle", "done", "aborted"}]
            BY <3>1 DEF Mark, Goto
        <3> QED
            BY <3>1, <3>2, <3>3 DEF Mark
    <2>5. CASE CloseMailing(c)
        BY <2>5 DEF CloseMailing, Goto
    <2> QED
        BY <1>3, <2>1, <2>2, <2>3, <2>4, <2>5 DEF MailStep
<1>4. ASSUME NEW c \in Calls, NEW r \in Reports, OpenReport(c, r)
      PROVE  TypeOK'
    BY <1>4 DEF OpenReport, Goto
<1>5. ASSUME NEW c \in Calls, NEW x \in Recipients, DeliverUnconfirmed(c, x)
      PROVE  TypeOK'
    BY <1>5 DEF DeliverUnconfirmed, Goto, Fault
<1>6. ASSUME NEW c \in Calls, PersistSomeChildren(c)
      PROVE  TypeOK'
    BY <1>6 DEF PersistSomeChildren, Goto, Fault
<1>7. ASSUME NEW c \in Calls, Raise(c) \/ MarkSentRaises(c) \/ Abort(c)
      PROVE  TypeOK'
    BY <1>7 DEF Raise, MarkSentRaises, Abort, Goto, Fault
<1>8. CASE Expire
    BY <1>8 DEF Expire, Fault
<1>9. CASE UNCHANGED vars
    BY <1>9 DEF vars
<1> QED
    BY <1>1, <1>2, <1>3, <1>4, <1>5, <1>6, <1>7, <1>8, <1>9 DEF Next

-----------------------------------------------------------------------------
(* Jobs *)

JobInv == CreateInv /\ SucceededJobIsComplete

LEMMA StepJob == TypeOK /\ JobInv /\ MailInv /\ [Next]_vars => JobInv'
<1> SUFFICES ASSUME TypeOK, JobInv, MailInv, [Next]_vars
             PROVE  JobInv'
    OBVIOUS
<1> USE CallsOfReports
    DEF TypeOK, JobInv, CreateInv, SucceededJobIsComplete, MailInv, CallMails,
        BusyPcs, TryPcs, MailPcs, reportVars, mailVars
<1>1. ASSUME NEW d \in Calls, CreateJob(d)
      PROVE  JobInv'
    BY <1>1 DEF CreateJob, Goto
<1>2. ASSUME NEW d \in Calls, CreateStep(d)
      PROVE  JobInv'
    <2>1. CASE RunOpsReportCompletion(d)
        BY <2>1 DEF RunOpsReportCompletion, Goto
    <2>2. CASE CreateReport(d)
        BY <2>2 DEF CreateReport, Goto
    <2>3. CASE PersistReportChildren(d)
        BY <2>3 DEF PersistReportChildren, Goto
    <2>4. CASE FinishJob(d)
        BY <2>4 DEF FinishJob, Goto
    <2>5. CASE ReadBack(d)
        BY <2>5 DEF ReadBack, AfterCreate, Goto
    <2>6. CASE FailJob(d)
        BY <2>6 DEF FailJob, Goto
    <2>7. CASE CreateFailureReport(d)
        BY <2>7 DEF CreateFailureReport, AfterCreate, Goto
    <2> QED
        BY <1>2, <2>1, <2>2, <2>3, <2>4, <2>5, <2>6, <2>7 DEF CreateStep
<1>3. ASSUME NEW d \in Calls, MailStep(d)
      PROVE  JobInv'
    <2>1. CASE OpenOwnReport(d)
        BY <2>1 DEF OpenOwnReport, Goto
    <2>2. ASSUME NEW x \in Recipients, CreateNotification(d, x)
          PROVE  JobInv'
        BY <2>2 DEF CreateNotification, Goto
    <2>3. ASSUME NEW x \in Recipients, Deliver(d, x)
          PROVE  JobInv'
        BY <2>3 DEF Deliver, Goto
    <2>4. ASSUME NEW x \in Recipients, MarkSent(d, x)
          PROVE  JobInv'
        BY <2>4 DEF MarkSent, Mark, Goto
    <2>5. ASSUME NEW x \in Recipients, MarkFailed(d, x)
          PROVE  JobInv'
        BY <2>5 DEF MarkFailed, Mark, Goto
    <2>6. CASE CloseMailing(d)
        <3>1. \A r \in Reports : \/ status'[r] = status[r]
                                 \/ status[r] # "none" /\ status'[r] = "SENT"
            BY <2>6 DEF CloseMailing, Goto
        <3>2. pc' = [pc EXCEPT ![d] = "done"] /\ UNCHANGED <<job, llmRun, children>>
            BY <2>6 DEF CloseMailing, Goto
        <3> QED
            BY <3>1, <3>2
    <2> QED
        BY <1>3, <2>1, <2>2, <2>3, <2>4, <2>5, <2>6 DEF MailStep
<1>4. ASSUME NEW d \in Calls, NEW r \in Reports, OpenReport(d, r)
      PROVE  JobInv'
    BY <1>4 DEF OpenReport, Goto
<1>5. ASSUME NEW d \in Calls, NEW x \in Recipients, DeliverUnconfirmed(d, x)
      PROVE  JobInv'
    BY <1>5 DEF DeliverUnconfirmed, Goto
<1>6. ASSUME NEW d \in Calls, PersistSomeChildren(d)
      PROVE  JobInv'
    BY <1>6 DEF PersistSomeChildren, Goto
<1>7. ASSUME NEW d \in Calls, Raise(d)
      PROVE  JobInv'
    BY <1>7 DEF Raise
<1>8. ASSUME NEW d \in Calls, MarkSentRaises(d)
      PROVE  JobInv'
    BY <1>8 DEF MarkSentRaises, Goto
<1>9. ASSUME NEW d \in Calls, Abort(d)
      PROVE  JobInv'
    BY <1>9 DEF Abort
<1>10. CASE Expire
    BY <1>10 DEF Expire
<1>11. CASE UNCHANGED vars
    BY <1>11 DEF vars
<1> QED
    BY <1>1, <1>2, <1>3, <1>4, <1>5, <1>6, <1>7, <1>8, <1>9, <1>10, <1>11
       DEF Next

-----------------------------------------------------------------------------
(* Mailing *)

LEMMA StepMail == TypeOK /\ MailInv /\ CreateInv /\ [Next]_vars => MailInv'
<1> SUFFICES ASSUME TypeOK, MailInv, CreateInv, [Next]_vars
             PROVE  MailInv'
    OBVIOUS
<1> USE OpsAssumption, CallsOfReports
    DEF OpsAssumption, TypeOK, MailInv, CallMails, BusyPcs, TryPcs, MailPcs,
        reportVars, mailVars
<1>1. ASSUME NEW d \in Calls, CreateJob(d)
      PROVE  MailInv'
    BY <1>1 DEF CreateJob, Goto
<1>2. ASSUME NEW d \in Calls, CreateStep(d)
      PROVE  MailInv'
    <2>1. CASE RunOpsReportCompletion(d)
        BY <2>1 DEF RunOpsReportCompletion, Goto
    <2>2. CASE CreateReport(d)
        BY <2>2 DEF CreateReport, Goto
    <2>3. CASE PersistReportChildren(d)
        BY <2>3 DEF PersistReportChildren, Goto
    <2>4. CASE FinishJob(d)
        BY <2>4 DEF FinishJob, Goto
    <2>5. CASE ReadBack(d)
        <3>1. pc[d] = "read" /\ status[<<d, "result">>] # "none"
            BY <2>5 DEF ReadBack, Goto, CreateInv
        <3>2. /\ pc'[d] \in {"open", "done"} /\ report'[d] = <<d, "result">>
              /\ status' = status /\ recipients' = recipients
            BY <2>5 DEF ReadBack, AfterCreate, Goto
        <3>3. \A c \in Calls \ {d} : pc'[c] = pc[c] /\ report'[c] = report[c]
            BY <2>5 DEF ReadBack, Goto
        <3>4. CallMails(d)'
            BY <3>1, <3>2
        <3>5. ASSUME NEW c \in Calls \ {d}
              PROVE  CallMails(c)'
            BY <3>2, <3>3
        <3> QED
            BY <3>4, <3>5
    <2>6. CASE FailJob(d)
        BY <2>6 DEF FailJob, Goto
    <2>7. CASE CreateFailureReport(d)
        BY <2>7 DEF CreateFailureReport, AfterCreate, Goto
    <2> QED
        BY <1>2, <2>1, <2>2, <2>3, <2>4, <2>5, <2>6, <2>7 DEF CreateStep
<1>3. ASSUME NEW d \in Calls, MailStep(d)
      PROVE  MailInv'
    <2>1. CASE OpenOwnReport(d)
        BY <2>1 DEF OpenOwnReport, Goto
    <2>2. ASSUME NEW x \in Recipients, CreateNotification(d, x)
          PROVE  MailInv'
        BY <2>2 DEF CreateNotification, Goto
    <2>3. ASSUME NEW x \in Recipients, Deliver(d, x)
          PROVE  MailInv'
        BY <2>3 DEF Deliver, Goto
    <2>4. ASSUME NEW x \in Recipients, MarkSent(d, x)
          PROVE  MailInv'
        BY <2>4 DEF MarkSent, Mark, Goto
    <2>5. ASSUME NEW x \in Recipients, MarkFailed(d, x)
          PROVE  MailInv'
        BY <2>5 DEF MarkFailed, Mark, Goto
    <2>6. CASE CloseMailing(d)
        BY <2>6 DEF CloseMailing, Goto
    <2> QED
        BY <1>3, <2>1, <2>2, <2>3, <2>4, <2>5, <2>6 DEF MailStep
<1>4. ASSUME NEW d \in Calls, NEW r \in Reports, OpenReport(d, r)
      PROVE  MailInv'
    <2>1. PICK X \in (SUBSET Recipients) \ {{}} :
                recipients' = [recipients EXCEPT ![d] = X]
        BY <1>4 DEF OpenReport
    <2>2. /\ pc' = [pc EXCEPT ![d] = "mail"]
          /\ report' = [report EXCEPT ![d] = r]
          /\ status[r] # "none" /\ status' = status
        BY <1>4 DEF OpenReport, Goto
    <2>3. /\ pc'[d] = "mail" /\ recipients'[d] # {}
          /\ report'[d] = r /\ status'[report'[d]] # "none"
        BY <2>1, <2>2
    <2>4. \A c \in Calls \ {d} : /\ pc'[c] = pc[c] /\ recipients'[c] = recipients[c]
                                 /\ report'[c] = report[c]
                                 /\ status'[report'[c]] = status[report[c]]
        BY <2>1, <2>2
    <2> QED
        BY <2>3, <2>4, SMTT(30)
<1>5. ASSUME NEW d \in Calls, NEW x \in Recipients, DeliverUnconfirmed(d, x)
      PROVE  MailInv'
    BY <1>5 DEF DeliverUnconfirmed, Goto
<1>6. ASSUME NEW d \in Calls, PersistSomeChildren(d)
      PROVE  MailInv'
    BY <1>6 DEF PersistSomeChildren, Goto
<1>7. ASSUME NEW d \in Calls, Raise(d)
      PROVE  MailInv'
    BY <1>7 DEF Raise
<1>8. ASSUME NEW d \in Calls, MarkSentRaises(d)
      PROVE  MailInv'
    BY <1>8 DEF MarkSentRaises, Goto
<1>9. ASSUME NEW d \in Calls, Abort(d)
      PROVE  MailInv'
    BY <1>9 DEF Abort
<1>10. CASE Expire
    BY <1>10 DEF Expire
<1>11. CASE UNCHANGED vars
    BY <1>11 DEF vars
<1> QED
    BY <1>1, <1>2, <1>3, <1>4, <1>5, <1>6, <1>7, <1>8, <1>9, <1>10, <1>11
       DEF Next

LEMMA StepOutbox == TypeOK /\ OutboxInv /\ [Next]_vars => OutboxInv'
<1> SUFFICES ASSUME TypeOK, OutboxInv, [Next]_vars
             PROVE  OutboxInv'
    OBVIOUS
<1> USE DEF TypeOK, OutboxInv, BusyPcs, TryPcs, MailPcs, CreatePcs, reportVars,
            mailVars
<1>1. ASSUME NEW d \in Calls, CreateJob(d)
      PROVE  OutboxInv'
    BY <1>1 DEF CreateJob, Goto
<1>2. ASSUME NEW d \in Calls, CreateStep(d)
      PROVE  OutboxInv'
    <2>1. CASE RunOpsReportCompletion(d)
        BY <2>1 DEF RunOpsReportCompletion, Goto
    <2>2. CASE CreateReport(d)
        BY <2>2 DEF CreateReport, Goto
    <2>3. CASE PersistReportChildren(d)
        BY <2>3 DEF PersistReportChildren, Goto
    <2>4. CASE FinishJob(d)
        BY <2>4 DEF FinishJob, Goto
    <2>5. CASE ReadBack(d)
        BY <2>5 DEF ReadBack, AfterCreate, Goto
    <2>6. CASE FailJob(d)
        BY <2>6 DEF FailJob, Goto
    <2>7. CASE CreateFailureReport(d)
        BY <2>7 DEF CreateFailureReport, AfterCreate, Goto
    <2> QED
        BY <1>2, <2>1, <2>2, <2>3, <2>4, <2>5, <2>6, <2>7 DEF CreateStep
<1>3. ASSUME NEW d \in Calls, MailStep(d)
      PROVE  OutboxInv'
    <2>1. CASE OpenOwnReport(d)
        BY <2>1 DEF OpenOwnReport, Goto
    <2>2. ASSUME NEW x \in Recipients, CreateNotification(d, x)
          PROVE  OutboxInv'
        BY <2>2 DEF CreateNotification, Goto
    <2>3. ASSUME NEW x \in Recipients, Deliver(d, x)
          PROVE  OutboxInv'
        BY <2>3 DEF Deliver, Goto
    <2>4. ASSUME NEW x \in Recipients, MarkSent(d, x)
          PROVE  OutboxInv'
        BY <2>4 DEF MarkSent, Mark, Goto
    <2>5. ASSUME NEW x \in Recipients, MarkFailed(d, x)
          PROVE  OutboxInv'
        BY <2>5 DEF MarkFailed, Mark, Goto
    <2>6. CASE CloseMailing(d)
        BY <2>6 DEF CloseMailing, Goto
    <2> QED
        BY <1>3, <2>1, <2>2, <2>3, <2>4, <2>5, <2>6 DEF MailStep
<1>4. ASSUME NEW d \in Calls, NEW r \in Reports, OpenReport(d, r)
      PROVE  OutboxInv'
    BY <1>4 DEF OpenReport, Goto
<1>5. ASSUME NEW d \in Calls, NEW x \in Recipients, DeliverUnconfirmed(d, x)
      PROVE  OutboxInv'
    BY <1>5 DEF DeliverUnconfirmed, Goto
<1>6. ASSUME NEW d \in Calls, PersistSomeChildren(d)
      PROVE  OutboxInv'
    BY <1>6 DEF PersistSomeChildren, Goto
<1>7. ASSUME NEW d \in Calls, Raise(d)
      PROVE  OutboxInv'
    BY <1>7 DEF Raise
<1>8. ASSUME NEW d \in Calls, MarkSentRaises(d)
      PROVE  OutboxInv'
    BY <1>8 DEF MarkSentRaises, Goto
<1>9. ASSUME NEW d \in Calls, Abort(d)
      PROVE  OutboxInv'
    BY <1>9 DEF Abort
<1>10. CASE Expire
    BY <1>10 DEF Expire
<1>11. CASE UNCHANGED vars
    BY <1>11 DEF vars
<1> QED
    BY <1>1, <1>2, <1>3, <1>4, <1>5, <1>6, <1>7, <1>8, <1>9, <1>10, <1>11
       DEF Next

-----------------------------------------------------------------------------
(* Reports that say SENT *)

\* A call that has ended stays as it is.
LEMMA EndedCallStays ==
    ASSUME TypeOK, [Next]_vars, NEW c \in Calls, pc[c] = "done"
    PROVE  /\ pc'[c] = "done"
           /\ report'[c] = report[c]
           /\ recipients'[c] = recipients[c]
           /\ accepted'[c] = accepted[c]
<1> USE DEF TypeOK, BusyPcs, TryPcs, MailPcs, reportVars, mailVars
<1>1. ASSUME NEW d \in Calls, CreateJob(d) \/ CreateStep(d)
      PROVE  c # d /\ pc'[c] = pc[c] /\ report'[c] = report[c]
             /\ UNCHANGED <<recipients, accepted>>
    BY <1>1 DEF CreateJob, CreateStep, RunOpsReportCompletion, CreateReport,
                PersistReportChildren, FinishJob, ReadBack, FailJob,
                CreateFailureReport, Goto
<1>2. ASSUME NEW d \in Calls, MailStep(d)
      PROVE  /\ pc'[c] = pc[c] /\ report'[c] = report[c]
             /\ recipients'[c] = recipients[c] /\ accepted'[c] = accepted[c]
    BY <1>2 DEF MailStep, OpenOwnReport, CreateNotification, Deliver, MarkSent,
                MarkFailed, Mark, CloseMailing, Goto
<1>3. ASSUME NEW d \in Calls, NEW r \in Reports, OpenReport(d, r)
      PROVE  /\ pc'[c] = pc[c] /\ report'[c] = report[c]
             /\ recipients'[c] = recipients[c] /\ accepted'[c] = accepted[c]
    BY <1>3 DEF OpenReport, Goto
<1>4. ASSUME NEW d \in Calls, NEW x \in Recipients, DeliverUnconfirmed(d, x)
      PROVE  /\ pc'[c] = pc[c] /\ report'[c] = report[c]
             /\ recipients'[c] = recipients[c] /\ accepted'[c] = accepted[c]
    BY <1>4 DEF DeliverUnconfirmed, Goto
<1>5. ASSUME NEW d \in Calls, PersistSomeChildren(d) \/ Raise(d)
                                  \/ MarkSentRaises(d) \/ Abort(d)
      PROVE  pc'[c] = pc[c] /\ UNCHANGED <<report, recipients, accepted>>
    BY <1>5 DEF PersistSomeChildren, Raise, MarkSentRaises, Abort, Goto
<1>6. CASE Expire
    BY <1>6 DEF Expire
<1>7. CASE UNCHANGED vars
    BY <1>7 DEF vars
<1> QED
    BY <1>1, <1>2, <1>3, <1>4, <1>5, <1>6, <1>7 DEF Next

\* Only the end of a mailing makes a report SENT.
LEMMA SentByMailing ==
    ASSUME TypeOK, [Next]_vars, NEW r \in Reports, status'[r] = "SENT",
           status[r] # "SENT"
    PROVE  \E d \in Calls : CloseMailing(d) /\ report[d] = r /\ AllSent(d)
<1> USE CallsOfReports DEF TypeOK, reportVars
<1>1. ASSUME NEW d \in Calls, CreateJob(d) \/ CreateStep(d)
      PROVE  FALSE
    BY <1>1 DEF CreateJob, CreateStep, RunOpsReportCompletion, CreateReport,
                PersistReportChildren, FinishJob, ReadBack, FailJob,
                CreateFailureReport
<1>2. ASSUME NEW d \in Calls, MailStep(d), ~CloseMailing(d)
      PROVE  FALSE
    BY <1>2 DEF MailStep, OpenOwnReport, CreateNotification, Deliver, MarkSent,
                MarkFailed, Mark
<1>3. ASSUME NEW d \in Calls, CloseMailing(d)
      PROVE  report[d] = r /\ AllSent(d)
    BY <1>3 DEF CloseMailing
<1>4. status' = status \/ \E d \in Calls : CreateJob(d) \/ CreateStep(d) \/ MailStep(d)
    BY DEF Next, OpenReport, DeliverUnconfirmed, PersistSomeChildren, Raise,
           MarkSentRaises, Abort, Expire, vars
<1> QED
    BY <1>1, <1>2, <1>3, <1>4

LEMMA StepSent ==
    /\ TypeOK
    /\ MailInv
    /\ OutboxInv
    /\ SentReportWasDelivered
    /\ [Next]_vars
    => SentReportWasDelivered'
<1> SUFFICES ASSUME TypeOK, MailInv, OutboxInv, SentReportWasDelivered,
                    [Next]_vars, NEW r \in Reports, status'[r] = "SENT"
             PROVE  \E c \in Calls : /\ pc'[c] = "done"
                                     /\ report'[c] = r
                                     /\ recipients'[c] # {}
                                     /\ recipients'[c] \subseteq accepted'[c]
    BY DEF SentReportWasDelivered
<1>1. CASE status[r] = "SENT"
    BY <1>1, EndedCallStays DEF SentReportWasDelivered
<1>2. CASE status[r] # "SENT"
    <2>1. PICK d \in Calls : CloseMailing(d) /\ report[d] = r /\ AllSent(d)
        BY <1>2, SentByMailing
    <2>2. pc[d] = "mail" /\ pc'[d] = "done"
        BY <2>1 DEF CloseMailing, Goto, TypeOK
    <2>3. recipients[d] # {} /\ recipients[d] \subseteq accepted[d]
        BY <2>1, <2>2 DEF MailInv, CallMails, MailPcs, OutboxInv, AllSent, TypeOK
    <2> QED
        BY <2>1, <2>2, <2>3 DEF CloseMailing, mailVars
<1> QED
    BY <1>1, <1>2

-----------------------------------------------------------------------------
(* The pods of the Job *)

Aborted == {a \in Attempts : pc[a] = "aborted"}

\* The pods follow one another, and each one that failed has cost a fault.
PodInv ==
    /\ \A a, b \in Attempts : pc[a] \notin {"idle", "aborted"}
                              /\ pc[b] \notin {"idle", "aborted"} => a = b
    /\ IsFiniteSet(Aborted)
    /\ Cardinality(Aborted) <= faults
    /\ \A a \in Attempts : pc[a] = "idle" => accepted[a] = {}

LEMMA InitPods == Init => PodInv
<1> SUFFICES ASSUME Init PROVE PodInv
    OBVIOUS
<1>1. Aborted = {}
    BY DEF Aborted, Init, Calls
<1> QED
    BY <1>1, FS_EmptySet DEF PodInv, Init, Calls

\* A pod starts alone, and one that has started never goes back.
LEMMA StepPods ==
    ASSUME TypeOK, [Next]_vars,
           \A a, b \in Attempts : pc[a] \notin {"idle", "aborted"}
                                 /\ pc[b] \notin {"idle", "aborted"} => a = b,
           \A a \in Attempts : pc[a] = "idle" => accepted[a] = {}
    PROVE  /\ \A a, b \in Attempts : pc'[a] \notin {"idle", "aborted"}
                                     /\ pc'[b] \notin {"idle", "aborted"} => a = b
           /\ \A a \in Attempts : pc'[a] = "idle" => accepted'[a] = {}
           /\ \/ faults' \in {faults, faults + 1} /\ Aborted' = Aborted
              \/ /\ faults' = faults + 1
                 /\ \E a \in Attempts : Aborted' \subseteq Aborted \cup {a}
<1> DEFINE
      Going(a) == pc[a] \notin {"idle", "aborted"}
      \* a call d moves on, and the others do not
      Moves(d) == /\ pc[d] # "aborted" /\ pc'[d] # "aborted" /\ pc'[d] # "idle"
                  /\ pc[d] = "idle" => d \in Requests \/ MayStart(d)
                  /\ \A c \in Calls \ {d} : /\ pc'[c] = pc[c]
                                            /\ accepted'[c] = accepted[c]
                  /\ faults' \in {faults, faults + 1}
<1> USE OpsAssumption
    DEF OpsAssumption, TypeOK, BusyPcs, TryPcs, MailPcs, reportVars, mailVars
<1>1. ASSUME NEW d \in Calls, CreateJob(d) \/ CreateStep(d)
      PROVE  Moves(d)
    BY <1>1 DEF CreateJob, CreateStep, RunOpsReportCompletion, CreateReport,
                PersistReportChildren, FinishJob, ReadBack, FailJob,
                CreateFailureReport, AfterCreate, Goto
<1>2. ASSUME NEW d \in Calls, MailStep(d)
      PROVE  Moves(d)
    BY <1>2 DEF MailStep, OpenOwnReport, CreateNotification, Deliver, MarkSent,
                MarkFailed, Mark, CloseMailing, Goto
<1>3. ASSUME NEW d \in Calls, NEW r \in Reports, OpenReport(d, r)
      PROVE  Moves(d)
    BY <1>3 DEF OpenReport, Goto
<1>4. ASSUME NEW d \in Calls, NEW x \in Recipients, DeliverUnconfirmed(d, x)
      PROVE  Moves(d)
    BY <1>4 DEF DeliverUnconfirmed, Goto, Fault
<1>5. ASSUME NEW d \in Calls,
             PersistSomeChildren(d) \/ Raise(d) \/ MarkSentRaises(d)
      PROVE  Moves(d)
    BY <1>5 DEF PersistSomeChildren, Raise, MarkSentRaises, Goto, Fault
<1>6. ASSUME NEW d \in Calls, Moves(d)
      PROVE  /\ \A a, b \in Attempts : pc'[a] \notin {"idle", "aborted"}
                                       /\ pc'[b] \notin {"idle", "aborted"} => a = b
             /\ \A a \in Attempts : pc'[a] = "idle" => accepted'[a] = {}
             /\ faults' \in {faults, faults + 1} /\ Aborted' = Aborted
    BY <1>6 DEF Calls, MayStart, Aborted
<1>7. ASSUME NEW d \in Calls, Abort(d)
      PROVE  /\ \A a \in Attempts : pc'[a] = pc[a] \/ pc'[a] = "aborted"
             /\ accepted' = accepted
             /\ faults' = faults + 1
             /\ \/ Aborted' = Aborted
                \/ \E a \in Attempts : Aborted' \subseteq Aborted \cup {a}
    <2>1. pc' = [pc EXCEPT ![d] = "aborted"]
        BY <1>7 DEF Abort
    <2>2. CASE d \in Attempts
        BY <1>7, <2>1, <2>2 DEF Abort, Fault, Aborted, Calls
    <2>3. CASE d \notin Attempts
        BY <1>7, <2>1, <2>3 DEF Abort, Fault, Aborted, Calls
    <2> QED
        BY <2>2, <2>3
<1>8. CASE Expire
    <2>1. \A a \in Attempts : pc'[a] = IF pc[a] # "idle" THEN "aborted" ELSE pc[a]
        BY <1>8 DEF Expire, Calls
    <2>2. PICK b \in Attempts : pc[b] # "idle"
        BY <1>8 DEF Expire
    <2>3. PICK e \in Attempts : \A a \in Attempts : Going(a) => a = e
        BY <2>2
    <2>4. Aborted' \subseteq Aborted \cup {e}
        BY <2>1, <2>3 DEF Aborted
    <2>5. \A a \in Attempts : /\ pc'[a] \in {"idle", "aborted"}
                              /\ pc'[a] = "idle" => pc[a] = "idle"
        BY <2>1
    <2>6. faults' = faults + 1 /\ accepted' = accepted
        BY <1>8 DEF Expire, Fault
    <2>7. \A a \in Attempts : pc'[a] = "idle" => accepted'[a] = {}
        BY <2>5, <2>6
    <2>8. \E a \in Attempts : Aborted' \subseteq Aborted \cup {a}
        BY <2>4
    <2>9. \A a, c \in Attempts : pc'[a] \notin {"idle", "aborted"}
                              /\ pc'[c] \notin {"idle", "aborted"} => a = c
        BY <2>5
    <2> QED
        BY <2>6, <2>7, <2>8, <2>9, Zenon
<1>9. CASE UNCHANGED vars
    BY <1>9 DEF vars, Aborted
<1> HIDE DEF Moves
<1> QED
    BY <1>1, <1>2, <1>3, <1>4, <1>5, <1>6, <1>7, <1>8, <1>9 DEF Next

LEMMA OneMore ==
    ASSUME NEW S, IsFiniteSet(S), NEW a
    PROVE  /\ IsFiniteSet(S \cup {a})
           /\ Cardinality(S \cup {a}) \in Nat
           /\ Cardinality(S \cup {a}) <= Cardinality(S) + 1
<1>1. Cardinality(S) \in Nat
    BY FS_CardinalityType
<1>2. IsFiniteSet(S \cup {a})
    BY FS_AddElement
<1>3. \/ Cardinality(S \cup {a}) = Cardinality(S)
      \/ Cardinality(S \cup {a}) = Cardinality(S) + 1
    BY FS_AddElement
<1> QED
    BY <1>1, <1>2, <1>3

LEMMA StepPodInv == TypeOK /\ PodInv /\ [Next]_vars => PodInv'
<1> SUFFICES ASSUME TypeOK, PodInv, [Next]_vars
             PROVE  PodInv'
    OBVIOUS
<1>1. faults \in Nat
    BY OpsAssumption DEF OpsAssumption, TypeOK
<1>2. IsFiniteSet(Aborted) /\ Cardinality(Aborted) \in Nat
    BY FS_CardinalityType DEF PodInv
<1>3. CASE faults' \in {faults, faults + 1} /\ Aborted' = Aborted
    BY <1>1, <1>2, <1>3, StepPods DEF PodInv
<1>4. ASSUME NEW a \in Attempts, faults' = faults + 1,
             Aborted' \subseteq Aborted \cup {a}
      PROVE  IsFiniteSet(Aborted') /\ Cardinality(Aborted') <= faults'
    <2>1. /\ IsFiniteSet(Aborted \cup {a})
          /\ Cardinality(Aborted \cup {a}) \in Nat
          /\ Cardinality(Aborted \cup {a}) <= Cardinality(Aborted) + 1
        BY <1>2, OneMore
    <2>2. /\ IsFiniteSet(Aborted')
          /\ Cardinality(Aborted') \in Nat
          /\ Cardinality(Aborted') <= Cardinality(Aborted \cup {a})
        BY <1>4, <2>1, FS_Subset, FS_CardinalityType
    <2> QED
        BY <1>1, <1>2, <1>4, <2>1, <2>2 DEF PodInv
<1> QED
    BY <1>3, <1>4, StepPods DEF PodInv

LEMMA OneMailPerPodThatFailed ==
    TypeOK /\ PodInv => RetriesRepeatOnlyFaults
<1> SUFFICES ASSUME TypeOK, PodInv, NEW x \in Recipients
             PROVE  Cardinality({a \in Attempts : x \in accepted[a]}) <= 1 + faults
    BY DEF RetriesRepeatOnlyFaults
<1> DEFINE Mailers == {a \in Attempts : x \in accepted[a]}
<1>1. IsFiniteSet(Aborted) /\ Cardinality(Aborted) \in Nat
    BY FS_CardinalityType DEF PodInv
<1>2. faults \in Nat
    BY OpsAssumption DEF OpsAssumption, TypeOK
<1>3. CASE \E a \in Attempts : Mailers \subseteq Aborted \cup {a}
    <2>1. PICK a \in Attempts : Mailers \subseteq Aborted \cup {a}
        BY <1>3
    <2>2. /\ IsFiniteSet(Aborted \cup {a})
          /\ Cardinality(Aborted \cup {a}) \in Nat
          /\ Cardinality(Aborted \cup {a}) <= Cardinality(Aborted) + 1
        BY <1>1, OneMore
    <2>3. /\ Cardinality(Mailers) \in Nat
          /\ Cardinality(Mailers) <= Cardinality(Aborted \cup {a})
        BY <2>1, <2>2, FS_Subset, FS_CardinalityType
    <2> QED
        BY <1>1, <1>2, <2>2, <2>3 DEF PodInv
<1>4. CASE Attempts = {}
    BY <1>2, <1>4, FS_EmptySet
<1>5. CASE Attempts # {}
    BY <1>3, <1>5 DEF PodInv, Aborted
<1> QED
    BY <1>4, <1>5

-----------------------------------------------------------------------------
(* Contradictions: each one has cost a fault of its own *)

\* A job is RUNNING only while its call is in the try block or its handler, or
\* is lost; and a message is accepted only after its row is stored, at most once.
RowInv ==
    \A c \in Calls :
        /\ job[c] = "RUNNING" =>
              pc[c] \in {"complete", "store", "children", "finish", "except",
                         "aborted"}
        /\ \A x \in Recipients :
              x \in accepted[c] => /\ outbox[c][x] # "none"
                                   /\ outbox[c][x] = "PENDING" =>
                                        pc[c] # "deliver"

\* What has cost a fault: the contradictions, an exception that its handler has
\* still to store, and a delivered message that is about to be marked FAILED.
JobHit(c) == ContradictedJob(c) \/ pc[c] = "except"

MailHit(c, x) ==
    \/ ContradictedMail(c, x)
    \/ /\ pc[c] = "mark_failed"
       /\ outbox[c][x] = "PENDING"
       /\ x \in accepted[c]

JobHits  == {c \in Calls : JobHit(c)}
MailHits == {d \in Calls \X Recipients : MailHit(d[1], d[2])}

HitInv ==
    /\ IsFiniteSet(JobHits)
    /\ IsFiniteSet(MailHits)
    /\ Cardinality(JobHits) + Cardinality(MailHits) <= faults

LEMMA InitHits == Init => RowInv /\ HitInv
<1> SUFFICES ASSUME Init
             PROVE  RowInv /\ HitInv
    OBVIOUS
<1>1. JobHits = {} /\ MailHits = {}
    BY DEF JobHits, JobHit, MailHits, MailHit, ContradictedJob, ContradictedMail,
           Init
<1>2. HitInv
    BY <1>1, FS_EmptySet DEF HitInv, Init
<1> QED
    BY <1>2 DEF RowInv, Init

\* The steps by which a call makes its report.
Creates(d) ==
    \/ CreateJob(d) \/ CreateStep(d)
    \/ PersistSomeChildren(d) \/ Raise(d)

\* The steps by which a call mails a report.
Mails(d) ==
    \/ MailStep(d)
    \/ \E r \in Reports : OpenReport(d, r)
    \/ \E x \in Recipients : DeliverUnconfirmed(d, x)
    \/ MarkSentRaises(d)

\* The call d is lost, the others stay where they are.
Lost(d) ==
    /\ pc[d] \in BusyPcs
    /\ pc' = [pc EXCEPT ![d] = "aborted"]
    /\ faults' = faults + 1
    /\ UNCHANGED <<reportVars, report, mailVars>>

LEMMA StepCases ==
    ASSUME TypeOK, PodInv, [Next]_vars
    PROVE  \/ \E d \in Calls : Creates(d) \/ Mails(d) \/ Lost(d)
           \/ /\ pc' = pc
              /\ faults' \in {faults, faults + 1}
              /\ UNCHANGED <<reportVars, report, mailVars>>
<1>1. ASSUME NEW d \in Calls, Abort(d)
      PROVE  Lost(d)
    BY <1>1 DEF Abort, Lost, Fault
<1>2. CASE Expire
    <2>1. /\ faults' = faults + 1
          /\ UNCHANGED <<reportVars, report, mailVars>>
          /\ \A a \in Attempts : pc[a] # "done"
          /\ pc' = [c \in Calls |-> IF c \in Attempts /\ pc[c] # "idle"
                                    THEN "aborted" ELSE pc[c]]
        BY <1>2 DEF Expire, Fault
    <2>2. CASE \E a \in Attempts : pc[a] \notin {"idle", "aborted"}
        <3>1. PICK e \in Attempts : pc[e] \notin {"idle", "aborted"}
            BY <2>2
        <3>2. \A a \in Attempts : pc[a] \notin {"idle", "aborted"} => a = e
            BY <3>1 DEF PodInv
        <3>3. e \in Calls /\ pc[e] \in BusyPcs
            BY <2>1, <3>1 DEF TypeOK, Calls
        <3>4. pc' = [pc EXCEPT ![e] = "aborted"]
            BY <2>1, <3>1, <3>2 DEF TypeOK, Calls
        <3> QED
            BY <2>1, <3>3, <3>4 DEF Lost
    <2>3. CASE \A a \in Attempts : pc[a] \in {"idle", "aborted"}
        <3>1. pc' = pc
            BY <2>1, <2>3 DEF TypeOK, Calls
        <3> QED
            BY <2>1, <3>1
    <2> QED
        BY <2>2, <2>3
<1>3. CASE UNCHANGED vars
    BY <1>3 DEF vars
<1> QED
    BY <1>1, <1>2, <1>3 DEF Next, Creates, Mails

LEMMA StepRow ==
    TypeOK /\ CreateInv /\ OutboxInv /\ PodInv /\ RowInv /\ [Next]_vars => RowInv'
<1> SUFFICES ASSUME TypeOK, CreateInv, OutboxInv, PodInv, RowInv, [Next]_vars
             PROVE  RowInv'
    OBVIOUS
<1> USE DEF TypeOK, RowInv, BusyPcs, TryPcs, MailPcs, reportVars, mailVars
<1>1. ASSUME NEW d \in Calls, Creates(d)
      PROVE  RowInv'
    <2>1. UNCHANGED mailVars
        BY <1>1 DEF Creates, CreateJob, CreateStep, RunOpsReportCompletion,
                    CreateReport, PersistReportChildren, FinishJob, ReadBack,
                    FailJob, CreateFailureReport, PersistSomeChildren, Raise
    <2>2. /\ pc'[d] # "deliver"
          /\ \A c \in Calls \ {d} : pc'[c] = pc[c] /\ job'[c] = job[c]
        BY <1>1 DEF Creates, CreateJob, CreateStep, RunOpsReportCompletion,
                    CreateReport, PersistReportChildren, FinishJob, ReadBack,
                    FailJob, CreateFailureReport, PersistSomeChildren, Raise,
                    AfterCreate, Goto
    <2>3. job'[d] = "RUNNING" =>
             pc'[d] \in {"complete", "store", "children", "finish", "except"}
        <3>1. CASE CreateJob(d) \/ PersistSomeChildren(d) \/ Raise(d)
            BY <3>1 DEF CreateJob, PersistSomeChildren, Raise, Goto
        <3>2. CASE RunOpsReportCompletion(d) \/ CreateReport(d)
                   \/ PersistReportChildren(d)
            BY <3>2 DEF RunOpsReportCompletion, CreateReport,
                        PersistReportChildren, Goto
        <3>3. CASE FinishJob(d) \/ ReadBack(d)
            BY <3>3 DEF FinishJob, ReadBack, Goto
        <3>4. CASE FailJob(d) \/ CreateFailureReport(d)
            BY <3>4 DEF FailJob, CreateFailureReport, Goto
        <3> QED
            BY <1>1, <3>1, <3>2, <3>3, <3>4 DEF Creates, CreateStep
    <2> QED
        BY <2>1, <2>2, <2>3
<1>2. ASSUME NEW d \in Calls, Mails(d)
      PROVE  RowInv'
    <2>1. /\ UNCHANGED job
          /\ job[d] # "RUNNING"
          /\ \A c \in Calls \ {d} : /\ pc'[c] = pc[c]
                                    /\ outbox'[c] = outbox[c]
                                    /\ accepted'[c] = accepted[c]
        <3>1. CASE MailStep(d)
            <4>1. CASE OpenOwnReport(d) \/ CloseMailing(d)
                BY <4>1 DEF OpenOwnReport, CloseMailing, Goto
            <4>2. ASSUME NEW x \in Recipients,
                         \/ CreateNotification(d, x) \/ Deliver(d, x)
                         \/ MarkSent(d, x) \/ MarkFailed(d, x)
                  PROVE  job[d] # "RUNNING" /\ UNCHANGED job
                         /\ \A c \in Calls \ {d} : /\ pc'[c] = pc[c]
                                                   /\ outbox'[c] = outbox[c]
                                                   /\ accepted'[c] = accepted[c]
                <5>1. CASE CreateNotification(d, x)
                    BY <5>1 DEF CreateNotification, Goto
                <5>2. CASE Deliver(d, x)
                    BY <5>2 DEF Deliver, Goto
                <5>3. CASE MarkSent(d, x)
                    BY <5>3 DEF MarkSent, Mark, Goto
                <5>4. CASE MarkFailed(d, x)
                    BY <5>4 DEF MarkFailed, Mark, Goto
                <5> QED
                    BY <4>2, <5>1, <5>2, <5>3, <5>4
            <4> QED
                BY <3>1, <4>1, <4>2 DEF MailStep
        <3>2. ASSUME NEW r \in Reports, OpenReport(d, r)
              PROVE  job[d] # "RUNNING" /\ UNCHANGED job
                     /\ \A c \in Calls \ {d} : /\ pc'[c] = pc[c]
                                               /\ outbox'[c] = outbox[c]
                                               /\ accepted'[c] = accepted[c]
            BY <3>2 DEF OpenReport, Goto
        <3>3. ASSUME NEW x \in Recipients, DeliverUnconfirmed(d, x)
              PROVE  job[d] # "RUNNING" /\ UNCHANGED job
                     /\ \A c \in Calls \ {d} : /\ pc'[c] = pc[c]
                                               /\ outbox'[c] = outbox[c]
                                               /\ accepted'[c] = accepted[c]
            BY <3>3 DEF DeliverUnconfirmed, Goto
        <3>4. CASE MarkSentRaises(d)
            BY <3>4 DEF MarkSentRaises, Goto
        <3> QED
            BY <1>2, <3>1, <3>2, <3>3, <3>4 DEF Mails
    <2>2. ASSUME NEW x \in Recipients, x \in accepted'[d]
          PROVE  /\ outbox'[d][x] # "none"
                 /\ outbox'[d][x] = "PENDING" => pc'[d] # "deliver"
        <3>1. CASE OpenOwnReport(d) \/ CloseMailing(d) \/ MarkSentRaises(d)
            BY <2>2, <3>1 DEF OpenOwnReport, CloseMailing, MarkSentRaises, Goto
        <3>2. ASSUME NEW y \in Recipients, CreateNotification(d, y)
              PROVE  /\ outbox'[d][x] # "none"
                     /\ outbox'[d][x] = "PENDING" => pc'[d] # "deliver"
            <4>1. /\ x \in accepted[d]
                  /\ outbox[d][y] = "none" /\ pc[d] = "mail"
                  /\ outbox' = [outbox EXCEPT ![d][y] = "PENDING"]
                BY <2>2, <3>2 DEF CreateNotification, Goto
            <4>2. x # y /\ outbox'[d][x] = outbox[d][x]
                BY <4>1
            <4>3. outbox[d][x] \notin {"none", "PENDING"}
                BY <4>1 DEF OutboxInv
            <4> QED
                BY <4>2, <4>3
        <3>3. ASSUME NEW y \in Recipients, Deliver(d, y) \/ DeliverUnconfirmed(d, y)
              PROVE  /\ outbox'[d][x] # "none"
                     /\ outbox'[d][x] = "PENDING" => pc'[d] # "deliver"
            BY <2>2, <3>3 DEF Deliver, DeliverUnconfirmed, Goto
        <3>4. ASSUME NEW y \in Recipients, MarkSent(d, y) \/ MarkFailed(d, y)
              PROVE  /\ outbox'[d][x] # "none"
                     /\ outbox'[d][x] = "PENDING" => pc'[d] # "deliver"
            BY <2>2, <3>4 DEF MarkSent, MarkFailed, Mark, Goto
        <3>5. ASSUME NEW r \in Reports, OpenReport(d, r)
              PROVE  /\ outbox'[d][x] # "none"
                     /\ outbox'[d][x] = "PENDING" => pc'[d] # "deliver"
            BY <2>2, <3>5 DEF OpenReport, Goto
        <3> QED
            BY <1>2, <3>1, <3>2, <3>3, <3>4, <3>5 DEF Mails, MailStep
    <2> QED
        BY <2>1, <2>2
<1>3. ASSUME NEW d \in Calls, Lost(d)
      PROVE  RowInv'
    BY <1>3 DEF Lost
<1>4. CASE UNCHANGED <<pc, reportVars, mailVars>>
    BY <1>4
<1> QED
    BY <1>1, <1>2, <1>3, <1>4, StepCases

\* What a step may add to the contradictions: nothing, or one for a fault.
NoHit == /\ JobHits' \subseteq JobHits
         /\ MailHits' \subseteq MailHits
         /\ faults' \in {faults, faults + 1}

OneJobHit == /\ \E c \in Calls : JobHits' \subseteq JobHits \cup {c}
             /\ MailHits' \subseteq MailHits
             /\ faults' = faults + 1

OneMailHit == /\ JobHits' \subseteq JobHits
              /\ \E d \in Calls \X Recipients :
                    MailHits' \subseteq MailHits \cup {d}
              /\ faults' = faults + 1

\* A call that makes its report mails nothing yet.
LEMMA NothingAccepted ==
    ASSUME TypeOK, OutboxInv, RowInv, NEW d \in Calls,
           pc[d] \in CreatePcs \cup {"idle", "open"}
    PROVE  accepted[d] = {}
BY DEF TypeOK, OutboxInv, RowInv

\* An exception in the try block hits the call's job; the handler, which makes
\* the job FAILED, hits no other.
LEMMA CreateHits ==
    ASSUME TypeOK, CreateInv, OutboxInv, RowInv, NEW d \in Calls, Creates(d)
    PROVE  NoHit \/ OneJobHit
<1> USE DEF TypeOK, BusyPcs, TryPcs, MailPcs, CreatePcs, reportVars, mailVars
<1>1. /\ pc[d] \in CreatePcs \cup {"idle"}
      /\ UNCHANGED mailVars
      /\ \A c \in Calls \ {d} : pc'[c] = pc[c]
    BY DEF Creates, CreateJob, CreateStep, RunOpsReportCompletion, CreateReport,
           PersistReportChildren, FinishJob, ReadBack, FailJob,
           CreateFailureReport, PersistSomeChildren, Raise, Goto
<1>2. MailHits' \subseteq MailHits
    <2>1. accepted[d] = {}
        BY <1>1, NothingAccepted
    <2> QED
        BY <1>1, <2>1 DEF MailHits, MailHit, ContradictedMail
<1>3. ASSUME NEW c \in Calls \ {d}
      PROVE  JobHit(c)' => JobHit(c)
    <2>1. job'[c] = job[c] /\ llmRun'[c] = llmRun[c]
        BY DEF Creates, CreateJob, CreateStep, RunOpsReportCompletion,
               CreateReport, PersistReportChildren, FinishJob, ReadBack,
               FailJob, CreateFailureReport, PersistSomeChildren, Raise
    <2>2. status' = status \/ CreateReport(d) \/ CreateFailureReport(d)
        BY DEF Creates, CreateJob, CreateStep, RunOpsReportCompletion,
               PersistReportChildren, FinishJob, ReadBack, FailJob,
               PersistSomeChildren, Raise
    <2>3. status'[<<c, "result">>] = status[<<c, "result">>]
        <3>1. /\ <<c, "result">> \in Reports
              /\ <<c, "result">> # <<d, "result">>
              /\ <<c, "result">> # <<d, "failure">>
            BY CallsOfReports
        <3>2. CASE CreateReport(d)
            BY <3>1, <3>2 DEF CreateReport
        <3>3. CASE CreateFailureReport(d)
            BY <3>1, <3>3 DEF CreateFailureReport
        <3> QED
            BY <2>2, <3>2, <3>3
    <2> QED
        BY <1>1, <2>1, <2>3 DEF JobHit, ContradictedJob
<1>4. CASE PersistSomeChildren(d) \/ Raise(d)
    <2>1. faults' = faults + 1
        BY <1>4 DEF PersistSomeChildren, Raise, Fault
    <2>2. JobHits' \subseteq JobHits \cup {d}
        BY <1>3 DEF JobHits
    <2> QED
        BY <1>2, <2>1, <2>2 DEF OneJobHit
<1>5. CASE CreateJob(d) \/ CreateStep(d)
    <2>0. pc[d] \in {"complete", "store"} => job[d] = "RUNNING"
        BY DEF CreateInv
    <2>1. JobHit(d)' => JobHit(d)
        <3>1. CASE CreateJob(d)
            <4>1. job'[d] = "RUNNING" /\ pc'[d] = "complete"
                BY <3>1 DEF CreateJob, Goto
            <4> QED
                BY <4>1 DEF JobHit, ContradictedJob
        <3>2. CASE RunOpsReportCompletion(d)
            <4>1. job'[d] = "RUNNING" /\ pc'[d] = "store"
                BY <2>0, <3>2 DEF RunOpsReportCompletion, Goto
            <4> QED
                BY <4>1 DEF JobHit, ContradictedJob
        <3>3. CASE CreateReport(d)
            <4>1. job'[d] = "RUNNING" /\ pc'[d] = "children"
                BY <2>0, <3>3 DEF CreateReport, Goto
            <4> QED
                BY <4>1 DEF JobHit, ContradictedJob
        <3>4. CASE PersistReportChildren(d)
            BY <3>4 DEF PersistReportChildren, Goto, JobHit, ContradictedJob
        <3>5. CASE FinishJob(d)
            BY <3>5 DEF FinishJob, Goto, JobHit, ContradictedJob
        <3>6. CASE ReadBack(d)
            BY <3>6 DEF ReadBack, AfterCreate, Goto, JobHit, ContradictedJob
        <3>7. CASE FailJob(d)
            BY <3>7 DEF FailJob, Goto, JobHit, ContradictedJob
        <3>8. CASE CreateFailureReport(d)
            <4>1. /\ job' = job /\ llmRun' = llmRun
                  /\ status'[<<d, "result">>] = status[<<d, "result">>]
                BY <3>8, CallsOfReports DEF CreateFailureReport
            <4>2. pc'[d] \in {"open", "done"}
                BY <3>8 DEF CreateFailureReport, AfterCreate, Goto
            <4> QED
                BY <4>1, <4>2 DEF JobHit, ContradictedJob
        <3> QED
            BY <1>5, <3>1, <3>2, <3>3, <3>4, <3>5, <3>6, <3>7, <3>8
               DEF CreateStep
    <2>2. faults' = faults
        BY <1>5 DEF CreateJob, CreateStep, RunOpsReportCompletion, CreateReport,
                    PersistReportChildren, FinishJob, ReadBack, FailJob,
                    CreateFailureReport
    <2>3. JobHits' \subseteq JobHits
        BY <1>3, <2>1 DEF JobHits
    <2> QED
        BY <1>2, <2>2, <2>3 DEF NoHit
<1> QED
    BY <1>4, <1>5 DEF Creates

\* Mailing hits no job: it makes SENT only a report that is stored.
LEMMA MailKeepsJobs ==
    ASSUME TypeOK, MailInv, NEW d \in Calls, Mails(d)
    PROVE  JobHits' \subseteq JobHits
<1> USE CallsOfReports
    DEF TypeOK, BusyPcs, TryPcs, MailPcs, reportVars, mailVars
<1> DEFINE Same == /\ UNCHANGED <<job, llmRun>>
                   /\ \A r \in Reports : status'[r] # "none" => status[r] # "none"
                   /\ \A c \in Calls : pc'[c] \in {"aborted", "except"} =>
                                            pc'[c] = pc[c]
<1>1. ASSUME OpenOwnReport(d) \/ MarkSentRaises(d)
      PROVE  Same
    BY <1>1 DEF OpenOwnReport, MarkSentRaises, Goto
<1>2. ASSUME NEW x \in Recipients,
             \/ CreateNotification(d, x) \/ Deliver(d, x)
             \/ DeliverUnconfirmed(d, x) \/ MarkSent(d, x) \/ MarkFailed(d, x)
      PROVE  Same
    BY <1>2 DEF CreateNotification, Deliver, DeliverUnconfirmed, MarkSent,
                MarkFailed, Mark, Goto
<1>3. ASSUME CloseMailing(d)
      PROVE  Same
    <2>1. status[report[d]] # "none"
        BY <1>3 DEF CloseMailing, Goto, MailInv, CallMails
    <2>2. /\ UNCHANGED <<job, llmRun>>
          /\ \A c \in Calls : pc'[c] \in {"aborted", "except"} => pc'[c] = pc[c]
        BY <1>3 DEF CloseMailing, Goto
    <2>3. \A r \in Reports : r = report[d] \/ status'[r] = status[r]
        BY <1>3 DEF CloseMailing
    <2> QED
        BY <2>1, <2>2, <2>3
<1>4. ASSUME NEW r \in Reports, OpenReport(d, r)
      PROVE  Same
    BY <1>4 DEF OpenReport, Goto
<1>5. Same
    BY <1>1, <1>2, <1>3, <1>4 DEF Mails, MailStep
<1> HIDE DEF TypeOK
<1>6. ASSUME NEW c \in Calls
      PROVE  JobHit(c)' => JobHit(c)
    BY <1>5 DEF JobHit, ContradictedJob
<1> QED
    BY <1>6 DEF JobHits

\* A message accepted without a confirmation, and an update to SENT that raises,
\* hit that message.
LEMMA MailAddsHits ==
    ASSUME TypeOK, MailInv, OutboxInv, RowInv, NEW d \in Calls, Mails(d)
    PROVE  NoHit \/ OneMailHit
<1> USE DEF TypeOK, BusyPcs, TryPcs, MailPcs, CreatePcs, reportVars, mailVars
<1>1. JobHits' \subseteq JobHits
    BY MailKeepsJobs
<1>2. ASSUME NEW c \in Calls \ {d}, NEW x \in Recipients
      PROVE  MailHit(c, x)' => MailHit(c, x)
    <2>1. /\ pc'[c] = pc[c] /\ outbox'[c] = outbox[c]
          /\ accepted'[c] = accepted[c]
        <3>1. CASE OpenOwnReport(d) \/ MarkSentRaises(d) \/ CloseMailing(d)
            BY <3>1 DEF OpenOwnReport, MarkSentRaises, CloseMailing, Goto
        <3>2. ASSUME NEW y \in Recipients,
                     \/ CreateNotification(d, y) \/ Deliver(d, y)
                     \/ DeliverUnconfirmed(d, y) \/ MarkSent(d, y)
                     \/ MarkFailed(d, y)
              PROVE  /\ pc'[c] = pc[c] /\ outbox'[c] = outbox[c]
                     /\ accepted'[c] = accepted[c]
            BY <3>2 DEF CreateNotification, Deliver, DeliverUnconfirmed,
                        MarkSent, MarkFailed, Mark, Goto
        <3>3. ASSUME NEW r \in Reports, OpenReport(d, r)
              PROVE  /\ pc'[c] = pc[c] /\ outbox'[c] = outbox[c]
                     /\ accepted'[c] = accepted[c]
            BY <3>3 DEF OpenReport, Goto
        <3> QED
            BY <3>1, <3>2, <3>3 DEF Mails, MailStep
    <2> QED
        BY <2>1 DEF MailHit, ContradictedMail
<1>3. ASSUME \A x \in Recipients : MailHit(d, x)' => MailHit(d, x),
             faults' \in {faults, faults + 1}
      PROVE  NoHit
    BY <1>1, <1>2, <1>3 DEF NoHit, MailHits
<1>4. ASSUME NEW y \in Recipients, faults' = faults + 1,
             \A x \in Recipients \ {y} : MailHit(d, x)' => MailHit(d, x)
      PROVE  OneMailHit
    <2>1. MailHits' \subseteq MailHits \cup {<<d, y>>}
        BY <1>2, <1>4 DEF MailHits
    <2> QED
        BY <1>1, <1>4, <2>1 DEF OneMailHit
<1>5. CASE OpenOwnReport(d) \/ CloseMailing(d)
    <2>1. \A x \in Recipients : MailHit(d, x)' => MailHit(d, x)
        BY <1>5 DEF OpenOwnReport, CloseMailing, Goto, MailHit, ContradictedMail
    <2> QED
        BY <1>3, <1>5, <2>1 DEF OpenOwnReport, CloseMailing
<1>6. ASSUME NEW r \in Reports, OpenReport(d, r)
      PROVE  NoHit
    <2>1. \A x \in Recipients : MailHit(d, x)' => MailHit(d, x)
        BY <1>6 DEF OpenReport, Goto, MailHit, ContradictedMail
    <2> QED
        BY <1>3, <1>6, <2>1 DEF OpenReport
<1>7. ASSUME NEW y \in Recipients, CreateNotification(d, y)
      PROVE  NoHit
    <2>1. /\ pc'[d] = "deliver" /\ accepted' = accepted /\ faults' = faults
          /\ \A x \in Recipients : outbox'[d][x] = "FAILED" =>
                                        outbox[d][x] = "FAILED"
        BY <1>7 DEF CreateNotification, Goto
    <2>2. \A x \in Recipients : MailHit(d, x)' => MailHit(d, x)
        BY <2>1 DEF MailHit, ContradictedMail
    <2> QED
        BY <1>3, <2>1, <2>2
<1>8. ASSUME NEW y \in Recipients, Deliver(d, y)
      PROVE  NoHit
    <2>1. /\ outbox' = outbox /\ faults' = faults /\ pc[d] = "deliver"
          /\ \/ pc'[d] = "mark_sent"
                /\ accepted'[d] \subseteq accepted[d] \cup {y}
             \/ pc'[d] = "mark_failed" /\ accepted' = accepted
          /\ outbox[d][y] = "PENDING"
        BY <1>8 DEF Deliver, Goto
    <2>2. \A x \in Recipients : x \in accepted[d] => outbox[d][x] # "PENDING"
        BY <2>1 DEF RowInv
    <2>3. \A x \in Recipients : MailHit(d, x)' => MailHit(d, x)
        BY <2>1, <2>2 DEF MailHit, ContradictedMail
    <2> QED
        BY <1>3, <2>1, <2>3
<1>9. ASSUME NEW y \in Recipients, DeliverUnconfirmed(d, y)
      PROVE  OneMailHit
    <2>1. /\ outbox' = outbox /\ faults' = faults + 1 /\ pc[d] = "deliver"
          /\ pc'[d] = "mark_failed"
          /\ accepted'[d] \subseteq accepted[d] \cup {y}
        BY <1>9 DEF DeliverUnconfirmed, Goto, Fault
    <2>2. \A x \in Recipients : x \in accepted[d] => outbox[d][x] # "PENDING"
        BY <2>1 DEF RowInv
    <2>3. \A x \in Recipients \ {y} : MailHit(d, x)' => MailHit(d, x)
        BY <2>1, <2>2 DEF MailHit, ContradictedMail
    <2> QED
        BY <1>4, <2>1, <2>3
<1>10. ASSUME NEW y \in Recipients, MarkSent(d, y) \/ MarkFailed(d, y)
       PROVE  NoHit
    <2>1. PICK from \in {"mark_sent", "mark_failed"},
               sendStatus \in {"SENT", "FAILED"} :
                    /\ Mark(d, y, from, sendStatus)
                    /\ sendStatus = "FAILED" => from = "mark_failed"
        BY <1>10 DEF MarkSent, MarkFailed
    <2>2. /\ pc[d] = from /\ pc'[d] = "mail" /\ outbox[d][y] = "PENDING"
          /\ accepted' = accepted /\ faults' = faults
          /\ outbox' = [outbox EXCEPT ![d][y] = sendStatus]
        BY <2>1 DEF Mark, Goto
    <2>3. \A x \in Recipients : outbox'[d][x] = "FAILED" =>
                (x = y /\ from = "mark_failed") \/ outbox[d][x] = "FAILED"
        BY <2>1, <2>2
    <2>4. \A x \in Recipients : MailHit(d, x)' => MailHit(d, x)
        BY <2>2, <2>3 DEF MailHit, ContradictedMail
    <2> QED
        BY <1>3, <2>2, <2>4
<1>11. CASE MarkSentRaises(d)
    <2>1. /\ pc[d] = "mark_sent" /\ pc'[d] = "mark_failed"
          /\ faults' = faults + 1 /\ UNCHANGED mailVars
        BY <1>11 DEF MarkSentRaises, Goto, Fault
    <2>2. CASE \E y \in Recipients : outbox[d][y] = "PENDING"
        <3>1. PICK y \in Recipients : outbox[d][y] = "PENDING"
            BY <2>2
        <3>2. \A x \in Recipients \ {y} : outbox[d][x] # "PENDING"
            BY <2>1, <3>1 DEF OutboxInv
        <3>3. \A x \in Recipients \ {y} : MailHit(d, x)' => MailHit(d, x)
            BY <2>1, <3>2 DEF MailHit, ContradictedMail
        <3> QED
            BY <1>4, <2>1, <3>3
    <2>3. CASE \A y \in Recipients : outbox[d][y] # "PENDING"
        <3>1. \A x \in Recipients : MailHit(d, x)' => MailHit(d, x)
            BY <2>1, <2>3 DEF MailHit, ContradictedMail
        <3> QED
            BY <1>3, <2>1, <3>1
    <2> QED
        BY <2>2, <2>3
<1> QED
    BY <1>5, <1>6, <1>7, <1>8, <1>9, <1>10, <1>11 DEF Mails, MailStep

\* The loss of a call hits its job or the message under way, never both.
LEMMA LostHits ==
    ASSUME TypeOK, OutboxInv, RowInv, NEW d \in Calls, Lost(d)
    PROVE  OneJobHit \/ OneMailHit
<1> USE DEF TypeOK, BusyPcs, TryPcs, MailPcs, CreatePcs, reportVars, mailVars
<1>1. /\ \A c \in Calls \ {d} : pc'[c] = pc[c]
      /\ pc'[d] = "aborted"
      /\ faults' = faults + 1
      /\ UNCHANGED <<reportVars, mailVars>>
    BY DEF Lost
<1>2. CASE pc[d] \in CreatePcs
    <2>1. accepted[d] = {}
        BY <1>2, NothingAccepted
    <2>2. MailHits' \subseteq MailHits
        BY <1>1, <2>1 DEF MailHits, MailHit, ContradictedMail
    <2>3. JobHits' \subseteq JobHits \cup {d}
        BY <1>1 DEF JobHits, JobHit, ContradictedJob
    <2> QED
        BY <1>1, <2>2, <2>3 DEF OneJobHit
<1>3. CASE pc[d] \in MailPcs
    <2>1. job[d] # "RUNNING"
        BY <1>3 DEF RowInv
    <2>2. JobHits' \subseteq JobHits
        BY <1>1, <2>1 DEF JobHits, JobHit, ContradictedJob
    <2>3. PICK y \in Recipients :
                \A x \in Recipients \ {y} : outbox[d][x] # "PENDING"
        BY <1>3, OpsAssumption DEF OutboxInv, OpsAssumption
    <2>4. MailHits' \subseteq MailHits \cup {<<d, y>>}
        BY <1>1, <2>3 DEF MailHits, MailHit, ContradictedMail
    <2> QED
        BY <1>1, <2>2, <2>4 DEF OneMailHit
<1> QED
    BY <1>2, <1>3 DEF Lost

LEMMA StepHits ==
    ASSUME TypeOK, CreateInv, MailInv, OutboxInv, PodInv, RowInv, [Next]_vars
    PROVE  NoHit \/ OneJobHit \/ OneMailHit
<1>1. CASE /\ pc' = pc
           /\ faults' \in {faults, faults + 1}
           /\ UNCHANGED <<reportVars, report, mailVars>>
    BY <1>1 DEF NoHit, JobHits, JobHit, ContradictedJob, MailHits, MailHit,
                ContradictedMail, reportVars, mailVars
<1> QED
    BY <1>1, StepCases, CreateHits, MailAddsHits, LostHits

LEMMA StepHitInv ==
    /\ TypeOK
    /\ CreateInv
    /\ MailInv
    /\ OutboxInv
    /\ PodInv
    /\ RowInv
    /\ HitInv
    /\ [Next]_vars
    => HitInv'
<1> SUFFICES ASSUME TypeOK, CreateInv, MailInv, OutboxInv, PodInv, RowInv,
                    HitInv, [Next]_vars
             PROVE  HitInv'
    OBVIOUS
<1>1. faults \in Nat
    BY OpsAssumption DEF OpsAssumption, TypeOK
<1>2. /\ IsFiniteSet(JobHits) /\ Cardinality(JobHits) \in Nat
      /\ IsFiniteSet(MailHits) /\ Cardinality(MailHits) \in Nat
      /\ Cardinality(JobHits) + Cardinality(MailHits) <= faults
    BY FS_CardinalityType DEF HitInv
<1>3. /\ JobHits' \subseteq JobHits =>
            /\ IsFiniteSet(JobHits') /\ Cardinality(JobHits') \in Nat
            /\ Cardinality(JobHits') <= Cardinality(JobHits)
      /\ MailHits' \subseteq MailHits =>
            /\ IsFiniteSet(MailHits') /\ Cardinality(MailHits') \in Nat
            /\ Cardinality(MailHits') <= Cardinality(MailHits)
    BY <1>2, FS_Subset, FS_CardinalityType
<1>4. CASE NoHit
    BY <1>1, <1>2, <1>3, <1>4 DEF NoHit, HitInv
<1>5. CASE OneJobHit
    <2>1. PICK c \in Calls : JobHits' \subseteq JobHits \cup {c}
        BY <1>5 DEF OneJobHit
    <2>2. /\ IsFiniteSet(JobHits \cup {c})
          /\ Cardinality(JobHits \cup {c}) \in Nat
          /\ Cardinality(JobHits \cup {c}) <= Cardinality(JobHits) + 1
        BY <1>2, OneMore
    <2>3. /\ IsFiniteSet(JobHits') /\ Cardinality(JobHits') \in Nat
          /\ Cardinality(JobHits') <= Cardinality(JobHits \cup {c})
        BY <2>1, <2>2, FS_Subset, FS_CardinalityType
    <2> QED
        BY <1>1, <1>2, <1>3, <1>5, <2>2, <2>3 DEF OneJobHit, HitInv
<1>6. CASE OneMailHit
    <2>1. PICK d \in Calls \X Recipients : MailHits' \subseteq MailHits \cup {d}
        BY <1>6 DEF OneMailHit
    <2>2. /\ IsFiniteSet(MailHits \cup {d})
          /\ Cardinality(MailHits \cup {d}) \in Nat
          /\ Cardinality(MailHits \cup {d}) <= Cardinality(MailHits) + 1
        BY <1>2, OneMore
    <2>3. /\ IsFiniteSet(MailHits') /\ Cardinality(MailHits') \in Nat
          /\ Cardinality(MailHits') <= Cardinality(MailHits \cup {d})
        BY <2>1, <2>2, FS_Subset, FS_CardinalityType
    <2> QED
        BY <1>1, <1>2, <1>3, <1>6, <2>2, <2>3 DEF OneMailHit, HitInv
<1> QED
    BY <1>4, <1>5, <1>6, StepHits

LEMMA CountContradictions ==
    TypeOK /\ HitInv => FaultsAccountForContradictions
<1> SUFFICES ASSUME TypeOK, HitInv
             PROVE  FaultsAccountForContradictions
    OBVIOUS
<1> DEFINE Jobs  == {c \in Calls : ContradictedJob(c)}
           Messages == {d \in Calls \X Recipients : ContradictedMail(d[1], d[2])}
<1>1. Jobs \subseteq JobHits /\ Messages \subseteq MailHits
    BY DEF JobHits, JobHit, MailHits, MailHit
<1>2. /\ Cardinality(Jobs) \in Nat /\ Cardinality(JobHits) \in Nat
      /\ Cardinality(Jobs) <= Cardinality(JobHits)
    BY <1>1, FS_Subset, FS_CardinalityType DEF HitInv
<1>3. /\ Cardinality(Messages) \in Nat /\ Cardinality(MailHits) \in Nat
      /\ Cardinality(Messages) <= Cardinality(MailHits)
    BY <1>1, FS_Subset, FS_CardinalityType DEF HitInv
<1>4. Cardinality(JobHits) + Cardinality(MailHits) <= faults /\ faults \in Nat
    BY OpsAssumption DEF OpsAssumption, TypeOK, HitInv
<1>5. Cardinality(Jobs) + Cardinality(Messages) <= faults
    <2> HIDE DEF Jobs, Messages
    <2> QED
        BY <1>2, <1>3, <1>4
<1> QED
    BY <1>5 DEF FaultsAccountForContradictions

-----------------------------------------------------------------------------
(* Theorems *)

LEMMA ReportInvariance == Spec => [](ReportInv /\ PodInv)
<1>1. ReportInv /\ PodInv /\ [Next]_vars => (ReportInv /\ PodInv)'
    BY StepTypeOK, StepJob, StepMail, StepOutbox, StepSent, StepPodInv
       DEF ReportInv, JobInv
<1> QED
    BY InitReports, InitPods, <1>1, PTL DEF Spec

\* The calls, their rows and the mails have their types in every pod and request.
THEOREM ReportsTypeCorrect == Spec => []TypeOK
BY ReportInvariance, PTL DEF ReportInv

\* A SUCCEEDED job has its whole report and no failure report, although the
\* handler may run after finish_job (ops_reports/service.py 160-205).
THEOREM SucceededJobIsCompleteHolds == Spec => []SucceededJobIsComplete
BY ReportInvariance, PTL DEF ReportInv

\* A report says SENT only when one call delivered it to all it was to mail it
\* to, whatever other calls do with it (ops_reports/service.py 255-309).
THEOREM SentReportWasDeliveredHolds == Spec => []SentReportWasDelivered
BY ReportInvariance, PTL DEF ReportInv

\* A recipient gets the mail of one pod of the Job, and of one more for each
\* fault (ops_reports/job_runner.py 54-149, ops-report-cronjobs.yaml).
THEOREM RetriesRepeatOnlyFaultsHolds == Spec => []RetriesRepeatOnlyFaults
<1>1. ReportInv /\ PodInv => RetriesRepeatOnlyFaults
    BY OneMailPerPodThatFailed DEF ReportInv
<1> QED
    BY <1>1, ReportInvariance, PTL

\* Each job left RUNNING, each job FAILED over a completed report and each
\* delivered message whose row does not say so has cost a fault of its own
\* (ops_reports/service.py 160-309).
THEOREM FaultsAccountForContradictionsHolds ==
    Spec => []FaultsAccountForContradictions
<1>1. ReportInv /\ PodInv /\ RowInv /\ HitInv /\ [Next]_vars
        => RowInv' /\ HitInv'
    BY StepRow, StepHitInv DEF ReportInv
<1>2. ReportInv /\ HitInv => FaultsAccountForContradictions
    BY CountContradictions DEF ReportInv
<1> QED
    BY InitHits, <1>1, <1>2, ReportInvariance, PTL DEF Spec
=============================================================================
