-------------------------- MODULE RcaJobLifecycle --------------------------
(***************************************************************************)
(* What the RCA job table promises to everyone who reads it, whoever runs  *)
(* the jobs: a job is created once, claimed once, stores at most one       *)
(* report, and is SUCCEEDED only when that report is stored.  A job that   *)
(* has a report may still end FAILED, because the code that reports an     *)
(* exception overwrites the status whatever it was; it never goes back to  *)
(* QUEUED or RUNNING.  Module InfraRca is shown to implement this.         *)
(***************************************************************************)
EXTENDS Naturals

CONSTANT Jobs

VARIABLES
    job,        \* run_status of each row of ai.job_runs, "none" when absent
    reports     \* number of ai.rca_reports rows stored for each job

jobVars == <<job, reports>>

Init ==
    /\ job = [j \in Jobs |-> "none"]
    /\ reports = [j \in Jobs |-> 0]

Create(j) ==
    /\ job[j] = "none"
    /\ job' = [job EXCEPT ![j] = "QUEUED"]
    /\ UNCHANGED reports

Claim(j) ==
    /\ job[j] = "QUEUED"
    /\ job' = [job EXCEPT ![j] = "RUNNING"]
    /\ UNCHANGED reports

Publish(j) ==
    /\ job[j] = "RUNNING"
    /\ reports[j] = 0
    /\ reports' = [reports EXCEPT ![j] = 1]
    /\ UNCHANGED job

Succeed(j) ==
    /\ job[j] = "RUNNING"
    /\ reports[j] = 1
    /\ job' = [job EXCEPT ![j] = "SUCCEEDED"]
    /\ UNCHANGED reports

Fail(j) ==
    /\ job[j] \in {"RUNNING", "SUCCEEDED"}
    /\ job' = [job EXCEPT ![j] = "FAILED"]
    /\ UNCHANGED reports

Next == \E j \in Jobs :
    Create(j) \/ Claim(j) \/ Publish(j) \/ Succeed(j) \/ Fail(j)

Spec == Init /\ [][Next]_jobVars
=============================================================================
