------------------------- MODULE NotificationOutbox -------------------------
(***************************************************************************)
(* Delivery of an email or a Slack message through ai.notification_outbox, *)
(* as infra_rca and alertmanager_agent do it: store the row under its      *)
(* idempotency key, send unless the row is already SENT, then record the   *)
(* outcome.  The three are separate: two database transactions and a call  *)
(* of the mail server or of the webhook in between.                        *)
(*                                                                         *)
(* A pass is one trip through this code for one recipient.  Passes for the *)
(* same key meet when a report is resent by hand while its job still sends *)
(* it, when two alerts of an incident fire, or when an alert is delivered  *)
(* again; they run in different threads or on different replicas.          *)
(***************************************************************************)
EXTENDS Naturals

CONSTANTS
    Passes,     \* trips through the delivery code
    Keys,       \* idempotency keys: entity, stage, channel and recipient
    MaxFaults,  \* bound on the faults of a behaviour
    None        \* no key yet

ASSUME OutboxAssumption == MaxFaults \in Nat /\ None \notin Keys

VARIABLES
    row,        \* send_status of the row of each key, "none" when there is none
    accepted,   \* messages of each key the mail server or webhook has accepted
    pc,         \* where each pass is
    key,        \* the key of each pass
    outcome,    \* what each pass reports to its caller
    overlap,    \* history: keys with two passes between their insert and update
    faults      \* crashes, lost answers of the provider and failed updates

vars == <<row, accepted, pc, key, outcome, overlap, faults>>

RowStatuses == {"none", "PENDING", "SENT", "FAILED"}

TypeOK ==
    /\ row \in [Keys -> RowStatuses]
    /\ accepted \in [Keys -> Nat]
    /\ pc \in [Passes -> {"create", "send", "mark_sent", "mark_failed", "done",
                          "lost"}]
    /\ key \in [Passes -> Keys \cup {None}]
    /\ outcome \in [Passes -> {"none", "SENT", "FAILED"}]
    /\ overlap \in SUBSET Keys
    /\ faults \in 0 .. MaxFaults

Init ==
    /\ row = [x \in Keys |-> "none"]
    /\ accepted = [x \in Keys |-> 0]
    /\ pc = [p \in Passes |-> "create"]
    /\ key = [p \in Passes |-> None]
    /\ outcome = [p \in Passes |-> "none"]
    /\ overlap = {}
    /\ faults = 0

\* A pass has read a row that was not SENT and has not recorded its outcome.
InFlight(x) ==
    {p \in Passes : /\ key[p] = x
                    /\ pc[p] \in {"send", "mark_sent", "mark_failed"}}

Quiet(x) == InFlight(x) = {}

Fault ==
    /\ faults < MaxFaults
    /\ faults' = faults + 1

-----------------------------------------------------------------------------
(* The pass *)

\* Mutant: the status of the row is not looked at before sending.
CreateAndSend(p, x) ==
    /\ pc[p] = "create"
    /\ key' = [key EXCEPT ![p] = x]
    /\ row' = [row EXCEPT ![x] = IF @ = "none" THEN "PENDING" ELSE @]
    /\ pc' = [pc EXCEPT ![p] = "send"]
    /\ overlap' = IF Quiet(x) THEN overlap ELSE overlap \cup {x}
    /\ UNCHANGED <<accepted, outcome, faults>>

\* create_notification: a new row is PENDING, an existing one is returned as it
\* is.  A row that is SENT needs no message.
Create(p, x) ==
    /\ pc[p] = "create"
    /\ key' = [key EXCEPT ![p] = x]
    /\ row' = [row EXCEPT ![x] = IF @ = "none" THEN "PENDING" ELSE @]
    /\ IF row[x] = "SENT"
         THEN /\ pc' = [pc EXCEPT ![p] = "done"]
              /\ outcome' = [outcome EXCEPT ![p] = "SENT"]
              /\ UNCHANGED overlap
         ELSE /\ pc' = [pc EXCEPT ![p] = "send"]
              /\ overlap' = IF Quiet(x) THEN overlap ELSE overlap \cup {x}
              /\ UNCHANGED outcome
    /\ UNCHANGED <<accepted, faults>>

\* The insert raises: the recipient is skipped.
CreateFails(p, x) ==
    /\ pc[p] = "create"
    /\ Fault
    /\ key' = [key EXCEPT ![p] = x]
    /\ pc' = [pc EXCEPT ![p] = "done"]
    /\ outcome' = [outcome EXCEPT ![p] = "FAILED"]
    /\ UNCHANGED <<row, accepted, overlap>>

\* Mutant: a rejected message is recorded as SENT.
SendAnyhow(p) ==
    /\ pc[p] = "send"
    /\ \E ok \in BOOLEAN :
        accepted' = [accepted EXCEPT ![key[p]] = IF ok THEN @ + 1 ELSE @]
    /\ pc' = [pc EXCEPT ![p] = "mark_sent"]
    /\ UNCHANGED <<row, key, outcome, overlap, faults>>

\* send_html or send_text: accepted, or refused with an exception.
Send(p) ==
    /\ pc[p] = "send"
    /\ \/ /\ accepted' = [accepted EXCEPT ![key[p]] = @ + 1]
          /\ pc' = [pc EXCEPT ![p] = "mark_sent"]
       \/ /\ pc' = [pc EXCEPT ![p] = "mark_failed"]
          /\ UNCHANGED accepted
    /\ UNCHANGED <<row, key, outcome, overlap, faults>>

\* The provider accepts the message and the exception comes afterwards: the
\* answer is lost, or closing the connection fails.
SendUnconfirmed(p) ==
    /\ pc[p] = "send"
    /\ Fault
    /\ accepted' = [accepted EXCEPT ![key[p]] = @ + 1]
    /\ pc' = [pc EXCEPT ![p] = "mark_failed"]
    /\ UNCHANGED <<row, key, outcome, overlap>>

\* update_notification_status: unconditional.
Mark(p, from, status) ==
    /\ pc[p] = from
    /\ row' = [row EXCEPT ![key[p]] = status]
    /\ pc' = [pc EXCEPT ![p] = "done"]
    /\ outcome' = [outcome EXCEPT ![p] = status]
    /\ UNCHANGED <<accepted, key, overlap, faults>>

\* Mutant: a status that the schema does not know.
MarkDelivered(p) == Mark(p, "mark_sent", "DELIVERED")

\* Mutant: the outcome is recorded under the wrong status.
MarkSentAsFailed(p) == Mark(p, "mark_sent", "FAILED")

MarkSent(p) == Mark(p, "mark_sent", "SENT")

MarkFailed(p) == Mark(p, "mark_failed", "FAILED")

\* _safe_update_notification_status: a failed update is logged and swallowed,
\* and the pass reports what it would have recorded.
MarkFails(p) ==
    /\ pc[p] \in {"mark_sent", "mark_failed"}
    /\ Fault
    /\ pc' = [pc EXCEPT ![p] = "done"]
    /\ outcome' = [outcome EXCEPT
                      ![p] = IF pc[p] = "mark_sent" THEN "SENT" ELSE "FAILED"]
    /\ UNCHANGED <<row, accepted, key, overlap>>

\* The process is lost.
Crash(p) ==
    /\ pc[p] \in {"send", "mark_sent", "mark_failed"}
    /\ Fault
    /\ pc' = [pc EXCEPT ![p] = "lost"]
    /\ UNCHANGED <<row, accepted, key, outcome, overlap>>

Next ==
    \E p \in Passes :
        \/ \E x \in Keys : Create(p, x) \/ CreateFails(p, x)
        \/ Send(p)
        \/ SendUnconfirmed(p)
        \/ MarkSent(p)
        \/ MarkFailed(p)
        \/ MarkFails(p)
        \/ Crash(p)

Spec == Init /\ [][Next]_vars

-----------------------------------------------------------------------------
(* Properties *)

\* Nothing is called SENT that was not accepted: neither a row nor what a pass
\* reports, whatever other passes of the key do and whatever is lost.
SentIsAccepted ==
    /\ \A x \in Keys : row[x] = "SENT" => accepted[x] > 0
    /\ \A p \in Passes : outcome[p] = "SENT" => accepted[key[p]] > 0

\* A key whose passes do not overlap gets its message once, and once more for
\* each fault at most.  Without faults its row tells, when no pass is under way,
\* whether the message was accepted.  Passes that retry a refused message do
\* not overlap, however many there are.
OnceWhenAlone ==
    \A x \in Keys \ overlap :
        /\ accepted[x] <= 1 + faults
        /\ faults = 0 /\ Quiet(x) => (row[x] = "SENT" <=> accepted[x] = 1)

\* A SENT row with no pass under way is final: later passes leave the row
\* alone and send nothing.  With a pass under way it is not, since that pass
\* may write FAILED over it.
QuietSentIsFinal ==
    [][\A x \in Keys :
            row[x] = "SENT" /\ Quiet(x) =>
                /\ row'[x] = "SENT" /\ Quiet(x)'
                /\ accepted'[x] = accepted[x]]_vars

\* "payload.notification_stage and idempotency_key track the stage of a
\* notice and keep duplicates out" (docs/erd.md 43): one message per key.
AtMostOnce == \A x \in Keys : accepted[x] <= 1
=============================================================================
