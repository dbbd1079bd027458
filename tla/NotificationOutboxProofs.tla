---------------------- MODULE NotificationOutboxProofs ----------------------
(***************************************************************************)
(* Proofs about NotificationOutbox, for any number of passes and keys and  *)
(* any bound on faults.                                                    *)
(***************************************************************************)
EXTENDS NotificationOutbox, TLAPS

\* A pass that has begun has its key, and one about to record SENT, or that
\* reports it, has had its message accepted, or found that it was.
PassInv ==
    \A p \in Passes :
        /\ pc[p] # "create" => key[p] \in Keys
        /\ pc[p] = "create" => outcome[p] = "none"
        /\ pc[p] = "mark_sent" => accepted[key[p]] > 0
        /\ outcome[p] = "SENT" => key[p] \in Keys /\ accepted[key[p]] > 0

RowInv == \A x \in Keys : row[x] = "SENT" => accepted[x] > 0

\* One more message is accounted for than there were faults only when the key
\* is SENT or about to be.
AloneInv ==
    \A x \in Keys \ overlap :
        /\ \A p, q \in InFlight(x) : p = q
        /\ row[x] = "SENT" => Quiet(x)
        /\ accepted[x] <= 1 + faults
        /\ row[x] # "SENT" /\ (\A p \in InFlight(x) : pc[p] # "mark_sent")
                => accepted[x] <= faults

OutboxInv == TypeOK /\ PassInv /\ RowInv /\ AloneInv

LEMMA InitOutbox == Init => OutboxInv
BY OutboxAssumption
   DEF OutboxAssumption, Init, OutboxInv, TypeOK, RowStatuses, PassInv, RowInv,
       AloneInv, InFlight, Quiet

LEMMA StepOutbox == OutboxInv /\ [Next]_vars => OutboxInv'
<1> SUFFICES ASSUME OutboxInv, [Next]_vars
             PROVE  OutboxInv'
    OBVIOUS
<1> USE OutboxAssumption
    DEF OutboxAssumption, OutboxInv, TypeOK, RowStatuses, PassInv, RowInv,
        AloneInv, InFlight, Quiet
<1>1. ASSUME NEW p \in Passes, NEW x \in Keys, Create(p, x)
      PROVE  OutboxInv'
    <2>1. TypeOK'
        BY <1>1 DEF Create
    <2>2. \A y \in Keys : row'[y] = "SENT" <=> row[y] = "SENT"
        BY <1>1 DEF Create
    <2>3. RowInv'
        BY <1>1, <2>2 DEF Create
    <2>4. PassInv'
        <3>1. CASE row[x] = "SENT"
            BY <1>1, <3>1 DEF Create
        <3>2. CASE row[x] # "SENT"
            BY <1>1, <3>2 DEF Create
        <3> QED
            BY <3>1, <3>2
    <2>5. AloneInv'
        BY <1>1 DEF Create
    <2> QED
        BY <2>1, <2>3, <2>4, <2>5
<1>2. ASSUME NEW p \in Passes, NEW x \in Keys, CreateFails(p, x)
      PROVE  OutboxInv'
    BY <1>2 DEF CreateFails, Fault
<1>3. ASSUME NEW p \in Passes, Send(p)
      PROVE  OutboxInv'
    BY <1>3 DEF Send
<1>4. ASSUME NEW p \in Passes, SendUnconfirmed(p)
      PROVE  OutboxInv'
    BY <1>4 DEF SendUnconfirmed, Fault
<1>5. ASSUME NEW p \in Passes, MarkSent(p)
      PROVE  OutboxInv'
    BY <1>5 DEF MarkSent, Mark
<1>6. ASSUME NEW p \in Passes, MarkFailed(p)
      PROVE  OutboxInv'
    BY <1>6 DEF MarkFailed, Mark
<1>7. ASSUME NEW p \in Passes, MarkFails(p)
      PROVE  OutboxInv'
    BY <1>7 DEF MarkFails, Fault
<1>8. ASSUME NEW p \in Passes, Crash(p)
      PROVE  OutboxInv'
    BY <1>8 DEF Crash, Fault
<1>9. CASE UNCHANGED vars
    BY <1>9 DEF vars
<1> QED
    BY <1>1, <1>2, <1>3, <1>4, <1>5, <1>6, <1>7, <1>8, <1>9 DEF Next

LEMMA OutboxInvariance == Spec => []OutboxInv
BY InitOutbox, StepOutbox, PTL DEF Spec

\* The rows and the passes have their types, however the passes overlap.
THEOREM OutboxTypeCorrect == Spec => []TypeOK
<1>1. OutboxInv => TypeOK
    BY DEF OutboxInv
<1> QED
    BY <1>1, OutboxInvariance, PTL

\* A row, and the answer of a pass, say SENT only of an accepted message
\* (infra_rca/service.py 345-427, alertmanager_agent/service.py 488-625).
THEOREM SentIsAcceptedHolds == Spec => []SentIsAccepted
<1>1. OutboxInv => SentIsAccepted
    BY DEF OutboxInv, PassInv, RowInv, SentIsAccepted
<1> QED
    BY <1>1, OutboxInvariance, PTL

\* The idempotency key does its work for passes that do not overlap, and only
\* faults let them repeat a message (llmops/repository.py 450-517).
THEOREM OnceWhenAloneHolds == Spec => []OnceWhenAlone
<1>1. OutboxInv => OnceWhenAlone
    BY DEF OutboxInv, TypeOK, RowInv, AloneInv, InFlight, Quiet, OnceWhenAlone
<1> QED
    BY <1>1, OutboxInvariance, PTL

\* Every step keeps a SENT row that no pass holds as it is, and starts no pass
\* that would send (infra_rca/service.py 395-397).
THEOREM QuietSentIsFinalHolds == Spec => QuietSentIsFinal
<1> DEFINE Final == \A x \in Keys :
                        row[x] = "SENT" /\ Quiet(x) =>
                            /\ row'[x] = "SENT" /\ Quiet(x)'
                            /\ accepted'[x] = accepted[x]
<1>1. ASSUME OutboxInv, Next, NEW x \in Keys, row[x] = "SENT", Quiet(x)
      PROVE  row'[x] = "SENT" /\ Quiet(x)' /\ accepted'[x] = accepted[x]
    <2> USE DEF OutboxInv, TypeOK
    <2>1. \A p \in Passes :
            pc[p] \in {"send", "mark_sent", "mark_failed"} => key[p] # x
        BY <1>1 DEF Quiet, InFlight
    <2>2. SUFFICES
            /\ row'[x] = "SENT" /\ accepted'[x] = accepted[x]
            /\ \A p \in Passes :
                 pc'[p] \in {"send", "mark_sent", "mark_failed"} => key'[p] # x
        BY DEF Quiet, InFlight
    <2>3. ASSUME NEW p \in Passes, NEW y \in Keys,
                 Create(p, y) \/ CreateFails(p, y)
          PROVE  /\ row'[x] = "SENT" /\ accepted'[x] = accepted[x]
                 /\ \A q \in Passes :
                     pc'[q] \in {"send", "mark_sent", "mark_failed"} => key'[q] # x
        BY <1>1, <2>1, <2>3 DEF Create, CreateFails
    <2>4. ASSUME NEW p \in Passes, Send(p) \/ SendUnconfirmed(p)
          PROVE  /\ row'[x] = "SENT" /\ accepted'[x] = accepted[x]
                 /\ \A q \in Passes :
                     pc'[q] \in {"send", "mark_sent", "mark_failed"} => key'[q] # x
        BY <1>1, <2>1, <2>4 DEF Send, SendUnconfirmed
    <2>5. ASSUME NEW p \in Passes,
                 MarkSent(p) \/ MarkFailed(p) \/ MarkFails(p) \/ Crash(p)
          PROVE  /\ row'[x] = "SENT" /\ accepted'[x] = accepted[x]
                 /\ \A q \in Passes :
                     pc'[q] \in {"send", "mark_sent", "mark_failed"} => key'[q] # x
        BY <1>1, <2>1, <2>5 DEF MarkSent, MarkFailed, Mark, MarkFails, Crash
    <2> QED
        BY <1>1, <2>3, <2>4, <2>5 DEF Next
<1>2. ASSUME UNCHANGED vars, NEW x \in Keys, row[x] = "SENT", Quiet(x)
      PROVE  row'[x] = "SENT" /\ Quiet(x)' /\ accepted'[x] = accepted[x]
    BY <1>2 DEF vars, InFlight, Quiet
<1>3. OutboxInv /\ [Next]_vars => [Final]_vars
    BY <1>1, <1>2
<1> QED
    BY <1>3, OutboxInvariance, PTL DEF Spec, QuietSentIsFinal
=============================================================================
