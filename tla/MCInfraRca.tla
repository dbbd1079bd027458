---------------------------- MODULE MCInfraRca ----------------------------
(***************************************************************************)
(* Small instances of InfraRca for TLC.                                    *)
(***************************************************************************)
EXTENDS InfraRcaInductive, TLC

CONSTANTS a1, a2, i1

Firing(a)   == [alert |-> a, status |-> "FIRING"]
Resolved(a) == [alert |-> a, status |-> "RESOLVED"]

\* Both fingerprints fall on one dedup key (the key is cut at 240 characters).
MCIncidentOf == [a \in Alerts |-> i1]

\* An alert that fires, one that is resolved, and a group of both kinds in
\* which the firing alert is not the first.
MCRequests ==
    {<<Firing(a1)>>, <<Resolved(a1)>>, <<Resolved(a1), Firing(a2)>>}

\* One alert, firing.
MCFiringRequests == {<<Firing(a1)>>}

\* Two alerts, firing.
MCTwoFiringRequests == {<<Firing(a1)>>, <<Firing(a2)>>}

MCSymmetry == Permutations(Webhooks) \cup Permutations(Workers)

\* For two alerts whose jobs compete, the steps of the world around them: a2 fires
\* once the delivery of a1 has been answered and is accepted as well ...
MCFiresInOrder ==
    \A w \in Webhooks :
        webhookPc[w] = "idle" /\ webhookPc'[w] # "idle" =>
            LET others == {v \in Webhooks : webhookPc[v] # "idle"}
            IN  /\ \A v \in others : webhookPc[v] = "acked"
                /\ request'[w].alert = IF others = {} THEN a1 ELSE a2

\* ... the analysis of a1 succeeds and the one of a2 fails in any way, no email
\* has a recipient ...
MCOutcomes ==
    /\ \A w \in Webhooks :
          llmRun'[w] \in {"none"} \cup
              (IF request[w].alert = a1 THEN {"SUCCESS"} ELSE LlmFailures)
    /\ preliminary' = {} /\ finalMail' = {}

\* ... and only the pods of the two jobs post run-due, once the deliveries are
\* acknowledged.
MCOnlyPodsCall ==
    /\ \A w \in Webhooks : webhookPc'[w] # "lost"
    /\ \A k \in Workers :
          pc[k] = "idle" /\ pc'[k] # "idle" =>
              caller'[k] # None /\ k = CHOOSE m \in Workers : pc[m] = "idle"
    /\ \A j \in due' : webhookPc[j] = "acked"

\* These three are ACTION_CONSTRAINTS of the run.  Each fair step that is enabled keeps
\* a variant they permit, so they rule out no fair behaviour by blocking it.
MCTwoJobsSpec == Spec /\ Fairness
===========================================================================
