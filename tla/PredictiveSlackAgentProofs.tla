--------------------- MODULE PredictiveSlackAgentProofs ---------------------
(***************************************************************************)
(* Proofs about PredictiveSlackAgent, for any threads, services and risks, *)
(* any thresholds and any bound on faults.                                 *)
(***************************************************************************)
EXTENDS PredictiveSlackAgent, TLAPS

\* A run that is sending has, beyond what it is about to announce, only
\* candidates that were announced; one that is past sending has no others, and
\* only the last step of a run has inspections to do.
MessageInv ==
    \A t \in Threads :
        /\ pc[t] = "send" => candidates[t] \ fresh[t] \subseteq announced
        /\ pc[t] = "remember" => /\ fresh[t] \subseteq announced
                                 /\ candidates[t] \subseteq announced
        /\ pc[t] \in {"send", "remember"} => fresh[t] \subseteq candidates[t]
        /\ todo[t] \subseteq announced
        /\ pc[t] # "trigger" => todo[t] = {}

AnnouncedInv ==
    /\ MessageInv
    /\ KeysWereSent
    /\ InspectionFollowsMessage

\* What the watcher has told and is still current is a key unless an API run
\* has taken it away, and a run of the watcher has it among its candidates.
ToldInv ==
    /\ told \subseteq CurrentRisks
    /\ told \subseteq keys \cup dropped
    /\ \A x \in told : AtLeast(x, MinRisk)
    /\ dedupe[Watcher]
    /\ pc[Watcher] \in {"decide", "send", "remember"} =>
            /\ told \subseteq candidates[Watcher]
            /\ \A x \in candidates[Watcher] : AtLeast(x, MinRisk)

AgentInv ==
    /\ TypeOK
    /\ AnnouncedInv
    /\ ToldInv
    /\ RepeatsAreOfDroppedKeys
    /\ InspectionsAreLostToFaultsOnly

LEMMA InitAgent == Init => AgentInv
BY AgentAssumption
   DEF AgentAssumption, Threads, Init, AgentInv, TypeOK, AnnouncedInv,
       MessageInv, KeysWereSent, InspectionFollowsMessage, ToldInv,
       RepeatsAreOfDroppedKeys, Repeated, InspectionsAreLostToFaultsOnly

-----------------------------------------------------------------------------
(* Type correctness *)

LEMMA StepTypeOK == TypeOK /\ [Next]_vars => TypeOK'
<1> SUFFICES ASSUME TypeOK, [Next]_vars
             PROVE  TypeOK'
    OBVIOUS
<1> USE AgentAssumption DEF AgentAssumption, TypeOK, Threads
<1>1. ASSUME NEW s \in Services, NEW x \in Risks, Change(s, x)
      PROVE  TypeOK'
    BY <1>1 DEF Change
<1>2. CASE WatcherReads
    BY <1>2 DEF WatcherReads, ReadItems, Goto, CurrentRisks
<1>3. ASSUME NEW t \in Threads, ApiReads(t)
      PROVE  TypeOK'
    BY <1>3 DEF ApiReads, ReadItems, Goto
<1>4. ASSUME NEW t \in Threads, RunStep(t)
      PROVE  TypeOK'
    <2>1. CASE ForgetKeys(t)
        BY <2>1 DEF ForgetKeys, SetKeys, Goto
    <2>2. CASE SkipMessage(t)
        BY <2>2 DEF SkipMessage, Goto
    <2>3. ASSUME NEW d \in BOOLEAN, ComposeMessage(t, d)
          PROVE  TypeOK'
        BY <2>3 DEF ComposeMessage, NewItems, Goto
    <2>4. CASE Remember(t)
        BY <2>4 DEF Remember, SetKeys, KeysOf, EndMessage,
                    SelectRcaTriggerItems, Goto
    <2>5. ASSUME NEW x \in Risks, Trigger(t, x)
          PROVE  TypeOK'
        BY <2>5 DEF Trigger, Fault
    <2>6. CASE EndTriggers(t)
        BY <2>6 DEF EndTriggers, Goto
    <2> QED
        BY <1>4, <2>1, <2>2, <2>3, <2>4, <2>5, <2>6 DEF RunStep
<1>5. ASSUME NEW t \in Threads,
             SendAccepted(t) \/ SendRefused(t) \/ SendUnconfirmed(t)
      PROVE  TypeOK'
    <2>1. CASE SendAccepted(t)
        BY <2>1 DEF SendAccepted, Announce, Goto
    <2>2. CASE SendRefused(t)
        BY <2>2 DEF SendRefused, EndMessage, Goto
    <2>3. CASE SendUnconfirmed(t)
        BY <2>3 DEF SendUnconfirmed, Announce, EndMessage, Fault, Goto
    <2> QED
        BY <1>5, <2>1, <2>2, <2>3
<1>6. CASE Restart
    BY <1>6 DEF Restart, Fault
<1>7. CASE UNCHANGED vars
    BY <1>7 DEF vars
<1> QED
    BY <1>1, <1>2, <1>3, <1>4, <1>5, <1>6, <1>7 DEF Next

-----------------------------------------------------------------------------
(* Keys and inspections follow messages *)

LEMMA StepAnnounced ==
    TypeOK /\ AnnouncedInv /\ [Next]_vars => AnnouncedInv'
<1> SUFFICES ASSUME TypeOK, AnnouncedInv, [Next]_vars
             PROVE  AnnouncedInv'
    OBVIOUS
<1> USE AgentAssumption
    DEF AgentAssumption, TypeOK, Threads, AnnouncedInv, MessageInv,
        KeysWereSent, InspectionFollowsMessage
<1>1. ASSUME NEW s \in Services, NEW x \in Risks, Change(s, x)
      PROVE  AnnouncedInv'
    BY <1>1 DEF Change
<1>2. CASE WatcherReads
    BY <1>2 DEF WatcherReads, ReadItems, Goto
<1>3. ASSUME NEW t \in Threads, ApiReads(t)
      PROVE  AnnouncedInv'
    BY <1>3 DEF ApiReads, ReadItems, Goto
<1>4. ASSUME NEW t \in Threads, RunStep(t)
      PROVE  AnnouncedInv'
    <2>1. CASE ForgetKeys(t)
        BY <2>1 DEF ForgetKeys, SetKeys, Goto
    <2>2. CASE SkipMessage(t)
        BY <2>2 DEF SkipMessage, Goto
    <2>3. ASSUME NEW d \in BOOLEAN, ComposeMessage(t, d)
          PROVE  AnnouncedInv'
        BY <2>3 DEF ComposeMessage, NewItems, Goto
    <2>4. CASE Remember(t)
        BY <2>4 DEF Remember, SetKeys, KeysOf, EndMessage,
                    SelectRcaTriggerItems, Goto
    <2>5. ASSUME NEW x \in Risks, Trigger(t, x)
          PROVE  AnnouncedInv'
        BY <2>5 DEF Trigger
    <2>6. CASE EndTriggers(t)
        BY <2>6 DEF EndTriggers, Goto
    <2> QED
        BY <1>4, <2>1, <2>2, <2>3, <2>4, <2>5, <2>6 DEF RunStep
<1>5. ASSUME NEW t \in Threads,
             SendAccepted(t) \/ SendRefused(t) \/ SendUnconfirmed(t)
      PROVE  AnnouncedInv'
    BY <1>5 DEF SendAccepted, SendRefused, SendUnconfirmed, Announce, EndMessage,
                Goto
<1>6. CASE Restart
    BY <1>6 DEF Restart
<1>7. CASE UNCHANGED vars
    BY <1>7 DEF vars
<1> QED
    BY <1>1, <1>2, <1>3, <1>4, <1>5, <1>6, <1>7 DEF Next

-----------------------------------------------------------------------------
(* The watcher repeats itself only about keys that were taken from it *)

RepeatInv == ToldInv /\ RepeatsAreOfDroppedKeys

LEMMA StepRepeat ==
    TypeOK /\ MessageInv /\ RepeatInv /\ [Next]_vars => RepeatInv'
<1> SUFFICES ASSUME TypeOK, MessageInv, RepeatInv, [Next]_vars
             PROVE  RepeatInv'
    OBVIOUS
<1> USE AgentAssumption
    DEF AgentAssumption, TypeOK, Threads, RepeatInv, ToldInv,
        RepeatsAreOfDroppedKeys, Repeated
<1>1. ASSUME NEW s \in Services, NEW x \in Risks, Change(s, x)
      PROVE  RepeatInv'
    <2>1. told' \subseteq CurrentRisks'
        <3> SUFFICES ASSUME NEW y \in told'
                     PROVE  y \in CurrentRisks'
            OBVIOUS
        <3>1. PICK v \in Services : y = current[v]
            BY <1>1 DEF Change, CurrentRisks
        <3>2. current'[v] = y
            BY <1>1, <3>1 DEF Change
        <3> QED
            BY <3>2 DEF CurrentRisks
    <2> QED
        BY <1>1, <2>1 DEF Change
<1>2. CASE WatcherReads
    BY <1>2 DEF WatcherReads, ReadItems, Goto, CurrentRisks
<1>3. ASSUME NEW t \in Threads, ApiReads(t)
      PROVE  RepeatInv'
    BY <1>3 DEF ApiReads, ReadItems, Goto, CurrentRisks
<1>4. ASSUME NEW t \in Threads, RunStep(t)
      PROVE  RepeatInv'
    <2>0. CurrentRisks' = CurrentRisks
        BY <1>4 DEF RunStep, ForgetKeys, SkipMessage, ComposeMessage, Remember,
                    Trigger, EndTriggers, CurrentRisks
    <2>1. CASE ForgetKeys(t)
        BY <2>0, <2>1 DEF ForgetKeys, SetKeys, Goto
    <2>2. CASE SkipMessage(t)
        BY <2>0, <2>2 DEF SkipMessage, Goto
    <2>3. ASSUME NEW d \in BOOLEAN, ComposeMessage(t, d)
          PROVE  RepeatInv'
        BY <2>0, <2>3 DEF ComposeMessage, NewItems, Dedupes, Goto
    <2>4. CASE Remember(t)
        <3>1. CASE t = Watcher
            <4>1. keys' = candidates[Watcher] /\ dropped' = {}
                BY <2>4, <3>1 DEF Remember, SetKeys, KeysOf
            <4>2. told' \subseteq candidates[Watcher] /\ told' \subseteq CurrentRisks
                <5>1. told' = told \cup (fresh[Watcher] \cap CurrentRisks)
                    BY <2>4, <3>1 DEF Remember
                <5>2. pc[Watcher] = "remember"
                    BY <2>4, <3>1 DEF Remember, Goto
                <5>3. fresh[Watcher] \subseteq candidates[Watcher]
                    BY <5>2 DEF MessageInv
                <5> QED
                    BY <5>1, <5>2, <5>3
            <4>3. pc'[Watcher] = "trigger" /\ dedupe'[Watcher]
                BY <2>4, <3>1 DEF Remember, EndMessage, Goto
            <4>4. \A y \in told' : AtLeast(y, MinRisk)
                BY <2>4, <3>1, <4>2 DEF Remember, Goto
            <4> QED
                BY <2>0, <4>1, <4>2, <4>3, <4>4
        <3>2. CASE t # Watcher
            BY <2>0, <2>4, <3>2 DEF Remember, SetKeys, KeysOf, EndMessage, Goto
        <3> QED
            BY <3>1, <3>2
    <2>5. ASSUME NEW x \in Risks, Trigger(t, x)
          PROVE  RepeatInv'
        BY <2>0, <2>5 DEF Trigger
    <2>6. CASE EndTriggers(t)
        BY <2>0, <2>6 DEF EndTriggers, Goto
    <2> QED
        BY <1>4, <2>1, <2>2, <2>3, <2>4, <2>5, <2>6 DEF RunStep
<1>5. ASSUME NEW t \in Threads,
             SendAccepted(t) \/ SendRefused(t) \/ SendUnconfirmed(t)
      PROVE  RepeatInv'
    BY <1>5 DEF SendAccepted, SendRefused, SendUnconfirmed, EndMessage, Goto,
                CurrentRisks
<1>6. CASE Restart
    BY <1>6 DEF Restart
<1>7. CASE UNCHANGED vars
    BY <1>7 DEF vars, CurrentRisks
<1> QED
    BY <1>1, <1>2, <1>3, <1>4, <1>5, <1>6, <1>7 DEF Next

-----------------------------------------------------------------------------
(* Inspections are lost to faults only *)

LEMMA StepInspections ==
    /\ TypeOK
    /\ MessageInv
    /\ InspectionsAreLostToFaultsOnly
    /\ [Next]_vars
    => InspectionsAreLostToFaultsOnly'
<1> SUFFICES ASSUME TypeOK, MessageInv, InspectionsAreLostToFaultsOnly,
                    [Next]_vars, faults' = 0,
                    NEW x \in announced' \cap UnderPredicted,
                    AtLeast(x, RcaMinRisk)
             PROVE  \/ x \in triggered'
                    \/ \E t \in Threads :
                            \/ x \in todo'[t]
                            \/ pc'[t] = "remember" /\ x \in fresh'[t]
    BY DEF InspectionsAreLostToFaultsOnly, AtLeast
<1> DEFINE Kept == \/ x \in triggered
                   \/ \E t \in Threads :
                        \/ x \in todo[t]
                        \/ pc[t] = "remember" /\ x \in fresh[t]
<1> USE AgentAssumption DEF AgentAssumption, TypeOK
<1>1. faults = 0 /\ ~Restart /\ \A t \in Threads : ~SendUnconfirmed(t)
    <2>1. ~Fault
        BY DEF Fault
    <2>2. ~Restart /\ \A t \in Threads : ~SendUnconfirmed(t)
        BY <2>1 DEF Restart, SendUnconfirmed
    <2>3. faults' = faults
        BY <2>1, <2>2
           DEF Next, vars, Change, WatcherReads, ApiReads, ReadItems, RunStep,
               ForgetKeys, SkipMessage, ComposeMessage, Remember, Trigger,
               EndTriggers, SendAccepted, SendRefused
    <2> QED
        BY <2>2, <2>3
<1>2. x \in announced => Kept
    BY <1>1 DEF InspectionsAreLostToFaultsOnly
<1>3. ASSUME NEW s \in Services, NEW y \in Risks, Change(s, y)
      PROVE  Kept'
    BY <1>2, <1>3 DEF Change
<1>4. CASE WatcherReads
    BY <1>2, <1>4 DEF WatcherReads, ReadItems, Goto, Threads
<1>5. ASSUME NEW t \in Threads, ApiReads(t)
      PROVE  Kept'
    BY <1>2, <1>5 DEF ApiReads, ReadItems, Goto
<1>6. ASSUME NEW t \in Threads, RunStep(t)
      PROVE  Kept'
    <2>1. CASE ForgetKeys(t)
        BY <1>2, <2>1 DEF ForgetKeys, Goto
    <2>2. CASE SkipMessage(t)
        BY <1>2, <2>2 DEF SkipMessage, Goto
    <2>3. ASSUME NEW d \in BOOLEAN, ComposeMessage(t, d)
          PROVE  Kept'
        BY <1>2, <2>3 DEF ComposeMessage, Goto
    <2>4. CASE Remember(t)
        <3>1. pc[t] = "remember" /\ x \in fresh[t] => x \in todo'[t]
            BY <2>4 DEF Remember, SelectRcaTriggerItems
        <3>2. \A u \in Threads \ {t} :
                /\ todo'[u] = todo[u]
                /\ pc'[u] = pc[u]
                /\ fresh'[u] = fresh[u]
            BY <2>4 DEF Remember, EndMessage, Goto
        <3>3. x \in announced /\ triggered' = triggered
            BY <2>4 DEF Remember
        <3>4. CASE x \in triggered
            BY <3>3, <3>4
        <3>5. ASSUME NEW u \in Threads,
                     x \in todo[u] \/ (pc[u] = "remember" /\ x \in fresh[u])
              PROVE  Kept'
            <4>1. CASE u = t
                BY <2>4, <3>1, <3>5, <4>1 DEF Remember, Goto, MessageInv
            <4>2. CASE u # t
                BY <3>2, <3>5, <4>2
            <4> QED
                BY <4>1, <4>2
        <3> QED
            BY <1>2, <3>3, <3>4, <3>5
    <2>5. ASSUME NEW y \in Risks, Trigger(t, y)
          PROVE  Kept'
        BY <1>2, <2>5, <1>1 DEF Trigger, Fault
    <2>6. CASE EndTriggers(t)
        BY <1>2, <2>6 DEF EndTriggers, Goto
    <2> QED
        BY <1>6, <2>1, <2>2, <2>3, <2>4, <2>5, <2>6 DEF RunStep
<1>7. ASSUME NEW t \in Threads, SendAccepted(t)
      PROVE  Kept'
    BY <1>2, <1>7 DEF SendAccepted, Announce, Goto
<1>8. ASSUME NEW t \in Threads, SendRefused(t)
      PROVE  Kept'
    BY <1>2, <1>8 DEF SendRefused, EndMessage, Goto
<1>9. CASE UNCHANGED vars
    BY <1>2, <1>9 DEF vars
<1> QED
    BY <1>1, <1>3, <1>4, <1>5, <1>6, <1>7, <1>8, <1>9 DEF Next

-----------------------------------------------------------------------------
(* Theorems *)

LEMMA AgentInvariance == Spec => []AgentInv
<1>1. AgentInv /\ [Next]_vars => AgentInv'
    BY StepTypeOK, StepAnnounced, StepRepeat, StepInspections
       DEF AgentInv, AnnouncedInv, RepeatInv
<1> QED
    BY InitAgent, <1>1, PTL DEF Spec

\* The keys and the runs of the threads have their types, whatever is restarted.
THEOREM AgentTypeCorrect == Spec => []TypeOK
BY AgentInvariance, PTL DEF AgentInv

\* What a process takes for announced was accepted by Slack, whichever threads
\* replace and clear the keys between each other's steps (agent.py 110-117).
THEOREM KeysWereSentHolds == Spec => []KeysWereSent
BY AgentInvariance, PTL DEF AgentInv, AnnouncedInv

\* The SRE agent inspects a service only after the message about it was
\* accepted (agent.py 110-126).
THEOREM InspectionFollowsMessageHolds == Spec => []InspectionFollowsMessage
BY AgentInvariance, PTL DEF AgentInv, AnnouncedInv

\* Without a lost answer, a failed inspection or a restart, each announced
\* under-prediction is inspected or about to be (agent.py 110-126).
THEOREM InspectionsAreLostToFaultsOnlyHolds ==
    Spec => []InspectionsAreLostToFaultsOnly
BY AgentInvariance, PTL DEF AgentInv

\* The watcher repeats an unchanged risk only if an API run has dropped its key
\* (agent.py 176-185).
THEOREM RepeatsAreOfDroppedKeysHolds == Spec => []RepeatsAreOfDroppedKeys
BY AgentInvariance, PTL DEF AgentInv
=============================================================================
