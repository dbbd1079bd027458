------------------------ MODULE PredictiveSlackAgent ------------------------
(***************************************************************************)
(* The predictive scaling Slack agent (prediction_scaling/agent.py): a run *)
(* reads the scaling status of the services, announces the risks that were *)
(* not announced yet in one Slack message, and has the SRE agent inspect   *)
(* the services it announced as under-predicted.                           *)
(*                                                                         *)
(* What was announced is a set of keys in the memory of the service, which *)
(* the watcher thread and the API threads of a process share.  The set is  *)
(* looked at and replaced under a lock, but the lock is not held across    *)
(* the message in between.  The module models one process: each replica    *)
(* has a set of its own and announces everything for itself.               *)
(***************************************************************************)
EXTENDS Naturals, FiniteSets

CONSTANTS
    Watcher,        \* the PredictiveScalingSlackWatcher thread
    ApiThreads,     \* threads serving POST /prediction-scaling/slack-agent/run
    Services,       \* services with a prediction
    Risks,          \* what build_notification_key tells apart
    ServiceOf,      \* the service of each risk
    Level,          \* its risk_level
    UnderPredicted, \* the risks whose prediction_match_status says so
    MinRisk,        \* PREDICTION_SCALING_SLACK_MIN_RISK
    RcaMinRisk,     \* PREDICTION_SCALING_RCA_TRIGGER_MIN_RISK
    MaxFaults       \* bound on the faults of a behaviour

Threads == {Watcher} \cup ApiThreads

RiskOrder == [low |-> 0, medium |-> 1, high |-> 2]

AtLeast(x, level) == RiskOrder[Level[x]] >= RiskOrder[level]

ASSUME AgentAssumption ==
    /\ Watcher \notin ApiThreads
    /\ ServiceOf \in [Risks -> Services]
    /\ Level \in [Risks -> DOMAIN RiskOrder]
    /\ UnderPredicted \subseteq Risks
    /\ {MinRisk, RcaMinRisk} \subseteq DOMAIN RiskOrder
    /\ MaxFaults \in Nat

VARIABLES
    current,     \* the risk each service is at
    keys,        \* _sent_notification_keys
    pc,          \* where each thread is in run_once
    candidates,  \* the items over the threshold of a run
    fresh,       \* those of them the run announces
    dedupe,      \* whether the run deduplicates
    todo,        \* the announced items an inspection is still to be run for
    announced,   \* the risks Slack has accepted a message about
    told,        \* history: announced by the watcher, and current ever since
    dropped,     \* history: keys an API run took from the set since the
                 \* watcher last stored its own
    triggered,   \* the risks an inspection was run for
    faults       \* lost answers, failed inspections and restarts

vars == <<current, keys, pc, candidates, fresh, dedupe, todo, announced, told,
          dropped, triggered, faults>>

TypeOK ==
    /\ current \in [Services -> Risks]
    /\ keys \in SUBSET Risks
    /\ pc \in [Threads -> {"idle", "decide", "send", "remember", "trigger"}]
    /\ candidates \in [Threads -> SUBSET Risks]
    /\ fresh \in [Threads -> SUBSET Risks]
    /\ dedupe \in [Threads -> BOOLEAN]
    /\ todo \in [Threads -> SUBSET Risks]
    /\ announced \in SUBSET Risks
    /\ told \in SUBSET Risks
    /\ dropped \in SUBSET Risks
    /\ triggered \in SUBSET Risks
    /\ faults \in 0 .. MaxFaults

Init ==
    /\ current \in {c \in [Services -> Risks] :
                        \A s \in Services : ServiceOf[c[s]] = s}
    /\ keys = {}
    /\ pc = [t \in Threads |-> "idle"]
    /\ candidates = [t \in Threads |-> {}]
    /\ fresh = [t \in Threads |-> {}]
    /\ dedupe = [t \in Threads |-> TRUE]
    /\ todo = [t \in Threads |-> {}]
    /\ announced = {}
    /\ told = {}
    /\ dropped = {}
    /\ triggered = {}
    /\ faults = 0

Fault ==
    /\ faults < MaxFaults
    /\ faults' = faults + 1

Goto(t, from, to) ==
    /\ pc[t] = from
    /\ pc' = [pc EXCEPT ![t] = to]

\* A new prediction, or other live metrics.
Change(s, x) ==
    /\ ServiceOf[x] = s
    /\ x # current[s]
    /\ current' = [current EXCEPT ![s] = x]
    /\ told' = told \ {current[s]}
    /\ UNCHANGED <<keys, pc, candidates, fresh, dedupe, todo, announced,
                   dropped, triggered, faults>>

-----------------------------------------------------------------------------
(* run_once *)

\* select_notifiable_items over the items read from the database.
ReadItems(t, items, minRisk) ==
    /\ Goto(t, "idle", "decide")
    /\ candidates' = [candidates EXCEPT ![t] =
                          {x \in items : AtLeast(x, minRisk)}]
    /\ UNCHANGED <<current, keys, fresh, dedupe, todo, announced, told,
                   dropped, triggered, faults>>

CurrentRisks == {current[s] : s \in Services}

\* The watcher looks at every service, with the configured threshold.
WatcherReads == ReadItems(Watcher, CurrentRisks, MinRisk)

\* A request names a service or none, and a threshold.  Its horizon and its
\* include flags choose the prediction and the live values that make the key,
\* so that another key of the same service may come out.
ApiReads(t) ==
    /\ t \in ApiThreads
    /\ \E scope \in {Services} \cup {{s} : s \in Services} :
       \E view \in [scope -> Risks] :
       \E minRisk \in DOMAIN RiskOrder :
            /\ \A s \in scope : ServiceOf[view[s]] = s
            /\ ReadItems(t, {view[s] : s \in scope}, minRisk)

\* The keys are replaced under the lock.
SetKeys(t, new) ==
    /\ keys' = new
    /\ dropped' = IF t = Watcher THEN {} ELSE dropped \cup (keys \ new)

\* Without a candidate every key is forgotten, whatever the run looked at.
ForgetKeys(t) ==
    /\ candidates[t] = {}
    /\ Goto(t, "decide", "idle")
    /\ SetKeys(t, {})
    /\ UNCHANGED <<current, candidates, fresh, dedupe, todo, announced, told,
                   triggered, faults>>

\* A request may switch deduplication off; the watcher never does.
Dedupes(t, d) == t = Watcher => d

NewItems(t, d) == IF d THEN candidates[t] \ keys ELSE candidates[t]

\* Nothing new; or, for a request, notify is false: no message.
SkipMessage(t) ==
    /\ candidates[t] # {}
    /\ t = Watcher => NewItems(t, TRUE) = {}
    /\ Goto(t, "decide", "idle")
    /\ candidates' = [candidates EXCEPT ![t] = {}]
    /\ UNCHANGED <<current, keys, fresh, dedupe, todo, announced, told,
                   dropped, triggered, faults>>

\* Mutant: the keys are stored when the message is composed.
RememberEarly(t, d) ==
    /\ Dedupes(t, d)
    /\ NewItems(t, d) # {}
    /\ Goto(t, "decide", "send")
    /\ fresh' = [fresh EXCEPT ![t] = NewItems(t, d)]
    /\ dedupe' = [dedupe EXCEPT ![t] = d]
    /\ SetKeys(t, candidates[t])
    /\ UNCHANGED <<current, candidates, todo, announced, told, triggered,
                   faults>>

\* _filter_new_notification_keys, under the lock.
ComposeMessage(t, d) ==
    /\ Dedupes(t, d)
    /\ NewItems(t, d) # {}
    /\ Goto(t, "decide", "send")
    /\ fresh' = [fresh EXCEPT ![t] = NewItems(t, d)]
    /\ dedupe' = [dedupe EXCEPT ![t] = d]
    /\ UNCHANGED <<current, keys, candidates, todo, announced, told, dropped,
                   triggered, faults>>

\* Slack accepts the message.
Announce(t) == announced' = announced \cup fresh[t]

SendAccepted(t) ==
    /\ Goto(t, "send", "remember")
    /\ Announce(t)
    /\ UNCHANGED <<current, keys, candidates, fresh, dedupe, todo, told,
                   dropped, triggered, faults>>

\* The message is off the mind of the run.
EndMessage(t) ==
    /\ candidates' = [candidates EXCEPT ![t] = {}]
    /\ fresh' = [fresh EXCEPT ![t] = {}]
    /\ dedupe' = [dedupe EXCEPT ![t] = TRUE]

\* Mutant: a refused message is logged and the run goes on.
GoOnUnsent(t) ==
    /\ Goto(t, "send", "remember")
    /\ UNCHANGED <<current, keys, candidates, fresh, dedupe, todo, announced,
                   told, dropped, triggered, faults>>

SendRefused(t) ==
    /\ Goto(t, "send", "idle")
    /\ EndMessage(t)
    /\ UNCHANGED <<current, keys, todo, announced, told, dropped, triggered,
                   faults>>

\* Slack accepts the message, and the answer does not arrive in time.
SendUnconfirmed(t) ==
    /\ Goto(t, "send", "idle")
    /\ Fault
    /\ Announce(t)
    /\ EndMessage(t)
    /\ UNCHANGED <<current, keys, todo, told, dropped, triggered>>

\* Mutant: strictly above the threshold.
SelectAboveThreshold(items) ==
    {x \in items \cap UnderPredicted :
        RiskOrder[Level[x]] > RiskOrder[RcaMinRisk]}

\* select_rca_trigger_items
SelectRcaTriggerItems(items) ==
    {x \in items \cap UnderPredicted : AtLeast(x, RcaMinRisk)}

\* Mutant: only the new items are remembered.
FreshKeys(t) == fresh[t]

\* Mutant: the key is the name of the service.
ServiceKeys(t) == {ServiceOf[x] : x \in candidates[t]}

\* The keys a run stores: of its candidates, announced just now or before.
KeysOf(t) == candidates[t]

\* _replace_notification_keys: no other keys stay.  What another run has stored
\* meanwhile is gone, and so are the services this run did not look at.
Remember(t) ==
    /\ Goto(t, "remember", "trigger")
    /\ IF dedupe[t] THEN SetKeys(t, KeysOf(t)) ELSE UNCHANGED <<keys, dropped>>
    /\ told' = IF t = Watcher THEN told \cup (fresh[t] \cap CurrentRisks)
                              ELSE told
    /\ todo' = [todo EXCEPT ![t] = SelectRcaTriggerItems(fresh[t])]
    /\ EndMessage(t)
    /\ UNCHANGED <<current, announced, triggered, faults>>

\* _trigger_sre_rca runs one inspection after the other; one that raises is
\* logged and skipped.
Trigger(t, x) ==
    /\ pc[t] = "trigger"
    /\ x \in todo[t]
    /\ todo' = [todo EXCEPT ![t] = @ \ {x}]
    /\ \/ triggered' = triggered \cup {x} /\ UNCHANGED faults
       \/ Fault /\ UNCHANGED triggered
    /\ UNCHANGED <<current, keys, pc, candidates, fresh, dedupe, announced,
                   told, dropped>>

EndTriggers(t) ==
    /\ todo[t] = {}
    /\ Goto(t, "trigger", "idle")
    /\ UNCHANGED <<current, keys, candidates, fresh, dedupe, todo, announced,
                   told, dropped, triggered, faults>>

\* The process restarts: its threads and the keys are gone.
Restart ==
    /\ Fault
    /\ keys' = {}
    /\ pc' = [t \in Threads |-> "idle"]
    /\ candidates' = [t \in Threads |-> {}]
    /\ fresh' = [t \in Threads |-> {}]
    /\ dedupe' = [t \in Threads |-> TRUE]
    /\ todo' = [t \in Threads |-> {}]
    /\ told' = {}
    /\ dropped' = {}
    /\ UNCHANGED <<current, announced, triggered>>

-----------------------------------------------------------------------------
(* Specification *)

\* What a thread does after it has read, Slack's refusals and faults apart.
RunStep(t) ==
    \/ ForgetKeys(t)
    \/ SkipMessage(t)
    \/ \E d \in BOOLEAN : ComposeMessage(t, d)
    \/ Remember(t)
    \/ \E x \in Risks : Trigger(t, x)
    \/ EndTriggers(t)

Next ==
    \/ \E s \in Services : \E x \in Risks : Change(s, x)
    \/ WatcherReads
    \/ \E t \in Threads : \/ ApiReads(t)
                          \/ RunStep(t)
                          \/ SendAccepted(t)
                          \/ SendRefused(t)
                          \/ SendUnconfirmed(t)
    \/ Restart

Spec == Init /\ [][Next]_vars

\* The watcher loop goes on forever; a message that is tried again and again is
\* accepted some day.  A request under way goes on, and none has to come.
Fairness ==
    /\ WF_vars(WatcherReads)
    /\ \A t \in Threads : /\ WF_vars(RunStep(t))
                          /\ WF_vars(SendAccepted(t) \/ SendRefused(t))
                          /\ SF_vars(SendAccepted(t))

FairSpec == Spec /\ Fairness

-----------------------------------------------------------------------------
(* Properties *)

\* What is remembered was announced: a risk that Slack refused, or that a dry
\* run has shown, is not taken for a duplicate later, whichever threads replace
\* and clear the keys meanwhile (agent.py 115-117 and 182-185).
KeysWereSent == keys \subseteq announced

\* An inspection follows a message: the SRE agent is never sent to a service
\* whose risk was not announced.
InspectionFollowsMessage == triggered \subseteq announced

\* An announced under-prediction is inspected unless a fault has intervened: no
\* deduplication, overlap or change of the status loses it, although the keys
\* are stored before the inspection is run.
InspectionsAreLostToFaultsOnly ==
    faults = 0 =>
        \A x \in announced \cap UnderPredicted : AtLeast(x, RcaMinRisk) =>
            \/ x \in triggered
            \/ \E t \in Threads : \/ x \in todo[t]
                                  \/ pc[t] = "remember" /\ x \in fresh[t]

\* Risks the watcher is about to announce again although it has announced them
\* and they have been current ever since.
Repeated == IF pc[Watcher] = "send" THEN fresh[Watcher] \cap told ELSE {}

\* The watcher repeats itself only about keys that an API run has taken from
\* the set since the watcher last stored it.
RepeatsAreOfDroppedKeys == Repeated \subseteq dropped

\* "Current predictive scaling risk was already notified"
\* (tests/test_predictive_scaling_slack_agent.py 307): the watcher does not
\* announce an unchanged risk again.
UnchangedRiskIsNotRepeated == Repeated = {}

\* A risk over the threshold that stays is announced, whatever API runs do to
\* the keys, and although Slack refuses messages.
LastingRiskIsAnnounced ==
    \A x \in Risks :
        <>[](current[ServiceOf[x]] = x /\ AtLeast(x, MinRisk))
            => <>(x \in announced)
=============================================================================
