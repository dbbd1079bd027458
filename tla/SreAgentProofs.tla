--------------------------- MODULE SreAgentProofs ----------------------------
(***************************************************************************)
(* The messages of the SRE agent, for any number of passes, any requests   *)
(* and worlds, and any number of faults.  The key of an analysis contains  *)
(* its run, and no two passes have a run in common: a row with the run of  *)
(* a pass is made SENT by that pass only, after its message.               *)
(*                                                                         *)
(* Then what an alert is taken for, for any alert and any answers of the   *)
(* tools: the phrase the triage writes hits the rule of its intent, so the *)
(* planner stops at that rule or before it; and the cause an alert points  *)
(* to is certain, so that at most one candidate is ranked before it.       *)
(***************************************************************************)
EXTENDS SreAgent, FiniteSetTheorems, TLAPS

\* Before the analysis a pass has no run and reports nothing of one.
BeforeAnalysis(t) ==
  /\ at[t] \in {"idle", "collect", "summarize", "analyze"} => stage[t] = "sre_collection"
  /\ stage[t] = "sre_collection" => result[t]["sre_analysis"] = "none"

PassTypeOK ==
  /\ at \in [Threads -> Steps]
  /\ stage \in [Threads -> Stages]
  /\ run \in [Threads -> Threads \cup {None}]
  /\ result \in [Threads -> [Stages -> {"none", "SENT", "FAILED", "SKIPPED"}]]

RunsAreOwn == \A t \in Threads : run[t] \in {None, t}

PassesAreInOrder == \A t \in Threads : BeforeAnalysis(t)

\* A pass that is about to write SENT has told its message.
MarksFollowMessages ==
  \A t \in Threads : at[t] = "mark_sent" => <<stage[t], t>> \in channel

\* A row with the run of a pass is SENT only when its analysis was told.
SentRowsAreTold ==
  \A k \in DOMAIN rows : \A t \in Threads :
    (k[4] = t /\ rows[k] = "SENT") => <<"sre_analysis", t>> \in channel

ToldInv ==
  \A t \in Threads :
    (run[t] # None /\ result[t]["sre_analysis"] = "SENT") => <<"sre_analysis", t>> \in channel

SreInv == /\ PassTypeOK /\ RunsAreOwn /\ PassesAreInOrder
          /\ MarksFollowMessages /\ SentRowsAreTold /\ ToldInv

\* The key of a pass has a run in it only when it is that of its own analysis.
LEMMA KeyOfRun ==
  ASSUME SreInv, NEW t \in Threads, NEW u \in Threads, Key(t)[4] = u
  PROVE  u = t /\ stage[t] = "sre_analysis" /\ run[t] = t
<1>1. stage[t] \in Stages /\ run[t] \in {None, t} /\ None \notin Threads
  BY SreAssumption DEF SreInv, PassTypeOK, RunsAreOwn
<1>2. Key(t)[4] = IF stage[t] = "sre_analysis" THEN run[t] ELSE None
  BY DEF Key, IdempotencyKey
<1>. QED
  BY <1>1, <1>2

\* No pass has begun and the outbox is empty.
LEMMA InitInv == SreInit => SreInv
<1> SUFFICES ASSUME SreInit PROVE SreInv
  OBVIOUS
<1>1. PassTypeOK
  BY DEF SreInit, PassTypeOK, Steps, Stages
<1>2. RunsAreOwn /\ PassesAreInOrder /\ MarksFollowMessages /\ ToldInv
  BY DEF SreInit, RunsAreOwn, PassesAreInOrder, BeforeAnalysis, MarksFollowMessages,
         ToldInv, Stages
<1>3. SentRowsAreTold
  BY DEF SreInit, SentRowsAreTold
<1>. QED
  BY <1>1, <1>2, <1>3 DEF SreInv

\* A step that moves a pass, reports nothing, writes no row as SENT and loses no message
\* preserves the invariant, when the pass is not about to write SENT without a message.
LEMMA MoveInv ==
  ASSUME SreInv, NEW t \in Threads, NEW step \in Steps, Goto(t, step),
         stage' = stage, run' = run, result' = result, channel \subseteq channel',
         \A k \in DOMAIN rows' :
           rows'[k] = "SENT" => k \in DOMAIN rows /\ rows[k] = "SENT",
         step = "mark_sent" => <<stage[t], t>> \in channel',
         step \in {"idle", "collect", "summarize", "analyze"} =>
           stage[t] = "sre_collection"
  PROVE  SreInv'
<1>1. /\ at' \in [Threads -> Steps]
      /\ \A u \in Threads : at'[u] = IF u = t THEN step ELSE at[u]
  BY DEF Goto, SreInv, PassTypeOK
<1>2. PassTypeOK' /\ RunsAreOwn'
  BY <1>1 DEF SreInv, PassTypeOK, RunsAreOwn
<1>3. PassesAreInOrder'
  BY <1>1 DEF SreInv, PassesAreInOrder, BeforeAnalysis
<1>4. MarksFollowMessages'
  BY <1>1 DEF SreInv, MarksFollowMessages
<1>5. SentRowsAreTold' /\ ToldInv'
  BY DEF SreInv, SentRowsAreTold, ToldInv
<1>. QED
  BY <1>2, <1>3, <1>4, <1>5 DEF SreInv

\* A step that ends the delivery of a message with a report preserves the invariant, when
\* SENT is reported of an analysis with a run, and written of its key, only with the
\* message told.
LEMMA ReportInv ==
  ASSUME SreInv, NEW t \in Threads, NEW status \in {"SENT", "FAILED", "SKIPPED"},
         Report(t, status), Go_on(t), at[t] \in {"create", "mark_sent", "mark_failed"},
         stage' = stage, run' = run, channel' = channel,
         \A k \in DOMAIN rows' : rows'[k] = "SENT" =>
           \/ k \in DOMAIN rows /\ rows[k] = "SENT"
           \/ k = Key(t) /\ <<stage[t], t>> \in channel,
         (status = "SENT" /\ stage[t] = "sre_analysis" /\ run[t] # None) =>
           <<"sre_analysis", t>> \in channel
  PROVE  SreInv'
<1>1. stage[t] \in Stages
  BY DEF SreInv, PassTypeOK
<1>2. PICK step \in {"analyze", "done"} :
        /\ Goto(t, step)
        /\ step = "analyze" <=> stage[t] = "sre_collection"
  BY DEF Go_on
<1>3. /\ at' \in [Threads -> Steps]
      /\ \A u \in Threads : at'[u] = IF u = t THEN step ELSE at[u]
  BY <1>2 DEF Goto, SreInv, PassTypeOK, Steps
<1>4. /\ result' \in [Threads -> [Stages -> {"none", "SENT", "FAILED", "SKIPPED"}]]
      /\ \A u \in Threads : u # t => result'[u] = result[u]
      /\ result'[t]["sre_analysis"] =
           IF stage[t] = "sre_analysis" THEN status ELSE result[t]["sre_analysis"]
  BY <1>1 DEF Report, SreInv, PassTypeOK, Stages
<1>5. PassTypeOK' /\ RunsAreOwn'
  BY <1>3, <1>4 DEF SreInv, PassTypeOK, RunsAreOwn
<1>6. PassesAreInOrder'
  <2>1. \A u \in Threads \ {t} : BeforeAnalysis(u)'
    BY <1>3, <1>4 DEF SreInv, PassesAreInOrder, BeforeAnalysis
  <2>2. BeforeAnalysis(t)'
    BY <1>2, <1>3, <1>4 DEF SreInv, PassesAreInOrder, BeforeAnalysis
  <2>. QED
    BY <2>1, <2>2 DEF PassesAreInOrder
<1>7. MarksFollowMessages'
  BY <1>3 DEF SreInv, MarksFollowMessages
<1>8. SentRowsAreTold'
  <2> SUFFICES ASSUME NEW k \in DOMAIN rows', NEW u \in Threads, k[4] = u,
                      rows'[k] = "SENT"
               PROVE  <<"sre_analysis", u>> \in channel
    BY DEF SentRowsAreTold
  <2>1. CASE k \in DOMAIN rows /\ rows[k] = "SENT"
    BY <2>1 DEF SreInv, SentRowsAreTold
  <2>2. CASE k = Key(t) /\ <<stage[t], t>> \in channel
    BY <2>2, KeyOfRun
  <2>. QED
    BY <2>1, <2>2
<1>9. ToldInv'
  BY <1>4 DEF SreInv, ToldInv, PassesAreInOrder, BeforeAnalysis
<1>. QED
  BY <1>5, <1>6, <1>7, <1>8, <1>9 DEF SreInv

\* Every step of every pass preserves the invariant.
LEMMA NextInv == SreInv /\ [SreNext]_sreVars => SreInv'
<1> SUFFICES ASSUME SreInv, [SreNext]_sreVars PROVE SreInv'
  OBVIOUS
<1>0. CASE UNCHANGED sreVars
  BY <1>0 DEF sreVars, passVars, SreInv, PassTypeOK, RunsAreOwn, PassesAreInOrder,
              BeforeAnalysis, MarksFollowMessages, SentRowsAreTold, ToldInv
<1>a. ASSUME NEW t \in Threads, Pass(t) PROVE SreInv'
  <2>0. at[t] \in Steps /\ stage[t] \in Stages
    BY DEF SreInv, PassTypeOK
  <2>1. CASE Receive(t)
    <3>1. PICK step \in {"collect", "done"} : Goto(t, step)
      BY <2>1 DEF Receive
    <3>2. stage[t] = "sre_collection"
      BY <2>1 DEF Receive, SreInv, PassesAreInOrder, BeforeAnalysis
    <3>. QED
      BY <2>1, <3>1, <3>2, MoveInv DEF Receive, Steps
  <2>2. CASE Collect(t)
    <3>1. PICK step \in {"summarize", "create", "done"} : Goto(t, step)
      BY <2>2 DEF Collect
    <3>2. stage[t] = "sre_collection"
      BY <2>2 DEF Collect, SreInv, PassesAreInOrder, BeforeAnalysis
    <3>. QED
      BY <2>2, <3>1, <3>2, MoveInv DEF Collect, Steps
  <2>3. CASE Summarize(t)
    <3>1. PICK step \in {"analyze", "done"} : Goto(t, step)
      BY <2>3 DEF Summarize
    <3>2. stage[t] = "sre_collection"
      BY <2>3 DEF Summarize, SreInv, PassesAreInOrder, BeforeAnalysis
    <3>3. channel \subseteq channel'
      BY <2>3 DEF Summarize
    <3>. QED
      BY <2>3, <3>1, <3>2, <3>3, MoveInv DEF Summarize, Steps
  <2>4. CASE Create(t)
    <3>1. \A k \in DOMAIN rows' : rows'[k] = "SENT" => k \in DOMAIN rows /\ rows[k] = "SENT"
      <4>1. rows' = Put(Key(t), "PENDING") \/ rows' = rows
        BY <2>4 DEF Create
      <4>2. CASE rows' = Put(Key(t), "PENDING")
        <5>1. \A k \in DOMAIN rows' : rows'[k] = IF k = Key(t) THEN "PENDING" ELSE rows[k]
          BY <4>2 DEF Put
        <5>2. DOMAIN rows' = DOMAIN rows \cup {Key(t)}
          BY <4>2 DEF Put
        <5>. QED
          BY <5>1, <5>2
      <4>. QED
        BY <4>1, <4>2
    <3>2. CASE SendStatus(Key(t)) = "SENT"
      <4>1. Key(t) \in DOMAIN rows /\ rows[Key(t)] = "SENT"
        BY <3>2 DEF SendStatus
      <4>2. stage[t] = "sre_analysis" /\ run[t] # None => Key(t)[4] = t
        BY DEF Key, IdempotencyKey, SreInv, RunsAreOwn
      <4>3. stage[t] = "sre_analysis" /\ run[t] # None => <<"sre_analysis", t>> \in channel
        BY <4>1, <4>2 DEF SreInv, SentRowsAreTold
      <4>4. Report(t, "SENT") /\ Go_on(t)
        BY <2>4, <3>2 DEF Create
      <4>5. /\ at[t] = "create" /\ stage' = stage /\ run' = run /\ channel' = channel
        BY <2>4 DEF Create
      <4>. QED
        BY <3>1, <4>3, <4>4, <4>5, ReportInv
    <3>3. CASE SendStatus(Key(t)) # "SENT"
      BY <2>4, <3>1, <3>3, MoveInv DEF Create, Steps
    <3>. QED
      BY <3>2, <3>3
  <2>5. CASE CreateSkipped(t)
    BY <2>5, ReportInv DEF CreateSkipped
  <2>6. CASE CreateFails(t)
    BY <2>6, ReportInv DEF CreateFails
  <2>7. CASE Send(t)
    BY <2>7, MoveInv DEF Send, Steps
  <2>8. CASE SendFails(t)
    <3>1. channel \subseteq channel'
      BY <2>8 DEF SendFails
    <3>. QED
      BY <2>8, <3>1, MoveInv DEF SendFails, Steps
  <2>9. CASE Mark(t)
    <3>1. PICK status \in {"SENT", "FAILED"} :
            /\ status = "SENT" <=> at[t] = "mark_sent"
            /\ Report(t, status)
            /\ rows' = Put(Key(t), status) \/ rows' = rows
      BY <2>9 DEF Mark
    <3>2. status = "SENT" => <<stage[t], t>> \in channel
      BY <3>1 DEF SreInv, MarksFollowMessages
    <3>3. \A k \in DOMAIN rows' : rows'[k] = "SENT" =>
            \/ k \in DOMAIN rows /\ rows[k] = "SENT"
            \/ k = Key(t) /\ <<stage[t], t>> \in channel
      <4>1. CASE rows' = Put(Key(t), status)
        <5>1. \A k \in DOMAIN rows' : rows'[k] = IF k = Key(t) THEN status ELSE rows[k]
          BY <4>1 DEF Put
        <5>2. DOMAIN rows' = DOMAIN rows \cup {Key(t)}
          BY <4>1 DEF Put
        <5>. QED
          BY <5>1, <5>2, <3>2
      <4>. QED
        BY <4>1, <3>1
    <3>. QED
      BY <2>9, <3>1, <3>2, <3>3, ReportInv DEF Mark
  <2>10. CASE Analyze(t)
    <3>1. /\ stage[t] = "sre_collection" /\ result[t]["sre_analysis"] = "none"
      BY <2>10 DEF Analyze, SreInv, PassesAreInOrder, BeforeAnalysis
    <3>2. /\ at' \in [Threads -> Steps] /\ stage' \in [Threads -> Stages]
          /\ run' \in [Threads -> Threads \cup {None}]
          /\ \A u \in Threads : /\ at'[u] = IF u = t THEN "create" ELSE at[u]
                                /\ stage'[u] = IF u = t THEN "sre_analysis" ELSE stage[u]
                                /\ run'[u] = run[u] \/ (u = t /\ run'[u] = t)
          /\ result' = result /\ rows' = rows /\ channel' = channel
      BY <2>10 DEF Analyze, Goto, SreInv, PassTypeOK, Steps, Stages
    <3>3. PassTypeOK' /\ RunsAreOwn'
      BY <3>2 DEF SreInv, PassTypeOK, RunsAreOwn
    <3>4. PassesAreInOrder' /\ MarksFollowMessages'
      BY <3>2 DEF SreInv, PassesAreInOrder, BeforeAnalysis, MarksFollowMessages
    <3>5. SentRowsAreTold' /\ ToldInv'
      BY <3>1, <3>2 DEF SreInv, SentRowsAreTold, ToldInv
    <3>. QED
      BY <3>3, <3>4, <3>5 DEF SreInv
  <2>11. CASE Lose(t)
    BY <2>11, MoveInv DEF Lose, Steps
  <2>. QED
    BY <1>a, <2>1, <2>2, <2>3, <2>4, <2>5, <2>6, <2>7, <2>8, <2>9, <2>10, <2>11 DEF Pass
<1>. QED
  BY <1>0, <1>a DEF SreNext

\* An analysis that was made and is reported as SENT is in the channel, for any number
\* of passes and faults, whatever alerts the passes share.
THEOREM AnalysesAreToldHolds == SreSpec => []AnalysesAreTold
<1>1. SreInv => AnalysesAreTold
  BY DEF SreInv, ToldInv, AnalysesAreTold
<1>. QED
  BY InitInv, NextInv, <1>1, PTL DEF SreSpec

\* --------------------------- what an alert is taken for ---------------------------
\* What the triage may take an alert for.
AlertIntents == {"routing_failure", "pod_crashloop", "db_hikaricp_issue",
  "sqs_publish_failure", "sqs_consume_failure", "pin_verification_missing",
  "checkout_500", "predictive_scaling_under_prediction", "general_incident"}

\* A nonempty set of rules has a first one.
LEMMA MinOfRules ==
  ASSUME NEW S \in SUBSET (1..10), S # {}
  PROVE  Min(S) \in S /\ \A x \in S : Min(S) <= x
<1>1. \E x \in S : \A y \in S : x <= y
  <2> SUFFICES ASSUME \A x \in S : \E y \in S : y < x PROVE FALSE
    OBVIOUS
  <2>1. 1 \notin S
    OBVIOUS
  <2>2. 2 \notin S /\ 3 \notin S
    BY <2>1
  <2>3. 4 \notin S /\ 5 \notin S
    BY <2>1, <2>2
  <2>4. 6 \notin S /\ 7 \notin S
    BY <2>1, <2>2, <2>3
  <2>5. 8 \notin S
    BY <2>1, <2>2, <2>3, <2>4
  <2>6. 9 \notin S
    BY <2>1, <2>2, <2>3, <2>4, <2>5
  <2>7. 10 \notin S
    BY <2>1, <2>2, <2>3, <2>4, <2>5, <2>6
  <2>8. \A x \in S : x \in 1..10 /\ x # 1 /\ x # 2 /\ x # 3 /\ x # 4 /\ x # 5 /\ x # 6 /\
                     x # 7 /\ x # 8 /\ x # 9 /\ x # 10
    BY <2>1, <2>2, <2>3, <2>4, <2>5, <2>6, <2>7
  <2>9. PICK x \in S : TRUE
    OBVIOUS
  <2>. QED
    BY <2>8, <2>9
<1>. QED
  BY <1>1 DEF Min

\* The triage takes every alert for one of the intents.
LEMMA AlertIntentIsKnown == ASSUME NEW alert PROVE infer_sre_intent(alert) \in AlertIntents
<1>1. CASE alert.name \in DOMAIN SRE_INTENT_BY_ALERT_NAME
  BY <1>1 DEF infer_sre_intent, SRE_INTENT_BY_ALERT_NAME, AlertIntents
<1>2. CASE alert.name \notin DOMAIN SRE_INTENT_BY_ALERT_NAME
  <2> DEFINE hits == {i \in DOMAIN SignalRules :
                        \A group \in SignalRules[i].groups : Has(SignalWords(alert), group)}
  <2>1. /\ DOMAIN SignalRules = 1..7
        /\ \A i \in 1..7 : SignalRules[i].intent \in AlertIntents
    BY DEF SignalRules, Rule, AlertIntents
  <2>2. hits \subseteq 1..7
    BY <2>1
  <2>3. infer_sre_intent(alert) =
          IF hits = {} THEN "general_incident" ELSE SignalRules[Min(hits)].intent
    BY <1>2 DEF infer_sre_intent, FirstMatch
  <2> HIDE DEF hits
  <2>4. hits # {} => Min(hits) \in 1..7
    <3>1. hits \in SUBSET (1..10)
      BY <2>2
    <3>. QED
      BY <2>2, <3>1, MinOfRules
  <2>. QED
    BY <2>1, <2>3, <2>4 DEF AlertIntents
<1>. QED
  BY <1>1, <1>2

\* The rules of the planner by their ranks.
LEMMA Ranks ==
  /\ DOMAIN SreRules = 1..10 /\ Len(SreRules) = 10
  /\ SreRules[1].groups = {{"mutating", "mutating_pod"}}
  /\ \A i \in 2..10 : SreRules[i].intent \notin {"greeting", "thanks", "help", "unsupported"}
  BY DEF SreRules, Rule

\* The first rule of an intent is at most as far down as any rule with it.
LEMMA RankOfRule ==
  ASSUME NEW i \in 1..10
  PROVE  RankOf(SreRules[i].intent) \in 1..10 /\ RankOf(SreRules[i].intent) <= i
<1> DEFINE rules == {j \in DOMAIN SreRules : SreRules[j].intent = SreRules[i].intent}
<1>1. rules \in SUBSET (1..10) /\ i \in rules
  BY Ranks
<1>2. RankOf(SreRules[i].intent) = Min(rules)
  BY <1>1 DEF RankOf
<1> HIDE DEF rules
<1>3. rules # {}
  BY <1>1
<1>4. PICK first \in 1..10 : first = Min(rules) /\ first <= i
  BY <1>1, <1>3, MinOfRules
<1>. QED
  BY <1>2, <1>4

\* The place of the first rule of each intent; the last place for an intent no rule has.
RankTable == [routing_failure |-> 2, pod_crashloop |-> 3, db_hikaricp_issue |-> 4,
  sqs_publish_failure |-> 5, sqs_consume_failure |-> 6, pin_verification_missing |-> 7,
  checkout_500 |-> 8, predictive_scaling_under_prediction |-> 10, general_incident |-> 10]

LEMMA RankOfIntent ==
  ASSUME NEW intent \in AlertIntents PROVE RankOf(intent) = RankTable[intent]
<1> DEFINE rules == {j \in DOMAIN SreRules : SreRules[j].intent = intent}
<1>1. rules = IF intent = "predictive_scaling_under_prediction" THEN {}
              ELSE IF intent = "pod_crashloop" THEN {3, 9} ELSE {RankTable[intent]}
  BY DEF SreRules, Rule, AlertIntents, RankTable
<1>2. RankOf(intent) = IF rules = {} THEN 10 ELSE Min(rules)
  BY Ranks DEF RankOf
<1>3. RankTable[intent] \in 1..10 /\ (intent = "pod_crashloop" => RankTable[intent] = 3)
      /\ (intent = "predictive_scaling_under_prediction" => RankTable[intent] = 10)
  BY DEF RankTable, AlertIntents
<1> HIDE DEF rules
<1>4. rules \in SUBSET (1..10)
  BY <1>1, <1>3
<1>5. rules # {} => (Min(rules) \in rules /\ \A x \in rules : Min(rules) <= x)
  BY <1>4, MinOfRules
<1>. QED
  BY <1>1, <1>2, <1>3, <1>5

\* The phrase the triage writes for an intent satisfies the rule of that intent.
LEMMA PhraseHitsRule ==
  ASSUME NEW alert, NEW M,
         IntentPhrase(infer_sre_intent(alert), alert) \cup {"alert"} \subseteq M
  PROVE  LET r == RankTable[infer_sre_intent(alert)]
         IN  \A group \in SreRules[r].groups : Has(M, group)
<1>1. PICK intent \in AlertIntents : intent = infer_sre_intent(alert)
  BY AlertIntentIsKnown
<1>2. IntentPhrase(intent, alert) \subseteq M /\ "alert" \in M
  BY <1>1
<1>. DEFINE r == RankTable[intent]
<1>3. CASE intent = "routing_failure"
  <2>1. "route" \in IntentPhrase(intent, alert)
    BY <1>3 DEF IntentPhrase, build_routing_phrase
  <2>. QED
    BY <1>1, <1>2, <1>3, <2>1 DEF RankTable, SreRules, Rule, Has
<1>4. CASE intent = "pod_crashloop"
  BY <1>1, <1>2, <1>4 DEF RankTable, SreRules, Rule, Has, IntentPhrase
<1>5. CASE intent = "db_hikaricp_issue"
  BY <1>1, <1>2, <1>5 DEF RankTable, SreRules, Rule, Has, IntentPhrase
<1>6. CASE intent = "sqs_publish_failure"
  BY <1>1, <1>2, <1>6 DEF RankTable, SreRules, Rule, Has, IntentPhrase
<1>7. CASE intent = "sqs_consume_failure"
  BY <1>1, <1>2, <1>7 DEF RankTable, SreRules, Rule, Has, IntentPhrase
<1>8. CASE intent = "pin_verification_missing"
  BY <1>1, <1>2, <1>8 DEF RankTable, SreRules, Rule, Has, IntentPhrase
<1>9. CASE intent = "checkout_500"
  BY <1>1, <1>2, <1>9 DEF RankTable, SreRules, Rule, Has, IntentPhrase
<1>10. CASE intent \in {"predictive_scaling_under_prediction", "general_incident"}
  BY <1>1, <1>2, <1>10 DEF RankTable, SreRules, Rule, Has, SreKeywords
<1>. QED
  BY <1>1, <1>3, <1>4, <1>5, <1>6, <1>7, <1>8, <1>9, <1>10 DEF AlertIntents

\* The planner reads the message of an alert as its own intent or one tested before it.
LEMMA PlannerTakesItForNoLess ==
  ASSUME NEW alert, ~AsksForSomethingElse(alert)
  PROVE  LET intent == TriagePlan(alert).intent
         IN  /\ RankOf(intent) <= RankOf(infer_sre_intent(alert))
             /\ intent \notin {"greeting", "thanks", "help", "unsupported"}
<1> DEFINE M == build_sre_analysis_message(alert)
           hits == {i \in DOMAIN SreRules : \A group \in SreRules[i].groups : Has(M, group)}
           j == Min(hits)
           r == RankTable[infer_sre_intent(alert)]
<1>1. IntentPhrase(infer_sre_intent(alert), alert) \cup {"alert"} \subseteq M
  BY DEF build_sre_analysis_message, Contents
<1>2. ~Has(M, {"help", "hello", "thanks", "mutating", "mutating_pod"})
  BY DEF AsksForSomethingElse
<1>3. TriagePlan(alert).intent = classify_sre(M)
  BY DEF TriagePlan, classify
<1> HIDE DEF M
<1>4. Courtesy(M, SreKeywords) = "none"
  <2>1. M # {} /\ "hello" \notin M /\ "thanks" \notin M /\ "help" \notin M
    BY <1>1, <1>2 DEF Has
  <2>. QED
    BY <2>1 DEF Courtesy
<1>5. r \in 1..10
  BY AlertIntentIsKnown DEF RankTable, AlertIntents
<1>6. hits \in SUBSET (1..10) /\ r \in hits
  BY <1>1, <1>5, Ranks, PhraseHitsRule
<1>7. 1 \notin hits
  <2>1. ~Has(M, {"mutating", "mutating_pod"})
    BY <1>2 DEF Has
  <2>2. {"mutating", "mutating_pod"} \in SreRules[1].groups
    BY Ranks
  <2>. QED
    BY <2>1, <2>2
<1>8. classify_sre(M) = SreRules[j].intent
  <2>1. hits # {}
    BY <1>6
  <2>2. FirstMatch(SreRules, M, "unsupported") = SreRules[j].intent
    BY <2>1 DEF FirstMatch
  <2>. QED
    BY <1>4, <2>2 DEF classify_sre, Classify
<1> HIDE DEF hits
<1>9. j \in hits /\ j <= r
  BY <1>6, MinOfRules
<1>10. j \in 2..10
  <2>1. j \in 1..10 /\ j # 1
    BY <1>6, <1>7, <1>9
  <2> HIDE DEF j
  <2>. QED
    BY <2>1
<1>11. RankOf(SreRules[j].intent) \in 1..10 /\ RankOf(SreRules[j].intent) <= j
  BY <1>10, RankOfRule
<1>12. RankOf(infer_sre_intent(alert)) = r
  BY AlertIntentIsKnown, RankOfIntent
<1>. QED
  BY <1>3, <1>5, <1>8, <1>9, <1>10, <1>11, <1>12, Ranks

\* The planner takes the message of an alert for the alert's intent or a more specific one,
\* whatever the alert says, unless its text asks for something else.
THEOREM AlertKeepsItsEvidenceHolds == SreSpec => []AlertKeepsItsEvidence
<1>1. AlertKeepsItsEvidence
  BY PlannerTakesItForNoLess DEF AlertKeepsItsEvidence
<1>. QED
  BY <1>1, PTL

\* The causes a sign in a tool's answer may point to.
AppTypes == {"db_hikaricp", "postgres_connection_saturation", "sqs_publish", "sqs_consume",
  "application_error", "trace_latency", "deployment_regression"}

LEMMA SignsAreOfAppTypes ==
  ASSUME NEW section, NEW answer, NEW f \in detect_application_findings(section, answer)
  PROVE  f[1] \in AppTypes
<1>1. \A type, evidence, condition :
        f \in Sign(type, evidence, condition) => f[1] = type
  BY DEF Sign
<1>. QED
  BY <1>1 DEF detect_application_findings, AppTypes

\* A finding of a tool has one of those causes and names the section of its tool.
LEMMA ToolsFindAppTypes ==
  ASSUME NEW results, NEW f \in ApplicationFindings(results)
  PROVE  f.type \in AppTypes /\ f.section \in Sections
<1>1. PICK section \in Sections, tool \in DOMAIN results :
        \E g \in IF tool \in APPLICATION_SIGNAL_TOOLS[section] /\ results[tool].ok
                 THEN detect_application_findings(section, results[tool].answer) ELSE {} :
          f = Finding(g[1], section, tool, g[2])
  BY DEF ApplicationFindings
<1>2. PICK g \in detect_application_findings(section, results[tool].answer) :
        f = Finding(g[1], section, tool, g[2])
  BY <1>1
<1>3. g[1] \in AppTypes
  BY SignsAreOfAppTypes
<1>. QED
  BY <1>2, <1>3 DEF Finding

\* The causes an alert itself may point to.
LEMMA OwnTypes ==
  ASSUME NEW alert PROVE OwnType(alert) \in ForcedHigh \cup {"db_hikaricp", None}
  BY DEF OwnType, ForcedHigh

\* The alert of such a cause is a finding of its own.
LEMMA OwnFindingIsThere ==
  ASSUME NEW alert, OwnType(alert) # None
  PROVE  /\ \A f \in AlertFindings(alert) :
              f.type = OwnType(alert) /\ f.section = "alertmanager"
         /\ AlertFindings(alert) # {}
<1>1. AlertFindings(alert) = {Finding(OwnType(alert), "alertmanager", "alert_labels", "alert")}
  BY DEF AlertFindings
<1>2. \A type, section, tool, evidence :
        /\ Finding(type, section, tool, evidence).type = type
        /\ Finding(type, section, tool, evidence).section = section
  BY DEF Finding
<1>. QED
  BY <1>1, <1>2

\* A second source makes a database alert certain.
LEMMA TwoSources ==
  ASSUME NEW results, NEW own, NEW ownFinding, NEW S,
         ownFinding \in S, ownFinding.section = "alertmanager",
         \A f \in S : f.section \in Sections \cup {"alertmanager"},
         \E f \in S : f.section \in Sections
  PROVE  infer_candidate_confidence(S) = "high"
<1> DEFINE sources == {f.section : f \in S}
<1>1. IsFiniteSet(Sections \cup {"alertmanager"})
  <2>1. Sections = {"logs", "metrics", "traces", "deployment_changes", "aws", "network"}
    BY DEF Sections, APPLICATION_SIGNAL_TOOLS
  <2>2. IsFiniteSet({"logs"} \cup {"metrics"})
    BY FS_Singleton, FS_AddElement
  <2>3. IsFiniteSet({"logs", "metrics"} \cup {"traces"})
    BY <2>2, FS_AddElement
  <2>4. IsFiniteSet({"logs", "metrics", "traces"} \cup {"deployment_changes"})
    BY <2>3, FS_AddElement
  <2>5. IsFiniteSet({"logs", "metrics", "traces", "deployment_changes"} \cup {"aws"})
    BY <2>4, FS_AddElement
  <2> DEFINE five == {"logs", "metrics", "traces", "deployment_changes", "aws"}
  <2>6. Sections = five \cup {"network"} /\ IsFiniteSet(five)
    BY <2>1, <2>5
  <2> HIDE DEF five
  <2>7. IsFiniteSet(Sections)
    BY <2>6, FS_AddElement
  <2>. QED
    BY <2>7, FS_AddElement
<1>2. IsFiniteSet(sources)
  BY <1>1, FS_Subset
<1>3. "alertmanager" \notin Sections
  BY DEF Sections, APPLICATION_SIGNAL_TOOLS
<1>4. PICK a \in sources, b \in sources : a # b
  BY <1>3
<1>5. Cardinality({a}) = 1 /\ {a} # sources
  BY <1>4, FS_Singleton
<1>6. Cardinality({a}) <= Cardinality(sources) /\ Cardinality(sources) # Cardinality({a})
  BY <1>2, <1>4, <1>5, FS_Subset
<1>7. Cardinality(sources) \in Nat
  BY <1>2, FS_CardinalityType
<1>. QED
  BY <1>5, <1>6, <1>7 DEF infer_candidate_confidence

\* The cause of an alert is certain: forced to be, or shared with a tool's finding.
LEMMA OwnIsCertain ==
  ASSUME NEW alert, NEW results, OwnType(alert) # None,
         OwnType(alert) # "db_hikaricp" \/
           {f \in ApplicationFindings(results) : f.type = OwnType(alert)} # {}
  PROVE  build_root_cause_candidate(OwnType(alert),
           ApplicationFindings(results) \cup AlertFindings(alert)) = "high"
<1> DEFINE own == OwnType(alert)
           findings == ApplicationFindings(results) \cup AlertFindings(alert)
           S == {f \in findings : f.type = own}
<1>1. CASE own # "db_hikaricp"
  BY <1>1, OwnTypes DEF build_root_cause_candidate
<1>2. CASE own = "db_hikaricp"
  <2>1. PICK f \in AlertFindings(alert) : f \in S /\ f.section = "alertmanager"
    BY OwnFindingIsThere
  <2>2. \E g \in S : g.section \in Sections
    BY <1>2, ToolsFindAppTypes
  <2>3. \A g \in S : g.section \in Sections \cup {"alertmanager"}
    BY ToolsFindAppTypes, OwnFindingIsThere
  <2> HIDE DEF S
  <2>4. infer_candidate_confidence(S) = "high"
    BY <2>1, <2>2, <2>3, TwoSources
  <2>. QED
    BY <1>2, <2>4 DEF build_root_cause_candidate, ForcedHigh, S
<1>. QED
  BY <1>1, <1>2

LEMMA Confidences ==
  ASSUME NEW type, NEW findings
  PROVE  build_root_cause_candidate(type, findings) \in {"high", "medium", "low"}
  BY DEF build_root_cause_candidate, infer_candidate_confidence

\* At most one other candidate comes before a certain cause of the alert.
LEMMA OwnCauseIsFirst ==
  ASSUME NEW alert, NEW results, OwnType(alert) # None,
         OwnType(alert) # "db_hikaricp" \/
           {f \in ApplicationFindings(results) : f.type = OwnType(alert)} # {}
  PROVE  LET shown == CandidatesOf(alert, results)
         IN  OwnType(alert) \in DOMAIN shown /\ shown[OwnType(alert)] <= 2
<1> DEFINE own == OwnType(alert)
           findings == ApplicationFindings(results) \cup AlertFindings(alert)
           confidence == [type \in {f.type : f \in findings} |->
                            build_root_cause_candidate(type, findings)]
           visible == {type \in DOMAIN confidence : confidence[type] # "low"}
           before(type) == {other \in visible : IsBefore(other, type, confidence)}
           place == [type \in visible |-> 1 + Cardinality(before(type))]
<1>1. CandidatesOf(alert, results) = [type \in {v \in visible : place[v] <= 3} |-> place[type]]
  BY DEF CandidatesOf, build_root_cause_candidates
<1>2. DOMAIN confidence \subseteq AppTypes \cup {own}
  BY ToolsFindAppTypes, OwnFindingIsThere
<1>3. own \in DOMAIN confidence
  BY OwnFindingIsThere
<1>4. confidence[own] = "high"
  BY <1>3, OwnIsCertain
<1>5. \A type \in DOMAIN confidence : confidence[type] \in {"high", "medium", "low"}
  BY Confidences
<1> HIDE DEF confidence
<1>6. own \in visible
  BY <1>3, <1>4
<1>7. before(own) \subseteq {"postgres_connection_saturation"}
  <2> SUFFICES ASSUME NEW other \in visible, IsBefore(other, own, confidence)
               PROVE  other = "postgres_connection_saturation"
    OBVIOUS
  <2>1. CandidateOrder[other] < CandidateOrder[own]
    BY <1>4, <1>5 DEF IsBefore, candidate_confidence_rank
  <2>2. own \in ForcedHigh \cup {"db_hikaricp"}
    BY OwnTypes
  <2> HIDE DEF own
  <2>. QED
    BY <1>2, <2>1, <2>2 DEF AppTypes, ForcedHigh, CandidateOrder
<1>8. Cardinality(before(own)) \in 0..1
  <2>1. IsFiniteSet({"postgres_connection_saturation"}) /\
        Cardinality({"postgres_connection_saturation"}) = 1
    BY FS_Singleton
  <2>2. IsFiniteSet(before(own)) /\ Cardinality(before(own)) <= 1
    BY <1>7, <2>1, FS_Subset
  <2>. QED
    BY <2>2, FS_CardinalityType
<1> HIDE DEF before
<1>9. place[own] <= 2
  BY <1>6, <1>8
<1> HIDE DEF visible
<1>10. place[own] <= 3
  BY <1>6, <1>8
<1> HIDE DEF place
<1>. QED
  BY <1>1, <1>6, <1>9, <1>10

\* The focus of the message is the cause of the alert; a routing alert has none.
LEMMA OneStory ==
  ASSUME NEW alert, NEW intent
  PROVE  /\ OwnType(alert) \in DOMAIN FocusOf =>
              incident_focus(alert) = FocusOf[OwnType(alert)]
         /\ determine_incident_type(alert, intent) = "routing" =>
              incident_focus(alert) = "sre_incident"
<1>1. OwnType(alert) \in DOMAIN FocusOf => incident_focus(alert) = FocusOf[OwnType(alert)]
  BY DEF OwnType, FocusOf, incident_focus, None
<1>2. determine_incident_type(alert, intent) = "routing" =>
        incident_focus(alert) = "sre_incident"
  BY DEF determine_incident_type, incident_focus
<1>. QED
  BY <1>1, <1>2

\* The cause an alert points to is among the first two candidates shown, and the focus of
\* the message agrees with it, for every alert and every answer of the tools.
THEOREM OwnCauseIsShownHolds == SreSpec => []OwnCauseIsShown
<1>1. OwnCauseIsShown
  <2> SUFFICES ASSUME NEW t \in Threads
       PROVE LET alert == request[t].alert
          own == OwnType(alert)
          shown == CandidatesOf(alert, Bundle_results(t))
          elsewhere == {f \in ApplicationFindings(Bundle_results(t)) : f.type = own}
      IN  /\ (own \notin {None, "db_hikaricp"} \/ (own # None /\ elsewhere # {})) =>
               own \in DOMAIN shown /\ shown[own] <= 2
          /\ own \in DOMAIN FocusOf => incident_focus(alert) = FocusOf[own]
          /\ determine_incident_type(alert, TriagePlan(alert).intent) = "routing" =>
               incident_focus(alert) = "sre_incident"
    BY DEF OwnCauseIsShown
  <2>. QED
    BY OwnCauseIsFirst, OneStory
<1>. QED
  BY <1>1, PTL
==============================================================================
