----------------------- MODULE ChatOrchestrationProofs ------------------------
(***************************************************************************)
(* Chat sessions for any number of turns and sessions, any results of the  *)
(* tools and any number of faults: the types, and that a closed session    *)
(* takes no new questions.  A turn checks its session once; the invariant  *)
(* is that a turn that runs in a closed session ran when it was closed.    *)
(***************************************************************************)
EXTENDS ChatOrchestration, TLAPS

\* A turn that runs has a session, was there when that session was closed, and has an
\* answer of the LLM, or its failure, when it records the run.
TurnsInv ==
  /\ turn \in [Turns -> TurnStates]
  /\ \A t \in Turns :
       IsRunning(t) =>
         /\ turn[t].session \in Sessions
         /\ sessions[turn[t].session] = "CLOSED" => t \in closing[turn[t].session].running
         /\ turn[t].pc = "record_run" => turn[t].llm # "none"

ChatInv == TypeOK /\ TurnsInv /\ ClosedSessionTakesNoNewQuestions

USE ChatAssumption, ResultsAssumption

\* What is stored of the state is unchanged, but for the messages.
KeptSessions == sessions' = sessions /\ closing' = closing

\* A request that has ended has the type of a turn.
LEMMA AtType ==
  ASSUME NEW local \in TurnStates, NEW pc \in Pcs
  PROVE  /\ At(local, pc) \in TurnStates
         /\ At(local, pc).pc = pc /\ At(local, pc).session = local.session
         /\ pc # "ended" => At(local, pc).llm = local.llm
<1>1. NoResults \in Results /\ {} \in SUBSET Tools
  BY DEF NoResults, Results
<1>2. /\ [local EXCEPT !.pc = pc] \in TurnStates
      /\ [local EXCEPT !.pc = pc].pc = pc
      /\ [local EXCEPT !.pc = pc].session = local.session
      /\ [local EXCEPT !.pc = pc].llm = local.llm
  BY DEF TurnStates
<1>3. Ended(local) \in TurnStates /\ Ended(local).pc = "ended"
      /\ Ended(local).session = local.session
  <2>1. /\ local.session \in Sessions \cup {NoSession} /\ local.hurt \in BOOLEAN
        /\ "ended" \in Pcs /\ "none" \in Contents /\ "none" \in LlmStatuses \cup {"none"}
        /\ 0 \in 0..3
    BY DEF TurnStates, Pcs, Contents
  <2>. QED
    BY <1>1, <2>1 DEF Ended, TurnStates
<1>. QED
  <2>1. CASE pc = "ended"
    <3>1. At(local, pc) = Ended(local)
      BY <2>1 DEF At
    <3>. QED
      BY <1>3, <2>1, <3>1
  <2>2. CASE pc # "ended"
    <3>1. At(local, pc) = [local EXCEPT !.pc = pc]
      BY <2>2 DEF At
    <3>. QED
      BY <1>2, <2>2, <3>1
  <2>. QED
    BY <2>1, <2>2

\* A step of a turn that keeps its session keeps what is known of the turns.
LEMMA MoveTurn ==
  ASSUME ChatInv, NEW t \in Turns, IsRunning(t), KeptSessions,
         NEW local \in TurnStates, turn' = [turn EXCEPT ![t] = local],
         local.session = turn[t].session,
         local.pc = "record_run" => local.llm # "none"
  PROVE  TurnsInv'
<1>1. \A u \in Turns : turn'[u] = IF u = t THEN local ELSE turn[u]
  BY DEF ChatInv, TurnsInv
<1>2. turn' \in [Turns -> TurnStates]
  BY DEF ChatInv, TurnsInv
<1>. QED
  BY <1>1, <1>2 DEF ChatInv, TurnsInv, IsRunning, KeptSessions

\* The places a transaction may lead to.
LEMMA Places ==
  /\ {"append_user", "create_job", "run_agent"} \subseteq Pcs
  /\ {"record_calls", "approve", "prompt", "complete", "record_run"} \subseteq Pcs
  /\ {"attach", "snapshot", "finish", "handle_error"} \subseteq Pcs
  /\ {"append_assistant", "touch", "ended"} \subseteq Pcs
  BY DEF Pcs

\* The same for a transaction, however it ends.
LEMMA GoesTurn ==
  ASSUME ChatInv, NEW t \in Turns, IsRunning(t), KeptSessions, NEW o,
         NEW local \in TurnStates, NEW next \in Pcs, NEW onError \in Pcs,
         Goes(t, o, local, next, onError), local.session = turn[t].session,
         next = "record_run" \/ onError = "record_run" => local.llm # "none"
  PROVE  TurnsInv' /\ faults' \in Nat
<1>1. PICK pc \in {next, onError} :
        turn' = [turn EXCEPT ![t] = At([local EXCEPT !.hurt = @ \/ o # "ok"], pc)]
  BY DEF Goes
<1> DEFINE hit == [local EXCEPT !.hurt = @ \/ o # "ok"]
<1>2. hit \in TurnStates /\ hit.session = local.session /\ hit.llm = local.llm
  BY DEF TurnStates
<1>3. /\ At(hit, pc) \in TurnStates /\ At(hit, pc).session = turn[t].session
      /\ At(hit, pc).pc = pc /\ (pc # "ended" => At(hit, pc).llm = local.llm)
  BY <1>2, AtType
<1>4. TurnsInv'
  BY <1>1, <1>3, MoveTurn
<1>5. faults' \in Nat
  BY DEF Goes, ChatInv, TypeOK
<1>. QED
  BY <1>4, <1>5

\* A message of a turn has the type of a message and goes to its session only.
LEMMA AppendMessage ==
  ASSUME ChatInv, NEW t \in Turns, IsRunning(t), NEW role \in {"USER", "ASSISTANT"},
         NEW content \in Contents, NEW tool_calls \in SUBSET Tools
  PROVE  LET stored == Append1(t, role, content, tool_calls)
         IN  /\ stored \in [Sessions -> Seq(Messages)]
             /\ \A s \in Sessions :
                  /\ s # turn[t].session => stored[s] = messages[s]
                  /\ s = turn[t].session =>
                       /\ Len(stored[s]) = Len(messages[s]) + 1
                       /\ stored[s][Len(messages[s]) + 1].turn = t
                       /\ \A i \in 1..Len(messages[s]) : stored[s][i] = messages[s][i]
<1> DEFINE m == [turn |-> t, role |-> role, content |-> content,
                 llm_status |-> turn[t].llm, tool_calls |-> tool_calls]
           s0 == turn[t].session
<1>1. m \in Messages /\ m.turn = t
  BY DEF Messages, ChatInv, TurnsInv, TurnStates
<1>2. s0 \in Sessions /\ messages \in [Sessions -> Seq(Messages)]
  BY DEF ChatInv, TurnsInv, TypeOK
<1>3. Append1(t, role, content, tool_calls) =
        [messages EXCEPT ![s0] = Append(messages[s0], m)]
  BY DEF Append1
<1>4. messages[s0] \in Seq(Messages)
  BY <1>2
<1> HIDE DEF m, s0
<1>5. /\ Append(messages[s0], m) \in Seq(Messages)
      /\ Len(Append(messages[s0], m)) = Len(messages[s0]) + 1
      /\ Append(messages[s0], m)[Len(messages[s0]) + 1] = m
      /\ \A i \in 1..Len(messages[s0]) : Append(messages[s0], m)[i] = messages[s0][i]
  BY <1>1, <1>4
<1>6. turn[t].session = s0
  BY DEF s0
<1>. QED
  BY <1>1, <1>2, <1>3, <1>5, <1>6

\* A turn that runs may store a message, in a closed session too.
LEMMA AppendKeepsClosed ==
  ASSUME ChatInv, NEW t \in Turns, IsRunning(t), KeptSessions,
         NEW role \in {"USER", "ASSISTANT"}, NEW content \in Contents,
         NEW tool_calls \in SUBSET Tools,
         messages' \in {messages, Append1(t, role, content, tool_calls)}
  PROVE  /\ messages' \in [Sessions -> Seq(Messages)]
         /\ ClosedSessionTakesNoNewQuestions'
<1>1. CASE messages' = messages
  BY <1>1 DEF KeptSessions, ChatInv, TypeOK, ClosedSessionTakesNoNewQuestions
<1>2. CASE messages' = Append1(t, role, content, tool_calls)
  <2>1. /\ messages' \in [Sessions -> Seq(Messages)]
        /\ \A s \in Sessions :
             /\ s # turn[t].session => messages'[s] = messages[s]
             /\ s = turn[t].session =>
                  /\ Len(messages'[s]) = Len(messages[s]) + 1
                  /\ messages'[s][Len(messages[s]) + 1].turn = t
                  /\ \A i \in 1..Len(messages[s]) : messages'[s][i] = messages[s][i]
    BY <1>2, AppendMessage
  <2>2. ASSUME NEW s \in Sessions, sessions[s] = "CLOSED",
               NEW i \in (closing[s].messages + 1)..Len(messages'[s])
        PROVE  messages'[s][i].turn \in closing[s].running
    <3>1. /\ closing[s].messages \in Nat
          /\ Len(messages[s]) \in Nat
      BY DEF ChatInv, TypeOK
    <3>2. \A j \in (closing[s].messages + 1)..Len(messages[s]) :
            messages[s][j].turn \in closing[s].running
      BY <2>2 DEF ChatInv, ClosedSessionTakesNoNewQuestions
    <3>3. CASE s # turn[t].session
      BY <2>1, <2>2, <3>2, <3>3
    <3>4. CASE s = turn[t].session /\ i = Len(messages[s]) + 1
      BY <2>1, <2>2, <3>4 DEF ChatInv, TurnsInv
    <3>5. CASE s = turn[t].session /\ i # Len(messages[s]) + 1
      <4>1. i \in (closing[s].messages + 1)..Len(messages[s]) /\ i \in 1..Len(messages[s])
        BY <2>1, <3>1, <3>5
      <4>. QED
        BY <2>1, <3>2, <3>5, <4>1
    <3>. QED
      BY <3>3, <3>4, <3>5
  <2>. QED
    BY <2>1, <2>2 DEF KeptSessions, ClosedSessionTakesNoNewQuestions
<1>. QED
  BY <1>1, <1>2

\* What the steps of a turn share: the sessions stay, and so do the messages.
Quiet == KeptSessions /\ messages' = messages

\* A step that touches neither a session nor its messages keeps what is told of closed
\* sessions.
LEMMA QuietStep ==
  ASSUME ChatInv, Quiet, TurnsInv', faults' \in Nat, jobs' \in [Turns -> JobStatuses],
         calls' \in SUBSET CallRows, approvals' \in SUBSET (Turns \X Tools),
         llm_runs' \in [Turns -> Seq(LlmStatuses)], snapshots' \in SUBSET Snapshots
  PROVE  ChatInv'
<1>1. TypeOK'
  BY DEF ChatInv, TypeOK, TurnsInv, Quiet, KeptSessions
<1>2. ClosedSessionTakesNoNewQuestions'
  BY DEF ChatInv, ClosedSessionTakesNoNewQuestions, Quiet, KeptSessions
<1>. QED
  BY <1>1, <1>2 DEF ChatInv

\* A turn that runs has a place among the LLM runs.
LEMMA LastRunType == ASSUME ChatInv, NEW t \in Turns PROVE LastRun(t) \in LlmRuns
  BY DEF ChatInv, TypeOK, LastRun, LlmRuns

\* A turn in the middle of an attempt: the number of attempts is not bounded yet.
TriedStates ==
  [pc : Pcs, session : Sessions \cup {NoSession}, results : Results,
   recorded : SUBSET Tools, waiting : SUBSET Tools, content : Contents,
   attempts : Nat, llm : LlmStatuses \cup {"none"}, hurt : BOOLEAN]

\* A reply of the LLM changes the attempts, the state of the answer and the place.
LEMMA LlmReplyFields ==
  ASSUME NEW t \in Turns, turn[t] \in TurnStates, turn[t].pc = "complete",
         NEW local \in LlmReplies(t)
  PROVE  /\ local \in TurnStates /\ local.hurt = turn[t].hurt
         /\ local.recorded = turn[t].recorded /\ local.waiting = turn[t].waiting
         /\ local.results = turn[t].results /\ local.content = turn[t].content
         /\ local.session = turn[t].session
         /\ \/ local.pc = "record_run" /\ local.llm # "none"
            \/ local.pc = "complete" /\ local.llm = turn[t].llm
<1> DEFINE tried == [turn[t] EXCEPT !.attempts = @ + 1]
           ends(status) == [turn[t] EXCEPT !.attempts = 0, !.llm = status,
                                           !.pc = "record_run"]
<1>1. /\ tried \in TriedStates /\ tried.pc = "complete" /\ tried.hurt = turn[t].hurt
      /\ tried.recorded = turn[t].recorded /\ tried.waiting = turn[t].waiting
      /\ tried.results = turn[t].results /\ tried.content = turn[t].content
      /\ tried.session = turn[t].session /\ tried.llm = turn[t].llm
  <2>1. turn[t].attempts + 1 \in Nat
    BY DEF TurnStates
  <2>2. ASSUME NEW n \in Nat
        PROVE  LET next == [turn[t] EXCEPT !.attempts = n]
               IN  /\ next \in TriedStates /\ next.pc = turn[t].pc
                   /\ next.hurt = turn[t].hurt
                   /\ next.recorded = turn[t].recorded /\ next.waiting = turn[t].waiting
                   /\ next.results = turn[t].results /\ next.content = turn[t].content
                   /\ next.session = turn[t].session /\ next.llm = turn[t].llm
    BY DEF TurnStates, TriedStates
  <2>. QED
    BY <2>1, <2>2
<1> HIDE DEF tried
<1>2. MayRetry(tried.attempts) => tried \in TurnStates
  BY <1>1 DEF TurnStates, TriedStates, MayRetry
<1>3. ASSUME NEW status \in LlmStatuses
      PROVE  /\ ends(status) \in TurnStates /\ ends(status).llm = status
             /\ ends(status).hurt = turn[t].hurt /\ ends(status).pc = "record_run"
             /\ ends(status).recorded = turn[t].recorded
             /\ ends(status).waiting = turn[t].waiting
             /\ ends(status).results = turn[t].results
             /\ ends(status).content = turn[t].content
             /\ ends(status).session = turn[t].session
  <2>1. 0 \in 0..3 /\ "record_run" \in Pcs
    BY DEF Pcs
  <2>. QED
    BY <2>1 DEF TurnStates
<1>4. "none" \notin LlmStatuses /\ "FAILED" \in LlmStatuses
  BY DEF LlmStatuses
<1>5. LlmReplies(t) = {ends(status) : status \in LlmStatuses} \cup
                        {IF MayRetry(tried.attempts) THEN tried ELSE ends("FAILED")}
  BY DEF LlmReplies, tried
<1> HIDE DEF ends
<1>6. CASE \E status \in LlmStatuses : local = ends(status)
  BY <1>3, <1>4, <1>6
<1>7. CASE local = tried /\ MayRetry(tried.attempts)
  BY <1>1, <1>2, <1>7
<1>. QED
  BY <1>4, <1>5, <1>6, <1>7

\* The steps that change nothing but the turn.
LEMMA LocalSteps ==
  ASSUME ChatInv, NEW t \in Turns,
         \/ AnswerDirectly(t) \/ RunTools(t) \/ AgentRaises(t) \/ CallsRecorded(t)
         \/ AnswerFromTools(t) \/ AskLlm(t) \/ EnsurePrompt(t) \/ CallLlm(t) \/ Touch(t)
  PROVE  ChatInv'
<1>1. turn[t] \in TurnStates /\ turn \in [Turns -> TurnStates] /\ faults \in Nat
  BY DEF ChatInv, TypeOK
<1>2. /\ Quiet /\ jobs' = jobs /\ calls' = calls /\ approvals' = approvals
      /\ llm_runs' = llm_runs /\ snapshots' = snapshots
      /\ IsRunning(t)
  BY DEF AnswerDirectly, RunTools, AgentRaises, CallsRecorded, AnswerFromTools, AskLlm,
         EnsurePrompt, CallLlm, Touch, Quiet, KeptSessions, IsRunning
<1>3. TurnsInv' /\ faults' \in Nat
  <2>1. ASSUME NEW local \in TurnStates, turn' = [turn EXCEPT ![t] = local],
               local.session = turn[t].session,
               local.pc = "record_run" => local.llm # "none", faults' = faults
        PROVE  TurnsInv' /\ faults' \in Nat
    BY <1>1, <1>2, <2>1, MoveTurn DEF Quiet
  <2>2. CASE AnswerDirectly(t)
    <3>1. /\ [turn[t] EXCEPT !.content = "direct", !.pc = "finish"] \in TurnStates
          /\ [turn[t] EXCEPT !.content = "direct", !.pc = "finish"].pc = "finish"
          /\ [turn[t] EXCEPT !.content = "direct", !.pc = "finish"].session
               = turn[t].session
      BY <1>1 DEF TurnStates, Contents, Pcs
    <3>2. turn' = [turn EXCEPT ![t] = [turn[t] EXCEPT !.content = "direct",
                                                      !.pc = "finish"]]
          /\ faults' = faults
      BY <2>2, <1>1 DEF AnswerDirectly, AfterDirect
    <3>. QED
      BY <3>1, <3>2, <2>1
  <2>3. CASE RunTools(t)
    <3>1. PICK results \in AgentResults[t] :
            turn' = [turn EXCEPT ![t] = [turn[t] EXCEPT !.results = results,
                                                        !.pc = "record_calls"]]
      BY <2>3 DEF RunTools
    <3>2. results \in Results
      OBVIOUS
    <3>3. /\ [turn[t] EXCEPT !.results = results, !.pc = "record_calls"] \in TurnStates
          /\ [turn[t] EXCEPT !.results = results, !.pc = "record_calls"].pc = "record_calls"
          /\ [turn[t] EXCEPT !.results = results, !.pc = "record_calls"].session
               = turn[t].session
      BY <1>1, <3>2 DEF TurnStates, Pcs
    <3>4. faults' = faults
      BY <2>3 DEF RunTools
    <3>. QED
      BY <3>1, <3>3, <3>4, <2>1
  <2>4. CASE AgentRaises(t)
    BY <2>4, <1>1, <1>2, GoesTurn, Places DEF AgentRaises, Quiet
  <2>5. CASE CallsRecorded(t)
    <3>1. RequiresApproval(t) \in SUBSET Tools
      BY DEF RequiresApproval, Planned
    <3>2. /\ [turn[t] EXCEPT !.waiting = RequiresApproval(t), !.pc = "approve"] \in TurnStates
          /\ [turn[t] EXCEPT !.waiting = RequiresApproval(t), !.pc = "approve"].pc = "approve"
          /\ [turn[t] EXCEPT !.waiting = RequiresApproval(t), !.pc = "approve"].session
               = turn[t].session
      BY <1>1, <3>1 DEF TurnStates, Pcs
    <3>3. turn' = [turn EXCEPT ![t] = [turn[t] EXCEPT !.waiting = RequiresApproval(t),
                                                      !.pc = "approve"]]
          /\ faults' = faults
      BY <2>5 DEF CallsRecorded
    <3>. QED
      BY <3>2, <3>3, <2>1
  <2>6. CASE AnswerFromTools(t)
    <3>1. /\ [turn[t] EXCEPT !.content = "deterministic", !.pc = "finish"] \in TurnStates
          /\ [turn[t] EXCEPT !.content = "deterministic", !.pc = "finish"].pc = "finish"
          /\ [turn[t] EXCEPT !.content = "deterministic", !.pc = "finish"].session
               = turn[t].session
      BY <1>1 DEF TurnStates, Contents, Pcs
    <3>2. turn' = [turn EXCEPT ![t] = [turn[t] EXCEPT !.content = "deterministic",
                                                      !.pc = "finish"]]
          /\ faults' = faults
      BY <2>6 DEF AnswerFromTools
    <3>. QED
      BY <3>1, <3>2, <2>1
  <2>7. CASE AskLlm(t)
    <3>1. /\ [turn[t] EXCEPT !.pc = "prompt"] \in TurnStates
          /\ [turn[t] EXCEPT !.pc = "prompt"].pc = "prompt"
          /\ [turn[t] EXCEPT !.pc = "prompt"].session = turn[t].session
      BY <1>1 DEF TurnStates, Pcs
    <3>2. turn' = [turn EXCEPT ![t] = [turn[t] EXCEPT !.pc = "prompt"]] /\ faults' = faults
      BY <2>7 DEF AskLlm
    <3>. QED
      BY <3>1, <3>2, <2>1
  <2>8. CASE EnsurePrompt(t)
    BY <2>8, <1>1, <1>2, GoesTurn, Places DEF EnsurePrompt, Quiet
  <2>9. CASE CallLlm(t)
    <3>1. PICK local \in LlmReplies(t) : turn' = [turn EXCEPT ![t] = local]
      BY <2>9 DEF CallLlm
    <3>2. /\ local \in TurnStates /\ local.session = turn[t].session
          /\ local.pc = "record_run" => local.llm # "none"
      <4>1. turn[t].pc = "complete"
        BY <2>9 DEF CallLlm
      <4>. QED
        BY <1>1, <3>1, <4>1, LlmReplyFields
    <3>3. faults' = faults
      BY <2>9 DEF CallLlm
    <3>. QED
      BY <3>1, <3>2, <3>3, <2>1
  <2>10. CASE Touch(t)
    BY <2>10, <1>1, <1>2, GoesTurn, Places DEF Touch, Quiet
  <2>. QED
    BY <2>2, <2>3, <2>4, <2>5, <2>6, <2>7, <2>8, <2>9, <2>10
<1>. QED
  BY <1>2, <1>3, QuietStep DEF ChatInv, TypeOK

\* The steps that store rows of the turn: its job, its calls, approvals and LLM runs.
LEMMA RowSteps ==
  ASSUME ChatInv, NEW t \in Turns,
         \/ CreateJob(t) \/ RecordCall(t) \/ RequestApproval(t) \/ RecordRun(t)
         \/ Attach(t) \/ TakeSnapshot(t) \/ Finish(t) \/ HandleError(t)
  PROVE  ChatInv'
<1>1. turn[t] \in TurnStates /\ turn \in [Turns -> TurnStates] /\ faults \in Nat
  BY DEF ChatInv, TypeOK
<1>2. Quiet /\ IsRunning(t)
  BY DEF CreateJob, RecordCall, RequestApproval, RecordRun, Attach, TakeSnapshot, Finish,
         HandleError, Quiet, KeptSessions, IsRunning
<1>3. turn[t].session \in Sessions
  BY <1>2 DEF ChatInv, TurnsInv
<1>4. /\ jobs \in [Turns -> JobStatuses] /\ calls \in SUBSET CallRows
      /\ approvals \in SUBSET (Turns \X Tools) /\ snapshots \in SUBSET Snapshots
      /\ llm_runs \in [Turns -> Seq(LlmStatuses)]
  BY DEF ChatInv, TypeOK
<1>5. LastRun(t) \in LlmRuns /\ NoRun \in LlmRuns
  BY LastRunType DEF LlmRuns
<1>6. CASE CreateJob(t)
  <2>1. TurnsInv' /\ faults' \in Nat
    BY <1>6, <1>1, <1>2, GoesTurn, Places DEF CreateJob, Quiet
  <2>2. jobs' \in [Turns -> JobStatuses]
    BY <1>6, <1>4 DEF CreateJob, JobStatuses
  <2>. QED
    BY <1>2, <1>4, <1>6, <2>1, <2>2, QuietStep DEF CreateJob
<1>7. CASE RecordCall(t)
  <2>1. PICK tool \in Planned(t), o \in Outcomes :
          /\ calls' \in {calls, calls \cup {[turn |-> t, session |-> turn[t].session,
                 tool |-> tool, status |-> turn[t].results[tool], llm_run |-> NoRun]}}
          /\ Goes(t, o, [turn[t] EXCEPT !.recorded = @ \cup {tool}], "record_calls",
                  "handle_error")
    BY <1>7 DEF RecordCall
  <2>2. tool \in Tools /\ turn[t].results[tool] \in CallStatuses
    BY <1>1 DEF Planned, TurnStates, Results
  <2>3. [turn |-> t, session |-> turn[t].session, tool |-> tool,
         status |-> turn[t].results[tool], llm_run |-> NoRun] \in CallRows
    BY <1>3, <1>5, <2>2 DEF CallRows
  <2>4. /\ [turn[t] EXCEPT !.recorded = @ \cup {tool}] \in TurnStates
        /\ [turn[t] EXCEPT !.recorded = @ \cup {tool}].session = turn[t].session
    BY <1>1, <2>2 DEF TurnStates
  <2>5. TurnsInv' /\ faults' \in Nat
    BY <1>2, <2>1, <2>4, GoesTurn, Places DEF Quiet
  <2>6. calls' \in SUBSET CallRows
    BY <1>4, <2>1, <2>3
  <2>. QED
    BY <1>2, <1>4, <1>7, <2>5, <2>6, QuietStep DEF RecordCall
<1>8. CASE RequestApproval(t)
  <2>1. PICK tool \in turn[t].waiting, o \in Outcomes :
          /\ approvals' \in {approvals, approvals \cup {<<t, tool>>}}
          /\ Goes(t, o, [turn[t] EXCEPT !.waiting = @ \ {tool}], "approve", "approve")
    BY <1>8 DEF RequestApproval
  <2>2. tool \in Tools
    BY <1>1 DEF TurnStates
  <2>3. /\ [turn[t] EXCEPT !.waiting = @ \ {tool}] \in TurnStates
        /\ [turn[t] EXCEPT !.waiting = @ \ {tool}].session = turn[t].session
    BY <1>1 DEF TurnStates
  <2>4. TurnsInv' /\ faults' \in Nat
    BY <1>2, <2>1, <2>3, GoesTurn, Places DEF Quiet
  <2>5. approvals' \in SUBSET (Turns \X Tools)
    BY <1>4, <2>1, <2>2
  <2>. QED
    BY <1>2, <1>4, <1>8, <2>4, <2>5, QuietStep DEF RequestApproval
<1>9. CASE RecordRun(t)
  <2>1. turn[t].llm \in LlmStatuses /\ turn[t].pc = "record_run"
    BY <1>1, <1>2, <1>9 DEF RecordRun, ChatInv, TurnsInv, TurnStates
  <2>2. llm_runs' \in [Turns -> Seq(LlmStatuses)]
    <3>1. llm_runs' = llm_runs \/ llm_runs' = [llm_runs EXCEPT ![t] =
                                               Append(llm_runs[t], turn[t].llm)]
      BY <1>9 DEF RecordRun
    <3>2. Append(llm_runs[t], turn[t].llm) \in Seq(LlmStatuses)
      BY <1>4, <2>1
    <3>. QED
      BY <1>4, <3>1, <3>2
  <2>3. TurnsInv' /\ faults' \in Nat
    <3>1. PICK o \in Outcomes :
            IF turn[t].llm = "FAILED"
            THEN Goes(t, o, turn[t], "attach", "handle_error")
            ELSE Goes(t, o, [turn[t] EXCEPT !.llm = IF o = "ok" THEN @ ELSE "FAILED"],
                      "attach", "record_run")
      BY <1>9 DEF RecordRun
    <3>2. CASE turn[t].llm = "FAILED"
      BY <1>1, <1>2, <3>1, <3>2, GoesTurn, Places DEF Quiet
    <3>3. CASE turn[t].llm # "FAILED"
      <4> DEFINE local == [turn[t] EXCEPT !.llm = IF o = "ok" THEN @ ELSE "FAILED"]
      <4>1. /\ local \in TurnStates /\ local.session = turn[t].session
            /\ local.llm # "none"
        BY <1>1, <2>1 DEF TurnStates, LlmStatuses
      <4>2. Goes(t, o, local, "attach", "record_run")
        BY <3>1, <3>3
      <4> HIDE DEF local
      <4>. QED
        BY <1>2, <4>1, <4>2, GoesTurn, Places DEF Quiet
    <3>. QED
      BY <3>2, <3>3
  <2>. QED
    BY <1>2, <1>4, <1>9, <2>2, <2>3, QuietStep DEF RecordRun
<1>10. CASE Attach(t)
  <2>1. TurnsInv' /\ faults' \in Nat
    BY <1>10, <1>1, <1>2, GoesTurn, Places DEF Attach, Quiet
  <2>2. ASSUME NEW row \in RowsToLink(t)
        PROVE  [row EXCEPT !.llm_run = LastRun(t)] \in CallRows
    <3>1. row \in CallRows /\ LastRun(t) \in LlmRuns
      BY <1>4, <1>5 DEF RowsToLink
    <3>. QED
      BY <3>1 DEF CallRows
  <2>3. \/ calls' = calls
        \/ calls' = (calls \ RowsToLink(t)) \cup
                     {[row EXCEPT !.llm_run = LastRun(t)] : row \in RowsToLink(t)}
    BY <1>10 DEF Attach
  <2>4. calls' \in SUBSET CallRows
    BY <1>4, <2>2, <2>3
  <2>. QED
    BY <1>2, <1>4, <1>10, <2>1, <2>4, QuietStep DEF Attach
<1>11. CASE TakeSnapshot(t)
  <2>1. TurnsInv' /\ faults' \in Nat
    BY <1>11, <1>1, <1>2, GoesTurn, Places DEF TakeSnapshot, Quiet
  <2>2. [turn |-> t, llm_run |-> LastRun(t), tool_calls |-> turn[t].recorded] \in Snapshots
    BY <1>1, <1>5 DEF Snapshots, TurnStates
  <2>3. snapshots' \in SUBSET Snapshots
    BY <1>4, <1>11, <2>2 DEF TakeSnapshot
  <2>. QED
    BY <1>2, <1>4, <1>11, <2>1, <2>3, QuietStep DEF TakeSnapshot
<1>12. CASE Finish(t)
  <2>1. PICK o \in Outcomes, content \in Answers(t) :
          Goes(t, o, [turn[t] EXCEPT !.content = content], "append_assistant",
               "handle_error")
    BY <1>12 DEF Finish
  <2>2. content \in Contents
    BY <1>1 DEF Answers, Contents, TurnStates
  <2>3. /\ [turn[t] EXCEPT !.content = content] \in TurnStates
        /\ [turn[t] EXCEPT !.content = content].session = turn[t].session
    BY <1>1, <2>2 DEF TurnStates
  <2>4. TurnsInv' /\ faults' \in Nat
    BY <1>2, <2>1, <2>3, GoesTurn, Places DEF Quiet
  <2>5. jobs' \in [Turns -> JobStatuses]
    BY <1>4, <1>12 DEF Finish, FinishedStatus, JobStatuses
  <2>. QED
    BY <1>2, <1>4, <1>12, <2>4, <2>5, QuietStep DEF Finish
<1>13. CASE HandleError(t)
  <2> DEFINE local == [turn[t] EXCEPT !.results = NoResults, !.recorded = {},
                                      !.content = "error", !.llm = "none"]
  <2>1. NoResults \in Results /\ {} \in SUBSET Tools /\ "error" \in Contents
    BY DEF NoResults, Results, Contents
  <2>2. local \in TurnStates /\ local.session = turn[t].session
    BY <1>1, <2>1 DEF TurnStates
  <2>3. PICK o : Goes(t, o, local, "append_assistant", "ended")
    BY <1>13 DEF HandleError
  <2> HIDE DEF local
  <2>4. TurnsInv' /\ faults' \in Nat
    BY <1>2, <2>2, <2>3, GoesTurn, Places DEF Quiet
  <2>5. jobs' \in [Turns -> JobStatuses]
    BY <1>4, <1>13 DEF HandleError, JobStatuses
  <2>. QED
    BY <1>2, <1>4, <1>13, <2>4, <2>5, QuietStep DEF HandleError
<1>. QED
  BY <1>6, <1>7, <1>8, <1>9, <1>10, <1>11, <1>12, <1>13

\* The steps that store a message.
LEMMA MessageSteps ==
  ASSUME ChatInv, NEW t \in Turns, AppendUser(t) \/ AppendAssistant(t)
  PROVE  ChatInv'
<1>1. turn[t] \in TurnStates /\ IsRunning(t) /\ KeptSessions
  BY DEF ChatInv, TypeOK, AppendUser, AppendAssistant, IsRunning, KeptSessions
<1>2. TurnsInv' /\ faults' \in Nat
  BY <1>1, GoesTurn, Places DEF AppendUser, AppendAssistant
<1>3. PICK role \in {"USER", "ASSISTANT"}, content \in Contents, tool_calls \in SUBSET Tools :
        messages' \in {messages, Append1(t, role, content, tool_calls)}
  <2>1. CASE AppendUser(t)
    <3>1. messages' \in {messages, Append1(t, "USER", "question", {})}
      BY <2>1 DEF AppendUser
    <3>2. "question" \in Contents /\ {} \in SUBSET Tools
      BY DEF Contents
    <3>. QED
      BY <3>1, <3>2
  <2>2. CASE AppendAssistant(t)
    <3>1. messages' \in {messages, Append1(t, "ASSISTANT", turn[t].content,
                                           turn[t].recorded)}
      BY <2>2 DEF AppendAssistant
    <3>2. turn[t].content \in Contents /\ turn[t].recorded \in SUBSET Tools
      BY <1>1 DEF TurnStates
    <3>. QED
      BY <3>1, <3>2
  <2>. QED
    BY <2>1, <2>2
<1>4. messages' \in [Sessions -> Seq(Messages)] /\ ClosedSessionTakesNoNewQuestions'
  BY <1>1, <1>3, AppendKeepsClosed
<1>5. TypeOK'
  BY <1>2, <1>4 DEF ChatInv, TypeOK, TurnsInv, AppendUser, AppendAssistant
<1>. QED
  BY <1>2, <1>4, <1>5 DEF ChatInv

\* Beginning a turn: in a new session, or in one that is OPEN.
LEMMA BeginSteps ==
  ASSUME ChatInv, NEW t \in Turns, NEW s \in Sessions,
         CreateSession(t, s) \/ ResolveSession(t, s)
  PROVE  ChatInv'
<1>1. /\ turn[t] \in TurnStates /\ turn \in [Turns -> TurnStates] /\ faults \in Nat
      /\ sessions \in [Sessions -> {"NONE", "OPEN", "CLOSED"}]
  BY DEF ChatInv, TypeOK
<1>2. /\ closing' = closing /\ messages' = messages /\ jobs' = jobs /\ calls' = calls
      /\ approvals' = approvals /\ llm_runs' = llm_runs /\ snapshots' = snapshots
  BY DEF CreateSession, ResolveSession
<1>3. /\ sessions' \in [Sessions -> {"NONE", "OPEN", "CLOSED"}]
      /\ \A u \in Sessions : sessions'[u] = "CLOSED" => sessions[u] = "CLOSED"
  BY <1>1 DEF CreateSession, ResolveSession
<1>4. PICK local \in TurnStates :
        /\ turn' = [turn EXCEPT ![t] = local] /\ faults' \in Nat
        /\ local.pc \in {"append_user", "ended"}
        /\ local.pc = "append_user" => local.session = s /\ sessions'[s] = "OPEN"
  <2>1. CASE CreateSession(t, s)
    <3> DEFINE named == [turn[t] EXCEPT !.session = s]
    <3>1. PICK o \in Outcomes :
            /\ sessions' = IF Commits(o) THEN [sessions EXCEPT ![s] = "OPEN"] ELSE sessions
            /\ Goes(t, o, named, "append_user", "ended")
      BY <2>1 DEF CreateSession
    <3>2. named \in TurnStates /\ named.session = s
      BY <1>1 DEF TurnStates
    <3> HIDE DEF named
    <3> DEFINE pc == IF o = "ok" THEN "append_user" ELSE "ended"
               hit == [named EXCEPT !.hurt = @ \/ o # "ok"]
    <3>3. hit \in TurnStates /\ hit.session = s
      BY <3>2 DEF TurnStates
    <3>4. pc \in Pcs /\ pc \in {"append_user", "ended"}
      BY DEF Pcs
    <3>5. turn' = [turn EXCEPT ![t] = At(hit, pc)] /\ faults' \in Nat
      BY <1>1, <3>1 DEF Goes
    <3>6. pc = "append_user" => sessions'[s] = "OPEN"
      BY <1>1, <3>1 DEF Commits
    <3> HIDE DEF hit, pc
    <3>7. At(hit, pc) \in TurnStates /\ At(hit, pc).pc = pc /\ At(hit, pc).session = s
      BY <3>3, <3>4, AtType
    <3>. QED
      BY <3>4, <3>5, <3>6, <3>7
  <2>2. CASE ResolveSession(t, s)
    <3> DEFINE pc == IF sessions[s] = "OPEN" THEN "append_user" ELSE "ended"
               local == [turn[t] EXCEPT !.session = s, !.pc = pc]
    <3>1. pc \in Pcs /\ pc \in {"append_user", "ended"}
          /\ (pc = "append_user" => sessions[s] = "OPEN")
      BY DEF Pcs
    <3>2. turn' = [turn EXCEPT ![t] = local] /\ faults' = faults /\ sessions' = sessions
      BY <2>2 DEF ResolveSession
    <3> HIDE DEF pc
    <3>3. local \in TurnStates /\ local.session = s /\ local.pc = pc
      BY <1>1, <3>1 DEF TurnStates
    <3>. QED
      BY <1>1, <3>1, <3>2, <3>3
  <2>. QED
    BY <2>1, <2>2
<1>5. \A u \in Turns : turn'[u] = IF u = t THEN local ELSE turn[u]
  BY <1>1, <1>4
<1>6. TurnsInv'
  BY <1>1, <1>2, <1>3, <1>4, <1>5 DEF ChatInv, TurnsInv, IsRunning
<1>7. TypeOK'
  BY <1>2, <1>3, <1>4, <1>6 DEF ChatInv, TypeOK, TurnsInv
<1>8. ClosedSessionTakesNoNewQuestions'
  BY <1>2, <1>3 DEF ChatInv, ClosedSessionTakesNoNewQuestions
<1>. QED
  BY <1>6, <1>7, <1>8 DEF ChatInv

\* Closing a session notes the turns that run in it; closing it again notes nothing.
LEMMA CloseStep ==
  ASSUME ChatInv, NEW s \in Sessions, CloseSession(s)
  PROVE  ChatInv'
<1>1. /\ sessions \in [Sessions -> {"NONE", "OPEN", "CLOSED"}]
      /\ closing \in [Sessions -> [messages : Nat, running : SUBSET Turns]]
      /\ messages \in [Sessions -> Seq(Messages)]
  BY DEF ChatInv, TypeOK
<1>2. /\ messages' = messages /\ jobs' = jobs /\ calls' = calls /\ turn' = turn
      /\ approvals' = approvals /\ llm_runs' = llm_runs /\ snapshots' = snapshots
      /\ faults' = faults /\ sessions' = [sessions EXCEPT ![s] = "CLOSED"]
  BY DEF CloseSession
<1>3. CASE sessions[s] = "CLOSED"
  <2>1. sessions' = sessions /\ closing' = closing
    BY <1>1, <1>2, <1>3 DEF CloseSession
  <2>. QED
    BY <1>2, <2>1 DEF ChatInv, TypeOK, TurnsInv, IsRunning,
                      ClosedSessionTakesNoNewQuestions
<1>4. CASE sessions[s] # "CLOSED"
  <2> DEFINE noted == [messages |-> Len(messages[s]),
                       running |-> {t \in Turns : turn[t].session = s /\ IsRunning(t)}]
  <2>1. closing' = [closing EXCEPT ![s] = noted]
    BY <1>4 DEF CloseSession
  <2>2. /\ noted \in [messages : Nat, running : SUBSET Turns]
        /\ noted.messages = Len(messages[s]) /\ Len(messages[s]) \in Nat
        /\ \A t \in Turns : (turn[t].session = s /\ IsRunning(t)) => t \in noted.running
    BY <1>1
  <2> HIDE DEF noted
  <2>3. \A u \in Sessions : /\ closing'[u] = IF u = s THEN noted ELSE closing[u]
                            /\ sessions'[u] = IF u = s THEN "CLOSED" ELSE sessions[u]
    BY <1>1, <1>2, <2>1
  <2>4. TypeOK'
    BY <1>1, <1>2, <2>1, <2>2 DEF ChatInv, TypeOK
  <2>5. TurnsInv'
    BY <1>2, <2>2, <2>3 DEF ChatInv, TurnsInv, IsRunning
  <2>6. ClosedSessionTakesNoNewQuestions'
    <3> SUFFICES ASSUME NEW u \in Sessions, sessions'[u] = "CLOSED",
                        NEW i \in (closing'[u].messages + 1)..Len(messages[u])
                 PROVE  messages[u][i].turn \in closing'[u].running
      BY <1>2 DEF ClosedSessionTakesNoNewQuestions
    <3>1. CASE u = s
      BY <2>2, <2>3, <3>1
    <3>2. CASE u # s
      BY <2>3, <3>2 DEF ChatInv, ClosedSessionTakesNoNewQuestions
    <3>. QED
      BY <3>1, <3>2
  <2>. QED
    BY <2>4, <2>5, <2>6 DEF ChatInv
<1>. QED
  BY <1>3, <1>4

\* A stop of the process ends every turn that runs.
LEMMA CrashStep == ASSUME ChatInv, Crash PROVE ChatInv'
<1>1. turn \in [Turns -> TurnStates] /\ faults \in Nat
  BY DEF ChatInv, TypeOK
<1>2. /\ Quiet /\ jobs' = jobs /\ calls' = calls /\ approvals' = approvals
      /\ llm_runs' = llm_runs /\ snapshots' = snapshots /\ faults' = faults + 1
      /\ turn' = [t \in Turns |-> IF IsRunning(t)
                     THEN Ended([turn[t] EXCEPT !.hurt = TRUE]) ELSE turn[t]]
  BY DEF Crash, Quiet, KeptSessions
<1>3. ASSUME NEW t \in Turns
      PROVE  /\ Ended([turn[t] EXCEPT !.hurt = TRUE]) \in TurnStates
             /\ Ended([turn[t] EXCEPT !.hurt = TRUE]).pc = "ended"
  <2> DEFINE hit == [turn[t] EXCEPT !.hurt = TRUE]
  <2>1. hit \in TurnStates /\ "ended" \in Pcs
    <3>1. ASSUME NEW b \in BOOLEAN PROVE [turn[t] EXCEPT !.hurt = b] \in TurnStates
      BY <1>1 DEF TurnStates
    <3>2. TRUE \in BOOLEAN /\ "ended" \in Pcs
      BY DEF Pcs
    <3>. QED
      BY <3>1, <3>2
  <2> HIDE DEF hit
  <2>2. At(hit, "ended") \in TurnStates /\ At(hit, "ended").pc = "ended"
    BY <2>1, AtType
  <2>3. At(hit, "ended") = Ended(hit)
    BY DEF At
  <2>. QED
    BY <2>2, <2>3 DEF hit
<1>4. TurnsInv'
  <2>1. turn' \in [Turns -> TurnStates]
    BY <1>1, <1>2, <1>3
  <2>2. ASSUME NEW t \in Turns PROVE turn'[t].pc \in {"idle", "ended"}
    <3>1. CASE IsRunning(t)
      <4>1. turn'[t] = Ended([turn[t] EXCEPT !.hurt = TRUE])
        BY <1>2, <3>1
      <4>. QED
        BY <1>3, <4>1
    <3>2. CASE ~IsRunning(t)
      <4>1. turn'[t] = turn[t]
        BY <1>2, <3>2
      <4>. QED
        BY <3>2, <4>1 DEF IsRunning
    <3>. QED
      BY <3>1, <3>2
  <2>. QED
    BY <2>1, <2>2 DEF TurnsInv, IsRunning
<1>. QED
  BY <1>1, <1>2, <1>4, QuietStep DEF ChatInv, TypeOK

\* No session has been created and no turn has begun.
LEMMA InitInv == Init => ChatInv
<1> SUFFICES ASSUME Init PROVE ChatInv
  OBVIOUS
<1>1. NoResults \in Results /\ {} \in SUBSET Tools
  BY DEF NoResults, Results
<1>2. turn \in [Turns -> TurnStates] /\ \A t \in Turns : ~IsRunning(t)
  BY <1>1 DEF Init, TurnStates, Pcs, Contents, IsRunning
<1>3. /\ messages \in [Sessions -> Seq(Messages)] /\ llm_runs \in [Turns -> Seq(LlmStatuses)]
      /\ closing \in [Sessions -> [messages : Nat, running : SUBSET Turns]]
  BY DEF Init, NotClosed
<1>4. TypeOK
  BY <1>2, <1>3 DEF Init, TypeOK, JobStatuses
<1>5. ClosedSessionTakesNoNewQuestions
  BY DEF Init, ClosedSessionTakesNoNewQuestions
<1>. QED
  BY <1>2, <1>4, <1>5 DEF ChatInv, TurnsInv

\* Every step of the turns, of the sessions and of the process preserves the invariant.
LEMMA NextInv == ChatInv /\ [Next]_chatVars => ChatInv'
<1> SUFFICES ASSUME ChatInv, [Next]_chatVars PROVE ChatInv'
  OBVIOUS
<1>1. CASE UNCHANGED chatVars
  <2>1. Quiet /\ TurnsInv'
    BY <1>1 DEF chatVars, Quiet, KeptSessions, ChatInv, TurnsInv, IsRunning
  <2>. QED
    BY <1>1, <2>1, QuietStep DEF chatVars, ChatInv, TypeOK
<1>2. ASSUME NEW t \in Turns, NEW s \in Sessions, CreateSession(t, s) \/ ResolveSession(t, s)
      PROVE  ChatInv'
  BY <1>2, BeginSteps
<1>3. ASSUME NEW t \in Turns, Answering(t) PROVE ChatInv'
  BY <1>3, LocalSteps, RowSteps, MessageSteps DEF Answering
<1>4. ASSUME NEW s \in Sessions, CloseSession(s) PROVE ChatInv'
  BY <1>4, CloseStep
<1>5. CASE Crash
  BY <1>5, CrashStep
<1>. QED
  BY <1>1, <1>2, <1>3, <1>4, <1>5 DEF Next

\* What is stored in a closed session after it was closed belongs to requests that had
\* passed the check of the session before, for any number of turns, sessions and faults.
THEOREM ClosedSessionTakesNoNewQuestionsHolds == Spec => []ClosedSessionTakesNoNewQuestions
<1>1. ChatInv => ClosedSessionTakesNoNewQuestions
  BY DEF ChatInv
<1>. QED
  BY InitInv, NextInv, <1>1, PTL DEF Spec

\* The sessions, the rows and the turns have their types.
THEOREM ChatTypeCorrect == Spec => []TypeOK
<1>1. ChatInv => TypeOK
  BY DEF ChatInv
<1>. QED
  BY InitInv, NextInv, <1>1, PTL DEF Spec
==============================================================================
