---------------------------- MODULE ChatTurnProofs -----------------------------
(***************************************************************************)
(* What is stored of a turn of a chat, for any number of turns and         *)
(* sessions, any results of the tools and any number of faults: its job,   *)
(* its calls, approvals, LLM runs, snapshots and its answer tell one       *)
(* story.  They are stored in transactions of their own, so the invariant  *)
(* says, by the place the turn has reached, which of them there are and    *)
(* how they fit; a step of one turn leaves the story of another alone.     *)
(***************************************************************************)
EXTENDS ChatOrchestrationProofs

USE ChatAssumption, ResultsAssumption

\* The places of a turn: before the agent has run, with its results, and before the calls
\* are linked to the LLM run.
Early == {"idle", "append_user", "create_job", "run_agent"}
Working == {"record_calls", "approve", "prompt", "complete", "record_run", "attach",
            "snapshot", "finish"}
Unlinked == Early \cup (Working \ {"snapshot", "finish"})

ShotsOf(t) == {shot \in snapshots : shot.turn = t}
ToolsOf(t) == {row.tool : row \in RowsOf(t)}
Asked(t, tool) == <<t, tool>> \in approvals

\* The turn has its results, and has not failed.
Tells(t) == \/ turn[t].pc \in Working
            \/ turn[t].pc = "append_assistant" /\ turn[t].content # "error"

\* The rows are those of the tools that the turn has recorded, in its session.
RowsFit(t) ==
  /\ \A row \in RowsOf(t) : row.session = turn[t].session
  /\ turn[t].pc \in Early => /\ RowsOf(t) = {} /\ turn[t].recorded = {}
                             /\ turn[t].results = NoResults
  /\ Tells(t) => /\ turn[t].recorded = ToolsOf(t)
                 /\ turn[t].recorded \subseteq Planned(t)
                 /\ \A row \in RowsOf(t) : row.status = turn[t].results[row.tool]
                 /\ turn[t].pc # "record_calls" => Planned(t) \subseteq turn[t].recorded

\* The job is finished by the end of the turn only, and its status is that of the rows.
JobFits(t) ==
  /\ turn[t].pc \in Early \cup Working => jobs[t] # "SUCCEEDED"
  /\ jobs[t] = "SUCCEEDED" => \A row \in RowsOf(t) : row.status # "FAILED"
  /\ turn[t].pc = "append_assistant" =>
       jobs[t] = IF turn[t].content = "error"
                    \/ (\E row \in RowsOf(t) : row.status = "FAILED"
                                               /\ row.tool \in turn[t].recorded)
                 THEN "FAILED" ELSE "SUCCEEDED"

\* The text of the answer is chosen last, and a text of the LLM was valid.
ContentFits(t) ==
  /\ turn[t].pc \in Unlinked \cup {"snapshot"} => turn[t].content = "none"
  /\ turn[t].pc = "finish" => turn[t].content \in {"none", "direct", "deterministic"}
  /\ turn[t].pc = "append_assistant" /\ turn[t].content = "llm" => turn[t].llm = "SUCCESS"

\* The rows are linked after the last LLM run is recorded, all of them at once, and the
\* snapshot is taken after that.
RunsFit(t) ==
  /\ \A row \in RowsOf(t) :
       /\ turn[t].pc \in Unlinked => row.llm_run = NoRun
       /\ row.llm_run # NoRun => /\ row.llm_run = LastRun(t)
                                 /\ \A other \in RowsOf(t) : other.llm_run = row.llm_run
  /\ turn[t].pc \in Unlinked \cup {"snapshot"} => ShotsOf(t) = {}
  /\ \A shot \in ShotsOf(t) : shot.llm_run = LastRun(t) /\ shot.tool_calls = ToolsOf(t)
  /\ turn[t].pc \in Unlinked \ {"record_run", "attach"} => turn[t].llm = "none"
  /\ turn[t].pc \in {"attach", "snapshot", "finish", "append_assistant"}
       /\ turn[t].llm # "none" =>
       llm_runs[t] # <<>> /\ llm_runs[t][Len(llm_runs[t])] = turn[t].llm

\* What waits for an approval is asked for, or about to be, unless the turn was hurt.
ApprovalsFit(t) ==
  /\ \A tool \in Tools :
       Asked(t, tool) => \E row \in RowsOf(t) : /\ row.tool = tool
                                                /\ row.status = "APPROVAL_REQUIRED"
  /\ turn[t].pc = "approve" => turn[t].waiting \subseteq RequiresApproval(t)
  /\ turn[t].pc # "approve" => turn[t].waiting = {}
  /\ turn[t].pc = "handle_error" => turn[t].hurt
  /\ turn[t].pc = "append_assistant" /\ turn[t].content = "error" => turn[t].hurt
  /\ Tells(t) /\ turn[t].pc # "record_calls" /\ ~turn[t].hurt =>
       \A row \in RowsOf(t) :
         row.status = "APPROVAL_REQUIRED" => row.tool \in turn[t].waiting \/ Asked(t, row.tool)

\* The answer is stored at the end, and the rest of the turn is as it says.
AnswerFits(t) ==
  /\ turn[t].pc \notin {"touch", "ended"} => AnswersOf(t) = {}
  /\ \A m \in AnswersOf(t) :
       /\ jobs[t] = IF m.content = "error"
                       \/ (\E row \in RowsOf(t) : row.status = "FAILED"
                                                  /\ row.tool \in m.tool_calls)
                    THEN "FAILED" ELSE "SUCCEEDED"
       /\ m.content = "llm" => m.llm_status = "SUCCESS"
       /\ m.llm_status # "none" =>
            llm_runs[t] # <<>> /\ llm_runs[t][Len(llm_runs[t])] = m.llm_status
       /\ m.content # "error" => m.tool_calls = ToolsOf(t)
       /\ turn[t].hurt \/ \A row \in RowsOf(t) :
                            row.status = "APPROVAL_REQUIRED" => Asked(t, row.tool)

Story(t) == /\ RowsFit(t) /\ JobFits(t) /\ ContentFits(t) /\ RunsFit(t)
            /\ ApprovalsFit(t) /\ AnswerFits(t)
StoryInv == \A t \in Turns : Story(t)

\* What a turn that is not moved keeps: its state, and the rows that are its own.
KeepsOwn(u) ==
  /\ jobs'[u] = jobs[u] /\ llm_runs'[u] = llm_runs[u]
  /\ RowsOf(u)' = RowsOf(u) /\ ShotsOf(u)' = ShotsOf(u) /\ AnswersOf(u)' = AnswersOf(u)
  /\ \A tool \in Tools : Asked(u, tool)' <=> Asked(u, tool)

LEMMA KeepsStory ==
  ASSUME TypeOK, NEW u \in Turns, Story(u), KeepsOwn(u), turn'[u] = turn[u]
  PROVE  Story(u)'
<1>1. \A row \in RowsOf(u) : row.tool \in Tools
  BY DEF TypeOK, RowsOf, CallRows
<1>2. ToolsOf(u)' = ToolsOf(u) /\ LastRun(u)' = LastRun(u) /\ Planned(u)' = Planned(u)
      /\ RequiresApproval(u)' = RequiresApproval(u) /\ (Tells(u)' <=> Tells(u))
  BY DEF KeepsOwn, ToolsOf, LastRun, Planned, RequiresApproval, Tells
<1>3. RowsFit(u)' /\ JobFits(u)' /\ ContentFits(u)'
  BY <1>2 DEF Story, KeepsOwn, RowsFit, JobFits, ContentFits
<1>4. RunsFit(u)'
  BY <1>2 DEF Story, KeepsOwn, RunsFit
<1>5. ApprovalsFit(u)'
  BY <1>1, <1>2 DEF Story, KeepsOwn, ApprovalsFit
<1>6. AnswerFits(u)'
  BY <1>1, <1>2 DEF Story, KeepsOwn, AnswerFits
<1>. QED
  BY <1>3, <1>4, <1>5, <1>6 DEF Story

\* Where a step has left its turn: at pc, with what local says, or, when the turn has
\* ended, with its session only.
Left(t, local, pc) ==
  /\ turn'[t].pc = pc /\ turn'[t].session = local.session
  /\ local.hurt => turn'[t].hurt
  /\ pc # "ended" =>
       /\ turn'[t].results = local.results /\ turn'[t].recorded = local.recorded
       /\ turn'[t].waiting = local.waiting /\ turn'[t].content = local.content
       /\ turn'[t].llm = local.llm
  /\ pc = "ended" => turn'[t].waiting = {}
  /\ \A u \in Turns : u # t => turn'[u] = turn[u]

LEMMA LeftByMove ==
  ASSUME TypeOK, NEW t \in Turns, NEW local \in TurnStates, local.pc # "ended",
         turn' = [turn EXCEPT ![t] = local]
  PROVE  Left(t, local, local.pc) /\ (turn'[t].hurt => local.hurt)
BY DEF TypeOK, Left

LEMMA LeftByTransaction ==
  ASSUME TypeOK, NEW t \in Turns, NEW o, NEW local \in TurnStates,
         NEW next \in Pcs, NEW onError \in Pcs, Goes(t, o, local, next, onError)
  PROVE  /\ Left(t, local, IF o = "ok" THEN next ELSE onError)
         /\ o = "ok" /\ turn'[t].hurt => local.hurt
         /\ o # "ok" => turn'[t].hurt
<1> DEFINE pc == IF o = "ok" THEN next ELSE onError
           hit == [local EXCEPT !.hurt = @ \/ o # "ok"]
<1>1. /\ hit \in TurnStates /\ hit.session = local.session
      /\ (local.hurt => hit.hurt) /\ (o # "ok" => hit.hurt)
      /\ (o = "ok" /\ hit.hurt => local.hurt)
  BY DEF TurnStates
<1>2. /\ hit.results = local.results /\ hit.recorded = local.recorded
      /\ hit.waiting = local.waiting /\ hit.content = local.content
      /\ hit.llm = local.llm
  BY DEF TurnStates
<1>3. turn' = [turn EXCEPT ![t] = At(hit, pc)]
  BY DEF Goes
<1> HIDE DEF hit, pc
<1>4. turn'[t] = At(hit, pc) /\ \A u \in Turns : u # t => turn'[u] = turn[u]
  BY <1>3 DEF TypeOK
<1>5. CASE pc = "ended"
  BY <1>1, <1>4, <1>5 DEF At, Ended, Left, pc
<1>6. CASE pc # "ended"
  <2>1. turn'[t] = [hit EXCEPT !.pc = pc]
    BY <1>4, <1>6 DEF At
  <2>2. /\ turn'[t].pc = pc /\ turn'[t].session = hit.session /\ turn'[t].hurt = hit.hurt
        /\ turn'[t].results = hit.results /\ turn'[t].recorded = hit.recorded
        /\ turn'[t].waiting = hit.waiting /\ turn'[t].content = hit.content
        /\ turn'[t].llm = hit.llm
    BY <1>1, <2>1 DEF TurnStates
  <2>. QED
    BY <1>1, <1>2, <1>4, <1>6, <2>2 DEF Left, pc
<1>. QED
  BY <1>5, <1>6

\* The answers of a turn change when one is appended, and only its own.
LEMMA AnswersKept ==
  ASSUME messages' = messages, NEW u \in Turns
  PROVE  AnswersOf(u)' = AnswersOf(u)
BY DEF AnswersOf, MessagesOf

LEMMA AnswersAppended ==
  ASSUME TypeOK, NEW t \in Turns, turn[t].session \in Sessions, NEW u \in Turns,
         NEW role, NEW content, NEW tool_calls,
         messages' = Append1(t, role, content, tool_calls)
  PROVE  LET m == [turn |-> t, role |-> role, content |-> content,
                   llm_status |-> turn[t].llm, tool_calls |-> tool_calls]
         IN  AnswersOf(u)' = IF role = "ASSISTANT" /\ u = t
                             THEN AnswersOf(u) \cup {m} ELSE AnswersOf(u)
<1> DEFINE m == [turn |-> t, role |-> role, content |-> content,
                 llm_status |-> turn[t].llm, tool_calls |-> tool_calls]
<1>1. PICK s0 \in Sessions : messages' = [messages EXCEPT ![s0] = Append(messages[s0], m)]
  BY DEF Append1
<1>2. m.turn = t /\ m.role = role
  OBVIOUS
<1> HIDE DEF m
<1>3. messages[s0] \in Seq(Messages) /\ messages \in [Sessions -> Seq(Messages)]
  BY <1>1 DEF TypeOK
<1>4. MessagesOf(s0)' = MessagesOf(s0) \cup {m}
  <2>1. messages'[s0] = Append(messages[s0], m)
    BY <1>1, <1>3
  <2>2. /\ DOMAIN messages'[s0] = 1..(Len(messages[s0]) + 1)
        /\ DOMAIN messages[s0] = 1..Len(messages[s0]) /\ Len(messages[s0]) \in Nat
        /\ \A i \in 1..Len(messages[s0]) : messages'[s0][i] = messages[s0][i]
        /\ messages'[s0][Len(messages[s0]) + 1] = m
    BY <1>3, <2>1
  <2>3. /\ MessagesOf(s0) = {messages[s0][i] : i \in 1..Len(messages[s0])}
        /\ MessagesOf(s0)' = {messages'[s0][i] : i \in 1..(Len(messages[s0]) + 1)}
    BY <1>1, <2>2 DEF MessagesOf
  <2>4. ASSUME NEW i \in 1..(Len(messages[s0]) + 1)
        PROVE  messages'[s0][i] \in MessagesOf(s0) \cup {m}
    BY <2>2, <2>3
  <2>5. ASSUME NEW i \in 1..Len(messages[s0]) PROVE messages[s0][i] \in MessagesOf(s0)'
    <3>1. i \in 1..(Len(messages[s0]) + 1) /\ messages'[s0][i] = messages[s0][i]
      BY <2>2
    <3>. QED
      BY <2>3, <3>1
  <2>6. m \in MessagesOf(s0)'
    <3>1. Len(messages[s0]) + 1 \in 1..(Len(messages[s0]) + 1)
      BY <2>2
    <3>. QED
      BY <2>2, <2>3, <3>1
  <2>. QED
    BY <2>3, <2>4, <2>5, <2>6
<1>5. \A s \in Sessions : s # s0 => MessagesOf(s)' = MessagesOf(s)
  BY <1>1, <1>3 DEF MessagesOf
<1>6. ASSUME NEW x
      PROVE  x \in AnswersOf(u)' <=> \/ x \in AnswersOf(u)
                                     \/ x = m /\ role = "ASSISTANT" /\ u = t
  <2>1. x \in AnswersOf(u) <=> /\ \E s \in Sessions : x \in MessagesOf(s)
                               /\ x.turn = u /\ x.role = "ASSISTANT"
    BY DEF AnswersOf
  <2>2. x \in AnswersOf(u)' <=> /\ \E s \in Sessions : x \in MessagesOf(s)'
                                /\ x.turn = u /\ x.role = "ASSISTANT"
    BY DEF AnswersOf
  <2>3. (\E s \in Sessions : x \in MessagesOf(s)') <=>
          x = m \/ \E s \in Sessions : x \in MessagesOf(s)
    BY <1>1, <1>4, <1>5
  <2>4. x = m => x.turn = t /\ x.role = role
    BY <1>2
  <2>. QED
    BY <2>1, <2>2, <2>3, <2>4
<1>7. AnswersOf(u)' = IF role = "ASSISTANT" /\ u = t
                      THEN AnswersOf(u) \cup {m} ELSE AnswersOf(u)
  BY <1>6
<1>. QED
  BY <1>7 DEF m

\* A step that stores nothing.
LEMMA KeepsAll ==
  ASSUME messages' = messages, jobs' = jobs, calls' = calls, approvals' = approvals,
         llm_runs' = llm_runs, snapshots' = snapshots, NEW u \in Turns
  PROVE  KeepsOwn(u)
BY AnswersKept DEF KeepsOwn, RowsOf, ShotsOf, Asked

\* What the rows of a turn say depends on the rows only.
LEMMA KeepsDerived ==
  ASSUME NEW t \in Turns, KeepsOwn(t)
  PROVE  ToolsOf(t)' = ToolsOf(t) /\ LastRun(t)' = LastRun(t)
BY DEF KeepsOwn, ToolsOf, LastRun

\* A turn that ends without storing anything else keeps its story.
LEMMA EndStory ==
  ASSUME ChatInv, NEW t \in Turns, Story(t), KeepsOwn(t), NEW local,
         Left(t, local, "ended"), local.session = turn[t].session \/ RowsOf(t) = {},
         turn[t].hurt => local.hurt
  PROVE  Story(t)'
<1>1. /\ turn'[t].pc = "ended" /\ turn'[t].waiting = {} /\ (turn[t].hurt => turn'[t].hurt)
      /\ turn'[t].session = turn[t].session \/ RowsOf(t) = {}
      /\ ~Tells(t)' /\ turn'[t].pc \notin Early \cup Working /\ turn'[t].pc \notin Unlinked
  BY DEF Left, Tells, Early, Working, Unlinked
<1>2. \A row \in RowsOf(t) : row.tool \in Tools
  BY DEF ChatInv, TypeOK, RowsOf, CallRows
<1>3. RowsFit(t)' /\ JobFits(t)' /\ ContentFits(t)'
  BY <1>1 DEF Story, RowsFit, JobFits, ContentFits, KeepsOwn
<1>4. RunsFit(t)'
  BY <1>1, KeepsDerived DEF Story, RunsFit, KeepsOwn
<1>5. ApprovalsFit(t)'
  BY <1>1 DEF Story, ApprovalsFit, KeepsOwn
<1>6. AnswerFits(t)'
  BY <1>1, <1>2, KeepsDerived DEF Story, AnswerFits, KeepsOwn
<1>. QED
  BY <1>3, <1>4, <1>5, <1>6 DEF Story

\* A turn that fails goes on with the handler, hurt.
LEMMA FailStory ==
  ASSUME ChatInv, NEW t \in Turns, Story(t), KeepsOwn(t), NEW local,
         Left(t, local, "handle_error"), turn'[t].hurt,
         local.session = turn[t].session, local.waiting = {},
         turn[t].pc \notin {"touch", "ended"}
  PROVE  Story(t)'
<1>1. /\ turn'[t].pc = "handle_error" /\ turn'[t].waiting = {} /\ turn'[t].hurt
      /\ turn'[t].session = turn[t].session
      /\ ~Tells(t)' /\ turn'[t].pc \notin Early \cup Working /\ turn'[t].pc \notin Unlinked
  BY DEF Left, Tells, Early, Working, Unlinked
<1>3. RowsFit(t)' /\ JobFits(t)' /\ ContentFits(t)'
  BY <1>1 DEF Story, RowsFit, JobFits, ContentFits, KeepsOwn
<1>4. RunsFit(t)'
  BY <1>1, KeepsDerived DEF Story, RunsFit, KeepsOwn
<1>5. ApprovalsFit(t)'
  BY <1>1 DEF Story, ApprovalsFit, KeepsOwn
<1>6. AnswerFits(t)'
  BY <1>1 DEF Story, AnswerFits, KeepsOwn
<1>. QED
  BY <1>3, <1>4, <1>5, <1>6 DEF Story

\* A turn that has no results goes on without any.
LEMMA EarlyStory ==
  ASSUME ChatInv, NEW t \in Turns, Story(t), KeepsOwn(t), turn[t].pc \in Early,
         NEW pc \in Early, NEW local, Left(t, local, pc),
         local.results = turn[t].results, local.recorded = turn[t].recorded,
         local.waiting = turn[t].waiting, local.content = turn[t].content,
         local.llm = turn[t].llm
  PROVE  Story(t)'
<1>1. /\ turn'[t].pc = pc /\ pc # "ended" /\ ~Tells(t) /\ ~Tells(t)'
      /\ turn'[t].waiting = turn[t].waiting /\ turn'[t].content = turn[t].content
      /\ turn'[t].llm = turn[t].llm /\ turn'[t].recorded = turn[t].recorded
      /\ turn'[t].results = turn[t].results
  BY DEF Left, Tells, Early, Working
<1>3. RowsFit(t)' /\ JobFits(t)' /\ ContentFits(t)'
  BY <1>1 DEF Story, RowsFit, JobFits, ContentFits, KeepsOwn, Early, Unlinked
<1>4. RunsFit(t)'
  BY <1>1, KeepsDerived DEF Story, RunsFit, KeepsOwn, Early, Unlinked
<1>5. ApprovalsFit(t)'
  BY <1>1 DEF Story, ApprovalsFit, RowsFit, KeepsOwn, Early
<1>6. AnswerFits(t)'
  BY <1>1 DEF Story, AnswerFits, KeepsOwn, Early
<1>. QED
  BY <1>3, <1>4, <1>5, <1>6 DEF Story

\* A turn with its results goes on with them, and stores nothing in this step.
LEMMA GoOnStory ==
  ASSUME ChatInv, NEW t \in Turns, Story(t), KeepsOwn(t),
         turn[t].pc \in {"run_agent"} \cup Working,
         NEW pc \in Working \ {"record_calls"}, NEW local \in TurnStates,
         Left(t, local, pc), turn'[t].hurt => local.hurt,
         local.session = turn[t].session, local.results = turn[t].results,
         local.recorded = turn[t].recorded, local.hurt = turn[t].hurt,
         turn[t].pc = "record_calls" => Planned(t) \subseteq turn[t].recorded,
         pc \in Unlinked => turn[t].pc \in Unlinked,
         pc = "snapshot" => turn[t].pc \in Unlinked \cup {"snapshot"},
         IF pc = "finish" THEN local.content \in {"none", "direct", "deterministic"}
                          ELSE local.content = "none",
         pc \in Unlinked \ {"record_run", "attach"} => local.llm = "none",
         pc \in {"attach", "snapshot", "finish"} /\ local.llm # "none" =>
           llm_runs[t] # <<>> /\ llm_runs[t][Len(llm_runs[t])] = local.llm,
         local.waiting \subseteq RequiresApproval(t), pc # "approve" => local.waiting = {},
         turn[t].pc = "record_calls" => RequiresApproval(t) \subseteq local.waiting,
         turn[t].pc = "approve" => turn[t].waiting \subseteq local.waiting
  PROVE  Story(t)'
<1>1. /\ turn'[t].pc = pc /\ turn'[t].session = turn[t].session
      /\ turn'[t].waiting = local.waiting /\ turn'[t].content = local.content
      /\ turn'[t].llm = local.llm /\ turn'[t].recorded = turn[t].recorded
      /\ turn'[t].results = turn[t].results /\ (turn[t].hurt <=> turn'[t].hurt)
  BY DEF Left, Working
<1>2. Tells(t)' /\ (Tells(t) <=> turn[t].pc # "run_agent")
  BY <1>1 DEF Tells, Working
<1>3. Planned(t)' = Planned(t) /\ RequiresApproval(t)' = RequiresApproval(t)
  BY <1>1 DEF Planned, RequiresApproval
<1>4. turn[t].pc = "run_agent" => Planned(t) = {}
  BY DEF Story, RowsFit, Early, Planned, NoResults
<1>5. RowsFit(t)'
  <2>1. CASE turn[t].pc = "run_agent"
    BY <1>1, <1>2, <1>3, <1>4, <2>1, KeepsDerived
       DEF Story, RowsFit, KeepsOwn, Early, Working, ToolsOf
  <2>2. CASE turn[t].pc # "run_agent"
    BY <1>1, <1>2, <1>3, <2>2, KeepsDerived DEF Story, RowsFit, KeepsOwn, Early, Working
  <2>. QED
    BY <2>1, <2>2
<1>6. JobFits(t)' /\ ContentFits(t)'
  BY <1>1 DEF Story, JobFits, ContentFits, KeepsOwn, Early, Working, Unlinked
<1>7. RunsFit(t)'
  BY <1>1, KeepsDerived DEF Story, RunsFit, KeepsOwn, Early, Working, Unlinked
<1>8. ApprovalsFit(t)'
  <2>1. \A row \in RowsOf(t) : row.tool \in Tools
    BY DEF ChatInv, TypeOK, RowsOf, CallRows
  <2>2. ASSUME NEW row \in RowsOf(t), row.status = "APPROVAL_REQUIRED", ~turn[t].hurt
        PROVE  row.tool \in local.waiting \/ Asked(t, row.tool)
    <3>1. turn[t].pc # "run_agent" /\ row.status = turn[t].results[row.tool]
          /\ row.tool \in Planned(t)
      BY <1>2, <2>2 DEF Story, RowsFit, Early, ToolsOf
    <3>2. CASE turn[t].pc = "record_calls"
      BY <2>1, <2>2, <3>1, <3>2 DEF RequiresApproval
    <3>3. CASE turn[t].pc # "record_calls"
      BY <1>2, <2>2, <3>1, <3>3 DEF Story, ApprovalsFit, Working
    <3>. QED
      BY <3>2, <3>3
  <2>. QED
    BY <1>1, <1>2, <1>3, <2>1, <2>2 DEF Story, ApprovalsFit, KeepsOwn, Early, Working
<1>9. AnswerFits(t)'
  BY <1>1 DEF Story, AnswerFits, KeepsOwn, Early, Working
<1>. QED
  BY <1>5, <1>6, <1>7, <1>8, <1>9 DEF Story

\* The results of the agent run: nothing of them is recorded yet.
LEMMA RunToolsStory ==
  ASSUME ChatInv, NEW t \in Turns, Story(t), RunTools(t)
  PROVE  Story(t)' /\ \A u \in Turns : u # t => turn'[u] = turn[u]
<1>1. PICK results \in AgentResults[t] :
        turn' = [turn EXCEPT ![t] = [turn[t] EXCEPT !.results = results,
                                                    !.pc = "record_calls"]]
  BY DEF RunTools
<1>2. turn[t] \in TurnStates /\ turn[t].pc = "run_agent" /\ results \in Results
  BY DEF ChatInv, TypeOK, RunTools
<1> DEFINE local == [turn[t] EXCEPT !.results = results, !.pc = "record_calls"]
<1>3. /\ local \in TurnStates /\ local.pc = "record_calls" /\ local.hurt = turn[t].hurt
      /\ local.recorded = turn[t].recorded /\ local.waiting = turn[t].waiting
      /\ local.content = turn[t].content /\ local.llm = turn[t].llm
      /\ local.session = turn[t].session
  BY <1>2 DEF TurnStates, Pcs
<1> HIDE DEF local
<1>4. Left(t, local, "record_calls") /\ (turn'[t].hurt => local.hurt)
  BY <1>1, <1>3, LeftByMove DEF ChatInv, local
<1>5. KeepsOwn(t)
  BY KeepsAll DEF RunTools
<1>6. /\ turn'[t].pc = "record_calls" /\ turn'[t].session = turn[t].session
      /\ turn'[t].waiting = turn[t].waiting /\ turn'[t].content = turn[t].content
      /\ turn'[t].llm = turn[t].llm /\ turn'[t].recorded = turn[t].recorded
  BY <1>3, <1>4 DEF Left
<1>7. RowsOf(t) = {} /\ turn[t].recorded = {} /\ ToolsOf(t) = {}
  BY <1>2 DEF Story, RowsFit, Early, ToolsOf
<1>8. RowsFit(t)' /\ JobFits(t)' /\ ContentFits(t)'
  BY <1>2, <1>5, <1>6, <1>7, KeepsDerived
     DEF Story, RowsFit, JobFits, ContentFits, KeepsOwn, Early, Working, Unlinked
<1>9. RunsFit(t)'
  BY <1>2, <1>5, <1>6, <1>7, KeepsDerived
     DEF Story, RunsFit, KeepsOwn, Early, Working, Unlinked
<1>10. ApprovalsFit(t)' /\ AnswerFits(t)'
  BY <1>2, <1>5, <1>6, <1>7 DEF Story, ApprovalsFit, AnswerFits, KeepsOwn, Early, Working
<1>. QED
  BY <1>4, <1>8, <1>9, <1>10 DEF Story, Left

\* The steps that change nothing but the turn.
LEMMA LocalStory ==
  ASSUME ChatInv, NEW t \in Turns, Story(t),
         \/ AnswerDirectly(t) \/ RunTools(t) \/ AgentRaises(t) \/ CallsRecorded(t)
         \/ AnswerFromTools(t) \/ AskLlm(t) \/ EnsurePrompt(t) \/ CallLlm(t) \/ Touch(t)
  PROVE  /\ Story(t)'
         /\ \A u \in Turns : KeepsOwn(u) /\ (u # t => turn'[u] = turn[u])
<1>1. turn[t] \in TurnStates /\ TypeOK
  BY DEF ChatInv, TypeOK
<1>2. \A u \in Turns : KeepsOwn(u)
  <2>1. /\ messages' = messages /\ jobs' = jobs /\ calls' = calls /\ approvals' = approvals
        /\ llm_runs' = llm_runs /\ snapshots' = snapshots
    BY DEF AnswerDirectly, RunTools, AgentRaises, CallsRecorded, AnswerFromTools, AskLlm,
           EnsurePrompt, CallLlm, Touch
  <2>. QED
    BY <2>1, KeepsAll
<1>3. ASSUME NEW local \in TurnStates, turn' = [turn EXCEPT ![t] = local],
             local.pc # "ended", local.hurt = turn[t].hurt
      PROVE  /\ Left(t, local, local.pc) /\ (turn'[t].hurt => local.hurt)
             /\ \A u \in Turns : u # t => turn'[u] = turn[u]
  BY <1>1, <1>3, LeftByMove DEF Left
<1>4. CASE AnswerDirectly(t)
  <2> DEFINE local == [turn[t] EXCEPT !.content = "direct", !.pc = "finish"]
  <2>1. /\ local \in TurnStates /\ local.pc = "finish" /\ local.hurt = turn[t].hurt
        /\ local.recorded = turn[t].recorded /\ local.waiting = turn[t].waiting
        /\ local.results = turn[t].results /\ local.llm = turn[t].llm
        /\ local.session = turn[t].session /\ local.content = "direct"
    BY <1>1 DEF TurnStates, Pcs, Contents
  <2>2. turn' = [turn EXCEPT ![t] = local] /\ turn[t].pc = "run_agent"
    BY <1>4 DEF AnswerDirectly, AfterDirect
  <2> HIDE DEF local
  <2>3. /\ Left(t, local, "finish") /\ (turn'[t].hurt => local.hurt)
        /\ \A u \in Turns : u # t => turn'[u] = turn[u]
    BY <1>3, <2>1, <2>2
  <2>4. turn[t].llm = "none" /\ turn[t].waiting = {}
    BY <2>2 DEF Story, RunsFit, ApprovalsFit, Unlinked, Early
  <2>5. Story(t)'
    BY <1>2, <2>1, <2>2, <2>3, <2>4, GoOnStory DEF Working, Unlinked, Early
  <2>. QED
    BY <1>2, <2>3, <2>5
<1>5. CASE RunTools(t)
  BY <1>2, <1>5, RunToolsStory
<1>6. CASE AgentRaises(t)
  <2>1. Left(t, turn[t], "handle_error") /\ turn'[t].hurt
    BY <1>1, <1>6, LeftByTransaction, Places DEF AgentRaises
  <2>2. turn[t].pc = "run_agent" /\ turn[t].waiting = {}
    BY <1>6 DEF AgentRaises, Story, ApprovalsFit
  <2>3. Story(t)'
    BY <1>2, <2>1, <2>2, FailStory
  <2>. QED
    BY <1>2, <2>1, <2>3 DEF Left
<1>7. CASE CallsRecorded(t)
  <2> DEFINE local == [turn[t] EXCEPT !.waiting = RequiresApproval(t), !.pc = "approve"]
  <2>1. RequiresApproval(t) \in SUBSET Tools
    BY DEF RequiresApproval, Planned
  <2>2. /\ local \in TurnStates /\ local.pc = "approve" /\ local.hurt = turn[t].hurt
        /\ local.recorded = turn[t].recorded /\ local.waiting = RequiresApproval(t)
        /\ local.results = turn[t].results /\ local.llm = turn[t].llm
        /\ local.session = turn[t].session /\ local.content = turn[t].content
    BY <1>1, <2>1 DEF TurnStates, Pcs
  <2>3. /\ turn' = [turn EXCEPT ![t] = local]
        /\ turn[t].pc = "record_calls" /\ turn[t].recorded = Planned(t)
    BY <1>7 DEF CallsRecorded
  <2> HIDE DEF local
  <2>4. /\ Left(t, local, "approve") /\ (turn'[t].hurt => local.hurt)
        /\ \A u \in Turns : u # t => turn'[u] = turn[u]
    BY <1>3, <2>2, <2>3
  <2>5. turn[t].llm = "none" /\ turn[t].content = "none"
    BY <2>3 DEF Story, RunsFit, ContentFits, Unlinked, Early, Working
  <2>6. Story(t)'
    BY <1>2, <2>2, <2>3, <2>4, <2>5, GoOnStory DEF Working, Unlinked, Early
  <2>. QED
    BY <1>2, <2>4, <2>6
<1>8. CASE AnswerFromTools(t)
  <2> DEFINE local == [turn[t] EXCEPT !.content = "deterministic", !.pc = "finish"]
  <2>1. /\ local \in TurnStates /\ local.pc = "finish" /\ local.hurt = turn[t].hurt
        /\ local.recorded = turn[t].recorded /\ local.waiting = turn[t].waiting
        /\ local.results = turn[t].results /\ local.llm = turn[t].llm
        /\ local.session = turn[t].session /\ local.content = "deterministic"
    BY <1>1 DEF TurnStates, Pcs, Contents
  <2>2. /\ turn' = [turn EXCEPT ![t] = local] /\ turn[t].pc = "approve"
        /\ turn[t].waiting = {}
    BY <1>8 DEF AnswerFromTools
  <2> HIDE DEF local
  <2>3. /\ Left(t, local, "finish") /\ (turn'[t].hurt => local.hurt)
        /\ \A u \in Turns : u # t => turn'[u] = turn[u]
    BY <1>3, <2>1, <2>2
  <2>4. turn[t].llm = "none"
    BY <2>2 DEF Story, RunsFit, Unlinked, Early, Working
  <2>5. Story(t)'
    BY <1>2, <2>1, <2>2, <2>3, <2>4, GoOnStory DEF Working, Unlinked, Early
  <2>. QED
    BY <1>2, <2>3, <2>5
<1>9. CASE AskLlm(t)
  <2> DEFINE local == [turn[t] EXCEPT !.pc = "prompt"]
  <2>1. /\ local \in TurnStates /\ local.pc = "prompt" /\ local.hurt = turn[t].hurt
        /\ local.recorded = turn[t].recorded /\ local.waiting = turn[t].waiting
        /\ local.results = turn[t].results /\ local.llm = turn[t].llm
        /\ local.session = turn[t].session /\ local.content = turn[t].content
    BY <1>1 DEF TurnStates, Pcs
  <2>2. /\ turn' = [turn EXCEPT ![t] = local] /\ turn[t].pc = "approve"
        /\ turn[t].waiting = {}
    BY <1>9 DEF AskLlm
  <2> HIDE DEF local
  <2>3. /\ Left(t, local, "prompt") /\ (turn'[t].hurt => local.hurt)
        /\ \A u \in Turns : u # t => turn'[u] = turn[u]
    BY <1>3, <2>1, <2>2
  <2>4. turn[t].llm = "none" /\ turn[t].content = "none"
    BY <2>2 DEF Story, RunsFit, ContentFits, Unlinked, Early, Working
  <2>5. Story(t)'
    BY <1>2, <2>1, <2>2, <2>3, <2>4, GoOnStory DEF Working, Unlinked, Early
  <2>. QED
    BY <1>2, <2>3, <2>5
<1>10. CASE EnsurePrompt(t)
  <2>1. PICK o \in {"ok", "lost"} : Goes(t, o, turn[t], "complete", "handle_error")
    BY <1>10 DEF EnsurePrompt
  <2>2. /\ Left(t, turn[t], IF o = "ok" THEN "complete" ELSE "handle_error")
        /\ (o = "ok" /\ turn'[t].hurt => turn[t].hurt) /\ (o # "ok" => turn'[t].hurt)
    BY <1>1, <2>1, LeftByTransaction, Places
  <2>3. /\ turn[t].pc = "prompt" /\ turn[t].waiting = {}
        /\ turn[t].llm = "none" /\ turn[t].content = "none"
    BY <1>10 DEF EnsurePrompt, Story, RunsFit, ContentFits, ApprovalsFit, Unlinked, Early,
                Working
  <2>4. CASE o = "ok"
    BY <1>1, <1>2, <2>2, <2>3, <2>4, GoOnStory DEF Working, Unlinked, Early, Left
  <2>5. CASE o # "ok"
    BY <1>2, <2>2, <2>3, <2>5, FailStory DEF Left
  <2>. QED
    BY <2>4, <2>5
<1>11. CASE CallLlm(t)
  <2>1. PICK local \in LlmReplies(t) : turn' = [turn EXCEPT ![t] = local]
    BY <1>11 DEF CallLlm
  <2>2. turn[t].pc = "complete"
    BY <1>11 DEF CallLlm
  <2>3. /\ local \in TurnStates /\ local.hurt = turn[t].hurt
        /\ local.recorded = turn[t].recorded /\ local.waiting = turn[t].waiting
        /\ local.results = turn[t].results /\ local.content = turn[t].content
        /\ local.session = turn[t].session
        /\ \/ local.pc = "record_run"
           \/ local.pc = "complete" /\ local.llm = turn[t].llm
    BY <1>1, <2>2, LlmReplyFields
  <2>4. /\ Left(t, local, local.pc) /\ (turn'[t].hurt => local.hurt)
        /\ \A u \in Turns : u # t => turn'[u] = turn[u]
    BY <1>3, <2>1, <2>3
  <2>5. turn[t].llm = "none" /\ turn[t].content = "none" /\ turn[t].waiting = {}
    BY <2>2 DEF Story, RunsFit, ContentFits, ApprovalsFit, Unlinked, Early, Working
  <2>6. Story(t)'
    BY <1>2, <2>2, <2>3, <2>4, <2>5, GoOnStory DEF Working, Unlinked, Early
  <2>. QED
    BY <1>2, <2>4, <2>6
<1>12. CASE Touch(t)
  <2>1. Left(t, turn[t], "ended")
    BY <1>1, <1>12, LeftByTransaction, Places DEF Touch
  <2>2. Story(t)'
    BY <1>2, <2>1, EndStory
  <2>. QED
    BY <1>2, <2>1, <2>2 DEF Left
<1>. QED
  BY <1>4, <1>5, <1>6, <1>7, <1>8, <1>9, <1>10, <1>11, <1>12

\* The question is stored; the answers stay as they are.
LEMMA AppendUserStory ==
  ASSUME ChatInv, NEW t \in Turns, Story(t), AppendUser(t)
  PROVE  /\ Story(t)'
         /\ \A u \in Turns : u # t => KeepsOwn(u) /\ turn'[u] = turn[u]
<1>1. turn[t] \in TurnStates /\ TypeOK /\ turn[t].session \in Sessions
      /\ turn[t].pc = "append_user"
  BY DEF ChatInv, TypeOK, TurnsInv, IsRunning, AppendUser
<1>2. PICK o \in Outcomes :
        /\ messages' = IF Commits(o) THEN Append1(t, "USER", "question", {}) ELSE messages
        /\ Goes(t, o, turn[t], "create_job", "ended")
  BY DEF AppendUser
<1>3. Left(t, turn[t], IF o = "ok" THEN "create_job" ELSE "ended")
  BY <1>1, <1>2, LeftByTransaction, Places
<1>4. ASSUME NEW u \in Turns PROVE KeepsOwn(u)
  <2>1. AnswersOf(u)' = AnswersOf(u)
    BY <1>1, <1>2, AnswersKept, AnswersAppended
  <2>. QED
    BY <2>1 DEF AppendUser, KeepsOwn, RowsOf, ShotsOf, Asked
<1>5. CASE o = "ok"
  BY <1>1, <1>3, <1>4, <1>5, EarlyStory DEF Early, Left
<1>6. CASE o # "ok"
  BY <1>1, <1>3, <1>4, <1>6, EndStory DEF Left
<1>. QED
  BY <1>5, <1>6, <1>4, <1>3 DEF Left

\* The job of a turn begins before there are rows.
LEMMA CreateJobStory ==
  ASSUME ChatInv, NEW t \in Turns, Story(t), CreateJob(t)
  PROVE  /\ Story(t)'
         /\ \A u \in Turns : u # t => KeepsOwn(u) /\ turn'[u] = turn[u]
<1>1. turn[t] \in TurnStates /\ TypeOK /\ turn[t].pc = "create_job"
  BY DEF ChatInv, TypeOK, CreateJob
<1>2. PICK o \in Outcomes :
        /\ jobs' = IF Commits(o) THEN [jobs EXCEPT ![t] = "RUNNING"] ELSE jobs
        /\ Goes(t, o, turn[t], "run_agent", "ended")
  BY DEF CreateJob
<1>3. Left(t, turn[t], IF o = "ok" THEN "run_agent" ELSE "ended")
  BY <1>1, <1>2, LeftByTransaction, Places
<1>4. \A u \in Turns : /\ AnswersOf(u)' = AnswersOf(u) /\ RowsOf(u)' = RowsOf(u)
                       /\ ShotsOf(u)' = ShotsOf(u) /\ llm_runs'[u] = llm_runs[u]
                       /\ \A tool \in Tools : Asked(u, tool)' <=> Asked(u, tool)
  BY AnswersKept DEF CreateJob, RowsOf, ShotsOf, Asked
<1>5. /\ jobs'[t] # "SUCCEEDED"
      /\ \A u \in Turns : u # t => jobs'[u] = jobs[u]
  BY <1>1, <1>2 DEF TypeOK, Story, JobFits, Early
<1>6. \A u \in Turns : u # t => KeepsOwn(u) /\ turn'[u] = turn[u]
  BY <1>3, <1>4, <1>5 DEF KeepsOwn, Left
<1>7. /\ RowsOf(t) = {} /\ turn[t].recorded = {} /\ turn[t].results = NoResults
      /\ turn[t].content = "none" /\ turn[t].llm = "none" /\ turn[t].waiting = {}
      /\ ShotsOf(t) = {} /\ AnswersOf(t) = {}
      /\ \A tool \in Tools : ~Asked(t, tool)
  BY <1>1 DEF Story, RowsFit, ContentFits, RunsFit, ApprovalsFit, AnswerFits, Early,
              Unlinked
<1>8. /\ turn'[t].pc \in {"run_agent", "ended"} /\ turn'[t].waiting = {}
      /\ turn'[t].pc = "run_agent" =>
           /\ turn'[t].recorded = {} /\ turn'[t].results = NoResults
           /\ turn'[t].content = "none" /\ turn'[t].llm = "none"
  BY <1>3, <1>7 DEF Left
<1>9. ~Tells(t)'
  BY <1>8 DEF Tells, Working
<1>10. RowsFit(t)' /\ JobFits(t)' /\ ContentFits(t)'
  BY <1>4, <1>5, <1>7, <1>8, <1>9
     DEF RowsFit, JobFits, ContentFits, Early, Working, Unlinked
<1>11. RunsFit(t)'
  BY <1>4, <1>7, <1>8 DEF RunsFit, Early, Working, Unlinked
<1>12. ApprovalsFit(t)' /\ AnswerFits(t)'
  BY <1>4, <1>7, <1>8, <1>9 DEF ApprovalsFit, AnswerFits
<1>. QED
  BY <1>6, <1>10, <1>11, <1>12 DEF Story

\* A result of the agent run gets its row; when that raises, the row may be there.
LEMMA RecordCallStory ==
  ASSUME ChatInv, NEW t \in Turns, Story(t), RecordCall(t)
  PROVE  /\ Story(t)'
         /\ \A u \in Turns : u # t => KeepsOwn(u) /\ turn'[u] = turn[u]
<1>1. turn[t] \in TurnStates /\ TypeOK /\ turn[t].pc = "record_calls"
  BY DEF ChatInv, TypeOK, RecordCall
<1>2. PICK tool \in Planned(t) \ turn[t].recorded, o \in Outcomes :
        /\ calls' = IF Commits(o)
                    THEN calls \cup {[turn |-> t, session |-> turn[t].session,
                           tool |-> tool, status |-> turn[t].results[tool],
                           llm_run |-> NoRun]}
                    ELSE calls
        /\ Goes(t, o, [turn[t] EXCEPT !.recorded = @ \cup {tool}], "record_calls",
                "handle_error")
  BY DEF RecordCall
<1> DEFINE local == [turn[t] EXCEPT !.recorded = @ \cup {tool}]
           r == [turn |-> t, session |-> turn[t].session, tool |-> tool,
                 status |-> turn[t].results[tool], llm_run |-> NoRun]
<1>3. /\ local \in TurnStates /\ local.recorded = turn[t].recorded \cup {tool}
      /\ local.waiting = turn[t].waiting /\ local.hurt = turn[t].hurt
      /\ local.results = turn[t].results /\ local.llm = turn[t].llm
      /\ local.session = turn[t].session /\ local.content = turn[t].content
  BY <1>1, <1>2 DEF TurnStates, Planned
<1>4. /\ r.turn = t /\ r.session = turn[t].session /\ r.tool = tool
      /\ r.status = turn[t].results[tool] /\ r.llm_run = NoRun
  OBVIOUS
<1>5. /\ calls' = IF Commits(o) THEN calls \cup {r} ELSE calls
      /\ Goes(t, o, local, "record_calls", "handle_error")
  BY <1>2
<1> HIDE DEF local, r
<1>6. /\ Left(t, local, IF o = "ok" THEN "record_calls" ELSE "handle_error")
      /\ (o = "ok" /\ turn'[t].hurt => local.hurt) /\ (o # "ok" => turn'[t].hurt)
  BY <1>1, <1>3, <1>5, LeftByTransaction, Places
<1>7. \A u \in Turns : u # t => KeepsOwn(u) /\ turn'[u] = turn[u]
  <2>1. \A u \in Turns : u # t => RowsOf(u)' = RowsOf(u)
    BY <1>4, <1>5 DEF RowsOf
  <2>. QED
    BY <1>6, <2>1, AnswersKept DEF RecordCall, KeepsOwn, ShotsOf, Asked, Left
<1>8. /\ RowsOf(t)' = IF Commits(o) THEN RowsOf(t) \cup {r} ELSE RowsOf(t)
      /\ jobs'[t] = jobs[t] /\ ShotsOf(t)' = ShotsOf(t) /\ AnswersOf(t)' = AnswersOf(t)
      /\ \A x \in Tools : Asked(t, x)' <=> Asked(t, x)
      /\ llm_runs' = llm_runs
  BY <1>4, <1>5, AnswersKept DEF RecordCall, RowsOf, ShotsOf, Asked
<1>9. /\ turn'[t].session = turn[t].session /\ turn'[t].waiting = turn[t].waiting
      /\ turn'[t].content = turn[t].content /\ turn'[t].llm = turn[t].llm
      /\ turn'[t].results = turn[t].results
      /\ turn'[t].recorded = turn[t].recorded \cup {tool}
      /\ turn'[t].pc = IF o = "ok" THEN "record_calls" ELSE "handle_error"
      /\ (o # "ok" => turn'[t].hurt)
  BY <1>3, <1>6 DEF Left
<1>10. Planned(t)' = Planned(t) /\ (Tells(t)' <=> o = "ok") /\ Tells(t)
  BY <1>1, <1>9 DEF Planned, Tells, Working
<1>11. RowsFit(t)'
  <2>1. \A row \in RowsOf(t)' : row.session = turn'[t].session
    BY <1>4, <1>8, <1>9 DEF Story, RowsFit
  <2>2. CASE o = "ok"
    <3>1. RowsOf(t)' = RowsOf(t) \cup {r}
      BY <1>8, <2>2 DEF Commits
    <3>2. ToolsOf(t)' = ToolsOf(t) \cup {tool}
      BY <1>4, <3>1 DEF ToolsOf
    <3>3. \A row \in RowsOf(t)' : row.status = turn'[t].results[row.tool]
      BY <1>4, <1>9, <1>10, <3>1 DEF Story, RowsFit
    <3>. QED
      BY <1>9, <1>10, <2>1, <2>2, <3>2, <3>3 DEF Story, RowsFit, Early
  <2>3. CASE o # "ok"
    BY <1>9, <1>10, <2>1, <2>3 DEF RowsFit, Early
  <2>. QED
    BY <2>2, <2>3
<1>12. JobFits(t)' /\ ContentFits(t)'
  BY <1>1, <1>8, <1>9 DEF Story, JobFits, ContentFits, Early, Working, Unlinked
<1>13. RunsFit(t)'
  <2>1. \A row \in RowsOf(t)' : row.llm_run = NoRun
    BY <1>1, <1>4, <1>8 DEF Story, RunsFit, Unlinked, Working
  <2>2. ShotsOf(t)' = {} /\ turn[t].llm = "none"
    BY <1>1, <1>8 DEF Story, RunsFit, Unlinked, Working
  <2>. QED
    BY <1>9, <2>1, <2>2 DEF RunsFit, Unlinked, Working, Early
<1>14. ApprovalsFit(t)'
  BY <1>1, <1>8, <1>9, <1>10 DEF Story, ApprovalsFit, Working
<1>15. AnswerFits(t)'
  BY <1>1, <1>8, <1>9 DEF Story, AnswerFits
<1>. QED
  BY <1>7, <1>11, <1>12, <1>13, <1>14, <1>15 DEF Story

\* An approval is asked for; a fault leaves the turn hurt and goes on.
LEMMA RequestApprovalStory ==
  ASSUME ChatInv, NEW t \in Turns, Story(t), RequestApproval(t)
  PROVE  /\ Story(t)'
         /\ \A u \in Turns : u # t => KeepsOwn(u) /\ turn'[u] = turn[u]
<1>1. turn[t] \in TurnStates /\ TypeOK /\ turn[t].pc = "approve"
  BY DEF ChatInv, TypeOK, RequestApproval
<1>2. PICK tool \in turn[t].waiting, o \in Outcomes :
        /\ approvals' = IF Commits(o) THEN approvals \cup {<<t, tool>>} ELSE approvals
        /\ Goes(t, o, [turn[t] EXCEPT !.waiting = @ \ {tool}], "approve", "approve")
  BY DEF RequestApproval
<1> DEFINE local == [turn[t] EXCEPT !.waiting = @ \ {tool}]
<1>3. /\ local \in TurnStates /\ local.recorded = turn[t].recorded
      /\ local.waiting = turn[t].waiting \ {tool} /\ local.hurt = turn[t].hurt
      /\ local.results = turn[t].results /\ local.llm = turn[t].llm
      /\ local.session = turn[t].session /\ local.content = turn[t].content
  BY <1>1 DEF TurnStates
<1>4. Goes(t, o, local, "approve", "approve")
  BY <1>2
<1> HIDE DEF local
<1>5. /\ Left(t, local, "approve") /\ (o = "ok" /\ turn'[t].hurt => local.hurt)
      /\ (o # "ok" => turn'[t].hurt)
  BY <1>1, <1>3, <1>4, LeftByTransaction, Places
<1>6. /\ \A u \in Turns, x \in Tools :
           Asked(u, x)' <=> \/ Asked(u, x)
                            \/ Commits(o) /\ u = t /\ x = tool
      /\ \A u \in Turns : /\ RowsOf(u)' = RowsOf(u) /\ ShotsOf(u)' = ShotsOf(u)
                          /\ AnswersOf(u)' = AnswersOf(u) /\ jobs'[u] = jobs[u]
                          /\ llm_runs'[u] = llm_runs[u]
  BY <1>2, AnswersKept DEF RequestApproval, Asked, RowsOf, ShotsOf
<1>7. \A u \in Turns : u # t => KeepsOwn(u) /\ turn'[u] = turn[u]
  BY <1>5, <1>6 DEF KeepsOwn, Left
<1>8. /\ turn'[t].session = turn[t].session /\ turn'[t].waiting = turn[t].waiting \ {tool}
      /\ turn'[t].content = turn[t].content /\ turn'[t].llm = turn[t].llm
      /\ turn'[t].results = turn[t].results /\ turn'[t].recorded = turn[t].recorded
      /\ turn'[t].pc = "approve" /\ (turn[t].hurt => turn'[t].hurt)
  BY <1>3, <1>5 DEF Left
<1>9. /\ Planned(t)' = Planned(t) /\ RequiresApproval(t)' = RequiresApproval(t)
      /\ Tells(t)' /\ Tells(t) /\ ToolsOf(t)' = ToolsOf(t) /\ LastRun(t)' = LastRun(t)
  BY <1>1, <1>6, <1>8 DEF Planned, RequiresApproval, Tells, Working, ToolsOf, LastRun
<1>10. RowsFit(t)' /\ JobFits(t)' /\ ContentFits(t)'
  BY <1>1, <1>6, <1>8, <1>9
     DEF Story, RowsFit, JobFits, ContentFits, Early, Working, Unlinked
<1>11. RunsFit(t)'
  BY <1>1, <1>6, <1>8, <1>9 DEF Story, RunsFit, Unlinked, Working, Early
<1>12. ApprovalsFit(t)'
  <2>1. PICK row \in RowsOf(t) : row.tool = tool /\ row.status = "APPROVAL_REQUIRED"
    BY <1>1, <1>2, <1>9 DEF Story, RowsFit, ApprovalsFit, RequiresApproval, ToolsOf
  <2>2. ~turn'[t].hurt => Commits(o)
    BY <1>5 DEF Commits
  <2>3. ASSUME NEW other \in RowsOf(t), other.status = "APPROVAL_REQUIRED", ~turn'[t].hurt
        PROVE  other.tool \in turn'[t].waiting \/ Asked(t, other.tool)'
    <3>1. other.tool \in Tools
      BY <1>1 DEF TypeOK, RowsOf, CallRows
    <3>2. other.tool \in turn[t].waiting \/ Asked(t, other.tool)
      BY <1>1, <1>8, <1>9, <2>3 DEF Story, ApprovalsFit
    <3>. QED
      BY <1>6, <1>8, <2>2, <2>3, <3>1, <3>2
  <2>4. \A x \in Tools : Asked(t, x)' => \E other \in RowsOf(t) :
                            other.tool = x /\ other.status = "APPROVAL_REQUIRED"
    BY <1>6, <2>1 DEF Story, ApprovalsFit
  <2>5. turn'[t].waiting \subseteq RequiresApproval(t)
    BY <1>1, <1>8 DEF Story, ApprovalsFit
  <2>. QED
    BY <1>6, <1>8, <1>9, <2>3, <2>4, <2>5 DEF ApprovalsFit
<1>13. AnswerFits(t)'
  BY <1>1, <1>6, <1>8 DEF Story, AnswerFits
<1>. QED
  BY <1>7, <1>10, <1>11, <1>12, <1>13 DEF Story

\* An LLM run is recorded before any row is linked to one.
LEMMA RecordRunStory ==
  ASSUME ChatInv, NEW t \in Turns, Story(t), RecordRun(t)
  PROVE  /\ Story(t)'
         /\ \A u \in Turns : u # t => KeepsOwn(u) /\ turn'[u] = turn[u]
<1>1. /\ turn[t] \in TurnStates /\ TypeOK /\ turn[t].pc = "record_run"
      /\ turn[t].llm \in LlmStatuses
  BY DEF ChatInv, TypeOK, TurnsInv, TurnStates, IsRunning, RecordRun
<1>2. PICK o \in Outcomes :
        /\ llm_runs' = IF Commits(o)
                       THEN [llm_runs EXCEPT ![t] = Append(@, turn[t].llm)] ELSE llm_runs
        /\ IF turn[t].llm = "FAILED"
           THEN Goes(t, o, turn[t], "attach", "handle_error")
           ELSE Goes(t, o, [turn[t] EXCEPT !.llm = IF o = "ok" THEN @ ELSE "FAILED"],
                     "attach", "record_run")
  BY DEF RecordRun
<1>3. PICK local \in TurnStates, onError \in {"handle_error", "record_run"} :
        /\ Goes(t, o, local, "attach", onError)
        /\ local.recorded = turn[t].recorded /\ local.waiting = turn[t].waiting
        /\ local.hurt = turn[t].hurt /\ local.results = turn[t].results
        /\ local.session = turn[t].session /\ local.content = turn[t].content
        /\ o = "ok" => local.llm = turn[t].llm
  <2>1. CASE turn[t].llm = "FAILED"
    BY <1>1, <1>2, <2>1
  <2>2. CASE turn[t].llm # "FAILED"
    <3> DEFINE failed == [turn[t] EXCEPT !.llm = IF o = "ok" THEN @ ELSE "FAILED"]
    <3>1. /\ failed \in TurnStates
          /\ failed.recorded = turn[t].recorded /\ failed.waiting = turn[t].waiting
          /\ failed.hurt = turn[t].hurt /\ failed.results = turn[t].results
          /\ failed.session = turn[t].session /\ failed.content = turn[t].content
          /\ o = "ok" => failed.llm = turn[t].llm
      BY <1>1 DEF TurnStates, LlmStatuses
    <3>2. Goes(t, o, failed, "attach", "record_run")
      BY <1>2, <2>2
    <3> HIDE DEF failed
    <3>. QED
      BY <3>1, <3>2
  <2>. QED
    BY <2>1, <2>2
<1>4. /\ Left(t, local, IF o = "ok" THEN "attach" ELSE onError)
      /\ (o = "ok" /\ turn'[t].hurt => local.hurt) /\ (o # "ok" => turn'[t].hurt)
  BY <1>1, <1>3, LeftByTransaction, Places
<1>5. /\ \A u \in Turns : /\ RowsOf(u)' = RowsOf(u) /\ ShotsOf(u)' = ShotsOf(u)
                          /\ AnswersOf(u)' = AnswersOf(u) /\ jobs'[u] = jobs[u]
                          /\ \A x \in Tools : Asked(u, x)' <=> Asked(u, x)
      /\ \A u \in Turns : u # t => llm_runs'[u] = llm_runs[u]
  BY <1>1, <1>2, AnswersKept DEF RecordRun, Asked, RowsOf, ShotsOf, TypeOK
<1>6. o = "ok" => /\ llm_runs'[t] # <<>>
                  /\ llm_runs'[t][Len(llm_runs'[t])] = turn[t].llm
  <2>1. llm_runs[t] \in Seq(LlmStatuses)
    BY <1>1 DEF TypeOK
  <2>2. o = "ok" => llm_runs'[t] = Append(llm_runs[t], turn[t].llm)
    BY <1>1, <1>2 DEF Commits, TypeOK
  <2>3. /\ Append(llm_runs[t], turn[t].llm) # <<>>
        /\ Len(Append(llm_runs[t], turn[t].llm)) = Len(llm_runs[t]) + 1
        /\ Append(llm_runs[t], turn[t].llm)[Len(llm_runs[t]) + 1] = turn[t].llm
    BY <1>1, <2>1
  <2>. QED
    BY <2>2, <2>3
<1>7. \A u \in Turns : u # t => KeepsOwn(u) /\ turn'[u] = turn[u]
  BY <1>4, <1>5 DEF KeepsOwn, Left
<1>8. /\ turn'[t].session = turn[t].session /\ turn'[t].waiting = turn[t].waiting
      /\ turn'[t].content = turn[t].content /\ turn'[t].llm = local.llm
      /\ turn'[t].results = turn[t].results /\ turn'[t].recorded = turn[t].recorded
      /\ turn'[t].pc = IF o = "ok" THEN "attach" ELSE onError
      /\ (turn[t].hurt => turn'[t].hurt)
  BY <1>3, <1>4 DEF Left
<1>9. /\ Planned(t)' = Planned(t) /\ ToolsOf(t)' = ToolsOf(t) /\ Tells(t)
  BY <1>1, <1>5, <1>8 DEF Planned, Tells, Working, ToolsOf
<1>10. RowsFit(t)' /\ JobFits(t)' /\ ContentFits(t)'
  BY <1>1, <1>5, <1>8, <1>9
     DEF Story, RowsFit, JobFits, ContentFits, Early, Working, Unlinked
<1>11. RunsFit(t)'
  <2>1. (\A row \in RowsOf(t) : row.llm_run = NoRun) /\ ShotsOf(t) = {}
    BY <1>1 DEF Story, RunsFit, Unlinked, Working
  <2>. QED
    BY <1>3, <1>5, <1>6, <1>8, <2>1 DEF RunsFit, Unlinked, Working, Early
<1>12. ApprovalsFit(t)'
  <2>1. \A row \in RowsOf(t) : row.tool \in Tools
    BY <1>1 DEF TypeOK, RowsOf, CallRows
  <2>2. o = "ok" \/ turn'[t].hurt
    BY <1>4
  <2>. QED
    BY <1>1, <1>5, <1>8, <1>9, <2>1, <2>2 DEF Story, ApprovalsFit
<1>13. AnswerFits(t)'
  BY <1>1, <1>5, <1>8 DEF Story, AnswerFits
<1>. QED
  BY <1>7, <1>10, <1>11, <1>12, <1>13 DEF Story

\* All the rows of the turn are linked to its last run, or none is.
LEMMA AttachStory ==
  ASSUME ChatInv, NEW t \in Turns, Story(t), Attach(t)
  PROVE  /\ Story(t)'
         /\ \A u \in Turns : u # t => KeepsOwn(u) /\ turn'[u] = turn[u]
<1>1. turn[t] \in TurnStates /\ TypeOK /\ turn[t].pc = "attach"
  BY DEF ChatInv, TypeOK, Attach
<1>2. PICK o \in Outcomes :
        /\ calls' = IF Commits(o)
                    THEN (calls \ RowsToLink(t)) \cup
                         {[row EXCEPT !.llm_run = LastRun(t)] : row \in RowsToLink(t)}
                    ELSE calls
        /\ Goes(t, o, turn[t], "snapshot", "snapshot")
  BY DEF Attach
<1>3. /\ Left(t, turn[t], "snapshot") /\ (o # "ok" => turn'[t].hurt)
      /\ (o = "ok" /\ turn'[t].hurt => turn[t].hurt)
  BY <1>1, <1>2, LeftByTransaction, Places
<1>4. RowsToLink(t) = RowsOf(t)
  BY <1>1 DEF Story, RowsFit, RunsFit, RowsToLink, RowsOf, Unlinked, Working
<1>5. ASSUME NEW row \in RowsOf(t)
      PROVE  LET linked == [row EXCEPT !.llm_run = LastRun(t)]
             IN  /\ linked.turn = t /\ linked.session = row.session
                 /\ linked.tool = row.tool /\ linked.status = row.status
                 /\ linked.llm_run = LastRun(t)
  BY <1>1 DEF TypeOK, RowsOf, CallRows
<1> DEFINE link(row) == [row EXCEPT !.llm_run = LastRun(t)]
<1>6. /\ \A u \in Turns : u # t => RowsOf(u)' = RowsOf(u)
      /\ RowsOf(t)' = IF Commits(o) THEN {link(row) : row \in RowsOf(t)} ELSE RowsOf(t)
  <2>1. calls' = IF Commits(o) THEN (calls \ RowsOf(t)) \cup {link(row) : row \in RowsOf(t)}
                 ELSE calls
    BY <1>2, <1>4
  <2>2. \A row \in RowsOf(t) : link(row).turn = t
    BY <1>5
  <2> HIDE DEF link
  <2>. QED
    BY <2>1, <2>2 DEF RowsOf
<1>7. \A row \in RowsOf(t) :
        /\ link(row).session = row.session /\ link(row).tool = row.tool
        /\ link(row).status = row.status /\ link(row).llm_run = LastRun(t)
  BY <1>5
<1> HIDE DEF link
<1>8. \A u \in Turns : /\ ShotsOf(u)' = ShotsOf(u) /\ jobs'[u] = jobs[u]
                       /\ AnswersOf(u)' = AnswersOf(u) /\ llm_runs'[u] = llm_runs[u]
                       /\ \A x \in Tools : Asked(u, x)' <=> Asked(u, x)
  BY AnswersKept DEF Attach, Asked, ShotsOf
<1>9. \A u \in Turns : u # t => KeepsOwn(u) /\ turn'[u] = turn[u]
  BY <1>3, <1>6, <1>8 DEF KeepsOwn, Left
<1>10. /\ turn'[t].session = turn[t].session /\ turn'[t].waiting = turn[t].waiting
       /\ turn'[t].content = turn[t].content /\ turn'[t].llm = turn[t].llm
       /\ turn'[t].results = turn[t].results /\ turn'[t].recorded = turn[t].recorded
       /\ turn'[t].pc = "snapshot" /\ (turn[t].hurt => turn'[t].hurt)
  BY <1>3 DEF Left
<1>11. /\ Planned(t)' = Planned(t) /\ Tells(t) /\ Tells(t)' /\ LastRun(t)' = LastRun(t)
  BY <1>1, <1>8, <1>10 DEF Planned, Tells, Working, LastRun
<1>12. ToolsOf(t)' = ToolsOf(t)
  BY <1>6, <1>7 DEF ToolsOf
<1>13. \A row \in RowsOf(t)' : \E old \in RowsOf(t) :
         row.session = old.session /\ row.tool = old.tool /\ row.status = old.status
  BY <1>6, <1>7
<1>14. \A old \in RowsOf(t) : \E row \in RowsOf(t)' :
         row.session = old.session /\ row.tool = old.tool /\ row.status = old.status
  BY <1>6, <1>7
<1>15. RowsFit(t)'
  BY <1>1, <1>10, <1>11, <1>12, <1>13 DEF Story, RowsFit, Early, Working
<1>16. JobFits(t)' /\ ContentFits(t)'
  BY <1>1, <1>8, <1>10, <1>13 DEF Story, JobFits, ContentFits, Early, Working, Unlinked
<1>17. RunsFit(t)'
  <2>1. (\A row \in RowsOf(t) : row.llm_run = NoRun) /\ ShotsOf(t) = {}
    BY <1>1 DEF Story, RunsFit, Unlinked, Working
  <2>2. \/ \A row \in RowsOf(t)' : row.llm_run = NoRun
        \/ \A row \in RowsOf(t)' : row.llm_run = LastRun(t)
    BY <1>6, <1>7, <2>1
  <2>. QED
    BY <1>1, <1>8, <1>10, <1>11, <2>1, <2>2
       DEF Story, RunsFit, Unlinked, Working, Early
<1>18. ApprovalsFit(t)'
  <2>1. \A row \in RowsOf(t) : row.tool \in Tools
    BY <1>1 DEF TypeOK, RowsOf, CallRows
  <2>. QED
    BY <1>1, <1>8, <1>10, <1>11, <1>13, <1>14, <2>1 DEF Story, ApprovalsFit
<1>19. AnswerFits(t)'
  BY <1>1, <1>8, <1>10 DEF Story, AnswerFits
<1>. QED
  BY <1>9, <1>15, <1>16, <1>17, <1>18, <1>19 DEF Story

\* The snapshot names the last run and the tools of the turn.
LEMMA SnapshotStory ==
  ASSUME ChatInv, NEW t \in Turns, Story(t), TakeSnapshot(t)
  PROVE  /\ Story(t)'
         /\ \A u \in Turns : u # t => KeepsOwn(u) /\ turn'[u] = turn[u]
<1>1. turn[t] \in TurnStates /\ TypeOK /\ turn[t].pc = "snapshot"
  BY DEF ChatInv, TypeOK, TakeSnapshot
<1> DEFINE shot0 == [turn |-> t, llm_run |-> LastRun(t), tool_calls |-> turn[t].recorded]
<1>2. PICK o \in Outcomes :
        /\ snapshots' = IF Commits(o) THEN snapshots \cup {shot0} ELSE snapshots
        /\ Goes(t, o, turn[t], "finish", "finish")
  BY DEF TakeSnapshot
<1>3. /\ Left(t, turn[t], "finish") /\ (o # "ok" => turn'[t].hurt)
      /\ (o = "ok" /\ turn'[t].hurt => turn[t].hurt)
  BY <1>1, <1>2, LeftByTransaction, Places
<1>4. /\ shot0.turn = t /\ shot0.llm_run = LastRun(t) /\ shot0.tool_calls = turn[t].recorded
  OBVIOUS
<1> HIDE DEF shot0
<1>5. \A u \in Turns : /\ RowsOf(u)' = RowsOf(u) /\ jobs'[u] = jobs[u]
                       /\ AnswersOf(u)' = AnswersOf(u) /\ llm_runs'[u] = llm_runs[u]
                       /\ \A x \in Tools : Asked(u, x)' <=> Asked(u, x)
  BY AnswersKept DEF TakeSnapshot, Asked, RowsOf
<1>6. /\ \A u \in Turns : u # t => ShotsOf(u)' = ShotsOf(u)
      /\ ShotsOf(t)' = IF Commits(o) THEN ShotsOf(t) \cup {shot0} ELSE ShotsOf(t)
  BY <1>2, <1>4 DEF ShotsOf
<1>7. \A u \in Turns : u # t => KeepsOwn(u) /\ turn'[u] = turn[u]
  BY <1>3, <1>5, <1>6 DEF KeepsOwn, Left
<1>8. /\ turn'[t].session = turn[t].session /\ turn'[t].waiting = turn[t].waiting
      /\ turn'[t].content = turn[t].content /\ turn'[t].llm = turn[t].llm
      /\ turn'[t].results = turn[t].results /\ turn'[t].recorded = turn[t].recorded
      /\ turn'[t].pc = "finish" /\ (turn[t].hurt => turn'[t].hurt)
  BY <1>3 DEF Left
<1>9. /\ Planned(t)' = Planned(t) /\ Tells(t) /\ Tells(t)' /\ LastRun(t)' = LastRun(t)
      /\ ToolsOf(t)' = ToolsOf(t)
  BY <1>1, <1>5, <1>8 DEF Planned, Tells, Working, LastRun, ToolsOf
<1>10. RowsFit(t)' /\ JobFits(t)' /\ ContentFits(t)'
  BY <1>1, <1>5, <1>8, <1>9
     DEF Story, RowsFit, JobFits, ContentFits, Early, Working, Unlinked
<1>11. RunsFit(t)'
  <2>1. turn[t].recorded = ToolsOf(t) /\ ShotsOf(t) = {}
    BY <1>1, <1>9 DEF Story, RowsFit, RunsFit
  <2>. QED
    BY <1>1, <1>4, <1>5, <1>6, <1>8, <1>9, <2>1
       DEF Story, RunsFit, Unlinked, Working, Early
<1>12. ApprovalsFit(t)'
  <2>1. \A row \in RowsOf(t) : row.tool \in Tools
    BY <1>1 DEF TypeOK, RowsOf, CallRows
  <2>. QED
    BY <1>1, <1>5, <1>8, <1>9, <2>1 DEF Story, ApprovalsFit
<1>13. AnswerFits(t)'
  BY <1>1, <1>5, <1>8 DEF Story, AnswerFits
<1>. QED
  BY <1>7, <1>10, <1>11, <1>12, <1>13 DEF Story

\* The job gets the status that the results of the tools give it.
LEMMA FinishStory ==
  ASSUME ChatInv, NEW t \in Turns, Story(t), Finish(t)
  PROVE  /\ Story(t)'
         /\ \A u \in Turns : u # t => KeepsOwn(u) /\ turn'[u] = turn[u]
<1>1. turn[t] \in TurnStates /\ TypeOK /\ turn[t].pc = "finish"
  BY DEF ChatInv, TypeOK, Finish
<1>2. PICK o \in Outcomes, content \in Answers(t) :
        /\ jobs' = IF Commits(o) THEN [jobs EXCEPT ![t] = FinishedStatus(t)] ELSE jobs
        /\ Goes(t, o, [turn[t] EXCEPT !.content = content], "append_assistant",
                "handle_error")
  BY DEF Finish
<1> DEFINE local == [turn[t] EXCEPT !.content = content]
<1>3. /\ content \in Contents \ {"error", "none"}
      /\ content = "llm" => turn[t].llm = "SUCCESS"
  <2>1. turn[t].content \in {"none", "direct", "deterministic"}
    BY <1>1 DEF Story, ContentFits
  <2>2. CASE turn[t].content # "none"
    <3>1. content = turn[t].content
      BY <2>2 DEF Answers
    <3>. QED
      BY <2>1, <2>2, <3>1 DEF Contents
  <2>3. CASE turn[t].content = "none" /\ turn[t].llm # "SUCCESS"
    <3>1. content = "fallback"
      BY <2>3 DEF Answers
    <3>. QED
      BY <3>1 DEF Contents
  <2>4. CASE turn[t].content = "none" /\ turn[t].llm = "SUCCESS"
    <3>1. content \in {"llm", "fallback"}
      BY <2>4 DEF Answers
    <3>. QED
      BY <2>4, <3>1 DEF Contents
  <2>. QED
    BY <2>2, <2>3, <2>4
<1>4. /\ local \in TurnStates /\ local.recorded = turn[t].recorded
      /\ local.waiting = turn[t].waiting /\ local.hurt = turn[t].hurt
      /\ local.results = turn[t].results /\ local.llm = turn[t].llm
      /\ local.session = turn[t].session /\ local.content = content
  BY <1>1, <1>3 DEF TurnStates
<1>5. Goes(t, o, local, "append_assistant", "handle_error")
  BY <1>2
<1> HIDE DEF local
<1>6. /\ Left(t, local, IF o = "ok" THEN "append_assistant" ELSE "handle_error")
      /\ (o # "ok" => turn'[t].hurt) /\ (o = "ok" /\ turn'[t].hurt => local.hurt)
  BY <1>1, <1>4, <1>5, LeftByTransaction, Places
<1>7. \A u \in Turns : /\ RowsOf(u)' = RowsOf(u) /\ ShotsOf(u)' = ShotsOf(u)
                       /\ AnswersOf(u)' = AnswersOf(u) /\ llm_runs'[u] = llm_runs[u]
                       /\ \A x \in Tools : Asked(u, x)' <=> Asked(u, x)
  BY AnswersKept DEF Finish, Asked, RowsOf, ShotsOf
<1>8. /\ \A u \in Turns : u # t => jobs'[u] = jobs[u]
      /\ jobs'[t] = IF Commits(o) THEN FinishedStatus(t) ELSE jobs[t]
  BY <1>1, <1>2 DEF TypeOK
<1>9. \A u \in Turns : u # t => KeepsOwn(u) /\ turn'[u] = turn[u]
  BY <1>6, <1>7, <1>8 DEF KeepsOwn, Left
<1>10. /\ turn'[t].session = turn[t].session /\ turn'[t].waiting = turn[t].waiting
       /\ turn'[t].content = content /\ turn'[t].llm = turn[t].llm
       /\ turn'[t].results = turn[t].results /\ turn'[t].recorded = turn[t].recorded
       /\ turn'[t].pc = IF o = "ok" THEN "append_assistant" ELSE "handle_error"
       /\ (turn[t].hurt => turn'[t].hurt)
  BY <1>4, <1>6 DEF Left
<1>11. /\ Planned(t)' = Planned(t) /\ Tells(t) /\ LastRun(t)' = LastRun(t)
       /\ ToolsOf(t)' = ToolsOf(t)
  BY <1>1, <1>7, <1>10 DEF Planned, Tells, Working, LastRun, ToolsOf
<1>12. /\ turn[t].recorded = ToolsOf(t) /\ Planned(t) \subseteq ToolsOf(t)
       /\ \A row \in RowsOf(t) : /\ row.status = turn[t].results[row.tool]
                                 /\ row.tool \in Tools
  BY <1>1, <1>11 DEF Story, RowsFit, TypeOK, RowsOf, CallRows
<1>13. (\E row \in RowsOf(t) : row.status = "FAILED") <=>
         \E tool \in Tools : turn[t].results[tool] = "FAILED"
  <2>1. ASSUME NEW tool \in Tools, turn[t].results[tool] = "FAILED"
        PROVE  \E row \in RowsOf(t) : row.status = "FAILED"
    <3>1. tool \in ToolsOf(t)
      BY <1>12, <2>1 DEF Planned
    <3>. QED
      BY <1>12, <2>1, <3>1 DEF ToolsOf
  <2>. QED
    BY <1>12, <2>1
<1>14. \A row \in RowsOf(t) : row.tool \in turn[t].recorded
  BY <1>12 DEF ToolsOf
<1>15. RowsFit(t)' /\ ContentFits(t)'
  BY <1>1, <1>3, <1>7, <1>10, <1>11
     DEF Story, RowsFit, ContentFits, Early, Working, Unlinked
<1>16. JobFits(t)'
  <2>1. o = "ok" => Commits(o)
    BY DEF Commits
  <2>2. turn'[t].pc \notin Early \cup Working
    BY <1>10 DEF Early, Working
  <2>3. jobs[t] # "SUCCEEDED"
    BY <1>1 DEF Story, JobFits, Working
  <2>4. FinishedStatus(t) = IF \E row \in RowsOf(t) : row.status = "FAILED"
                            THEN "FAILED" ELSE "SUCCEEDED"
    BY <1>13 DEF FinishedStatus
  <2>5. jobs'[t] = "SUCCEEDED" => \A row \in RowsOf(t) : row.status # "FAILED"
    BY <1>8, <2>3, <2>4
  <2>6. o = "ok" =>
          jobs'[t] = IF \E row \in RowsOf(t) : row.status = "FAILED"
                                               /\ row.tool \in turn[t].recorded
                     THEN "FAILED" ELSE "SUCCEEDED"
    BY <1>8, <1>14, <2>1, <2>4
  <2>. QED
    BY <1>3, <1>7, <1>10, <2>2, <2>5, <2>6 DEF JobFits
<1>17. RunsFit(t)'
  BY <1>1, <1>7, <1>10, <1>11 DEF Story, RunsFit, Unlinked, Working, Early
<1>18. ApprovalsFit(t)'
  BY <1>1, <1>3, <1>6, <1>7, <1>10, <1>11, <1>12 DEF Story, ApprovalsFit
<1>19. AnswerFits(t)'
  BY <1>1, <1>7, <1>10 DEF Story, AnswerFits
<1>. QED
  BY <1>9, <1>15, <1>16, <1>17, <1>18, <1>19 DEF Story

\* The handler forgets the results and leaves a FAILED job.
LEMMA HandleErrorStory ==
  ASSUME ChatInv, NEW t \in Turns, Story(t), HandleError(t)
  PROVE  /\ Story(t)'
         /\ \A u \in Turns : u # t => KeepsOwn(u) /\ turn'[u] = turn[u]
<1>1. turn[t] \in TurnStates /\ TypeOK /\ turn[t].pc = "handle_error" /\ turn[t].hurt
  BY DEF ChatInv, TypeOK, HandleError, Story, ApprovalsFit
<1> DEFINE local == [turn[t] EXCEPT !.results = NoResults, !.recorded = {},
                                    !.content = "error", !.llm = "none"]
<1>2. PICK o \in Outcomes :
        /\ jobs' = IF Commits(o) THEN [jobs EXCEPT ![t] = "FAILED"] ELSE jobs
        /\ Goes(t, o, local, "append_assistant", "ended")
  BY DEF HandleError
<1>3. /\ local \in TurnStates /\ local.recorded = {} /\ local.waiting = turn[t].waiting
      /\ local.hurt = turn[t].hurt /\ local.llm = "none"
      /\ local.session = turn[t].session /\ local.content = "error"
  <2>1. NoResults \in Results /\ {} \in SUBSET Tools /\ "error" \in Contents
    BY DEF NoResults, Results, Contents
  <2>. QED
    BY <1>1, <2>1 DEF TurnStates
<1> HIDE DEF local
<1>4. Left(t, local, IF o = "ok" THEN "append_assistant" ELSE "ended")
  BY <1>1, <1>2, <1>3, LeftByTransaction, Places
<1>5. \A u \in Turns : /\ RowsOf(u)' = RowsOf(u) /\ ShotsOf(u)' = ShotsOf(u)
                       /\ AnswersOf(u)' = AnswersOf(u) /\ llm_runs'[u] = llm_runs[u]
                       /\ \A x \in Tools : Asked(u, x)' <=> Asked(u, x)
  BY AnswersKept DEF HandleError, Asked, RowsOf, ShotsOf
<1>6. /\ \A u \in Turns : u # t => jobs'[u] = jobs[u]
      /\ jobs'[t] \in {jobs[t], "FAILED"} /\ (o = "ok" => jobs'[t] = "FAILED")
  BY <1>1, <1>2 DEF TypeOK, Commits
<1>7. \A u \in Turns : u # t => KeepsOwn(u) /\ turn'[u] = turn[u]
  BY <1>4, <1>5, <1>6 DEF KeepsOwn, Left
<1>8. /\ turn'[t].session = turn[t].session /\ turn'[t].waiting = {} /\ turn'[t].hurt
      /\ turn'[t].pc = IF o = "ok" THEN "append_assistant" ELSE "ended"
      /\ o = "ok" => /\ turn'[t].content = "error" /\ turn'[t].llm = "none"
                     /\ turn'[t].recorded = {}
  <2>1. turn[t].waiting = {}
    BY <1>1 DEF Story, ApprovalsFit
  <2>. QED
    BY <1>1, <1>3, <1>4, <2>1 DEF Left
<1>9. ~Tells(t)' /\ LastRun(t)' = LastRun(t) /\ ToolsOf(t)' = ToolsOf(t)
  BY <1>5, <1>8 DEF Tells, Working, LastRun, ToolsOf
<1>10. RowsFit(t)' /\ JobFits(t)' /\ ContentFits(t)'
  BY <1>1, <1>5, <1>6, <1>8, <1>9
     DEF Story, RowsFit, JobFits, ContentFits, Early, Working, Unlinked
<1>11. RunsFit(t)'
  BY <1>1, <1>5, <1>8, <1>9 DEF Story, RunsFit, Unlinked, Working, Early
<1>12. ApprovalsFit(t)' /\ AnswerFits(t)'
  BY <1>1, <1>5, <1>8, <1>9 DEF Story, ApprovalsFit, AnswerFits
<1>. QED
  BY <1>7, <1>10, <1>11, <1>12 DEF Story

\* The answer says of the turn what is stored of it.
LEMMA AppendAssistantStory ==
  ASSUME ChatInv, NEW t \in Turns, Story(t), AppendAssistant(t)
  PROVE  /\ Story(t)'
         /\ \A u \in Turns : u # t => KeepsOwn(u) /\ turn'[u] = turn[u]
<1>1. turn[t] \in TurnStates /\ TypeOK /\ turn[t].pc = "append_assistant"
      /\ turn[t].session \in Sessions
  BY DEF ChatInv, TypeOK, TurnsInv, IsRunning, AppendAssistant
<1>2. PICK o \in Outcomes :
        /\ messages' = IF Commits(o)
                       THEN Append1(t, "ASSISTANT", turn[t].content, turn[t].recorded)
                       ELSE messages
        /\ Goes(t, o, turn[t], "touch", "ended")
  BY DEF AppendAssistant
<1>3. /\ Left(t, turn[t], IF o = "ok" THEN "touch" ELSE "ended")
      /\ (o # "ok" => turn'[t].hurt) /\ (o = "ok" /\ turn'[t].hurt => turn[t].hurt)
  BY <1>1, <1>2, LeftByTransaction, Places
<1> DEFINE m0 == [turn |-> t, role |-> "ASSISTANT", content |-> turn[t].content,
                  llm_status |-> turn[t].llm, tool_calls |-> turn[t].recorded]
<1>4. \A u \in Turns : AnswersOf(u)' = IF u = t /\ Commits(o)
                                       THEN AnswersOf(u) \cup {m0} ELSE AnswersOf(u)
  BY <1>1, <1>2, AnswersKept, AnswersAppended
<1>5. m0.content = turn[t].content /\ m0.llm_status = turn[t].llm
      /\ m0.tool_calls = turn[t].recorded
  OBVIOUS
<1> HIDE DEF m0
<1>6. \A u \in Turns : /\ RowsOf(u)' = RowsOf(u) /\ ShotsOf(u)' = ShotsOf(u)
                       /\ jobs'[u] = jobs[u] /\ llm_runs'[u] = llm_runs[u]
                       /\ \A x \in Tools : Asked(u, x)' <=> Asked(u, x)
  BY DEF AppendAssistant, Asked, RowsOf, ShotsOf
<1>7. \A u \in Turns : u # t => KeepsOwn(u) /\ turn'[u] = turn[u]
  BY <1>3, <1>4, <1>6 DEF KeepsOwn, Left
<1>8. AnswersOf(t)' \in {{}, {m0}}
  BY <1>1, <1>4 DEF Story, AnswerFits
<1>9. /\ turn'[t].session = turn[t].session /\ turn'[t].waiting = {}
      /\ (turn[t].hurt => turn'[t].hurt)
      /\ turn'[t].pc \in {"touch", "ended"}
  <2>1. turn[t].waiting = {}
    BY <1>1 DEF Story, ApprovalsFit
  <2>. QED
    BY <1>3, <2>1 DEF Left
<1>10. ~Tells(t)' /\ LastRun(t)' = LastRun(t) /\ ToolsOf(t)' = ToolsOf(t)
  BY <1>6, <1>9 DEF Tells, Working, LastRun, ToolsOf
<1>11. RowsFit(t)' /\ JobFits(t)' /\ ContentFits(t)'
  BY <1>1, <1>6, <1>9, <1>10
     DEF Story, RowsFit, JobFits, ContentFits, Early, Working, Unlinked
<1>12. RunsFit(t)'
  BY <1>1, <1>6, <1>9, <1>10 DEF Story, RunsFit, Unlinked, Working, Early
<1>13. ApprovalsFit(t)'
  BY <1>1, <1>6, <1>9, <1>10 DEF Story, ApprovalsFit
<1>14. AnswerFits(t)'
  <2>1. \A row \in RowsOf(t) : row.tool \in Tools
    BY <1>1 DEF TypeOK, RowsOf, CallRows
  <2>2. jobs[t] = IF m0.content = "error"
                     \/ (\E row \in RowsOf(t) : row.status = "FAILED"
                                                /\ row.tool \in m0.tool_calls)
                  THEN "FAILED" ELSE "SUCCEEDED"
    BY <1>1, <1>5 DEF Story, JobFits
  <2>3. /\ m0.content = "llm" => m0.llm_status = "SUCCESS"
        /\ m0.llm_status # "none" =>
             llm_runs[t] # <<>> /\ llm_runs[t][Len(llm_runs[t])] = m0.llm_status
        /\ m0.content # "error" => m0.tool_calls = ToolsOf(t)
    BY <1>1, <1>5 DEF Story, ContentFits, RunsFit, RowsFit, Tells
  <2>4. turn[t].hurt \/ \A row \in RowsOf(t) :
                          row.status = "APPROVAL_REQUIRED" => Asked(t, row.tool)
    BY <1>1, <2>1 DEF Story, ApprovalsFit, Tells
  <2>5. \A m \in AnswersOf(t)' : m = m0
    BY <1>8
  <2>. QED
    BY <1>6, <1>9, <1>10, <2>1, <2>2, <2>3, <2>4, <2>5 DEF AnswerFits
<1>. QED
  BY <1>7, <1>11, <1>12, <1>13, <1>14 DEF Story

\* A turn begins with nothing stored, whatever session it takes.
LEMMA BeginStory ==
  ASSUME ChatInv, NEW t \in Turns, Story(t), NEW s \in Sessions,
         CreateSession(t, s) \/ ResolveSession(t, s)
  PROVE  /\ Story(t)'
         /\ \A u \in Turns : u # t => KeepsOwn(u) /\ turn'[u] = turn[u]
<1>1. turn[t] \in TurnStates /\ TypeOK /\ turn[t].pc = "idle"
  BY DEF ChatInv, TypeOK, CreateSession, ResolveSession
<1>2. \A u \in Turns : KeepsOwn(u)
  BY KeepsAll DEF CreateSession, ResolveSession
<1>3. RowsOf(t) = {}
  BY <1>1 DEF Story, RowsFit, Early
<1>4. CASE CreateSession(t, s)
  <2> DEFINE local == [turn[t] EXCEPT !.session = s]
  <2>1. PICK o \in Outcomes : Goes(t, o, local, "append_user", "ended")
    BY <1>4 DEF CreateSession
  <2>2. /\ local \in TurnStates /\ local.recorded = turn[t].recorded
        /\ local.waiting = turn[t].waiting /\ local.hurt = turn[t].hurt
        /\ local.results = turn[t].results /\ local.llm = turn[t].llm
        /\ local.content = turn[t].content
    BY <1>1 DEF TurnStates
  <2> HIDE DEF local
  <2>3. Left(t, local, IF o = "ok" THEN "append_user" ELSE "ended")
    BY <1>1, <2>1, <2>2, LeftByTransaction, Places
  <2>4. CASE o = "ok"
    BY <1>1, <1>2, <2>2, <2>3, <2>4, EarlyStory DEF Early, Left
  <2>5. CASE o # "ok"
    BY <1>2, <1>3, <2>2, <2>3, <2>5, EndStory DEF Left
  <2>. QED
    BY <2>4, <2>5
<1>5. CASE ResolveSession(t, s)
  <2> DEFINE pc == IF sessions[s] = "OPEN" THEN "append_user" ELSE "ended"
             local == [turn[t] EXCEPT !.session = s, !.pc = pc]
  <2>1. pc \in {"append_user", "ended"} /\ pc \in Pcs
    BY DEF Pcs
  <2>2. turn' = [turn EXCEPT ![t] = local]
    BY <1>5 DEF ResolveSession
  <2> HIDE DEF pc
  <2>3. /\ local \in TurnStates /\ local.recorded = turn[t].recorded
        /\ local.waiting = turn[t].waiting /\ local.hurt = turn[t].hurt
        /\ local.results = turn[t].results /\ local.llm = turn[t].llm
        /\ local.content = turn[t].content /\ local.pc = pc
    BY <1>1, <2>1 DEF TurnStates
  <2> HIDE DEF local
  <2>4. turn'[t] = local /\ \A u \in Turns : u # t => turn'[u] = turn[u]
    BY <1>1, <2>2 DEF TypeOK
  <2>5. turn[t].waiting = {}
    BY <1>1 DEF Story, ApprovalsFit
  <2>6. Left(t, local, pc)
    BY <2>3, <2>4, <2>5 DEF Left
  <2>7. CASE pc = "append_user"
    BY <1>1, <1>2, <2>3, <2>4, <2>6, <2>7, EarlyStory DEF Early
  <2>8. CASE pc = "ended"
    BY <1>2, <1>3, <2>3, <2>4, <2>6, <2>8, EndStory
  <2>. QED
    BY <1>2, <2>1, <2>4, <2>7, <2>8
<1>. QED
  BY <1>4, <1>5

\* A stop of the process leaves what is stored of the turns.
LEMMA CrashStory ==
  ASSUME ChatInv, StoryInv, Crash
  PROVE  StoryInv'
<1>1. SUFFICES ASSUME NEW t \in Turns PROVE Story(t)'
  BY DEF StoryInv
<1>2. KeepsOwn(t) /\ TypeOK /\ Story(t)
  BY KeepsAll DEF Crash, ChatInv, StoryInv
<1>3. turn'[t] = IF IsRunning(t) THEN Ended([turn[t] EXCEPT !.hurt = TRUE]) ELSE turn[t]
  BY DEF Crash
<1>4. CASE ~IsRunning(t)
  BY <1>2, <1>3, <1>4, KeepsStory
<1>5. CASE IsRunning(t)
  <2> DEFINE hit == [turn[t] EXCEPT !.hurt = TRUE]
  <2>1. hit.session = turn[t].session
    BY <1>2 DEF TypeOK, TurnStates
  <2>2. hit.hurt
    <3>1. ASSUME NEW b \in BOOLEAN PROVE [turn[t] EXCEPT !.hurt = b].hurt = b
      BY <1>2 DEF TypeOK, TurnStates
    <3>. QED
      BY <3>1
  <2> HIDE DEF hit
  <2>3. turn'[t] = Ended(hit)
    BY <1>3, <1>5 DEF hit
  <2>4. /\ turn'[t].pc = "ended" /\ turn'[t].waiting = {} /\ turn'[t].hurt
        /\ turn'[t].session = turn[t].session
    BY <2>1, <2>2, <2>3 DEF Ended
  <2>5. ~Tells(t)' /\ \A row \in RowsOf(t) : row.tool \in Tools
    BY <1>2, <2>4 DEF Tells, Working, TypeOK, RowsOf, CallRows
  <2>6. RowsFit(t)' /\ JobFits(t)' /\ ContentFits(t)'
    BY <1>2, <2>4, <2>5
       DEF Story, RowsFit, JobFits, ContentFits, KeepsOwn, Early, Working, Unlinked
  <2>7. RunsFit(t)'
    BY <1>2, <2>4, KeepsDerived DEF Story, RunsFit, KeepsOwn, Early, Working, Unlinked
  <2>8. ApprovalsFit(t)' /\ AnswerFits(t)'
    BY <1>2, <2>4, <2>5, KeepsDerived DEF Story, ApprovalsFit, AnswerFits, KeepsOwn
  <2>. QED
    BY <2>6, <2>7, <2>8 DEF Story
<1>. QED
  BY <1>4, <1>5

\* Nothing is stored of any turn.
LEMMA InitStory == Init => StoryInv
<1> SUFFICES ASSUME Init, NEW t \in Turns PROVE Story(t)
  BY DEF StoryInv
<1>1. /\ turn[t].pc = "idle" /\ turn[t].recorded = {} /\ turn[t].waiting = {}
      /\ turn[t].results = NoResults /\ turn[t].content = "none" /\ turn[t].llm = "none"
      /\ jobs[t] = "NONE" /\ ~Tells(t)
  BY DEF Init, Tells, Working
<1>2. RowsOf(t) = {} /\ ShotsOf(t) = {} /\ \A tool \in Tools : ~Asked(t, tool)
  BY DEF Init, RowsOf, ShotsOf, Asked
<1>3. AnswersOf(t) = {}
  <2>1. \A s \in Sessions : messages[s] = <<>>
    BY DEF Init
  <2>2. \A s \in Sessions : MessagesOf(s) = {}
    BY <2>1 DEF MessagesOf
  <2>. QED
    BY <2>2 DEF AnswersOf
<1>4. RowsFit(t) /\ JobFits(t) /\ ContentFits(t)
  BY <1>1, <1>2 DEF RowsFit, JobFits, ContentFits, Early, Working, Unlinked
<1>5. RunsFit(t) /\ ApprovalsFit(t) /\ AnswerFits(t)
  BY <1>1, <1>2, <1>3 DEF RunsFit, ApprovalsFit, AnswerFits, Early, Working, Unlinked
<1>. QED
  BY <1>4, <1>5 DEF Story

\* A step of one turn keeps its own story and those of the others.
LEMMA NextStory == ChatInv /\ StoryInv /\ [Next]_chatVars => StoryInv'
<1> SUFFICES ASSUME ChatInv, StoryInv, [Next]_chatVars PROVE StoryInv'
  OBVIOUS
<1>1. ASSUME NEW t \in Turns, Story(t)',
             \A u \in Turns : u # t => KeepsOwn(u) /\ turn'[u] = turn[u]
      PROVE  StoryInv'
  <2>1. ASSUME NEW u \in Turns PROVE Story(u)'
    <3>1. CASE u = t
      BY <1>1, <3>1
    <3>2. CASE u # t
      BY <1>1, <3>2, KeepsStory DEF StoryInv, ChatInv
    <3>. QED
      BY <3>1, <3>2
  <2>. QED
    BY <2>1 DEF StoryInv
<1>2. ASSUME NEW t \in Turns, NEW s \in Sessions, CreateSession(t, s) \/ ResolveSession(t, s)
      PROVE  StoryInv'
  BY <1>1, <1>2, BeginStory DEF StoryInv
<1>3. ASSUME NEW t \in Turns, Answering(t) PROVE StoryInv'
  <2>1. Story(t)
    BY DEF StoryInv
  <2>2. /\ Story(t)'
        /\ \A u \in Turns : u # t => KeepsOwn(u) /\ turn'[u] = turn[u]
    BY <1>3, <2>1, LocalStory, AppendUserStory, CreateJobStory, RecordCallStory,
       RequestApprovalStory, RecordRunStory, AttachStory, SnapshotStory, FinishStory,
       HandleErrorStory, AppendAssistantStory DEF Answering
  <2>. QED
    BY <1>1, <2>2
<1>4. ASSUME NEW s \in Sessions, CloseSession(s) PROVE StoryInv'
  <2>1. ASSUME NEW u \in Turns PROVE KeepsOwn(u) /\ turn'[u] = turn[u]
    BY <1>4, KeepsAll DEF CloseSession
  <2>. QED
    BY <2>1, KeepsStory DEF StoryInv, ChatInv
<1>5. CASE Crash
  BY <1>5, CrashStory
<1>6. CASE UNCHANGED chatVars
  <2>1. ASSUME NEW u \in Turns PROVE KeepsOwn(u) /\ turn'[u] = turn[u]
    BY <1>6, KeepsAll DEF chatVars
  <2>. QED
    BY <2>1, KeepsStory DEF StoryInv, ChatInv
<1>. QED
  BY <1>2, <1>3, <1>4, <1>5, <1>6 DEF Next

LEMMA StoryInvariance == Spec => [](ChatInv /\ StoryInv)
BY InitInv, NextInv, InitStory, NextStory, PTL DEF Spec

\* An answer has a finished job, and what it says of the tools and of the LLM is what is
\* stored of them, whatever was raised on the way (orchestration/service.py 405, 622).
THEOREM JobTellsTheAnswerHolds == Spec => []JobTellsTheAnswer
<1>1. StoryInv => JobTellsTheAnswer
  BY DEF StoryInv, Story, JobFits, AnswerFits, JobTellsTheAnswer
<1>. QED
  BY <1>1, StoryInvariance, PTL

\* The calls that an answer, a snapshot and an LLM run are about are those of their own
\* turn, all of them, and the last run of the turn (orchestration/repository.py 641).
THEOREM LinksStayInTheTurnHolds == Spec => []LinksStayInTheTurn
<1>1. StoryInv => LinksStayInTheTurn
  <2> SUFFICES ASSUME StoryInv, NEW t \in Turns
               PROVE  /\ \A row \in RowsOf(t) :
                           /\ row.session = turn[t].session
                           /\ row.llm_run # NoRun =>
                                /\ row.llm_run = LastRun(t)
                                /\ \A other \in RowsOf(t) : other.llm_run = row.llm_run
                      /\ \A m \in AnswersOf(t) :
                           m.content # "error" => m.tool_calls = ToolsOf(t)
                      /\ \A shot \in snapshots :
                           shot.turn = t => /\ shot.llm_run = LastRun(t)
                                            /\ shot.tool_calls = ToolsOf(t)
    BY DEF LinksStayInTheTurn, ToolsOf
  <2>1. RowsFit(t) /\ RunsFit(t) /\ AnswerFits(t)
    BY DEF StoryInv, Story
  <2>2. \A shot \in snapshots : shot.turn = t => shot \in ShotsOf(t)
    BY DEF ShotsOf
  <2>. QED
    BY <2>1, <2>2 DEF RowsFit, RunsFit, AnswerFits
<1>. QED
  BY <1>1, StoryInvariance, PTL

\* Approvals are asked for recorded calls only, and for all that wait for one when
\* nothing went wrong in their turn (orchestration/service.py 524).
THEOREM ApprovalsAreOfRecordedCallsHolds == Spec => []ApprovalsAreOfRecordedCalls
<1>1. ChatInv /\ StoryInv => ApprovalsAreOfRecordedCalls
  <2> SUFFICES ASSUME ChatInv, StoryInv PROVE ApprovalsAreOfRecordedCalls
    OBVIOUS
  <2> DEFINE waiting(t) == {<<t, row.tool>> : row \in {r \in RowsOf(t) :
                                                         r.status = "APPROVAL_REQUIRED"}}
  <2>1. ASSUME NEW t \in Turns, NEW tool \in Tools, <<t, tool>> \in approvals
        PROVE  <<t, tool>> \in waiting(t)
    BY <2>1 DEF StoryInv, Story, ApprovalsFit, Asked
  <2>2. approvals \subseteq UNION {waiting(t) : t \in Turns}
    <3> HIDE DEF waiting
    <3>1. \A pair \in approvals : \E t \in Turns, tool \in Tools : pair = <<t, tool>>
      BY DEF ChatInv, TypeOK
    <3>. QED
      BY <2>1, <3>1
  <2>3. ASSUME NEW t \in Turns, AnswersOf(t) # {}, ~turn[t].hurt
        PROVE  waiting(t) \subseteq approvals
    BY <2>3 DEF StoryInv, Story, AnswerFits, Asked
  <2>. QED
    BY <2>2, <2>3 DEF ApprovalsAreOfRecordedCalls
<1>. QED
  BY <1>1, StoryInvariance, PTL
==============================================================================
