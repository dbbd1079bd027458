-------------------------- MODULE ChatOrchestration --------------------------
(***************************************************************************)
(* Questions in chat sessions (orchestration/service.py with its SQL       *)
(* repository and the parts of llmops it calls).  A turn is one request to *)
(* ask: the question, its job, the agent run, the recorded tool calls and  *)
(* approvals, the LLM run, and the answer.  Turns run in threads of one    *)
(* process, in the same or in other sessions, while sessions are closed.   *)
(*                                                                         *)
(* Every call of a repository is a transaction of its own and a step here. *)
(* It may raise before it has committed, or after (the connection is lost  *)
(* before the result is read), and the process may stop: the faults.       *)
(***************************************************************************)
EXTENDS Integers, Sequences, FiniteSets

CONSTANTS Turns,      \* requests to ask, each made at most once
          Sessions,   \* ids of sessions
          ChatTypeOf, \* session -> "farmer_bnpl", "admin_copilot" or "sre_copilot"
          Tools,      \* the tools an agent run may call
          AgentResults, \* turn -> what its agent run may give: results of its tools
          NoSession,  \* not a session
          MaxFaults   \* bound on raised transactions and stops of the process

ChatTypes == {"farmer_bnpl", "admin_copilot", "sre_copilot"}

ASSUME ChatAssumption ==
  /\ ChatTypeOf \in [Sessions -> ChatTypes]
  /\ NoSession \notin Sessions
  /\ MaxFaults \in Nat

CallStatuses == {"SUCCESS", "FAILED", "APPROVAL_REQUIRED"}
\* The results of the agent run, "none" for the tools that were not planned.
Results == [Tools -> CallStatuses \cup {"none"}]

ASSUME ResultsAssumption == AgentResults \in [Turns -> SUBSET Results]

VARIABLES
  sessions,   \* session -> session_status
  messages,   \* session -> its messages, in the order of their inserts
  jobs,       \* turn -> run_status of its job
  calls,      \* the rows of ai.mcp_tool_calls
  approvals,  \* the approval requests, all PENDING: pairs <<turn, tool>>
  llm_runs,   \* turn -> the statuses of the LLM runs recorded for it
  snapshots,  \* the agent snapshots
  turn,       \* turn -> the local state of its request
  faults,
  closing     \* session -> history: what it was like when it was closed first

chatVars == <<sessions, messages, jobs, calls, approvals, llm_runs, snapshots,
              turn, faults, closing>>

LlmStatuses == {"SUCCESS", "VALIDATION_FAILED", "FAILED"}
JobStatuses == {"NONE", "RUNNING", "SUCCEEDED", "FAILED"}
Contents == {"none", "question", "direct", "deterministic", "llm", "fallback", "error"}
Pcs == {"idle", "append_user", "create_job", "run_agent", "record_calls", "approve",
        "prompt", "complete", "record_run", "attach", "snapshot", "finish",
        "handle_error", "append_assistant", "touch", "ended"}

\* An LLM run is known by the turn and its place among the runs of the turn.
NoRun == <<>>
LlmRuns == {NoRun} \cup (Turns \X Nat)
LastRun(t) == <<t, Len(llm_runs[t])>>

CallRows == [turn : Turns, session : Sessions, tool : Tools, status : CallStatuses,
             llm_run : LlmRuns]
Messages == [turn : Turns, role : {"USER", "ASSISTANT"}, content : Contents,
             llm_status : LlmStatuses \cup {"none"}, tool_calls : SUBSET Tools]
Snapshots == [turn : Turns, llm_run : LlmRuns, tool_calls : SUBSET Tools]
NoResults == [tool \in Tools |-> "none"]

\* recorded: the results whose rows are stored; waiting: the ones whose approval
\* is still to be requested; hurt: whether a fault hit the turn.
TurnStates == [pc : Pcs, session : Sessions \cup {NoSession}, results : Results,
               recorded : SUBSET Tools, waiting : SUBSET Tools, content : Contents,
               attempts : 0..3, llm : LlmStatuses \cup {"none"}, hurt : BOOLEAN]

NotClosed == [messages |-> 0, running |-> {}]
Planned(t) == {tool \in Tools : turn[t].results[tool] # "none"}
IsRunning(t) == turn[t].pc \notin {"idle", "ended"}

Init ==
  /\ sessions = [s \in Sessions |-> "NONE"]
  /\ messages = [s \in Sessions |-> <<>>]
  /\ jobs = [t \in Turns |-> "NONE"]
  /\ calls = {} /\ approvals = {} /\ snapshots = {}
  /\ llm_runs = [t \in Turns |-> <<>>]
  /\ turn = [t \in Turns |->
       [pc |-> "idle", session |-> NoSession, results |-> NoResults, recorded |-> {},
        waiting |-> {}, content |-> "none", attempts |-> 0, llm |-> "none",
        hurt |-> FALSE]]
  /\ faults = 0
  /\ closing = [s \in Sessions |-> NotClosed]

---------------------------------------------------------------------------
\* How a transaction ends: it commits, it raises before it commits ("lost"), or
\* it commits and raises ("unconfirmed").
Outcomes == {"ok", "lost", "unconfirmed"}
Commits(o) == o # "lost"

\* What is left of a request that has ended.
Ended(local) ==
  [pc |-> "ended", session |-> local.session, results |-> NoResults, recorded |-> {},
   waiting |-> {}, content |-> "none", attempts |-> 0, llm |-> "none",
   hurt |-> local.hurt]
At(local, pc) == IF pc = "ended" THEN Ended(local) ELSE [local EXCEPT !.pc = pc]

\* The turn goes on at pc next, or, when the transaction raises, at pc onError.
Goes(t, o, local, next, onError) ==
  /\ o # "ok" => faults < MaxFaults
  /\ faults' = IF o = "ok" THEN faults ELSE faults + 1
  /\ turn' = [turn EXCEPT ![t] =
       At([local EXCEPT !.hurt = @ \/ o # "ok"], IF o = "ok" THEN next ELSE onError)]

---------------------------------------------------------------------------
\* _resolve_or_create_session: without a session id a session is created, and a
\* session that is named has to be OPEN.  In both cases the turn goes on with a
\* session that it does not look at again before the answer is stored.
CreateSession(t, s) ==
  /\ turn[t].pc = "idle" /\ sessions[s] = "NONE"
  /\ \E o \in Outcomes :
       /\ sessions' = IF Commits(o) THEN [sessions EXCEPT ![s] = "OPEN"] ELSE sessions
       /\ Goes(t, o, [turn[t] EXCEPT !.session = s], "append_user", "ended")
  /\ UNCHANGED <<messages, jobs, calls, approvals, llm_runs, snapshots, closing>>

\* Mutant: the status of the session is not checked.
ResolveAnySession(t, s) ==
  /\ turn[t].pc = "idle" /\ sessions[s] # "NONE"
  /\ turn' = [turn EXCEPT ![t].session = s, ![t].pc = "append_user"]
  /\ UNCHANGED <<sessions, messages, jobs, calls, approvals, llm_runs, snapshots,
                 faults, closing>>

ResolveSession(t, s) ==
  /\ turn[t].pc = "idle" /\ sessions[s] # "NONE"
  /\ turn' = [turn EXCEPT ![t].session = s,
                ![t].pc = IF sessions[s] = "OPEN" THEN "append_user" ELSE "ended"]
  /\ UNCHANGED <<sessions, messages, jobs, calls, approvals, llm_runs, snapshots,
                 faults, closing>>

\* close_chat_session sets the status whatever it is, and whatever is running.
CloseSession(s) ==
  /\ sessions[s] # "NONE"
  /\ sessions' = [sessions EXCEPT ![s] = "CLOSED"]
  /\ closing' = IF sessions[s] = "CLOSED" THEN closing
                ELSE [closing EXCEPT ![s] =
                        [messages |-> Len(messages[s]),
                         running |-> {t \in Turns : turn[t].session = s /\ IsRunning(t)}]]
  /\ UNCHANGED <<messages, jobs, calls, approvals, llm_runs, snapshots, turn, faults>>

\* _append_message inserts the row and asks nothing about the session.
Append1(t, role, content, tool_calls) ==
  [messages EXCEPT ![turn[t].session] = Append(@,
     [turn |-> t, role |-> role, content |-> content, llm_status |-> turn[t].llm,
      tool_calls |-> tool_calls])]

AppendUser(t) ==
  /\ turn[t].pc = "append_user"
  /\ \E o \in Outcomes :
       /\ messages' = IF Commits(o) THEN Append1(t, "USER", "question", {}) ELSE messages
       /\ Goes(t, o, turn[t], "create_job", "ended")
  /\ UNCHANGED <<sessions, jobs, calls, approvals, llm_runs, snapshots, closing>>

CreateJob(t) ==
  /\ turn[t].pc = "create_job"
  /\ \E o \in Outcomes :
       /\ jobs' = IF Commits(o) THEN [jobs EXCEPT ![t] = "RUNNING"] ELSE jobs
       /\ Goes(t, o, turn[t], "run_agent", "ended")
  /\ UNCHANGED <<sessions, messages, calls, approvals, llm_runs, snapshots, closing>>

---------------------------------------------------------------------------
\* From here on an exception is caught by _answer_chat.

\* Mutant: a direct answer is returned without being stored.
AfterDirectAnswer == "ended"
AfterDirect == "finish"

\* The agent answers directly, or calls some tools, whose statuses are any.
\* (A BLOCKED result does what a SUCCESS does here.)
AnswerDirectly(t) ==
  /\ turn[t].pc = "run_agent"
  /\ turn' = [turn EXCEPT ![t].content = "direct", ![t].pc = AfterDirect]
  /\ UNCHANGED <<sessions, messages, jobs, calls, approvals, llm_runs, snapshots,
                 faults, closing>>

RunTools(t) ==
  /\ turn[t].pc = "run_agent"
  /\ \E results \in AgentResults[t] :
       turn' = [turn EXCEPT ![t].results = results, ![t].pc = "record_calls"]
  /\ UNCHANGED <<sessions, messages, jobs, calls, approvals, llm_runs, snapshots,
                 faults, closing>>

\* The dispatcher raises for a tool that is not registered, and services of the
\* context bundle may raise: a fault.
AgentRaises(t) ==
  /\ turn[t].pc = "run_agent"
  /\ Goes(t, "lost", turn[t], "run_agent", "handle_error")
  /\ UNCHANGED <<sessions, messages, jobs, calls, approvals, llm_runs, snapshots, closing>>

\* _persist_agent_tool_result: one insert per result.
RecordCall(t) ==
  /\ turn[t].pc = "record_calls"
  /\ \E tool \in Planned(t) \ turn[t].recorded, o \in Outcomes :
       /\ calls' = IF Commits(o)
                   THEN calls \cup {[turn |-> t, session |-> turn[t].session,
                          tool |-> tool, status |-> turn[t].results[tool],
                          llm_run |-> NoRun]}
                   ELSE calls
       /\ Goes(t, o, [turn[t] EXCEPT !.recorded = @ \cup {tool}], "record_calls",
               "handle_error")
  /\ UNCHANGED <<sessions, messages, jobs, approvals, llm_runs, snapshots, closing>>

\* Mutant: approvals are requested for whatever did not succeed.
NotSucceeded(t) == {tool \in Planned(t) : turn[t].results[tool] # "SUCCESS"}
RequiresApproval(t) ==
  {tool \in Planned(t) : turn[t].results[tool] = "APPROVAL_REQUIRED"}

CallsRecorded(t) ==
  /\ turn[t].pc = "record_calls" /\ turn[t].recorded = Planned(t)
  /\ turn' = [turn EXCEPT ![t].waiting = RequiresApproval(t), ![t].pc = "approve"]
  /\ UNCHANGED <<sessions, messages, jobs, calls, approvals, llm_runs, snapshots,
                 faults, closing>>

\* _create_approval_requests: an exception is logged and the next one is requested.
RequestApproval(t) ==
  /\ turn[t].pc = "approve"
  /\ \E tool \in turn[t].waiting, o \in Outcomes :
       /\ approvals' = IF Commits(o) THEN approvals \cup {<<t, tool>>} ELSE approvals
       /\ Goes(t, o, [turn[t] EXCEPT !.waiting = @ \ {tool}], "approve", "approve")
  /\ UNCHANGED <<sessions, messages, jobs, calls, llm_runs, snapshots, closing>>

\* build_deterministic_farmer_bnpl_tool_answer: for some questions of farmers, when
\* one of the tools has answered, the text is made without the LLM.
HasDeterministicAnswer(t) ==
  /\ ChatTypeOf[turn[t].session] = "farmer_bnpl"
  /\ \E tool \in Tools : turn[t].results[tool] = "SUCCESS"

AnswerFromTools(t) ==
  /\ turn[t].pc = "approve" /\ turn[t].waiting = {}
  /\ HasDeterministicAnswer(t)
  /\ turn' = [turn EXCEPT ![t].content = "deterministic", ![t].pc = "finish"]
  /\ UNCHANGED <<sessions, messages, jobs, calls, approvals, llm_runs, snapshots,
                 faults, closing>>

AskLlm(t) ==
  /\ turn[t].pc = "approve" /\ turn[t].waiting = {}
  /\ turn' = [turn EXCEPT ![t].pc = "prompt"]
  /\ UNCHANGED <<sessions, messages, jobs, calls, approvals, llm_runs, snapshots,
                 faults, closing>>

---------------------------------------------------------------------------
\* run_agent_completion

\* ensure_prompt_version is outside the try block.
EnsurePrompt(t) ==
  /\ turn[t].pc = "prompt"
  /\ \E o \in {"ok", "lost"} : Goes(t, o, turn[t], "complete", "handle_error")
  /\ UNCHANGED <<sessions, messages, jobs, calls, approvals, llm_runs, snapshots, closing>>

\* Mutant: a retryable error is always retried.
MayAlwaysRetry(attempts) == TRUE
MayRetry(attempts) == attempts < 3

\* Attempt n of complete: an answer that parses and matches the schema or not, an
\* error that is retried (429, 5xx, network, timeout, no JSON, no "answer") unless
\* this is the third attempt, or any other error.
LlmReplies(t) ==
  LET tried == [turn[t] EXCEPT !.attempts = @ + 1]
      ends(status) == [turn[t] EXCEPT !.attempts = 0, !.llm = status, !.pc = "record_run"]
  IN  {ends(status) : status \in LlmStatuses} \cup
      {IF MayRetry(tried.attempts) THEN tried ELSE ends("FAILED")}

CallLlm(t) ==
  /\ turn[t].pc = "complete"
  /\ \E local \in LlmReplies(t) : turn' = [turn EXCEPT ![t] = local]
  /\ UNCHANGED <<sessions, messages, jobs, calls, approvals, llm_runs, snapshots,
                 faults, closing>>

\* The insert of a run with an answer is inside the try block: when it raises, the
\* run is recorded again, as FAILED.  When that raises too, the turn fails.
RecordRun(t) ==
  /\ turn[t].pc = "record_run"
  /\ \E o \in Outcomes :
       /\ llm_runs' = IF Commits(o)
                      THEN [llm_runs EXCEPT ![t] = Append(@, turn[t].llm)] ELSE llm_runs
       /\ IF turn[t].llm = "FAILED"
          THEN Goes(t, o, turn[t], "attach", "handle_error")
          ELSE Goes(t, o, [turn[t] EXCEPT !.llm = IF o = "ok" THEN @ ELSE "FAILED"],
                    "attach", "record_run")
  /\ UNCHANGED <<sessions, messages, jobs, calls, approvals, snapshots, closing>>

---------------------------------------------------------------------------
\* Mutant: the rows of the session, whichever job they belong to.
RowsOfSession(t) ==
  {row \in calls : row.session = turn[t].session /\ row.llm_run = NoRun}

\* attach_llm_run_to_tool_calls: the rows of this job without a run.
RowsToLink(t) ==
  {row \in calls : /\ row.turn = t /\ row.session = turn[t].session
                   /\ row.llm_run = NoRun}

Attach(t) ==
  /\ turn[t].pc = "attach"
  /\ \E o \in Outcomes :
       /\ calls' = IF Commits(o)
                   THEN (calls \ RowsToLink(t)) \cup
                        {[row EXCEPT !.llm_run = LastRun(t)] : row \in RowsToLink(t)}
                   ELSE calls
       /\ Goes(t, o, turn[t], "snapshot", "snapshot")
  /\ UNCHANGED <<sessions, messages, jobs, approvals, llm_runs, snapshots, closing>>

TakeSnapshot(t) ==
  /\ turn[t].pc = "snapshot"
  /\ \E o \in Outcomes :
       /\ snapshots' = IF Commits(o)
                       THEN snapshots \cup {[turn |-> t, llm_run |-> LastRun(t),
                                             tool_calls |-> turn[t].recorded]}
                       ELSE snapshots
       /\ Goes(t, o, turn[t], "finish", "finish")
  /\ UNCHANGED <<sessions, messages, jobs, calls, approvals, llm_runs, closing>>

---------------------------------------------------------------------------
\* The text of the answer.  resolve_assistant_content: a text for the failure when
\* the run has no valid answer, or when its answer shows a farmer the internals.
Answers(t) ==
  CASE turn[t].content # "none" -> {turn[t].content}
    [] turn[t].content = "none" /\ turn[t].llm # "SUCCESS" -> {"fallback"}
    [] OTHER -> IF ChatTypeOf[turn[t].session] = "farmer_bnpl"
                THEN {"llm", "fallback"} ELSE {"llm"}

\* _finish_job reads the job and sets its status, whatever it is.
\* Mutant: only a job without any successful tool is FAILED.
FinishedByAny(t) ==
  IF Planned(t) # {} /\ \A tool \in Planned(t) : turn[t].results[tool] = "FAILED"
  THEN "FAILED" ELSE "SUCCEEDED"

FinishedStatus(t) ==
  IF \E tool \in Tools : turn[t].results[tool] = "FAILED" THEN "FAILED" ELSE "SUCCEEDED"

Finish(t) ==
  /\ turn[t].pc = "finish"
  /\ \E o \in Outcomes, content \in Answers(t) :
       /\ jobs' = IF Commits(o) THEN [jobs EXCEPT ![t] = FinishedStatus(t)] ELSE jobs
       /\ Goes(t, o, [turn[t] EXCEPT !.content = content], "append_assistant",
               "handle_error")
  /\ UNCHANGED <<sessions, messages, calls, approvals, llm_runs, snapshots, closing>>

\* The exception handler: no results, no LLM run, a FAILED job, also over one that
\* has SUCCEEDED.  An exception in here leaves the request without an answer.
HandleError(t) ==
  /\ turn[t].pc = "handle_error"
  /\ \E o \in Outcomes :
       /\ jobs' = IF Commits(o) THEN [jobs EXCEPT ![t] = "FAILED"] ELSE jobs
       /\ Goes(t, o, [turn[t] EXCEPT !.results = NoResults, !.recorded = {},
                        !.content = "error", !.llm = "none"],
               "append_assistant", "ended")
  /\ UNCHANGED <<sessions, messages, calls, approvals, llm_runs, snapshots, closing>>

AppendAssistant(t) ==
  /\ turn[t].pc = "append_assistant"
  /\ \E o \in Outcomes :
       /\ messages' = IF Commits(o)
                      THEN Append1(t, "ASSISTANT", turn[t].content, turn[t].recorded)
                      ELSE messages
       /\ Goes(t, o, turn[t], "touch", "ended")
  /\ UNCHANGED <<sessions, jobs, calls, approvals, llm_runs, snapshots, closing>>

\* _touch_session sets updated_at only, and the session is read for the response.
Touch(t) ==
  /\ turn[t].pc = "touch"
  /\ \E o \in {"ok", "lost"} : Goes(t, o, turn[t], "ended", "ended")
  /\ UNCHANGED <<sessions, messages, jobs, calls, approvals, llm_runs, snapshots, closing>>

\* The process stops and every request that is being answered is lost.
Crash ==
  /\ faults < MaxFaults
  /\ \E t \in Turns : IsRunning(t)
  /\ faults' = faults + 1
  /\ turn' = [t \in Turns |-> IF IsRunning(t)
                THEN Ended([turn[t] EXCEPT !.hurt = TRUE]) ELSE turn[t]]
  /\ UNCHANGED <<sessions, messages, jobs, calls, approvals, llm_runs, snapshots, closing>>

---------------------------------------------------------------------------
Answering(t) ==
  \/ AppendUser(t) \/ CreateJob(t) \/ AnswerDirectly(t) \/ RunTools(t) \/ AgentRaises(t)
  \/ RecordCall(t) \/ CallsRecorded(t) \/ RequestApproval(t) \/ AnswerFromTools(t)
  \/ AskLlm(t) \/ EnsurePrompt(t) \/ CallLlm(t) \/ RecordRun(t) \/ Attach(t)
  \/ TakeSnapshot(t) \/ Finish(t) \/ HandleError(t) \/ AppendAssistant(t) \/ Touch(t)

Next ==
  \/ \E t \in Turns, s \in Sessions : CreateSession(t, s) \/ ResolveSession(t, s)
  \/ \E t \in Turns : Answering(t)
  \/ \E s \in Sessions : CloseSession(s)
  \/ Crash

\* A request that has begun is a thread that goes on; all its calls have timeouts.
Fairness == \A t \in Turns : WF_chatVars(Answering(t))
Spec == Init /\ [][Next]_chatVars /\ Fairness

---------------------------------------------------------------------------
TypeOK ==
  /\ sessions \in [Sessions -> {"NONE", "OPEN", "CLOSED"}]
  /\ messages \in [Sessions -> Seq(Messages)]
  /\ jobs \in [Turns -> JobStatuses]
  /\ calls \in SUBSET CallRows
  /\ approvals \in SUBSET (Turns \X Tools)
  /\ llm_runs \in [Turns -> Seq(LlmStatuses)]
  /\ snapshots \in SUBSET Snapshots
  /\ turn \in [Turns -> TurnStates]
  /\ faults \in Nat
  /\ closing \in [Sessions -> [messages : Nat, running : SUBSET Turns]]

MessagesOf(s) == {messages[s][i] : i \in DOMAIN messages[s]}
AnswersOf(t) == {m \in UNION {MessagesOf(s) : s \in Sessions} :
                   m.turn = t /\ m.role = "ASSISTANT"}
RowsOf(t) == {row \in calls : row.turn = t}

\* A closed session gets no new questions: what is stored in it after it was closed
\* belongs to requests that had passed the check before (service.py:271), which may
\* store their question as well as their answer after the close.
ClosedSessionTakesNoNewQuestions ==
  \A s \in Sessions :
    sessions[s] = "CLOSED" =>
      \A i \in (closing[s].messages + 1)..Len(messages[s]) :
        messages[s][i].turn \in closing[s].running

\* The job, the recorded calls and the stored answer of a turn tell the same story,
\* whatever was raised on the way (service.py:622, :405): an answer has a finished
\* job, an error message a FAILED one, and any other answer a job that is FAILED
\* exactly when a call it cites failed; an LLM text was valid; and a job that
\* SUCCEEDED has no recorded call that failed.
JobTellsTheAnswer ==
  \A t \in Turns :
    /\ \A m \in AnswersOf(t) :
         LET failed == \E row \in RowsOf(t) :
                         row.status = "FAILED" /\ row.tool \in m.tool_calls
         IN  /\ jobs[t] = IF m.content = "error" \/ failed THEN "FAILED" ELSE "SUCCEEDED"
             /\ m.content = "llm" => m.llm_status = "SUCCESS"
             /\ m.llm_status # "none" =>
                  llm_runs[t] # <<>> /\ llm_runs[t][Len(llm_runs[t])] = m.llm_status
    /\ jobs[t] = "SUCCEEDED" => \A row \in RowsOf(t) : row.status # "FAILED"

\* Turns of one session do not get into each other's evidence (repository.py:641):
\* the calls an answer or a snapshot cites are recorded for its own turn and session,
\* all of them unless the turn failed, and a call is linked to the LLM run that was
\* made from it, the last one of its turn, together with the other calls of the turn.
LinksStayInTheTurn ==
  \A t \in Turns :
    /\ \A row \in RowsOf(t) :
         /\ row.session = turn[t].session
         /\ row.llm_run # NoRun =>
              /\ row.llm_run = LastRun(t)
              /\ \A other \in RowsOf(t) : other.llm_run = row.llm_run
    /\ \A m \in AnswersOf(t) :
         m.content # "error" => m.tool_calls = {row.tool : row \in RowsOf(t)}
    /\ \A shot \in snapshots :
         shot.turn = t => /\ shot.llm_run = LastRun(t)
                          /\ shot.tool_calls = {row.tool : row \in RowsOf(t)}

\* An approver only sees requests for calls that were recorded as waiting for an
\* approval (service.py:524), and an answer that nothing went wrong with leaves no
\* such call without a request.
ApprovalsAreOfRecordedCalls ==
  LET waiting(t) == {<<t, row.tool>> : row \in {r \in RowsOf(t) :
                                                  r.status = "APPROVAL_REQUIRED"}}
  IN  /\ approvals \subseteq UNION {waiting(t) : t \in Turns}
      /\ \A t \in Turns :
           AnswersOf(t) # {} /\ ~turn[t].hurt => waiting(t) \subseteq approvals

\* A question that is stored gets an answer (service.py:275), however often the LLM
\* is tried and whatever the tools give, unless a transaction of its turn raises or
\* the process stops.
QuestionsAreAnswered ==
  \A t \in Turns : turn[t].pc = "create_job" ~> (AnswersOf(t) # {} \/ turn[t].hurt)
==============================================================================
