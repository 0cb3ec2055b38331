----------------------------- MODULE AgentTheater -----------------------------
(***************************************************************************)
(* oligo/core/agent.py: one agent_invoke request, from run_theater to its  *)
(* end.  Each turn asks the router LLM for tool calls, runs them in        *)
(* batches beside the stream, waits for the background tasks they started, *)
(* washes and renders their results into the history, and asks again; a    *)
(* router answer without calls leads to the final reply.                   *)
(*                                                                         *)
(* The background tasks are the TaskLifecycle that TaskService implements: *)
(* a long-running call c submits task c and is awaited by the call c of    *)
(* await_completion.  The tools run in an asyncio.Task of their own, which *)
(* nothing cancels: it goes on when the stream has ended.                  *)
(***************************************************************************)
EXTENDS Naturals, Sequences, FiniteSets, ToolSchedule

CONSTANTS
  MaxTurns,   \* max_turns of the request
  MaxCalls,   \* bound of this model: tool calls in one router answer
  ModelIds    \* ids the router may write on its <tool_call> tags

ASSUME TheaterAssumption ==
  /\ MaxTurns \in Nat \ {0}
  /\ MaxCalls \in Nat \ {0}
  /\ "fresh" \notin ModelIds

VARIABLES
  turn,     \* _current_turn
  at,       \* where the generator is suspended
  plan,     \* [Turns -> Seq(call)], the planned_calls of each turn
  exec,     \* the execute task: none, running, done, failed
  batches,  \* the batches it has not begun
  batch,    \* the batch it runs now
  tool,     \* [Slots -> ToolState], the call in each slot of the turn
  results,  \* executed_results of the turn
  shown,    \* [Turns -> Seq(result)], what _step_render wrote to the history
  client,   \* is somebody reading the stream
  terminal, \* the bb-stream-done frame sent: none, error, aborted
  status, phase, asked, news, answer   \* TaskLifecycle's

run == <<exec, batches, batch, tool>>
story == <<turn, plan, shown>>
stream == <<client, terminal>>
service == <<status, phase, asked, news, answer>>
vars == <<at, results, run, story, stream, service>>

Turns == 1..MaxTurns
Slots == 1..MaxCalls
Calls == Turns \X Slots

Service == INSTANCE TaskLifecycle WITH
  Tasks <- Calls, Awaiters <- Calls, Cancellable <- {}

Awaiting == {"routing", "executing", "awaiting", "washing", "rendering",
             "synthesizing", "streaming"}
Over == {"answered", "ended"}

\* What a tool's coroutine ends in, as _run_one sees it.  The two long-running tools
\* submit a task ("started") or refuse their arguments in a text, without suspending,
\* so the deadline cannot hit them; stray_id is an error text that holds eight hex
\* digits (an OSError names tasks/<id>.json).  severed: an exception of
\* CLIENT_GONE_EXCEPTIONS, which is raised on instead of being made a result.
Outcome(kind) ==
  IF kind = "long" THEN {"started", "text", "error", "stray_id"}
  ELSE {"text", "error", "timeout", "severed"}
ToolState == {"idle", "running", "started", "text", "error", "stray_id", "timeout",
              "severed"}

\* planned_call_id_from_parsed: the model's own id when it wrote one, or a uuid.
Call == [slot : Slots, kind : Kind, id : {"fresh"} \cup ModelIds]
Plans == UNION {{p \in [1..n -> Call] : \A i \in 1..n : p[i].slot = i} : n \in 0..MaxCalls}
SameId(c, d) == c.slot = d.slot \/ (c.id # "fresh" /\ c.id = d.id)

Text == {"denied", "started", "text", "error", "stray_id", "timeout", "outcome",
         "task_failed", "await_failed"}
Result == [call : Call, status : {"DENIED", "SUCCESS", "ERROR", "TIMEOUT"},
           task : BOOLEAN,                 \* task_id is not None
           raw : Text, washed : {"none"} \cup Text]

TheTask(r) == <<turn, r.call.slot>>

Init ==
  /\ turn = 1
  /\ at = "routing"
  /\ plan = [n \in Turns |-> <<>>]
  /\ exec = "none" /\ batches = <<>> /\ batch = <<>>
  /\ tool = [i \in Slots |-> "idle"]
  /\ results = <<>>
  /\ shown = [n \in Turns |-> <<>>]
  /\ client = "connected"
  /\ terminal = "none"
  /\ Service!Init
  /\ asked = [c \in Calls |-> c]

-----------------------------------------------------------------------------
(* Routing *)

\* A denied call of a long-running tool is searched for a task id as well, and its
\* deny reason quotes the arguments the model wrote.
DeniedResult(call, named) ==
  [call |-> call, status |-> "DENIED", task |-> named, raw |-> "denied", washed |-> "none"]

\* _step_route parsed tool calls: the execute task is created.
RouteCalls(p) ==
  /\ at = "routing" /\ p # <<>>
  /\ plan' = [plan EXCEPT ![turn] = p]
  /\ at' = "executing"
  /\ exec' = "running"
  /\ batches' = PartitionToolCalls(Allowed(p))
  /\ batch' = <<>>
  /\ tool' = [i \in Slots |-> "idle"]
  /\ \E named \in [Slots -> BOOLEAN] :
       /\ \A i \in Slots : named[i] => i <= Len(p) /\ p[i].kind = "denied"
       /\ results' = [i \in DOMAIN Denied(p) |->
                        DeniedResult(Denied(p)[i], named[Denied(p)[i].slot])]
  /\ UNCHANGED <<turn, shown, stream, service>>

RoutePasses ==
  /\ at = "routing"
  /\ at' = "synthesizing"
  /\ UNCHANGED <<results, run, story, stream, service>>

\* How a stream ends before its reply: the frame its client gets.
EndsWith(frame) ==
  /\ at' = "ended"
  /\ terminal' = frame
  /\ UNCHANGED <<results, run, story, client, service>>

LlmTimeout_Silent ==
  /\ at \in {"routing", "synthesizing"}
  /\ EndsWith("none")

\* The 120 s watchdog of the router probe and of the final reply.
LlmTimeout ==
  /\ at \in {"routing", "synthesizing"}
  /\ EndsWith("error")

\* The LLM client raised.  safe_theater_stream reports the error, unless its text
\* reads like a broken pipe ("disconnect", "connection reset"): then run_theater
\* takes it for the client's leaving.
LlmError ==
  /\ at \in {"routing", "synthesizing"}
  /\ EndsWith("error") \/ EndsWith("aborted")

-----------------------------------------------------------------------------
(* The execute task *)

StartBatch ==
  /\ exec = "running" /\ batch = <<>> /\ batches # <<>>
  /\ batch' = Head(batches)
  /\ batches' = Tail(batches)
  /\ tool' = [i \in Slots |->
                IF \E b \in DOMAIN batch' : batch'[b].slot = i THEN "running" ELSE tool[i]]
  /\ UNCHANGED <<at, results, exec, story, stream, service>>

\* A tool returns, raises, or runs into its 45 s deadline; arxiv_miner and
\* daily_paper_pipeline submit their task first.
FinishTool(b, o) ==
  /\ b \in DOMAIN batch
  /\ tool[batch[b].slot] = "running"
  /\ o \in Outcome(batch[b].kind)
  /\ tool' = [tool EXCEPT ![batch[b].slot] = o]
  /\ IF o = "started" THEN Service!Submit(<<turn, batch[b].slot>>) ELSE UNCHANGED service
  /\ UNCHANGED <<at, results, exec, batches, batch, story, stream>>

BatchOver == batch # <<>> /\ \A b \in DOMAIN batch : tool[batch[b].slot] # "running"

Severed == \E b \in DOMAIN batch : tool[batch[b].slot] = "severed"

StatusOf(o) ==
  IF o \in {"started", "text"} THEN "SUCCESS"
  ELSE IF o = "timeout" THEN "TIMEOUT" ELSE "ERROR"

\* The row of a finished tool; task_id is filled in by _step_execute.
Executed(call) ==
  LET o == tool[call.slot] IN
    [call |-> call, status |-> StatusOf(o), task |-> o \in {"started", "stray_id"},
     raw |-> o, washed |-> "none"]

EndBatch ==
  /\ exec = "running" /\ BatchOver /\ ~Severed
  /\ results' = results \o [b \in DOMAIN batch |-> Executed(batch[b])]
  /\ batch' = <<>>
  /\ UNCHANGED <<at, exec, batches, tool, story, stream, service>>

\* The gather of a batch waits for all its tools before the exception is raised;
\* the batches after it never run.
BatchSevered ==
  /\ exec = "running" /\ BatchOver /\ Severed
  /\ exec' = "failed" /\ batches' = <<>> /\ batch' = <<>>
  /\ UNCHANGED <<at, results, tool, story, stream, service>>

EndExecute ==
  /\ exec = "running" /\ batch = <<>> /\ batches = <<>>
  /\ exec' = "done"
  /\ UNCHANGED <<at, results, batches, batch, tool, story, stream, service>>

\* The None the execute task puts on tool_sse_q in its finally.
SentinelSent_OnSuccess == exec = "done"
SentinelSent == exec \in {"done", "failed"}

\* The generator saw the None and awaits the execute task's result.
Collect ==
  /\ at = "executing" /\ SentinelSent /\ exec = "done"
  /\ at' = IF \E i \in DOMAIN results : results[i].task THEN "awaiting" ELSE "washing"
  /\ UNCHANGED <<results, run, story, stream, service>>

CollectSevered ==
  /\ at = "executing" /\ SentinelSent /\ exec = "failed"
  /\ EndsWith("aborted")

-----------------------------------------------------------------------------
(* Awaiting background tasks *)

\* Each coroutine of the gather calls await_completion in its own first step.
BeginWait(i) ==
  /\ at = "awaiting" /\ i \in DOMAIN results
  /\ results[i].task
  /\ Service!Ask(TheTask(results[i]), TheTask(results[i]))
  /\ UNCHANGED <<at, results, run, story, stream>>

WaitAnswered(c) ==
  /\ Service!Answer(c)
  /\ UNCHANGED <<at, results, run, story, stream>>

\* await_completion's 600 s deadline.
WaitExpires(c) ==
  /\ phase[c] = "waiting"
  /\ phase' = [phase EXCEPT ![c] = "gone"]
  /\ news' = [news EXCEPT ![c] = {}]
  /\ UNCHANGED <<status, asked, answer, at, results, run, story, stream>>

\* event_by_call: the rows with a task, zipped with the gathered events, keyed by
\* call id.  Of two rows with one id the later event stands for both.
EventRow(i) ==
  LET rows == {j \in DOMAIN results :
                 results[j].task /\ SameId(results[j].call, results[i].call)}
  IN CHOOSE j \in rows : \A k \in rows : k <= j

HasEvent(i) ==
  \E j \in DOMAIN results : results[j].task /\ SameId(results[j].call, results[i].call)

EventOf_ByPosition(i) ==
  IF results[1].task THEN answer[TheTask(results[1])] ELSE answer[TheTask(results[i])]

EventOf(i) == answer[TheTask(results[EventRow(i)])]

Patched(i) ==
  LET r == results[i] IN
    IF ~HasEvent(i) THEN r
    ELSE IF EventOf(i) = "completed"
         THEN [r EXCEPT !.status = "SUCCESS", !.raw = "outcome", !.washed = "outcome"]
    ELSE IF EventOf(i) \in {"failed", "cancelled"}
         THEN [r EXCEPT !.status = "ERROR", !.washed = "task_failed"]
    ELSE [r EXCEPT !.status = "ERROR", !.washed = "await_failed"]

WaitDone(i) == results[i].task => phase[TheTask(results[i])] \in {"returned", "gone"}

GatherOver == \A i \in DOMAIN results : WaitDone(i)

WaitOver ==
  /\ at = "awaiting" /\ GatherOver
  /\ results' = [i \in DOMAIN results |-> Patched(i)]
  /\ at' = "washing"
  /\ UNCHANGED <<run, story, stream, service>>

-----------------------------------------------------------------------------
(* Washing and rendering *)

\* _wash_tool_results: what is not a SUCCESS is shown by its raw text, whatever
\* washed_result held; a wash by the LLM keeps what the text is about.
Wash ==
  /\ at = "washing"
  /\ at' = "rendering"
  /\ results' = [i \in DOMAIN results |-> [results[i] EXCEPT !.washed = results[i].raw]]
  /\ UNCHANGED <<run, story, stream, service>>

MoreTurns_OffByOne == turn <= MaxTurns

MoreTurns == turn < MaxTurns

\* _step_render, and the head of the while loop.
Render ==
  /\ at = "rendering"
  /\ shown' = [shown EXCEPT ![turn] = results]
  /\ results' = <<>>
  /\ \/ MoreTurns /\ turn' = turn + 1 /\ at' = "routing" /\ UNCHANGED terminal
     \/ ~MoreTurns /\ at' = "ended" /\ terminal' = "error" /\ UNCHANGED turn
  /\ UNCHANGED <<plan, run, client, service>>

-----------------------------------------------------------------------------
(* The reply, and the client *)

Synthesize ==
  /\ at = "synthesizing"
  /\ at' = "streaming"
  /\ UNCHANGED <<results, run, story, stream, service>>

StreamReply ==
  /\ at = "streaming"
  /\ at' = "answered"
  /\ UNCHANGED <<results, run, story, stream, service>>

AbandonWaits_Not == UNCHANGED service

\* The gather is cancelled, and with it every await_completion of the turn.
AbandonWaits ==
  /\ phase' = [c \in Calls |-> IF phase[c] = "waiting" THEN "gone" ELSE phase[c]]
  /\ news' = [c \in Calls |-> {}]
  /\ UNCHANGED <<status, asked, answer>>

\* The request is cancelled at an await (an aborted frame nobody reads) or its
\* generator is closed at a yield.  The execute task is not told.
ClientGoes ==
  /\ at \in Awaiting
  /\ client' = "gone"
  /\ at' = "ended"
  /\ terminal' \in {"none", "aborted"}
  /\ AbandonWaits
  /\ UNCHANGED <<results, run, story>>

-----------------------------------------------------------------------------

\* The tasks themselves, as their service lets them go.  Nothing in the running
\* system calls cancel_task.
Background ==
  /\ \E c \in Calls : Service!Run(c) \/ Service!Finish(c)
  /\ UNCHANGED <<at, results, run, story, stream>>

GeneratorStep ==
  \/ \E p \in Plans : RouteCalls(p)
  \/ RoutePasses \/ LlmTimeout \/ LlmError
  \/ Collect \/ CollectSevered
  \/ \E i \in 1..MaxCalls : BeginWait(i)
  \/ WaitOver \/ Wash \/ Render
  \/ Synthesize \/ StreamReply

ExecuteStep ==
  \/ StartBatch \/ EndBatch \/ BatchSevered \/ EndExecute
  \/ \E b \in 1..MaxCalls, o \in ToolState : FinishTool(b, o)

WaitStep == \E c \in Calls : WaitAnswered(c) \/ WaitExpires(c)

Next == GeneratorStep \/ ExecuteStep \/ WaitStep \/ ClientGoes \/ Background

Spec == Init /\ [][Next]_vars

\* LLM calls, tools and waits all carry a deadline, and the loop runs what is
\* ready.  Nothing is asked of the background tasks.
FairSpec ==
  /\ Spec
  /\ WF_vars(GeneratorStep)
  /\ WF_vars(ExecuteStep)
  /\ WF_vars(WaitStep)

-----------------------------------------------------------------------------
(* Properties *)

\* A request, its batch, its tool workers and its stream stay in their ranges.
TypeOK ==
  /\ turn \in Turns
  /\ at \in Awaiting \cup Over
  /\ plan \in [Turns -> Seq(Call)]
  /\ exec \in {"none", "running", "done", "failed"}
  /\ batches \in Seq(Seq(Call)) /\ batch \in Seq(Call)
  /\ tool \in [Slots -> ToolState]
  /\ results \in Seq(Result)
  /\ shown \in [Turns -> Seq(Result)]
  /\ client \in {"connected", "gone"}
  /\ terminal \in {"none", "error", "aborted"}

\* The history answers every call of a finished turn exactly once: denied, failed,
\* timed out or awaited, whatever batch it ran in.
EveryCallAnswered ==
  \A n \in Turns : shown[n] # <<>> =>
    /\ Len(shown[n]) = Len(plan[n])
    /\ \A i \in DOMAIN plan[n] : \E j \in DOMAIN shown[n] : shown[n][j].call = plan[n][i]

\* A call that is not concurrency_safe runs alone, and calls keep the router's
\* order around it: everything allowed before it has ended, nothing after it began.
UnsafeRunsAlone ==
  \A i, j \in DOMAIN plan[turn] :
    LET c == plan[turn][i]  d == plan[turn][j] IN
      /\ i < j /\ c.kind # "denied" /\ d.kind # "denied"
      /\ ~(IsConcurrencySafe(c) /\ IsConcurrencySafe(d))
      /\ tool[d.slot] # "idle"
      => tool[c.slot] \notin {"idle", "running"}

OwnIds(n) == \A i, j \in DOMAIN plan[n] : SameId(plan[n][i], plan[n][j]) => i = j

\* What the history reports as a task's success is that task's own success: never
\* the receipt of a task that has only been started, never another task's outcome.
\* (event_by_call is keyed by call id: of a turn in which the model wrote one id twice
\* this is not true.)
NoFabricatedSuccess ==
  \A n \in Turns : OwnIds(n) => \A j \in DOMAIN shown[n] :
    LET r == shown[n][j] IN
      r.task /\ r.status = "SUCCESS" =>
        r.washed = "outcome" /\ status[<<n, r.call.slot>>] = "completed"

\* No stream that has ended still waits for a task: whichever way it ended, its
\* subscriptions are released.
EndedStreamWaitsForNothing ==
  at \in Over => \A c \in Calls : phase[c] # "waiting"

\* A connected client is never left in silence: its stream ends with the reply or
\* with a bb-stream-done frame, and not with both.
EndsLoudly ==
  client = "connected" =>
    /\ at = "ended" => terminal # "none"
    /\ at = "answered" => terminal = "none"

\* Every request comes to an end, however its tools and its tasks behave.
StreamEnds == <>(at \in Over)

\* "TASK_FAILED surfaces" (docs/plans/Phase-IV.A-batch.md): a call whose task was
\* reported failed is shown as failed by its task.  Refuted: see the README.
TaskFailureSurfaces ==
  \A n \in Turns : \A j \in DOMAIN shown[n] :
    answer[<<n, shown[n][j].call.slot>>] = "failed" => shown[n][j].washed = "task_failed"
=============================================================================
