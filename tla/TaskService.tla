----------------------------- MODULE TaskService -----------------------------
(***************************************************************************)
(* crucible/services/task_service.py: the registry of background tasks.    *)
(* One JSON file per task, a fan-out of TaskEvents to bounded subscriber   *)
(* queues, the two runners (run_task for a coroutine, run_subprocess_task  *)
(* for a child process), cancellation, and await_completion, the call with *)
(* which an agent turn suspends until a task ends.                         *)
(*                                                                         *)
(* Everything runs on one asyncio event loop, and none of the emit_* and   *)
(* update_* coroutines reaches a suspension point, so each of them is one  *)
(* action here.  An action ends where the code really gives up the loop:   *)
(* at a q.get, at the awaited work, at a readline, at proc.wait.           *)
(***************************************************************************)
EXTENDS Naturals, Sequences, FiniteSets

CONSTANTS
  Tasks,            \* the ids create_task can hand out
  SubprocessTasks,  \* those run by run_subprocess_task; run_task runs the rest
  Cancellable,      \* those some client of the service may cancel
  Awaiters,         \* calls of await_completion
  Streams,          \* GET /v1/tasks/stream requests
  QueueCap          \* maxsize of a subscriber's queue (100 in the code)

ASSUME TasksAssumption ==
  /\ SubprocessTasks \subseteq Tasks
  /\ Cancellable \subseteq Tasks

ASSUME SubscribersAssumption ==
  /\ Awaiters \cap Streams = {}
  /\ QueueCap \in Nat \ {0}

VARIABLES
  disk,    \* [Tasks -> Record], the file tasks/<id>.json
  runner,  \* [Tasks -> RunnerState], where the coroutine driving the task is
  subs,    \* _subscribers, named by the call that subscribed
  queue,   \* [Subscribers -> Seq(Event)], the subscriber queues
  missed,  \* [Subscribers -> SUBSET Tasks], whose final event a full queue dropped
  pc,      \* [Awaiters -> ...], progress of each await_completion call
  target,  \* [Awaiters -> Tasks], the task_id it was called with
  answer   \* [Awaiters -> ...], the event type it returned

vars == <<disk, runner, subs, queue, missed, pc, target, answer>>
calls == <<pc, target, answer>>
bus == <<subs, queue, missed>>

Subscribers == Awaiters \cup Streams

Terminal == {"completed", "failed", "cancelled"}
Status == {"absent", "pending", "running"} \cup Terminal
Zero == 0      \* progress 0.0
Full == 2      \* progress 1.0; 1 stands for everything between
Progress == Zero..Full
EventKind == {"created", "stage_start", "stage_progress"} \cup Terminal
Event == [kind : EventKind, task : Tasks]

\* The fields a reader of the file tells apart; the last three are "not None".
Record == [status : Status, progress : Progress,
           message : BOOLEAN, result : BOOLEAN, error : BOOLEAN]

\* scheduled: asyncio.create_task(run_task(...)) is on the ready queue.
\* working:   _run awaits the work.   stray: the work failed, siblings live on.
\* spawning, reading, reaping, washing, killed: the awaits of run_subprocess_task.
\* done: the driver ended.   lost: it died without reporting an outcome.
RunnerState == {"none", "scheduled", "working", "stray", "spawning", "reading",
                "reaping", "washing", "killed", "done", "lost"}
Volatile == RunnerState \ {"none", "done", "lost"}

NoFile == [status |-> "absent", progress |-> Zero,
           message |-> FALSE, result |-> FALSE, error |-> FALSE]

\* What create_task writes.
NewTask == [status |-> "pending", progress |-> Zero,
            message |-> FALSE, result |-> FALSE, error |-> FALSE]

Init ==
  /\ disk = [t \in Tasks |-> NoFile]
  /\ runner = [t \in Tasks |-> "none"]
  /\ subs = {}
  /\ queue = [s \in Subscribers |-> <<>>]
  /\ missed = [s \in Subscribers |-> {}]
  /\ pc = [a \in Awaiters |-> "idle"]
  /\ target \in [Awaiters -> Tasks]
  /\ answer = [a \in Awaiters |-> "none"]

-----------------------------------------------------------------------------
(* Publishing *)

Accepts_Unbounded(s) == s \in subs

Accepts(s) == s \in subs /\ Len(queue[s]) < QueueCap

\* emit_event: put_nowait on every subscriber queue, QueueFull drops the new event.
\* Its other queue, the service's own _event_queue, has no reader anywhere: once
\* its 1000 places are taken it only makes a log line, and it is not modelled.
Broadcast(k, t) ==
  /\ queue' = [s \in Subscribers |->
                 IF Accepts(s) THEN Append(queue[s], [kind |-> k, task |-> t])
                               ELSE queue[s]]
  /\ missed' = [s \in Subscribers |->
                 IF s \in subs /\ ~Accepts(s) /\ k \in Terminal
                 THEN missed[s] \cup {t} ELSE missed[s]]
  /\ UNCHANGED subs

Save(t, rec) == disk' = [disk EXCEPT ![t] = rec]

\* A publisher whose file is missing raises FileNotFoundError from _load_task.
Exists(t) == disk[t].status # "absent"

EmitCompleted_KeepsError(t, result) ==
  /\ Save(t, [disk[t] EXCEPT !.status = "completed", !.progress = Full,
                             !.message = FALSE, !.result = result \/ @])
  /\ Broadcast("completed", t)

EmitCompleted(t, result) ==
  /\ Save(t, [status |-> "completed", progress |-> Full, message |-> FALSE,
              result |-> result \/ disk[t].result, error |-> FALSE])
  /\ Broadcast("completed", t)

EmitFailed_Silent(t) ==
  /\ Save(t, [disk[t] EXCEPT !.status = "failed", !.message = FALSE,
                             !.error = TRUE, !.result = FALSE])
  /\ UNCHANGED bus

EmitFailed(t) ==
  /\ Save(t, [disk[t] EXCEPT !.status = "failed", !.message = FALSE,
                             !.error = TRUE, !.result = FALSE])
  /\ Broadcast("failed", t)

MayCancel_Always(t) == Exists(t)

MayCancel(t) == Exists(t) /\ disk[t].status \notin Terminal

EmitCancelled(t) ==
  /\ Save(t, [disk[t] EXCEPT !.status = "cancelled", !.message = FALSE,
                             !.error = TRUE])
  /\ Broadcast("cancelled", t)

\* Late progress is dropped unless the file still says RUNNING.
AcceptsProgress_Always(t) == Exists(t)

AcceptsProgress(t) == disk[t].status = "running"

Progressed(t, p) ==
  IF AcceptsProgress(t) THEN [disk[t] EXCEPT !.progress = p, !.message = TRUE]
                        ELSE disk[t]

\* Both runners start by overwriting status, progress and message, whatever the
\* file says: error and result of an earlier life stay.
Started(t) == [disk[t] EXCEPT !.status = "running", !.progress = Zero,
                              !.message = TRUE]

-----------------------------------------------------------------------------
(* A task's life, driven by the tool that created it *)

\* arxiv_miner / daily_paper_pipeline: create_task, emit_created and
\* asyncio.create_task(run_task(...)) happen without giving up the loop.
CreateTask(t) ==
  /\ ~Exists(t)
  /\ Save(t, NewTask)
  /\ Broadcast("created", t)
  /\ runner' = [runner EXCEPT ![t] = "scheduled"]
  /\ UNCHANGED calls

RunTask(t) ==
  /\ t \notin SubprocessTasks
  /\ runner[t] = "scheduled"
  /\ Save(t, Started(t))
  /\ runner' = [runner EXCEPT ![t] = "working"]
  /\ UNCHANGED <<bus, calls>>

\* start_stage has no terminal guard: it rewrites progress and message of any
\* record, and announces the stage.
StartStage(t, p) ==
  /\ runner[t] = "working"
  /\ Save(t, [disk[t] EXCEPT !.status = IF @ = "pending" THEN "running" ELSE @,
                             !.progress = p, !.message = TRUE])
  /\ Broadcast("stage_start", t)
  /\ UNCHANGED <<runner, calls>>

UpdateProgress(t, p) ==
  /\ runner[t] = "working"
  /\ Save(t, Progressed(t, p))
  /\ UNCHANGED <<runner, bus, calls>>

WorkReturns(t) ==
  /\ runner[t] = "working"
  /\ EmitCompleted(t, TRUE)
  /\ runner' = [runner EXCEPT ![t] = "done"]
  /\ UNCHANGED calls

WorkRaises_Swallows(t) ==
  /\ runner[t] = "working"
  /\ runner' = [runner EXCEPT ![t] = "done"]
  /\ UNCHANGED <<disk, bus, calls>>

\* The daily pipeline gathers its stages without cancelling the others, so when
\* one raises the download stage may still be running ("stray").
WorkRaises(t) ==
  /\ runner[t] = "working"
  /\ EmitFailed(t)
  /\ \E r \in {"done", "stray"} : runner' = [runner EXCEPT ![t] = r]
  /\ UNCHANGED calls

\* ... and reports its download count afterwards.
StrayProgress(t) ==
  /\ runner[t] = "stray"
  /\ Save(t, Progressed(t, 1))
  /\ runner' = [runner EXCEPT ![t] = "done"]
  /\ UNCHANGED <<bus, calls>>

CancelTask(t) ==
  /\ t \in Cancellable
  /\ MayCancel(t)
  /\ EmitCancelled(t)
  /\ UNCHANGED <<runner, calls>>

-----------------------------------------------------------------------------
(* run_subprocess_task *)

Advance(t, from, to) ==
  /\ runner[t] = from
  /\ runner' = [runner EXCEPT ![t] = to]

RunSubprocess(t) ==
  /\ t \in SubprocessTasks
  /\ Advance(t, "scheduled", "spawning")
  /\ Save(t, Started(t))
  /\ UNCHANGED <<bus, calls>>

\* create_subprocess_exec is outside the try: an unknown command ends the
\* coroutine and nothing reports it.
Spawn(t) ==
  /\ Advance(t, "spawning", "reading") \/ Advance(t, "spawning", "lost")
  /\ UNCHANGED <<disk, bus, calls>>

\* One stdout line: emit_stage_progress, whose update is subject to the RUNNING
\* guard while the event is sent regardless.
ReadLine(t) ==
  /\ runner[t] = "reading"
  /\ Save(t, Progressed(t, Zero))
  /\ Broadcast("stage_progress", t)
  /\ UNCHANGED <<runner, calls>>

\* No line for stall_timeout_s: kill, report, and return through the finally.
Stall(t) ==
  /\ Advance(t, "reading", "killed")
  /\ EmitFailed(t)
  /\ UNCHANGED calls

EndOfOutput(t) ==
  /\ Advance(t, "reading", "reaping")
  /\ UNCHANGED <<disk, bus, calls>>

KilledProcessReaped(t) ==
  /\ Advance(t, "killed", "done")
  /\ UNCHANGED <<disk, bus, calls>>

ExitedZero(t) ==
  /\ Advance(t, "reaping", "done")
  /\ EmitCompleted(t, FALSE)
  /\ UNCHANGED calls

\* A non-zero exit code asks the LLM for a lesson first when there is a client.
ExitedNonZero(t) ==
  /\ \/ Advance(t, "reaping", "washing") /\ UNCHANGED <<disk, bus>>
     \/ Advance(t, "reaping", "done") /\ EmitFailed(t)
  /\ UNCHANGED calls

LessonExtracted(t) ==
  /\ Advance(t, "washing", "done")
  /\ EmitFailed(t)
  /\ UNCHANGED calls

-----------------------------------------------------------------------------
(* await_completion *)

Subscribe(s) ==
  /\ subs' = subs \cup {s}
  /\ queue' = [queue EXCEPT ![s] = <<>>]
  /\ missed' = [missed EXCEPT ![s] = {}]

Unsubscribe_Forgets(s) == UNCHANGED bus

\* The queue object is garbage once its only reader has gone.
Unsubscribe(s) ==
  /\ subs' = subs \ {s}
  /\ queue' = [queue EXCEPT ![s] = <<>>]
  /\ missed' = [missed EXCEPT ![s] = {}]

AlreadyOver_Never(t) == FALSE

\* The status check of await_completion, before and after it subscribes.
AlreadyOver(t) == disk[t].status \in Terminal

\* From the call to the first q.get nothing suspends, so both status checks and
\* the subscription are one step.  An unknown task_id is waited for like a
\* running one (get_task returns None).
AwaitBegin(a, t) ==
  /\ pc[a] = "idle"
  /\ target' = [target EXCEPT ![a] = t]
  /\ \/ /\ AlreadyOver(t)
        /\ pc' = [pc EXCEPT ![a] = "returned"]
        /\ answer' = [answer EXCEPT ![a] = disk[t].status]
        /\ UNCHANGED bus
     \/ /\ ~AlreadyOver(t)
        /\ pc' = [pc EXCEPT ![a] = "waiting"]
        /\ Subscribe(a)
        /\ UNCHANGED answer
  /\ UNCHANGED <<disk, runner>>

Answers_AnyTask(a, ev) == ev.kind \in Terminal

Answers(a, ev) == ev.kind \in Terminal /\ ev.task = target[a]

\* One turn of the loop: q.get returned the oldest event.
AwaitGet(a) ==
  /\ pc[a] = "waiting"
  /\ queue[a] # <<>>
  /\ LET ev == Head(queue[a]) IN
       \/ /\ Answers(a, ev)
          /\ pc' = [pc EXCEPT ![a] = "returned"]
          /\ answer' = [answer EXCEPT ![a] = ev.kind]
          /\ Unsubscribe(a)
       \/ /\ ~Answers(a, ev)
          /\ queue' = [queue EXCEPT ![a] = Tail(@)]
          /\ UNCHANGED <<subs, missed, pc, answer>>
  /\ UNCHANGED <<disk, runner, target>>

\* The 600 s deadline.  wait_for may report it although an event is queued.
AwaitTimeout(a) ==
  /\ pc[a] = "waiting"
  /\ pc' = [pc EXCEPT ![a] = "timeout"]
  /\ Unsubscribe(a)
  /\ UNCHANGED <<disk, runner, target, answer>>

\* The request that owns the turn is cancelled (its client has gone).
AwaitCancelled(a) ==
  /\ pc[a] = "waiting"
  /\ pc' = [pc EXCEPT ![a] = "cancelled"]
  /\ Unsubscribe(a)
  /\ UNCHANGED <<disk, runner, target, answer>>

-----------------------------------------------------------------------------
(* GET /v1/tasks/stream: the other kind of subscriber *)

StreamOpen(s) ==
  /\ s \notin subs
  /\ Subscribe(s)
  /\ UNCHANGED <<disk, runner, calls>>

StreamSend(s) ==
  /\ s \in subs
  /\ queue[s] # <<>>
  /\ queue' = [queue EXCEPT ![s] = Tail(@)]
  /\ UNCHANGED <<disk, runner, subs, missed, calls>>

StreamClose(s) ==
  /\ s \in subs
  /\ Unsubscribe(s)
  /\ UNCHANGED <<disk, runner, calls>>

-----------------------------------------------------------------------------
(* The process dies and is started again: the files are all that is left *)

Restart ==
  /\ runner' = [t \in Tasks |-> IF runner[t] \in Volatile THEN "lost" ELSE runner[t]]
  /\ subs' = {}
  /\ queue' = [s \in Subscribers |-> <<>>]
  /\ missed' = [s \in Subscribers |-> {}]
  /\ pc' = [a \in Awaiters |-> IF pc[a] = "waiting" THEN "cancelled" ELSE pc[a]]
  /\ UNCHANGED <<disk, target, answer>>

-----------------------------------------------------------------------------

CoroutineStep(t) ==
  \/ RunTask(t)
  \/ \E p \in Progress : StartStage(t, p) \/ UpdateProgress(t, p)
  \/ WorkReturns(t) \/ WorkRaises(t) \/ StrayProgress(t)

SubprocessStep(t) ==
  \/ RunSubprocess(t) \/ Spawn(t) \/ ReadLine(t) \/ Stall(t) \/ EndOfOutput(t)
  \/ KilledProcessReaped(t) \/ ExitedZero(t) \/ ExitedNonZero(t)
  \/ LessonExtracted(t)

AwaiterStep(a) ==
  \/ \E t \in Tasks : AwaitBegin(a, t)
  \/ AwaitGet(a) \/ AwaitTimeout(a) \/ AwaitCancelled(a)

StreamStep(s) == StreamOpen(s) \/ StreamSend(s) \/ StreamClose(s)

Next ==
  \/ \E t \in Tasks : CreateTask(t) \/ CoroutineStep(t) \/ SubprocessStep(t)
                      \/ CancelTask(t)
  \/ \E a \in Awaiters : AwaiterStep(a)
  \/ \E s \in Streams : StreamStep(s)
  \/ Restart

Spec == Init /\ [][Next]_vars

\* The event loop runs what is ready: a scheduled run_task, and an awaiter whose
\* queue is not empty.  The work of a task is assumed to end (its HTTP calls and
\* LLM calls carry timeouts).  No fairness for the deadline of await_completion:
\* what follows must not need it.
Fairness ==
  /\ \A t \in Tasks : WF_vars(RunTask(t)) /\ WF_vars(WorkReturns(t) \/ WorkRaises(t))
  /\ \A a \in Awaiters : WF_vars(AwaitGet(a))

FairSpec == Spec /\ Fairness

-----------------------------------------------------------------------------
(* Properties *)

Ended == {"completed", "failed"}

\* Every file, queue and call stays in its range, queues within their capacity.
TypeOK ==
  /\ disk \in [Tasks -> Record]
  /\ runner \in [Tasks -> RunnerState]
  /\ subs \subseteq Subscribers
  /\ queue \in [Subscribers -> Seq(Event)]
  /\ \A s \in Subscribers : Len(queue[s]) <= QueueCap
  /\ missed \in [Subscribers -> SUBSET Tasks]
  /\ pc \in [Awaiters -> {"idle", "waiting", "returned", "timeout", "cancelled"}]
  /\ target \in [Awaiters -> Tasks]
  /\ answer \in [Awaiters -> {"none"} \cup Terminal]

\* No lost wake-up: a call that still waits for a task whose file is terminal has
\* that task's final event in its queue, unless the queue was full when the event
\* came.  This is what await_completion's double check is for.
WaiterHasAnswer ==
  \A a \in Awaiters :
    pc[a] = "waiting" /\ disk[target[a]].status \in Terminal =>
      \/ \E i \in 1..Len(queue[a]) : Answers(a, queue[a][i])
      \/ target[a] \in missed[a]

\* No subscription leak: exactly the calls that wait are registered, whichever way
\* the others ended (an answer, the deadline, a cancelled request, a restart).
WaitersSubscribed ==
  \A a \in Awaiters : a \in subs <=> pc[a] = "waiting"

\* A turn that was told "completed" or "failed" was told what the file says, now
\* and whenever it is looked at again by check_task_status.
AnswerIsTrue ==
  \A a \in Awaiters :
    pc[a] = "returned" /\ answer[a] \in Ended => disk[target[a]].status = answer[a]

\* A finished record carries one outcome: a result without an error or an error
\* without a result, and no progress line, also when the task was cancelled first
\* and its work went on.
OneOutcome ==
  \A t \in Tasks :
    /\ disk[t].status = "completed" =>
         disk[t].progress = Full /\ ~disk[t].error /\ ~disk[t].message
    /\ disk[t].status = "failed" =>
         disk[t].error /\ ~disk[t].result /\ ~disk[t].message

\* A driver that ran to its end left an outcome in the file: only a crash or an
\* exception outside the runners' try blocks leaves a task RUNNING for good.
DriverReports ==
  \A t \in Tasks :
    runner[t] \in {"done", "stray", "killed"} => disk[t].status \in Ended

\* A completed or failed record is never written again, by a late progress update
\* of a surviving stage, by a cancellation or by anything else.  (A cancelled one
\* is: neither runner looks at the file before it reports.)
FinishedIsFinal ==
  [][\A t \in Tasks : disk[t].status \in Ended => disk'[t] = disk[t]]_disk

\* Without the help of the deadline, a call that waits for a task with a driver
\* gets out of it, unless its queue was full when the outcome was published.
AwaiterWakes ==
  \A a \in Awaiters, t \in Tasks \ SubprocessTasks :
    pc[a] = "waiting" /\ target[a] = t /\ runner[t] \in Volatile
      ~> pc[a] # "waiting" \/ t \in missed[a] \/ runner[t] = "lost"
=============================================================================
