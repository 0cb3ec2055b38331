-------------------------- MODULE TaskServiceProofs --------------------------
(***************************************************************************)
(* Theorems about TaskService, for any number of tasks, calls and streams  *)
(* and any queue capacity.  The inductive invariant joins three layers:    *)
(* who drives a task and what its file says (DriverInv), what a subscriber *)
(* queue may hold (NewsIsTrue), and what a waiting call can count on       *)
(* (WaitersSubscribed, WaiterHasAnswer).                                   *)
(***************************************************************************)
EXTENDS TaskRefinement, SequenceTheorems, TLAPS

USE TasksAssumption, SubscribersAssumption

(* The bus part of TypeOK. *)
BusType ==
  /\ subs \subseteq Subscribers
  /\ queue \in [Subscribers -> Seq(Event)]
  /\ \A s \in Subscribers : Len(queue[s]) <= QueueCap
  /\ missed \in [Subscribers -> SUBSET Tasks]

CallsType ==
  /\ pc \in [Awaiters -> {"idle", "waiting", "returned", "timeout", "cancelled"}]
  /\ target \in [Awaiters -> Tasks]
  /\ answer \in [Awaiters -> {"none"} \cup Terminal]

LEMMA TypeParts ==
  TypeOK <=> /\ disk \in [Tasks -> Record]
             /\ runner \in [Tasks -> RunnerState]
             /\ BusType
             /\ CallsType
BY DEF TypeOK, BusType, CallsType

-----------------------------------------------------------------------------
(* emit_event *)

LEMMA BroadcastType ==
  ASSUME BusType, NEW k \in EventKind, NEW t \in Tasks, Broadcast(k, t)
  PROVE  BusType'
<1>1. subs' \subseteq Subscribers /\ missed' \in [Subscribers -> SUBSET Tasks]
  BY DEF BusType, Broadcast
<1>2. [kind |-> k, task |-> t] \in Event
  BY DEF Event
<1>3. ASSUME NEW s \in Subscribers
      PROVE  queue'[s] \in Seq(Event) /\ Len(queue'[s]) <= QueueCap
  <2>1. queue[s] \in Seq(Event) /\ Len(queue[s]) \in Nat /\ Len(queue[s]) <= QueueCap
    BY DEF BusType
  <2>2. CASE Accepts(s)
    <3>1. queue'[s] = Append(queue[s], [kind |-> k, task |-> t])
      BY <2>2 DEF Broadcast
    <3>2. QED BY <1>2, <2>1, <2>2, <3>1 DEF Accepts
  <2>3. CASE ~Accepts(s)
    BY <2>1, <2>3 DEF Broadcast
  <2>4. QED BY <2>2, <2>3
<1>4. queue' \in [Subscribers -> Seq(Event)]
  BY <1>3 DEF Broadcast
<1>5. QED BY <1>1, <1>3, <1>4 DEF BusType

\* An event changes no place of a queue that was taken, and adds at most itself.
LEMMA BroadcastQueue ==
  ASSUME BusType, NEW k \in EventKind, NEW t \in Tasks, Broadcast(k, t),
         NEW s \in Subscribers
  PROVE  /\ \A i \in 1..Len(queue[s]) :
              i \in 1..Len(queue'[s]) /\ queue'[s][i] = queue[s][i]
         /\ \A i \in 1..Len(queue'[s]) :
              \/ i \in 1..Len(queue[s]) /\ queue'[s][i] = queue[s][i]
              \/ i = Len(queue[s]) + 1 /\ queue'[s][i] = [kind |-> k, task |-> t]
<1>1. queue[s] \in Seq(Event) /\ [kind |-> k, task |-> t] \in Event
  BY DEF BusType, Event
<1>2. CASE Accepts(s)
  <2>1. queue'[s] = Append(queue[s], [kind |-> k, task |-> t])
    BY <1>2 DEF Broadcast
  <2>2. QED BY <1>1, <2>1
<1>3. CASE ~Accepts(s)
  BY <1>3 DEF Broadcast
<1>4. QED BY <1>2, <1>3

\* A subscriber hears of a final event or is on record as having missed it.
LEMMA BroadcastReaches ==
  ASSUME BusType, NEW k \in Terminal, NEW t \in Tasks, Broadcast(k, t),
         NEW s \in Subscribers, s \in subs
  PROVE  \/ \E i \in 1..Len(queue'[s]) : queue'[s][i] = [kind |-> k, task |-> t]
         \/ t \in missed'[s]
<1>1. queue[s] \in Seq(Event) /\ [kind |-> k, task |-> t] \in Event
  BY DEF BusType, Event, EventKind
<1>2. CASE Accepts(s)
  <2>1. queue'[s] = Append(queue[s], [kind |-> k, task |-> t])
    BY <1>2 DEF Broadcast
  <2>2. Len(queue[s]) + 1 \in 1..Len(queue'[s])
    BY <1>1, <2>1
  <2>3. QED BY <1>1, <2>1, <2>2
<1>3. CASE ~Accepts(s)
  BY <1>3 DEF Broadcast
<1>4. QED BY <1>2, <1>3

LEMMA BroadcastMissed ==
  ASSUME BusType, NEW k \in EventKind, NEW t \in Tasks, Broadcast(k, t),
         NEW s \in Subscribers
  PROVE  subs' = subs /\ missed[s] \subseteq missed'[s]
BY DEF Broadcast, BusType

-----------------------------------------------------------------------------
(* The inductive invariant *)

\* Who drives a task and what its file says.
DriverInv ==
  \A t \in Tasks :
    /\ runner[t] = "none" <=> disk[t].status = "absent"
    /\ disk[t].status \in Ended => runner[t] \in {"done", "stray", "killed", "lost"}
    /\ runner[t] \in {"done", "stray", "killed"} => disk[t].status \in Ended

\* A completed or failed event in a queue is what the file says.
NewsIsTrue ==
  \A s \in Subscribers : \A i \in 1..Len(queue[s]) :
    queue[s][i].kind \in Ended => disk[queue[s][i].task].status = queue[s][i].kind

IInv ==
  /\ TypeOK
  /\ DriverInv
  /\ NewsIsTrue
  /\ WaitersSubscribed
  /\ WaiterHasAnswer
  /\ AnswerIsTrue

-----------------------------------------------------------------------------
(* What a step does to the file and the bus.  Every action that touches      *)
(* either is of one of these kinds, and the bus invariants follow from the   *)
(* kind alone.                                                               *)

Publishes(t, k) ==
  /\ Broadcast(k, t)
  /\ \A u \in Tasks : u # t => disk'[u] = disk[u]
  /\ disk[t].status \notin Ended
  /\ k \in Terminal => disk'[t].status = k
  /\ k \notin Terminal => disk'[t].status \in {disk[t].status, "pending", "running"}
  /\ UNCHANGED calls

WritesQuietly(t) ==
  /\ UNCHANGED <<bus, calls>>
  /\ \A u \in Tasks : u # t => disk'[u] = disk[u]
  /\ disk'[t].status \in {disk[t].status, "running"}
  /\ disk[t].status \in Ended => disk'[t] = disk[t]

TaskStep(t) == CreateTask(t) \/ CoroutineStep(t) \/ SubprocessStep(t) \/ CancelTask(t)

LEMMA EmitFailedPublishes ==
  ASSUME TypeOK, NEW t \in Tasks, EmitFailed(t), UNCHANGED calls,
         disk[t].status \notin Ended
  PROVE  \E k \in EventKind : Publishes(t, k)
<1>1. disk' = [disk EXCEPT ![t] = [disk[t] EXCEPT !.status = "failed", !.message = FALSE,
                                                 !.error = TRUE, !.result = FALSE]]
  BY DEF EmitFailed, Save
<1>2. disk'[t].status = "failed" /\ \A u \in Tasks : u # t => disk'[u] = disk[u]
  BY <1>1 DEF TypeOK, Record
<1>3. Publishes(t, "failed")
  BY <1>2 DEF Publishes, EmitFailed, Terminal
<1>4. QED BY <1>3 DEF EventKind, Terminal

LEMMA TaskStepKind ==
  ASSUME TypeOK, DriverInv, NEW t \in Tasks, TaskStep(t)
  PROVE  (\E k \in EventKind : Publishes(t, k)) \/ WritesQuietly(t)
<1> USE DEF TypeOK, DriverInv, Publishes, WritesQuietly, Save, Record, Terminal, Ended,
            EventKind, calls, bus, Advance
<1>1. CASE CreateTask(t)
  <2>1. Publishes(t, "created")
    BY <1>1 DEF CreateTask, NewTask, Exists
  <2>2. QED BY <2>1
<1>2. CASE CancelTask(t)
  <2>1. Publishes(t, "cancelled")
    BY <1>2 DEF CancelTask, MayCancel, EmitCancelled
  <2>2. QED BY <2>1
<1>3. CASE RunTask(t)
  BY <1>3 DEF RunTask, Started
<1>4. ASSUME NEW p \in Progress, StartStage(t, p)
      PROVE  Publishes(t, "stage_start")
  BY <1>4 DEF StartStage
<1>5. ASSUME NEW p \in Progress, UpdateProgress(t, p)
      PROVE  WritesQuietly(t)
  BY <1>5 DEF UpdateProgress, Progressed, AcceptsProgress
<1>6. CASE WorkReturns(t)
  <2>1. Publishes(t, "completed")
    BY <1>6 DEF WorkReturns, EmitCompleted
  <2>2. QED BY <2>1
<1>7. CASE WorkRaises(t)
  <2>1. EmitFailed(t) /\ UNCHANGED calls /\ runner[t] = "working"
    BY <1>7 DEF WorkRaises
  <2>2. QED BY <2>1, EmitFailedPublishes
<1>8. CASE StrayProgress(t)
  BY <1>8 DEF StrayProgress, Progressed, AcceptsProgress
<1>9. CASE SubprocessStep(t)
  <2>1. CASE RunSubprocess(t)
    BY <2>1 DEF RunSubprocess, Started
  <2>2. CASE Spawn(t) \/ EndOfOutput(t) \/ KilledProcessReaped(t)
    BY <2>2 DEF Spawn, EndOfOutput, KilledProcessReaped
  <2>3. CASE ReadLine(t)
    <3>1. Publishes(t, "stage_progress")
      BY <2>3 DEF ReadLine, Progressed, AcceptsProgress
    <3>2. QED BY <3>1
  <2>4. CASE Stall(t) \/ LessonExtracted(t)
    <3>1. EmitFailed(t) /\ UNCHANGED calls /\ runner[t] \in {"reading", "washing"}
      BY <2>4 DEF Stall, LessonExtracted
    <3>2. QED BY <3>1, EmitFailedPublishes
  <2>5. CASE ExitedZero(t)
    <3>1. Publishes(t, "completed")
      BY <2>5 DEF ExitedZero, EmitCompleted
    <3>2. QED BY <3>1
  <2>6. CASE ExitedNonZero(t)
    <3>1. CASE runner'[t] = "washing"
      BY <2>6, <3>1 DEF ExitedNonZero
    <3>2. CASE runner'[t] # "washing"
      <4>1. EmitFailed(t) /\ UNCHANGED calls /\ runner[t] = "reaping"
        BY <2>6, <3>2 DEF ExitedNonZero
      <4>2. QED BY <4>1, EmitFailedPublishes
    <3>3. QED BY <3>1, <3>2
  <2>7. QED BY <1>9, <2>1, <2>2, <2>3, <2>4, <2>5, <2>6 DEF SubprocessStep
<1>10. QED
  BY <1>1, <1>2, <1>3, <1>4, <1>5, <1>6, <1>7, <1>8, <1>9 DEF TaskStep, CoroutineStep

-----------------------------------------------------------------------------
(* Each part of the invariant is preserved *)

LEMMA InitIInv == Init => IInv
<1> SUFFICES ASSUME Init PROVE IInv
  OBVIOUS
<1> USE DEF Init, NoFile, Terminal, Ended
<1>1. TypeOK
  <2>1. \A s \in Subscribers : queue[s] = <<>> /\ <<>> \in Seq(Event) /\ Len(queue[s]) = 0
    OBVIOUS
  <2>2. queue \in [Subscribers -> Seq(Event)]
    BY <2>1
  <2>3. \A s \in Subscribers : Len(queue[s]) <= QueueCap
    BY <2>1
  <2>4. disk \in [Tasks -> Record] /\ runner \in [Tasks -> RunnerState]
    BY DEF Record, Status, Progress, Zero, Full, RunnerState
  <2>5. QED BY <2>2, <2>3, <2>4 DEF TypeOK
<1>2. DriverInv
  BY DEF DriverInv
<1>3. NewsIsTrue
  BY DEF NewsIsTrue
<1>4. WaitersSubscribed /\ WaiterHasAnswer /\ AnswerIsTrue
  BY DEF WaitersSubscribed, WaiterHasAnswer, AnswerIsTrue
<1>5. QED BY <1>1, <1>2, <1>3, <1>4 DEF IInv

LEMMA EmitType ==
  ASSUME TypeOK, NEW t \in Tasks
  PROVE  /\ \A r \in BOOLEAN :
              EmitCompleted(t, r) => disk' \in [Tasks -> Record] /\ BusType'
         /\ EmitFailed(t) => disk' \in [Tasks -> Record] /\ BusType'
         /\ EmitCancelled(t) => disk' \in [Tasks -> Record] /\ BusType'
<1> USE TypeParts, BroadcastType DEF Save, EventKind, Terminal, Record, Status
<1>1. ASSUME NEW r \in BOOLEAN, EmitCompleted(t, r)
      PROVE  disk' \in [Tasks -> Record] /\ BusType'
  BY <1>1 DEF EmitCompleted, Progress, Zero, Full
<1>2. ASSUME EmitFailed(t)
      PROVE  disk' \in [Tasks -> Record] /\ BusType'
  <2>1. [disk[t] EXCEPT !.status = "failed", !.message = FALSE,
                        !.error = TRUE, !.result = FALSE] \in Record
    OBVIOUS
  <2>2. QED BY <1>2, <2>1 DEF EmitFailed
<1>3. ASSUME EmitCancelled(t)
      PROVE  disk' \in [Tasks -> Record] /\ BusType'
  <2>1. [disk[t] EXCEPT !.status = "cancelled", !.message = FALSE, !.error = TRUE] \in Record
    OBVIOUS
  <2>2. QED BY <1>3, <2>1 DEF EmitCancelled
<1>4. QED BY <1>1, <1>2, <1>3

LEMMA TaskStepType ==
  ASSUME TypeOK, NEW t \in Tasks, TaskStep(t)
  PROVE  TypeOK'
<1> SUFFICES /\ disk' \in [Tasks -> Record]
             /\ runner' \in [Tasks -> RunnerState]
             /\ BusType'
             /\ CallsType'
  BY DEF TypeOK, BusType, CallsType
<1> DEFINE Typed == /\ disk' \in [Tasks -> Record]
                    /\ runner' \in [Tasks -> RunnerState]
                    /\ BusType'
                    /\ CallsType'
<1> USE TypeParts DEF Advance, RunnerState
<1>a. ASSUME UNCHANGED calls PROVE CallsType'
  BY <1>a DEF calls, CallsType
<1>b. ASSUME UNCHANGED bus PROVE BusType'
  BY <1>b DEF bus, BusType
<1>c. /\ Started(t) \in Record
      /\ \A p \in Progress : Progressed(t, p) \in Record
      /\ 1 \in Progress
  <2>1. Zero \in Progress /\ 1 \in Progress
    BY DEF Progress, Zero, Full
  <2>2. disk[t] \in Record
    OBVIOUS
  <2>3. [disk[t] EXCEPT !.status = "running", !.progress = Zero, !.message = TRUE] \in Record
    BY <2>1, <2>2 DEF Record, Status
  <2>4. ASSUME NEW p \in Progress PROVE Progressed(t, p) \in Record
    BY <2>2 DEF Progressed, Record
  <2>5. QED BY <2>1, <2>3, <2>4 DEF Started
<1>1. CASE CreateTask(t)
  <2>1. NewTask \in Record
    BY DEF NewTask, Record, Status, Progress, Zero, Full
  <2>2. BusType'
    BY <1>1, BroadcastType DEF CreateTask, EventKind
  <2>3. QED BY <1>a, <1>1, <2>1, <2>2 DEF CreateTask, Save
<1>2. CASE CancelTask(t)
  BY <1>a, <1>2, EmitType DEF CancelTask, calls
<1>3. CASE RunTask(t)
  BY <1>a, <1>b, <1>c, <1>3 DEF RunTask, Save, bus, calls
<1>4. ASSUME NEW p \in Progress, StartStage(t, p) PROVE Typed
  <2>1. BusType'
    BY <1>4, BroadcastType DEF StartStage, EventKind
  <2>2. [disk[t] EXCEPT !.status = IF @ = "pending" THEN "running" ELSE @,
                        !.progress = p, !.message = TRUE] \in Record
    BY DEF Record, Status
  <2>3. QED BY <1>a, <1>4, <2>1, <2>2 DEF StartStage, Save, calls
<1>5. ASSUME NEW p \in Progress, UpdateProgress(t, p) PROVE Typed
  BY <1>a, <1>b, <1>c, <1>5 DEF UpdateProgress, Save, bus, calls
<1>6. CASE WorkReturns(t)
  BY <1>a, <1>6, EmitType DEF WorkReturns, calls
<1>7. CASE WorkRaises(t)
  BY <1>a, <1>7, EmitType DEF WorkRaises, calls
<1>8. CASE StrayProgress(t)
  BY <1>a, <1>b, <1>c, <1>8 DEF StrayProgress, Save, bus, calls
<1>9. CASE RunSubprocess(t)
  BY <1>a, <1>b, <1>c, <1>9 DEF RunSubprocess, Save, bus, calls
<1>10. CASE Spawn(t) \/ EndOfOutput(t) \/ KilledProcessReaped(t)
  BY <1>a, <1>b, <1>10 DEF Spawn, EndOfOutput, KilledProcessReaped, bus, calls
<1>11. CASE ReadLine(t)
  <2>1. BusType'
    BY <1>11, BroadcastType DEF ReadLine, EventKind
  <2>2. Zero \in Progress
    BY DEF Progress, Zero, Full
  <2>3. QED BY <1>a, <1>c, <1>11, <2>1, <2>2 DEF ReadLine, Save, calls
<1>12. CASE Stall(t) \/ LessonExtracted(t)
  BY <1>a, <1>12, EmitType DEF Stall, LessonExtracted, calls
<1>13. CASE ExitedZero(t)
  BY <1>a, <1>13, EmitType DEF ExitedZero, calls
<1>14. CASE ExitedNonZero(t)
  BY <1>a, <1>b, <1>14, EmitType DEF ExitedNonZero, bus, calls
<1>15. QED
  BY <1>1, <1>2, <1>3, <1>4, <1>5, <1>6, <1>7, <1>8, <1>9, <1>10, <1>11, <1>12, <1>13, <1>14
     DEF TaskStep, CoroutineStep, SubprocessStep

LEMMA TaskStepDriver ==
  ASSUME TypeOK, DriverInv, NEW t \in Tasks, TaskStep(t)
  PROVE  DriverInv'
<1> USE DEF TypeOK, Ended, Terminal
<1>1. /\ \A u \in Tasks : u # t => disk'[u] = disk[u] /\ runner'[u] = runner[u]
      /\ runner' \in [Tasks -> RunnerState]
  <2>1. \A u \in Tasks : u # t => disk'[u] = disk[u]
    BY TaskStepKind DEF Publishes, WritesQuietly
  <2>2. \A u \in Tasks : u # t => runner'[u] = runner[u]
    BY DEF TaskStep, CreateTask, CancelTask, CoroutineStep, RunTask, StartStage, UpdateProgress,
           WorkReturns, WorkRaises, StrayProgress, SubprocessStep, RunSubprocess, Spawn,
           ReadLine, Stall, EndOfOutput, KilledProcessReaped, ExitedZero, ExitedNonZero,
           LessonExtracted, Advance
  <2>3. QED BY <2>1, <2>2, TaskStepType
<1>2. SUFFICES /\ runner'[t] = "none" <=> disk'[t].status = "absent"
               /\ disk'[t].status \in Ended => runner'[t] \in {"done", "stray", "killed", "lost"}
               /\ runner'[t] \in {"done", "stray", "killed"} => disk'[t].status \in Ended
  BY <1>1 DEF DriverInv
<1> DEFINE Linked == /\ runner'[t] = "none" <=> disk'[t].status = "absent"
                     /\ disk'[t].status \in Ended =>
                          runner'[t] \in {"done", "stray", "killed", "lost"}
                     /\ runner'[t] \in {"done", "stray", "killed"} => disk'[t].status \in Ended
<1> USE DEF DriverInv, Record, Save, Advance
<1>3. /\ EmitFailed(t) => disk'[t].status = "failed"
      /\ \A r : EmitCompleted(t, r) => disk'[t].status = "completed"
      /\ EmitCancelled(t) => disk'[t].status = "cancelled"
      /\ Started(t).status = "running"
      /\ \A p : Progressed(t, p).status = disk[t].status
  <2>1. disk[t] \in Record
    OBVIOUS
  <2>2. EmitFailed(t) => disk'[t].status = "failed"
    BY <2>1 DEF EmitFailed
  <2>3. \A r : EmitCompleted(t, r) => disk'[t].status = "completed"
    BY <2>1 DEF EmitCompleted
  <2>4. EmitCancelled(t) => disk'[t].status = "cancelled"
    BY <2>1 DEF EmitCancelled
  <2>5. Started(t).status = "running"
    BY <2>1 DEF Started
  <2>6. \A p : Progressed(t, p).status = disk[t].status
    BY <2>1 DEF Progressed
  <2>7. QED BY <2>2, <2>3, <2>4, <2>5, <2>6
<1>4. CASE CreateTask(t)
  BY <1>4 DEF CreateTask, NewTask, Exists
<1>5. CASE CancelTask(t)
  BY <1>3, <1>5 DEF CancelTask, MayCancel, Exists
<1>6. CASE RunTask(t)
  BY <1>3, <1>6 DEF RunTask
<1>7. ASSUME NEW p \in Progress, StartStage(t, p) PROVE Linked
  BY <1>7 DEF StartStage
<1>8. ASSUME NEW p \in Progress, UpdateProgress(t, p) PROVE Linked
  BY <1>3, <1>8 DEF UpdateProgress
<1>9. CASE WorkReturns(t)
  BY <1>3, <1>9 DEF WorkReturns
<1>10. CASE WorkRaises(t)
  BY <1>3, <1>10 DEF WorkRaises
<1>11. CASE StrayProgress(t)
  BY <1>3, <1>11 DEF StrayProgress
<1>12. CASE RunSubprocess(t)
  BY <1>3, <1>12 DEF RunSubprocess
<1>13. CASE Spawn(t) \/ EndOfOutput(t) \/ KilledProcessReaped(t)
  BY <1>13 DEF Spawn, EndOfOutput, KilledProcessReaped
<1>14. CASE ReadLine(t)
  BY <1>3, <1>14 DEF ReadLine
<1>15. CASE Stall(t) \/ LessonExtracted(t)
  BY <1>3, <1>15 DEF Stall, LessonExtracted
<1>16. CASE ExitedZero(t)
  BY <1>3, <1>16 DEF ExitedZero
<1>17. CASE ExitedNonZero(t)
  BY <1>3, <1>17 DEF ExitedNonZero
<1>18. QED
  BY <1>4, <1>5, <1>6, <1>7, <1>8, <1>9, <1>10, <1>11, <1>12, <1>13, <1>14, <1>15, <1>16, <1>17
     DEF TaskStep, CoroutineStep, SubprocessStep

(* What only depends on the kind of the step. *)
LEMMA TaskStepBus ==
  ASSUME IInv, NEW t \in Tasks, TaskStep(t)
  PROVE  NewsIsTrue' /\ WaitersSubscribed' /\ WaiterHasAnswer' /\ AnswerIsTrue'
<1> USE DEF IInv, Ended, Terminal
<1>a. BusType /\ disk \in [Tasks -> Record]
  BY TypeParts
<1>b. \A u \in Tasks : disk[u].status \in Ended => disk'[u].status = disk[u].status
  BY TaskStepKind DEF Publishes, WritesQuietly
<1>c. UNCHANGED calls
  BY TaskStepKind DEF Publishes, WritesQuietly
<1>d. \A a \in Awaiters : a \in Subscribers /\ target[a] \in Tasks
  BY DEF TypeOK, Subscribers
<1>1. AnswerIsTrue'
  BY <1>b, <1>c, <1>d DEF AnswerIsTrue, calls
<1>2. ASSUME NEW k \in EventKind, Publishes(t, k)
      PROVE  NewsIsTrue' /\ WaitersSubscribed' /\ WaiterHasAnswer'
  <2>1. Broadcast(k, t)
    BY <1>2 DEF Publishes
  <2>2. NewsIsTrue'
    <3> SUFFICES ASSUME NEW s \in Subscribers, NEW i \in 1..Len(queue'[s]),
                        queue'[s][i].kind \in Ended
                 PROVE  disk'[queue'[s][i].task].status = queue'[s][i].kind
      BY DEF NewsIsTrue
    <3>1. CASE i \in 1..Len(queue[s]) /\ queue'[s][i] = queue[s][i]
      <4>1. queue[s][i] \in Event
        BY <1>a, <3>1 DEF BusType
      <4>2. QED BY <1>b, <3>1, <4>1 DEF NewsIsTrue, Event
    <3>2. CASE queue'[s][i] = [kind |-> k, task |-> t]
      BY <1>2, <3>2 DEF Publishes
    <3>3. QED BY <1>a, <2>1, <3>1, <3>2, BroadcastQueue
  <2>3. WaitersSubscribed'
    BY <1>a, <1>c, <1>d, <2>1, BroadcastMissed DEF WaitersSubscribed, calls
  <2>4. WaiterHasAnswer'
    <3> SUFFICES ASSUME NEW a \in Awaiters, pc[a] = "waiting",
                        disk'[target[a]].status \in Terminal
                 PROVE  \/ \E i \in 1..Len(queue'[a]) :
                             /\ queue'[a][i].kind \in Terminal
                             /\ queue'[a][i].task = target[a]
                        \/ target[a] \in missed'[a]
      BY <1>c DEF WaiterHasAnswer, calls, Answers
    <3>1. CASE target[a] = t /\ k \in Terminal
      <4>1. a \in subs
        BY DEF WaitersSubscribed
      <4>2. \/ \E i \in 1..Len(queue'[a]) : queue'[a][i] = [kind |-> k, task |-> t]
            \/ t \in missed'[a]
        BY <1>a, <1>d, <2>1, <3>1, <4>1, BroadcastReaches
      <4>3. QED BY <3>1, <4>2
    <3>2. CASE ~(target[a] = t /\ k \in Terminal)
      <4>1. disk[target[a]].status \in Terminal
        BY <1>2, <1>d, <3>2 DEF Publishes
      <4>2. CASE target[a] \in missed[a]
        BY <1>a, <1>d, <2>1, <4>2, BroadcastMissed
      <4>3. CASE \E i \in 1..Len(queue[a]) : Answers(a, queue[a][i])
        <5>1. PICK i \in 1..Len(queue[a]) : Answers(a, queue[a][i])
          BY <4>3
        <5>2. i \in 1..Len(queue'[a]) /\ queue'[a][i] = queue[a][i]
          BY <1>a, <1>d, <2>1, BroadcastQueue
        <5>3. QED BY <5>1, <5>2 DEF Answers
      <4>4. QED BY <4>1, <4>2, <4>3 DEF WaiterHasAnswer
    <3>3. QED BY <3>1, <3>2
  <2>5. QED BY <2>2, <2>3, <2>4
<1>3. CASE WritesQuietly(t)
  <2>1. UNCHANGED <<subs, queue, missed, pc, target, answer>>
    BY <1>3 DEF WritesQuietly, bus, calls
  <2>2. ASSUME NEW s \in Subscribers, NEW i \in 1..Len(queue[s])
        PROVE  queue[s][i].task \in Tasks
    <3>1. queue[s] \in Seq(Event)
      BY <1>a DEF BusType
    <3>2. queue[s][i] \in Event
      BY <3>1
    <3>3. QED BY <3>2 DEF Event
  <2>3. NewsIsTrue'
    BY <1>b, <2>1, <2>2 DEF NewsIsTrue
  <2>4. WaitersSubscribed'
    BY <2>1 DEF WaitersSubscribed
  <2>5. \A u \in Tasks : disk'[u].status \in Terminal => disk[u].status \in Terminal
    BY <1>3 DEF WritesQuietly
  <2>6. WaiterHasAnswer'
    BY <1>d, <2>1, <2>5 DEF WaiterHasAnswer, Answers
  <2>7. QED BY <1>1, <2>3, <2>4, <2>6
<1>4. DriverInv /\ TypeOK
  OBVIOUS
<1>5. QED BY <1>1, <1>2, <1>3, <1>4, TaskStepKind

(* A subscriber other than the one that acts keeps its queue; the acting one's *)
(* is emptied, or loses its head.                                              *)
Shrinks(s) ==
  /\ queue' = [queue EXCEPT ![s] = <<>>] \/ (queue[s] # <<>> /\ queue' = [queue EXCEPT ![s] = Tail(@)])
  /\ UNCHANGED disk

LEMMA ShrinkKeepsNews ==
  ASSUME BusType, NewsIsTrue, NEW s \in Subscribers, Shrinks(s)
  PROVE  /\ NewsIsTrue'
         /\ queue' \in [Subscribers -> Seq(Event)]
         /\ \A r \in Subscribers : Len(queue'[r]) <= QueueCap
<1>1. queue[s] \in Seq(Event) /\ <<>> \in Seq(Event)
  BY DEF BusType
<1>2. queue[s] # <<>> =>
        /\ Tail(queue[s]) \in Seq(Event)
        /\ Len(Tail(queue[s])) = Len(queue[s]) - 1
        /\ \A i \in 1..Len(Tail(queue[s])) :
             i + 1 \in 1..Len(queue[s]) /\ Tail(queue[s])[i] = queue[s][i + 1]
  BY <1>1
<1>3. queue' \in [Subscribers -> Seq(Event)]
  BY <1>1, <1>2 DEF Shrinks, BusType
<1>4. ASSUME NEW r \in Subscribers PROVE Len(queue'[r]) <= QueueCap
  BY <1>1, <1>2 DEF Shrinks, BusType
<1>5. ASSUME NEW r \in Subscribers, NEW i \in 1..Len(queue'[r])
      PROVE  \E j \in 1..Len(queue[r]) : queue'[r][i] = queue[r][j]
  <2>1. CASE r # s
    BY <2>1 DEF Shrinks, BusType
  <2>2. CASE r = s /\ queue'[s] = <<>>
    BY <2>2
  <2>3. CASE r = s /\ queue[s] # <<>> /\ queue'[s] = Tail(queue[s])
    BY <1>2, <2>3
  <2>4. QED BY <2>1, <2>2, <2>3 DEF Shrinks, BusType
<1>6. NewsIsTrue'
  BY <1>5 DEF NewsIsTrue, Shrinks
<1>7. QED BY <1>3, <1>4, <1>6

LEMMA StreamStepInv ==
  ASSUME IInv, NEW s \in Streams, StreamStep(s)
  PROVE  IInv'
<1> USE DEF IInv
<1>a. BusType /\ CallsType /\ s \in Subscribers
  BY TypeParts DEF Subscribers
<1>1. Shrinks(s) /\ UNCHANGED <<disk, runner, pc, target, answer>>
  BY DEF StreamStep, StreamOpen, StreamSend, StreamClose, Subscribe, Unsubscribe, Shrinks, calls
<1>2. /\ subs' \subseteq Subscribers
      /\ missed' \in [Subscribers -> SUBSET Tasks]
      /\ \A a \in Awaiters : a # s /\ (a \in subs' <=> a \in subs)
      /\ \A a \in Awaiters : missed'[a] = missed[a] /\ queue'[a] = queue[a]
  BY <1>a DEF StreamStep, StreamOpen, StreamSend, StreamClose, Subscribe, Unsubscribe, BusType,
              Subscribers
<1>3. NewsIsTrue' /\ BusType'
  BY <1>a, <1>1, <1>2, ShrinkKeepsNews DEF BusType
<1>4. TypeOK'
  BY <1>1, <1>3 DEF TypeOK, BusType
<1>5. DriverInv' /\ AnswerIsTrue'
  BY <1>1 DEF DriverInv, AnswerIsTrue
<1>6. WaitersSubscribed' /\ WaiterHasAnswer'
  BY <1>1, <1>2 DEF WaitersSubscribed, WaiterHasAnswer, Answers
<1>7. QED BY <1>3, <1>4, <1>5, <1>6

LEMMA AwaiterStepInv ==
  ASSUME IInv, NEW a \in Awaiters, AwaiterStep(a)
  PROVE  IInv'
<1> USE DEF IInv
<1>a. BusType /\ CallsType /\ a \in Subscribers
  BY TypeParts DEF Subscribers
<1>b. UNCHANGED <<disk, runner>>
  BY DEF AwaiterStep, AwaitBegin, AwaitGet, AwaitTimeout, AwaitCancelled
<1>c. DriverInv'
  BY <1>b DEF DriverInv
<1>d. \A b \in Awaiters : b \in Subscribers
  BY DEF Subscribers
<1>1. ASSUME NEW t \in Tasks, AwaitBegin(a, t) PROVE IInv'
  <2>1. CASE AlreadyOver(t)
    <3>1. /\ UNCHANGED <<subs, queue, missed>>
          /\ target' = [target EXCEPT ![a] = t]
          /\ pc' = [pc EXCEPT ![a] = "returned"]
          /\ answer' = [answer EXCEPT ![a] = disk[t].status]
          /\ pc[a] = "idle"
      BY <1>1, <2>1 DEF AwaitBegin, bus
    <3>2. TypeOK'
      BY <1>b, <2>1, <3>1 DEF TypeOK, AlreadyOver
    <3>3. NewsIsTrue' /\ WaitersSubscribed' /\ WaiterHasAnswer' /\ AnswerIsTrue'
      BY <1>a, <1>b, <3>1
         DEF NewsIsTrue, WaitersSubscribed, WaiterHasAnswer, AnswerIsTrue, Answers, CallsType
    <3>4. QED BY <1>c, <3>2, <3>3
  <2>2. CASE ~AlreadyOver(t)
    <3>1. /\ Subscribe(a)
          /\ target' = [target EXCEPT ![a] = t]
          /\ pc' = [pc EXCEPT ![a] = "waiting"]
          /\ UNCHANGED answer
      BY <1>1, <2>2 DEF AwaitBegin
    <3>2. NewsIsTrue' /\ BusType'
      <4>1. Shrinks(a)
        BY <1>b, <3>1 DEF Shrinks, Subscribe
      <4>2. subs' \subseteq Subscribers /\ missed' \in [Subscribers -> SUBSET Tasks]
        BY <1>a, <3>1 DEF Subscribe, BusType
      <4>3. QED BY <1>a, <4>1, <4>2, ShrinkKeepsNews DEF BusType
    <3>3. TypeOK'
      BY <1>b, <3>1, <3>2 DEF TypeOK, BusType
    <3>4. WaitersSubscribed' /\ AnswerIsTrue'
      BY <1>a, <1>b, <3>1 DEF WaitersSubscribed, AnswerIsTrue, Subscribe, CallsType
    <3>5. ASSUME NEW b \in Awaiters, pc'[b] = "waiting",
                 disk'[target'[b]].status \in Terminal
          PROVE  /\ b # a
                 /\ queue'[b] = queue[b] /\ missed'[b] = missed[b] /\ target'[b] = target[b]
                 /\ pc[b] = "waiting" /\ disk[target[b]].status \in Terminal
      BY <1>a, <1>b, <1>d, <2>2, <3>1, <3>5 DEF AlreadyOver, Subscribe, CallsType, BusType
    <3>6. WaiterHasAnswer'
      BY <3>5 DEF WaiterHasAnswer, Answers
    <3>7. QED BY <1>c, <3>2, <3>3, <3>4, <3>6
  <2>3. QED BY <2>1, <2>2
<1>2. ASSUME pc[a] = "waiting", Unsubscribe(a), UNCHANGED target,
             NEW p \in {"returned", "timeout", "cancelled"}, pc' = [pc EXCEPT ![a] = p],
             NEW o \in {"none"} \cup Terminal, answer' = [answer EXCEPT ![a] = o],
             p = "returned" /\ o \in Ended => disk[target[a]].status = o
      PROVE  IInv'
  <2>1. NewsIsTrue' /\ BusType'
    <3>1. Shrinks(a)
      BY <1>b, <1>2 DEF Shrinks, Unsubscribe
    <3>2. subs' \subseteq Subscribers /\ missed' \in [Subscribers -> SUBSET Tasks]
      BY <1>a, <1>2 DEF Unsubscribe, BusType
    <3>3. QED BY <1>a, <3>1, <3>2, ShrinkKeepsNews DEF BusType
  <2>2. TypeOK'
    BY <1>b, <1>2, <2>1 DEF TypeOK, BusType
  <2>3. WaitersSubscribed'
    BY <1>a, <1>2 DEF WaitersSubscribed, Unsubscribe, CallsType
  <2>4. AnswerIsTrue'
    BY <1>a, <1>b, <1>2 DEF AnswerIsTrue, CallsType
  <2>5. ASSUME NEW b \in Awaiters, pc'[b] = "waiting"
        PROVE  b # a /\ queue'[b] = queue[b] /\ missed'[b] = missed[b] /\ pc[b] = "waiting"
    BY <1>a, <1>d, <1>2, <2>5 DEF Unsubscribe, CallsType, BusType
  <2>6. WaiterHasAnswer'
    BY <1>b, <1>2, <2>5 DEF WaiterHasAnswer, Answers
  <2>7. QED BY <1>c, <2>1, <2>2, <2>3, <2>4, <2>6
<1>3. CASE AwaitGet(a)
  <2> DEFINE ev == Head(queue[a])
  <2>1. /\ pc[a] = "waiting" /\ queue[a] # <<>> /\ UNCHANGED target
        /\ queue[a] \in Seq(Event) /\ 1 \in 1..Len(queue[a]) /\ ev = queue[a][1]
    BY <1>a, <1>3 DEF AwaitGet, BusType
  <2>2. CASE Answers(a, ev)
    <3>1. ev.kind \in Ended => disk[target[a]].status = ev.kind
      BY <1>a, <2>1, <2>2 DEF NewsIsTrue, Answers
    <3>2. /\ pc' = [pc EXCEPT ![a] = "returned"]
          /\ answer' = [answer EXCEPT ![a] = ev.kind]
          /\ Unsubscribe(a)
      BY <1>3, <2>2 DEF AwaitGet
    <3>3. QED BY <1>2, <2>1, <2>2, <3>1, <3>2 DEF Answers
  <2>3. CASE ~Answers(a, ev)
    <3>1. queue' = [queue EXCEPT ![a] = Tail(queue[a])]
          /\ UNCHANGED <<subs, missed, pc, answer, target>>
      BY <1>3, <2>3 DEF AwaitGet
    <3>2. NewsIsTrue' /\ BusType'
      <4>1. Shrinks(a)
        BY <1>b, <2>1, <3>1 DEF Shrinks
      <4>2. QED BY <1>a, <3>1, <4>1, ShrinkKeepsNews DEF BusType
    <3>3. TypeOK'
      BY <1>b, <3>1, <3>2 DEF TypeOK, BusType
    <3>4. WaitersSubscribed' /\ AnswerIsTrue'
      BY <1>b, <3>1 DEF WaitersSubscribed, AnswerIsTrue
    <3>5. ASSUME NEW b \in Awaiters, NEW i \in 1..Len(queue[b]), Answers(b, queue[b][i])
          PROVE  \E j \in 1..Len(queue'[b]) : queue'[b][j] = queue[b][i]
      <4>1. CASE b # a
        BY <1>a, <1>d, <3>1, <4>1 DEF BusType
      <4>2. CASE b = a
        <5>1. i # 1
          BY <2>1, <2>3, <3>5, <4>2
        <5>2. queue'[a] = Tail(queue[a])
          BY <1>a, <3>1 DEF BusType
        <5>3. i - 1 \in 1..Len(Tail(queue[a])) /\ Tail(queue[a])[i - 1] = queue[a][i]
          BY <2>1, <4>2, <5>1
        <5>4. QED BY <4>2, <5>2, <5>3
      <4>3. QED BY <4>1, <4>2
    <3>6. WaiterHasAnswer'
      <4> SUFFICES ASSUME NEW b \in Awaiters, pc[b] = "waiting",
                          disk[target[b]].status \in Terminal, target[b] \notin missed[b]
                   PROVE  \E i \in 1..Len(queue'[b]) :
                            queue'[b][i].kind \in Terminal /\ queue'[b][i].task = target[b]
        BY <1>b, <3>1 DEF WaiterHasAnswer, Answers
      <4>1. PICK i \in 1..Len(queue[b]) : Answers(b, queue[b][i])
        BY DEF WaiterHasAnswer
      <4>2. QED BY <3>5, <4>1 DEF Answers
    <3>7. QED BY <1>c, <3>2, <3>3, <3>4, <3>6
  <2>4. QED BY <2>2, <2>3
<1>4. CASE AwaitTimeout(a) \/ AwaitCancelled(a)
  <2>1. /\ pc[a] = "waiting" /\ Unsubscribe(a) /\ UNCHANGED <<target, answer>>
        /\ \E p \in {"timeout", "cancelled"} : pc' = [pc EXCEPT ![a] = p]
    BY <1>4 DEF AwaitTimeout, AwaitCancelled
  <2>2. answer[a] \in {"none"} \cup Terminal /\ answer' = [answer EXCEPT ![a] = answer[a]]
    BY <1>a, <2>1 DEF CallsType
  <2>3. QED BY <1>2, <2>1, <2>2
<1>5. QED BY <1>1, <1>3, <1>4 DEF AwaiterStep

LEMMA RestartInv ==
  ASSUME IInv, Restart
  PROVE  IInv'
<1> USE DEF IInv, Restart
<1>1. DriverInv'
  BY DEF DriverInv, Volatile, RunnerState, TypeOK
<1>2. \A s \in Subscribers : queue'[s] = <<>> /\ <<>> \in Seq(Event) /\ Len(queue'[s]) = 0
  OBVIOUS
<1>3. queue' \in [Subscribers -> Seq(Event)]
  BY <1>2
<1>4. TypeOK'
  BY <1>2, <1>3 DEF TypeOK, RunnerState
<1>5. NewsIsTrue'
  BY <1>2 DEF NewsIsTrue
<1>6. WaitersSubscribed' /\ WaiterHasAnswer'
  BY DEF WaitersSubscribed, WaiterHasAnswer, TypeOK
<1>7. AnswerIsTrue'
  BY DEF AnswerIsTrue, TypeOK
<1>8. QED BY <1>1, <1>4, <1>5, <1>6, <1>7

LEMMA NextIInv == IInv /\ [Next]_vars => IInv'
<1> SUFFICES ASSUME IInv, [Next]_vars PROVE IInv'
  OBVIOUS
<1>1. CASE UNCHANGED vars
  BY <1>1 DEF vars, IInv, TypeOK, DriverInv, NewsIsTrue, WaitersSubscribed, WaiterHasAnswer,
              AnswerIsTrue, Answers
<1>2. ASSUME NEW t \in Tasks, TaskStep(t) PROVE IInv'
  BY <1>2, TaskStepType, TaskStepDriver, TaskStepBus DEF IInv
<1>3. QED
  BY <1>1, <1>2, AwaiterStepInv, StreamStepInv, RestartInv DEF Next, TaskStep

-----------------------------------------------------------------------------
(* The theorems *)

\* The invariant on which everything below rests holds in every reachable state.
THEOREM Invariance == Spec => []IInv
<1>1. QED BY InitIInv, NextIInv, PTL DEF Spec

\* Files, queues and calls keep their types; no queue outgrows its capacity.
THEOREM TypeCorrect == Spec => []TypeOK
<1>1. IInv => TypeOK
  BY DEF IInv
<1>2. QED BY <1>1, Invariance, PTL

\* No lost wake-up in await_completion, for any number of concurrent calls, tasks
\* and cancellations (task_service.py:327-351).
THEOREM NoLostWakeup == Spec => []WaiterHasAnswer
<1>1. IInv => WaiterHasAnswer
  BY DEF IInv
<1>2. QED BY <1>1, Invariance, PTL

\* await_completion leaves no subscription behind on any of its exits.
THEOREM NoSubscriptionLeak == Spec => []WaitersSubscribed
<1>1. IInv => WaitersSubscribed
  BY DEF IInv
<1>2. QED BY <1>1, Invariance, PTL

\* What a turn was told about a finished task is what the file says from then on.
THEOREM AnswersAreTrue == Spec => []AnswerIsTrue
<1>1. IInv => AnswerIsTrue
  BY DEF IInv
<1>2. QED BY <1>1, Invariance, PTL

\* A completed or failed record is never written again.
THEOREM OutcomeIsFinal == Spec => FinishedIsFinal
<1>1. ASSUME IInv, [Next]_vars, NEW t \in Tasks, disk[t].status \in Ended
      PROVE  disk'[t] = disk[t]
  <2>1. ASSUME NEW u \in Tasks, TaskStep(u) PROVE disk'[t] = disk[t]
    BY <1>1, <2>1, TaskStepKind DEF IInv, Publishes, WritesQuietly
  <2>2. CASE ~(\E u \in Tasks : TaskStep(u))
    <3>1. UNCHANGED disk
      BY <1>1, <2>2 DEF TaskStep, Next, vars, AwaiterStep, AwaitBegin, AwaitGet, AwaitTimeout,
                        AwaitCancelled, StreamStep, StreamOpen, StreamSend, StreamClose, Restart
    <3>2. QED BY <3>1
  <2>3. QED BY <2>1, <2>2
<1>2. IInv /\ [Next]_vars => [\A t \in Tasks : disk[t].status \in Ended => disk'[t] = disk[t]]_disk
  BY <1>1
<1>3. QED BY <1>2, Invariance, PTL DEF Spec, FinishedIsFinal

\* A driver that ran to its end has left an outcome in the file.
THEOREM DriversReport == Spec => []DriverReports
<1>1. IInv => DriverReports
  BY DEF IInv, DriverInv, DriverReports
<1>2. QED BY <1>1, Invariance, PTL

-----------------------------------------------------------------------------
(* One outcome per record *)

\* What OneOutcome says of one record.
Whole(rec) ==
  /\ rec.status = "completed" => rec.progress = Full /\ ~rec.error /\ ~rec.message
  /\ rec.status = "failed" => rec.error /\ ~rec.result /\ ~rec.message

LEMMA WholeParts == OneOutcome <=> \A t \in Tasks : Whole(disk[t])
BY DEF OneOutcome, Whole

\* A step that leaves an unfinished record finishes it with its own fields only.
LEMMA TaskStepWhole ==
  ASSUME TypeOK, DriverInv, NEW t \in Tasks, TaskStep(t), disk[t].status \notin Ended
  PROVE  Whole(disk'[t])
<1> USE DEF TypeOK, Save, Record, Whole, Ended
<1>1. CASE CreateTask(t)
  BY <1>1 DEF CreateTask, NewTask
<1>2. CASE CancelTask(t)
  BY <1>2 DEF CancelTask, EmitCancelled
<1>3. CASE RunTask(t)
  BY <1>3 DEF RunTask, Started
<1>4. ASSUME NEW p \in Progress, StartStage(t, p) \/ UpdateProgress(t, p)
      PROVE  Whole(disk'[t])
  <2>1. disk'[t].status \in {disk[t].status, "running"}
    <3>1. CASE StartStage(t, p)
      BY <3>1 DEF StartStage
    <3>2. CASE UpdateProgress(t, p)
      BY <3>2 DEF UpdateProgress, Progressed, AcceptsProgress
    <3>3. QED BY <1>4, <3>1, <3>2
  <2>2. QED BY <2>1
<1>5. CASE WorkReturns(t)
  BY <1>5 DEF WorkReturns, EmitCompleted
<1>6. ASSUME EmitFailed(t) PROVE Whole(disk'[t])
  BY <1>6 DEF EmitFailed
<1>7. CASE WorkRaises(t)
  BY <1>6, <1>7 DEF WorkRaises
<1>8. CASE StrayProgress(t)
  BY <1>8 DEF StrayProgress, Progressed, AcceptsProgress
<1>9. CASE SubprocessStep(t)
  <2>1. CASE RunSubprocess(t)
    BY <2>1 DEF RunSubprocess, Started
  <2>2. CASE Spawn(t) \/ EndOfOutput(t) \/ KilledProcessReaped(t)
    BY <2>2 DEF Spawn, EndOfOutput, KilledProcessReaped
  <2>3. CASE ReadLine(t)
    BY <2>3 DEF ReadLine, Progressed, AcceptsProgress
  <2>4. CASE Stall(t) \/ LessonExtracted(t)
    BY <1>6, <2>4 DEF Stall, LessonExtracted
  <2>5. CASE ExitedZero(t)
    BY <2>5 DEF ExitedZero, EmitCompleted
  <2>6. CASE ExitedNonZero(t)
    BY <1>6, <2>6 DEF ExitedNonZero
  <2>7. QED BY <1>9, <2>1, <2>2, <2>3, <2>4, <2>5, <2>6 DEF SubprocessStep
<1>10. QED
  BY <1>1, <1>2, <1>3, <1>4, <1>5, <1>7, <1>8, <1>9 DEF TaskStep, CoroutineStep

\* Finished records carry one outcome, whatever was cancelled or late before it.
THEOREM OutcomesAreWhole == Spec => []OneOutcome
<1>1. Init => OneOutcome
  BY DEF Init, NoFile, OneOutcome
<1>2. ASSUME IInv, OneOutcome, [Next]_vars PROVE OneOutcome'
  <2>1. ASSUME NEW t \in Tasks, TaskStep(t), NEW u \in Tasks PROVE Whole(disk'[u])
    <3>1. Whole(disk[u])
      BY <1>2, WholeParts
    <3>2. CASE u = t /\ disk[t].status \notin Ended
      BY <1>2, <2>1, <3>2, TaskStepWhole DEF IInv
    <3>3. CASE u # t \/ disk[t].status \in Ended
      BY <1>2, <2>1, <3>1, <3>3, TaskStepKind DEF IInv, Publishes, WritesQuietly
    <3>4. QED BY <3>2, <3>3
  <2>2. CASE \E t \in Tasks : TaskStep(t)
    BY <2>1, <2>2 DEF OneOutcome, Whole
  <2>3. CASE ~(\E t \in Tasks : TaskStep(t))
    <3>1. UNCHANGED disk
      BY <1>2, <2>3 DEF TaskStep, Next, vars, AwaiterStep, AwaitBegin, AwaitGet, AwaitTimeout,
                        AwaitCancelled, StreamStep, StreamOpen, StreamSend, StreamClose, Restart
    <3>2. QED BY <1>2, <3>1 DEF OneOutcome
  <2>4. QED BY <2>2, <2>3
<1>3. QED BY <1>1, <1>2, Invariance, PTL DEF Spec

-----------------------------------------------------------------------------
(* TaskService implements TaskLifecycle.  Beside the invariant two facts   *)
(* are needed: how far a task has come says which statuses its file may    *)
(* show (Begun), and a call that is not subscribed has an empty queue, so  *)
(* that it has no news (Deaf).                                             *)

AtWork == {"working", "spawning", "reading", "reaping", "washing"}

Begun ==
  \A t \in Tasks :
    /\ runner[t] = "scheduled" => disk[t].status \in {"pending", "cancelled"}
    /\ runner[t] \in AtWork => disk[t].status \in {"running", "cancelled"}

Deaf == \A s \in Subscribers : s \notin subs => queue[s] = <<>>

RInv == IInv /\ Begun /\ Deaf

-----------------------------------------------------------------------------
(* The two facts are invariants *)

LEMMA BegunStep ==
  ASSUME IInv, Begun, [Next]_vars
  PROVE  Begun'
<1> USE DEF Begun, AtWork, IInv, TypeOK, Save, Record
<1>1. CASE UNCHANGED vars
  BY <1>1 DEF vars
<1>2. ASSUME NEW t \in Tasks, CreateTask(t) PROVE Begun'
  BY <1>2 DEF CreateTask, NewTask
<1>3. ASSUME NEW t \in Tasks, CancelTask(t) PROVE Begun'
  BY <1>3 DEF CancelTask, EmitCancelled
<1>4. ASSUME NEW t \in Tasks, CoroutineStep(t) PROVE Begun'
  <2>1. CASE RunTask(t)
    BY <2>1 DEF RunTask, Started
  <2>2. ASSUME NEW p \in Progress, StartStage(t, p) PROVE Begun'
    BY <2>2 DEF StartStage
  <2>3. ASSUME NEW p \in Progress, UpdateProgress(t, p) PROVE Begun'
    BY <2>3 DEF UpdateProgress, Progressed
  <2>4. CASE WorkReturns(t) \/ WorkRaises(t)
    BY <2>4 DEF WorkReturns, WorkRaises, EmitCompleted, EmitFailed
  <2>5. CASE StrayProgress(t)
    BY <2>5 DEF StrayProgress, Progressed
  <2>6. QED BY <1>4, <2>1, <2>2, <2>3, <2>4, <2>5 DEF CoroutineStep
<1>5. ASSUME NEW t \in Tasks, SubprocessStep(t) PROVE Begun'
  <2> USE DEF Advance
  <2>1. CASE RunSubprocess(t)
    BY <2>1 DEF RunSubprocess, Started
  <2>2. CASE Spawn(t) \/ EndOfOutput(t) \/ KilledProcessReaped(t)
    BY <2>2 DEF Spawn, EndOfOutput, KilledProcessReaped
  <2>3. CASE ReadLine(t)
    BY <2>3 DEF ReadLine, Progressed
  <2>4. CASE Stall(t) \/ ExitedZero(t) \/ ExitedNonZero(t) \/ LessonExtracted(t)
    BY <2>4 DEF Stall, ExitedZero, ExitedNonZero, LessonExtracted, EmitCompleted, EmitFailed
  <2>5. QED BY <1>5, <2>1, <2>2, <2>3, <2>4 DEF SubprocessStep
<1>6. ASSUME NEW a \in Awaiters, AwaiterStep(a) PROVE Begun'
  BY <1>6 DEF AwaiterStep, AwaitBegin, AwaitGet, AwaitTimeout, AwaitCancelled
<1>7. ASSUME NEW s \in Streams, StreamStep(s) PROVE Begun'
  BY <1>7 DEF StreamStep, StreamOpen, StreamSend, StreamClose
<1>8. CASE Restart
  BY <1>8 DEF Restart, Volatile, RunnerState
<1>9. QED BY <1>1, <1>2, <1>3, <1>4, <1>5, <1>6, <1>7, <1>8 DEF Next

LEMMA DeafStep ==
  ASSUME IInv, Deaf, [Next]_vars
  PROVE  Deaf'
<1> USE DEF Deaf
<1>1. CASE UNCHANGED vars
  BY <1>1 DEF vars
<1>2. ASSUME NEW t \in Tasks, TaskStep(t) PROVE Deaf'
  <2>1. ASSUME NEW k \in EventKind, Publishes(t, k) PROVE Deaf'
    BY <2>1 DEF Publishes, Broadcast, Accepts
  <2>2. CASE WritesQuietly(t)
    BY <2>2 DEF WritesQuietly, bus
  <2>3. QED BY <1>2, <2>1, <2>2, TaskStepKind DEF IInv
<1>3. ASSUME NEW a \in Awaiters, AwaiterStep(a) PROVE Deaf'
  BY <1>3 DEF AwaiterStep, AwaitBegin, AwaitGet, AwaitTimeout, AwaitCancelled, Subscribe,
              Unsubscribe, bus, IInv, TypeOK, WaitersSubscribed, Subscribers
<1>4. ASSUME NEW s \in Streams, StreamStep(s) PROVE Deaf'
  BY <1>4 DEF StreamStep, StreamOpen, StreamSend, StreamClose, Subscribe, Unsubscribe,
              IInv, TypeOK, Subscribers
<1>5. CASE Restart
  BY <1>5 DEF Restart
<1>6. QED BY <1>1, <1>2, <1>3, <1>4, <1>5 DEF Next, TaskStep

LEMMA RInvariance == Spec => []RInv
<1>1. Init => RInv
  BY InitIInv DEF Init, RInv, Begun, Deaf, AtWork
<1>2. RInv /\ [Next]_vars => RInv'
  BY NextIInv, BegunStep, DeafStep DEF RInv
<1>3. QED BY <1>1, <1>2, PTL DEF Spec

-----------------------------------------------------------------------------
(* News *)

\* What a subscriber queue does to a call's news: an event that is no answer adds
\* nothing and takes nothing away.
LEMMA NewsOfAppend ==
  ASSUME IInv, NEW k \in EventKind, NEW t \in Tasks, Broadcast(k, t), UNCHANGED calls,
         NEW a \in Awaiters
  PROVE  News(a)' = IF a \in subs /\ Accepts(a) /\ k \in Terminal /\ t = target[a]
                    THEN News(a) \cup {k} ELSE News(a)
<1>1. a \in Subscribers /\ BusType /\ target' = target
  BY DEF IInv, TypeOK, BusType, Subscribers, calls
<1>2. queue[a] \in Seq(Event) /\ [kind |-> k, task |-> t] \in Event
  BY <1>1 DEF BusType, Event
<1>3. CASE Accepts(a)
  <2>1. queue'[a] = Append(queue[a], [kind |-> k, task |-> t]) /\ a \in subs
    BY <1>1, <1>3 DEF Broadcast, Accepts
  <2>2. Len(queue[a]) + 1 \in 1..Len(queue'[a])
        /\ queue'[a][Len(queue[a]) + 1] = [kind |-> k, task |-> t]
    BY <1>2, <2>1
  <2>3. \A o \in Terminal :
          o \in News(a)' <=> o \in News(a) \/ (k = o /\ t = target[a])
    BY <1>1, <2>2, BroadcastQueue DEF News
  <2>4. QED BY <1>3, <2>1, <2>3 DEF News
<1>4. CASE ~Accepts(a)
  BY <1>1, <1>4 DEF Broadcast, News
<1>5. QED BY <1>3, <1>4

LEMMA NewsStays ==
  ASSUME NEW a \in Awaiters, queue'[a] = queue[a], target'[a] = target[a]
  PROVE  News(a)' = News(a)
BY DEF News

-----------------------------------------------------------------------------
(* Every step is a step of the abstract service, or none.  The mapped state: *)

status == [t \in Tasks |-> disk[t].status]
phase == [a \in Awaiters |-> Phase(a)]
news == [a \in Awaiters |-> News(a)]
shared == <<status, phase, target, news, answer>>

LEMMA Stutters == UNCHANGED shared => UNCHANGED Lifecycle!vars
BY DEF Lifecycle!vars, shared, status, phase, news

LEMMA PhaseIsWaiting ==
  ASSUME IInv, NEW a \in Awaiters
  PROVE  phase[a] = "waiting" <=> a \in subs
BY DEF phase, Phase, IInv, WaitersSubscribed

LEMMA PhaseStays ==
  ASSUME UNCHANGED pc
  PROVE  phase' = phase
BY DEF phase, Phase

\* A final event is published, and every call that waits hears of it or misses it.
LEMMA FinalIsPublished ==
  ASSUME IInv, NEW t \in Tasks, NEW k \in Terminal, Publishes(t, k)
  PROVE  Lifecycle!Publish(t, k)
<1> DEFINE heard == {a \in Awaiters : a \in subs /\ Accepts(a) /\ target[a] = t}
<1>1. k \in EventKind /\ Broadcast(k, t) /\ UNCHANGED calls /\ target' = target
  BY DEF EventKind, Publishes, calls
<1>2. status' = [status EXCEPT ![t] = k]
  BY DEF Publishes, status
<1>3. news' = [a \in Awaiters |-> IF a \in heard THEN news[a] \cup {k} ELSE news[a]]
  BY <1>1, NewsOfAppend DEF news
<1>4. heard \in SUBSET {a \in Awaiters : phase[a] = "waiting" /\ target[a] = t}
  BY PhaseIsWaiting
<1>5. phase' = phase /\ UNCHANGED <<target, answer>>
  BY <1>1, PhaseStays DEF calls
<1>6. QED BY <1>2, <1>3, <1>4, <1>5 DEF Lifecycle!Publish, status, phase, news

\* Any other event, or none, is nothing to those who wait.
LEMMA QuietIsNoNews ==
  ASSUME IInv, NEW t \in Tasks,
         (\E k \in EventKind \ Terminal : Publishes(t, k)) \/ WritesQuietly(t)
  PROVE  /\ UNCHANGED <<phase, target, news, answer>>
         /\ status' = [status EXCEPT ![t] = disk'[t].status]
<1>1. target' = target /\ answer' = answer /\ phase' = phase
  BY PhaseStays DEF Publishes, WritesQuietly, calls
<1>2. ASSUME NEW k \in EventKind \ Terminal, Publishes(t, k) PROVE news' = news
  BY <1>2, NewsOfAppend DEF Publishes, news
<1>3. ASSUME WritesQuietly(t) PROVE news' = news
  BY <1>3, <1>1, NewsStays DEF WritesQuietly, bus, news
<1>4. status' = [status EXCEPT ![t] = disk'[t].status]
  BY DEF Publishes, WritesQuietly, status
<1>5. QED BY <1>1, <1>2, <1>3, <1>4

LEMMA FinishMaps ==
  ASSUME IInv, NEW t \in Tasks, NEW k \in Ended, Publishes(t, k),
         disk[t].status \in {"running", "cancelled"}
  PROVE  Lifecycle!Next
<1>1. k \in Terminal BY DEF Terminal, Ended
<1>2. Lifecycle!Publish(t, k) BY <1>1, FinalIsPublished
<1>3. Lifecycle!Finish(t) BY <1>2 DEF Lifecycle!Finish, Ended
<1>4. QED BY <1>3 DEF Lifecycle!Next

\* A step that leaves a task's status alone leaves everything alone.
LEMMA SameStatusMaps ==
  ASSUME IInv, NEW t \in Tasks, disk'[t].status = disk[t].status,
         (\E k \in EventKind \ Terminal : Publishes(t, k)) \/ WritesQuietly(t)
  PROVE  UNCHANGED shared
<1>1. status' = status BY QuietIsNoNews DEF status
<1>2. QED BY <1>1, QuietIsNoNews DEF shared

LEMMA RunMaps ==
  ASSUME IInv, NEW t \in Tasks, disk[t].status \in {"pending", "cancelled"},
         disk'[t].status = "running", WritesQuietly(t)
  PROVE  Lifecycle!Next
<1>1. UNCHANGED <<phase, target, news, answer>> /\ status' = [status EXCEPT ![t] = "running"]
  BY QuietIsNoNews
<1>2. Lifecycle!Run(t)
  BY <1>1 DEF Lifecycle!Run, status, phase, news
<1>3. QED BY <1>2 DEF Lifecycle!Next

LEMMA FailingMaps ==
  ASSUME RInv, NEW t \in Tasks, runner[t] \in AtWork, EmitFailed(t), UNCHANGED calls
  PROVE  Lifecycle!Next
<1>1. disk[t].status \in {"running", "cancelled"}
  BY DEF RInv, Begun
<1>2. disk' = [disk EXCEPT ![t] = [disk[t] EXCEPT !.status = "failed", !.message = FALSE,
                                                 !.error = TRUE, !.result = FALSE]]
  BY DEF EmitFailed, Save
<1>3. disk'[t].status = "failed" /\ \A u \in Tasks : u # t => disk'[u] = disk[u]
  BY <1>2 DEF RInv, IInv, TypeOK, Record
<1>4. Publishes(t, "failed")
  BY <1>1, <1>3 DEF Publishes, EmitFailed, Terminal, Ended
<1>5. QED BY <1>1, <1>4, FinishMaps DEF RInv, Ended

LEMMA CompletingMaps ==
  ASSUME RInv, NEW t \in Tasks, NEW result \in BOOLEAN, runner[t] \in AtWork,
         EmitCompleted(t, result), UNCHANGED calls
  PROVE  Lifecycle!Next
<1>1. disk[t].status \in {"running", "cancelled"}
  BY DEF RInv, Begun
<1>2. disk'[t].status = "completed" /\ \A u \in Tasks : u # t => disk'[u] = disk[u]
  BY DEF EmitCompleted, Save, RInv, IInv, TypeOK, Record
<1>3. Publishes(t, "completed")
  BY <1>1, <1>2 DEF Publishes, EmitCompleted, Terminal, Ended
<1>4. QED BY <1>1, <1>3, FinishMaps DEF RInv, Ended

LEMMA CreateMaps ==
  ASSUME RInv, NEW t \in Tasks, CreateTask(t)
  PROVE  Lifecycle!Next
<1>1. disk[t].status = "absent" /\ disk'[t].status = "pending"
      /\ \A u \in Tasks : u # t => disk'[u] = disk[u]
  BY DEF CreateTask, Exists, Save, NewTask, RInv, IInv, TypeOK
<1>2. Publishes(t, "created") /\ "created" \in EventKind \ Terminal
  BY <1>1 DEF CreateTask, Publishes, Terminal, Ended, EventKind
<1>3. UNCHANGED <<phase, target, news, answer>> /\ status' = [status EXCEPT ![t] = "pending"]
  BY <1>1, <1>2, QuietIsNoNews DEF RInv
<1>4. Lifecycle!Submit(t)
  BY <1>1, <1>3 DEF Lifecycle!Submit, status, phase, news
<1>5. QED BY <1>4 DEF Lifecycle!Next

LEMMA CancelMaps ==
  ASSUME RInv, NEW t \in Tasks, CancelTask(t)
  PROVE  Lifecycle!Next
<1>1. t \in Cancellable /\ disk[t].status \in {"pending", "running"}
  BY DEF CancelTask, MayCancel, Exists, RInv, IInv, TypeOK, Record, Status
<1>2. disk'[t].status = "cancelled" /\ \A u \in Tasks : u # t => disk'[u] = disk[u]
  BY DEF CancelTask, EmitCancelled, Save, RInv, IInv, TypeOK, Record
<1>3. Publishes(t, "cancelled") /\ "cancelled" \in Terminal
  BY <1>1, <1>2 DEF CancelTask, EmitCancelled, Publishes, Terminal, Ended
<1>4. Lifecycle!Publish(t, "cancelled")
  BY <1>3, FinalIsPublished DEF RInv
<1>5. Lifecycle!Cancel(t)
  BY <1>1, <1>4 DEF Lifecycle!Cancel, status
<1>6. QED BY <1>5 DEF Lifecycle!Next

LEMMA CoroutineMaps ==
  ASSUME RInv, NEW t \in Tasks, CoroutineStep(t)
  PROVE  Lifecycle!Next \/ UNCHANGED shared
<1> USE DEF RInv, IInv, TypeOK, Record, Save, AtWork, Begun
<1>1. CASE RunTask(t)
  <2>1. disk[t].status \in {"pending", "cancelled"} /\ disk'[t].status = "running"
        /\ WritesQuietly(t)
    BY <1>1 DEF RunTask, Started, WritesQuietly, bus, calls, Ended
  <2>2. QED BY <2>1, RunMaps
<1>2. ASSUME NEW p \in Progress, StartStage(t, p) PROVE UNCHANGED shared
  <2>1. disk'[t].status = disk[t].status /\ Publishes(t, "stage_start")
    BY <1>2 DEF StartStage, Publishes, calls, Ended, Terminal
  <2>2. QED BY <2>1, SameStatusMaps DEF EventKind, Terminal
<1>3. ASSUME NEW p \in Progress, UpdateProgress(t, p) PROVE UNCHANGED shared
  <2>1. disk'[t].status = disk[t].status /\ WritesQuietly(t)
    BY <1>3 DEF UpdateProgress, Progressed, AcceptsProgress, WritesQuietly, bus, calls, Ended
  <2>2. QED BY <2>1, SameStatusMaps
<1>4. CASE WorkReturns(t)
  BY <1>4, CompletingMaps DEF WorkReturns
<1>5. CASE WorkRaises(t)
  BY <1>5, FailingMaps DEF WorkRaises
<1>6. CASE StrayProgress(t)
  <2>1. disk'[t].status = disk[t].status /\ WritesQuietly(t)
    BY <1>6 DEF StrayProgress, Progressed, AcceptsProgress, WritesQuietly, bus, calls, Ended
  <2>2. QED BY <2>1, SameStatusMaps
<1>7. QED BY <1>1, <1>2, <1>3, <1>4, <1>5, <1>6 DEF CoroutineStep

LEMMA SubprocessMaps ==
  ASSUME RInv, NEW t \in Tasks, SubprocessStep(t)
  PROVE  Lifecycle!Next \/ UNCHANGED shared
<1> USE DEF RInv, IInv, TypeOK, Record, Save, AtWork, Begun, Advance
<1>1. CASE RunSubprocess(t)
  <2>1. disk[t].status \in {"pending", "cancelled"} /\ disk'[t].status = "running"
        /\ WritesQuietly(t)
    BY <1>1 DEF RunSubprocess, Started, WritesQuietly, bus, calls, Ended
  <2>2. QED BY <2>1, RunMaps
<1>2. CASE UNCHANGED <<disk, bus, calls>>
  BY <1>2, SameStatusMaps DEF WritesQuietly
<1>3. CASE ReadLine(t)
  <2>1. disk'[t].status = disk[t].status /\ Publishes(t, "stage_progress")
    BY <1>3 DEF ReadLine, Progressed, AcceptsProgress, Publishes, calls, Ended, Terminal
  <2>2. QED BY <2>1, SameStatusMaps DEF EventKind, Terminal
<1>4. CASE Stall(t) \/ LessonExtracted(t)
  BY <1>4, FailingMaps DEF Stall, LessonExtracted
<1>5. CASE ExitedZero(t)
  BY <1>5, CompletingMaps DEF ExitedZero
<1>6. CASE ExitedNonZero(t)
  BY <1>2, <1>6, FailingMaps DEF ExitedNonZero
<1>7. QED
  BY <1>1, <1>2, <1>3, <1>4, <1>5, <1>6
     DEF SubprocessStep, Spawn, EndOfOutput, KilledProcessReaped

-----------------------------------------------------------------------------
(* Calls, streams, restarts *)

LEMMA OthersNews ==
  ASSUME NEW a \in Awaiters, UNCHANGED disk,
         \A b \in Awaiters \ {a} : queue'[b] = queue[b] /\ target'[b] = target[b]
  PROVE  status' = status /\ news' = [news EXCEPT ![a] = News(a)']
<1>1. \A b \in Awaiters \ {a} : News(b)' = News(b)
  BY NewsStays
<1>2. QED BY <1>1 DEF status, news

LEMMA NoQueueNoNews ==
  ASSUME NEW a \in Awaiters
  PROVE  /\ queue[a] = <<>> => News(a) = {}
         /\ queue'[a] = <<>> => News(a)' = {}
BY DEF News

\* A call that leaves without an answer.
LEMMA LeaveMaps ==
  ASSUME IInv, NEW a \in Awaiters, AwaitTimeout(a) \/ AwaitCancelled(a)
  PROVE  Lifecycle!Next
<1> USE DEF IInv, TypeOK, Subscribers
<1>1. pc[a] = "waiting" /\ Unsubscribe(a) /\ UNCHANGED <<disk, target, answer>>
      /\ pc' \in {[pc EXCEPT ![a] = "timeout"], [pc EXCEPT ![a] = "cancelled"]}
  BY DEF AwaitTimeout, AwaitCancelled
<1>2. queue' = [queue EXCEPT ![a] = <<>>]
  BY <1>1 DEF Unsubscribe
<1>3. status' = status /\ news' = [news EXCEPT ![a] = {}]
  BY <1>1, <1>2, OthersNews, NoQueueNoNews
<1>4. phase' = [phase EXCEPT ![a] = "gone"] /\ phase[a] = "waiting"
  BY <1>1 DEF phase, Phase
<1>5. Lifecycle!Leave
  <2> DEFINE gone == {a}
  <2>1. gone \in SUBSET {b \in Awaiters : phase[b] = "waiting"} BY <1>4
  <2>2. phase' = [b \in Awaiters |-> IF b \in gone THEN "gone" ELSE phase[b]]
    BY <1>4 DEF phase
  <2>3. news' = [b \in Awaiters |-> IF b \in gone THEN {} ELSE news[b]]
    BY <1>3 DEF news
  <2> HIDE DEF gone
  <2>4. QED BY <1>1, <1>3, <2>1, <2>2, <2>3 DEF Lifecycle!Leave, status, phase, news
<1>6. QED BY <1>5 DEF Lifecycle!Next

LEMMA AskMaps ==
  ASSUME RInv, NEW a \in Awaiters, NEW t \in Tasks, AwaitBegin(a, t)
  PROVE  Lifecycle!Next
<1> USE DEF RInv, IInv, TypeOK, Subscribers
<1>1. pc[a] = "idle" /\ target' = [target EXCEPT ![a] = t] /\ UNCHANGED disk
  BY DEF AwaitBegin
<1>2. queue[a] = <<>> /\ queue' = queue
  <2>1. queue[a] = <<>> BY <1>1 DEF Deaf, WaitersSubscribed
  <2>2. QED BY <2>1 DEF AwaitBegin, Subscribe, bus
<1>3. status' = status /\ news' = news
  BY <1>1, <1>2, OthersNews, NoQueueNoNews DEF news
<1>4. phase[a] = "idle" /\ status[t] = disk[t].status
  BY <1>1 DEF phase, Phase, status
<1>5. CASE AlreadyOver(t)
  <2>1. phase' = [phase EXCEPT ![a] = "returned"] /\ answer' = [answer EXCEPT ![a] = status[t]]
    BY <1>4, <1>5 DEF AwaitBegin, phase, Phase
  <2>2. Lifecycle!Ask(a, t)
    BY <1>1, <1>3, <1>4, <1>5, <2>1
       DEF Lifecycle!Ask, Lifecycle!Outcome, AlreadyOver, Terminal, status, phase, news
  <2>3. QED BY <2>2 DEF Lifecycle!Next
<1>6. CASE ~AlreadyOver(t)
  <2>1. phase' = [phase EXCEPT ![a] = "waiting"] /\ answer' = answer
    BY <1>6 DEF AwaitBegin, phase, Phase
  <2>2. Lifecycle!Ask(a, t)
    BY <1>1, <1>3, <1>4, <1>6, <2>1
       DEF Lifecycle!Ask, Lifecycle!Outcome, AlreadyOver, Terminal, status, phase, news
  <2>3. QED BY <2>2 DEF Lifecycle!Next
<1>7. QED BY <1>5, <1>6

\* An event that is no answer is dropped without anybody's knowing.
LEMMA GetMaps ==
  ASSUME RInv, NEW a \in Awaiters, AwaitGet(a)
  PROVE  Lifecycle!Next \/ UNCHANGED shared
<1> USE DEF RInv, IInv, TypeOK, Subscribers
<1>1. /\ pc[a] = "waiting" /\ queue[a] \in Seq(Event) /\ queue[a] # <<>>
      /\ UNCHANGED <<disk, target>>
  BY DEF AwaitGet
<1>2. CASE Answers(a, Head(queue[a]))
  <2> DEFINE o == Head(queue[a]).kind
  <2>1. /\ pc' = [pc EXCEPT ![a] = "returned"] /\ answer' = [answer EXCEPT ![a] = o]
        /\ queue' = [queue EXCEPT ![a] = <<>>]
    BY <1>2 DEF AwaitGet, Unsubscribe
  <2>2. o \in News(a)
    <3>1. o \in Terminal /\ Head(queue[a]).task = target[a]
      BY <1>2 DEF Answers
    <3>2. 1 \in 1..Len(queue[a]) /\ queue[a][1] = Head(queue[a]) /\ Head(queue[a]) \in Event
      BY <1>1
    <3>3. queue[a][1] = [kind |-> o, task |-> target[a]]
      BY <3>1, <3>2 DEF Event
    <3>4. QED BY <3>1, <3>2, <3>3 DEF News
  <2>3. status' = status /\ news' = [news EXCEPT ![a] = {}]
    BY <1>1, <2>1, OthersNews, NoQueueNoNews
  <2>4. phase[a] = "waiting" /\ phase' = [phase EXCEPT ![a] = "returned"]
    BY <1>1, <2>1 DEF phase, Phase
  <2>5. o \in news[a] BY <2>2 DEF news
  <2> HIDE DEF o
  <2>6. Lifecycle!Answer(a)
    BY <1>1, <2>1, <2>3, <2>4, <2>5 DEF Lifecycle!Answer, status, phase, news
  <2>7. QED BY <2>6 DEF Lifecycle!Next
<1>3. CASE ~Answers(a, Head(queue[a]))
  <2>1. queue' = [queue EXCEPT ![a] = Tail(@)] /\ UNCHANGED <<pc, answer>>
    BY <1>3 DEF AwaitGet
  <2>2. ASSUME NEW o \in Terminal PROVE o \in News(a)' <=> o \in News(a)
    <3> DEFINE ev == [kind |-> o, task |-> target[a]]
    <3>1. Head(queue[a]) # ev BY <1>3, <2>2 DEF Answers
    <3>2. (\E i \in 1..Len(queue[a]) : queue[a][i] = ev)
          <=> \E i \in 1..Len(Tail(queue[a])) : Tail(queue[a])[i] = ev
      <4> HIDE DEF ev
      <4>1. ASSUME NEW i \in 1..Len(queue[a]), queue[a][i] = ev
            PROVE  \E j \in 1..Len(Tail(queue[a])) : Tail(queue[a])[j] = ev
        <5>1. i # 1 BY <1>1, <3>1, <4>1
        <5>2. i - 1 \in 1..Len(Tail(queue[a])) /\ Tail(queue[a])[i - 1] = ev
          BY <1>1, <4>1, <5>1
        <5>3. QED BY <5>2
      <4>2. ASSUME NEW i \in 1..Len(Tail(queue[a])), Tail(queue[a])[i] = ev
            PROVE  \E j \in 1..Len(queue[a]) : queue[a][j] = ev
        <5>1. i + 1 \in 1..Len(queue[a]) /\ queue[a][i + 1] = ev
          BY <1>1, <4>2
        <5>2. QED BY <5>1
      <4>3. QED BY <4>1, <4>2
    <3>3. QED BY <1>1, <2>1, <3>2 DEF News
  <2>3. News(a)' = News(a)
    BY <2>2 DEF News
  <2>4. status' = status /\ news' = [news EXCEPT ![a] = News(a)']
    BY <1>1, <2>1, OthersNews
  <2>5. news' = news BY <2>3, <2>4 DEF news
  <2>6. phase' = phase BY <2>1, PhaseStays
  <2>7. QED BY <1>1, <2>1, <2>4, <2>5, <2>6 DEF shared
<1>4. QED BY <1>2, <1>3

LEMMA StreamMaps ==
  ASSUME IInv, NEW s \in Streams, StreamStep(s)
  PROVE  UNCHANGED shared
<1>1. UNCHANGED <<disk, calls>> /\ \A a \in Awaiters : queue'[a] = queue[a]
  <2>1. s \in Subscribers /\ \A a \in Awaiters : a \in Subscribers /\ a # s
    BY SubscribersAssumption DEF Subscribers
  <2>2. queue' \in {[queue EXCEPT ![s] = <<>>], [queue EXCEPT ![s] = Tail(@)]}
        /\ UNCHANGED <<disk, calls>>
    BY DEF StreamStep, StreamOpen, StreamSend, StreamClose, Subscribe, Unsubscribe
  <2>3. QED BY <2>1, <2>2 DEF IInv, TypeOK
<1>2. status' = status /\ news' = news
  BY <1>1, NewsStays DEF status, news, calls
<1>3. QED BY <1>1, <1>2, PhaseStays DEF shared, calls

\* The process dies: every wait is left, and the files say what they said.
LEMMA RestartMaps ==
  ASSUME RInv, Restart
  PROVE  Lifecycle!Next
<1> USE DEF RInv, IInv, TypeOK, Subscribers
<1> DEFINE gone == {a \in Awaiters : phase[a] = "waiting"}
<1>1. status' = status /\ UNCHANGED <<target, answer>>
  BY DEF Restart, status
<1>2. phase' = [a \in Awaiters |-> IF a \in gone THEN "gone" ELSE phase[a]]
  BY DEF Restart, phase, Phase
<1>3. ASSUME NEW a \in Awaiters PROVE news'[a] = IF a \in gone THEN {} ELSE news[a]
  <2>1. news'[a] = {} BY NoQueueNoNews DEF Restart, news
  <2>2. a \notin gone => news[a] = {}
    BY PhaseIsWaiting, NoQueueNoNews DEF Deaf, news
  <2>3. QED BY <2>1, <2>2
<1>4. news' = [a \in Awaiters |-> IF a \in gone THEN {} ELSE news[a]]
  BY <1>3 DEF news
<1>5. gone \in SUBSET {a \in Awaiters : phase[a] = "waiting"} OBVIOUS
<1> HIDE DEF gone
<1>6. Lifecycle!Leave
  BY <1>1, <1>2, <1>4, <1>5 DEF Lifecycle!Leave, status, phase, news
<1>7. QED BY <1>6 DEF Lifecycle!Next

-----------------------------------------------------------------------------
(* The refinement *)

LEMMA InitMaps == Init => Lifecycle!Init
<1> SUFFICES ASSUME Init PROVE Lifecycle!Init
  OBVIOUS
<1>1. status = [t \in Tasks |-> "absent"]
  BY DEF Init, NoFile, status
<1>2. phase = [a \in Awaiters |-> "idle"]
  BY DEF Init, phase, Phase
<1>3. news = [a \in Awaiters |-> {}]
  BY NoQueueNoNews DEF Init, news, Subscribers
<1>4. QED BY <1>1, <1>2, <1>3 DEF Init, Lifecycle!Init, status, phase, news

LEMMA StepMaps ==
  ASSUME RInv, [Next]_vars
  PROVE  [Lifecycle!Next]_(Lifecycle!vars)
<1>1. ASSUME UNCHANGED vars PROVE UNCHANGED shared
  BY <1>1, PhaseStays, NewsStays DEF vars, shared, status, news
<1>2. ASSUME NEW t \in Tasks, TaskStep(t) PROVE Lifecycle!Next \/ UNCHANGED shared
  BY <1>2, CreateMaps, CancelMaps, CoroutineMaps, SubprocessMaps DEF TaskStep
<1>3. ASSUME NEW a \in Awaiters, AwaiterStep(a) PROVE Lifecycle!Next \/ UNCHANGED shared
  BY <1>3, AskMaps, GetMaps, LeaveMaps DEF AwaiterStep, RInv
<1>4. ASSUME NEW s \in Streams, StreamStep(s) PROVE UNCHANGED shared
  BY <1>4, StreamMaps DEF RInv
<1>5. ASSUME Restart PROVE Lifecycle!Next
  BY <1>5, RestartMaps
<1>6. Lifecycle!Next \/ UNCHANGED shared
  BY <1>1, <1>2, <1>3, <1>4, <1>5 DEF Next, TaskStep
<1>7. QED BY <1>6, Stutters

\* The service implements what it promises its users: statuses follow the
\* lifecycle, and await_completion answers with an outcome of the task it was asked
\* about, recorded before the question or published after it.
THEOREM Refinement == Spec => ImplementsLifecycle
<1>1. RInv /\ [Next]_vars => [Lifecycle!Next]_(Lifecycle!vars)
  BY StepMaps
<1>2. QED
  BY InitMaps, RInvariance, <1>1, PTL DEF Spec, ImplementsLifecycle, Lifecycle!Spec
=============================================================================
