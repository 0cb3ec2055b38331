--------------------------- MODULE TaskPanelProofs ---------------------------
(***************************************************************************)
(* Theorems about TaskPanel, for any number of tasks, calls and streams.   *)
(* Every step of the composition is a step of TaskService or leaves it     *)
(* alone, so that its invariant carries over; two facts join it to the     *)
(* panel: a queue holds nothing behind the end of a task (EndIsLast), and  *)
(* the reader's queue nothing of a task whose row has ended (RowIsQuiet).  *)
(***************************************************************************)
EXTENDS TaskPanel, TaskServiceProofs

USE DownAssumption

EndIsLast ==
  \A s \in Subscribers : \A i, j \in 1..Len(queue[s]) :
    i < j /\ queue[s][i].kind \in Ended => queue[s][j].task # queue[s][i].task

RowIsQuiet ==
  link \in Streams =>
    \A t \in Tasks : row[t] \in Ended =>
      \A i \in 1..Len(queue[link]) : queue[link][i].task # t

PanelIInv == PanelTypeOK /\ EndIsLast /\ RowIsTrue /\ RowIsQuiet

\* What happens to a queue when nothing is published.
Slides(q, r) == r = q \/ r = <<>> \/ (q # <<>> /\ r = Tail(q))

-----------------------------------------------------------------------------
(* The service's steps, seen from the panel *)

LEMMA PanelStepIsServiceStep == [PanelNext]_panelVars => [Next]_vars
BY DEF PanelNext, panelVars, ServiceStep, ServerRestart, Connect, Deliver, Waste, Notice,
       Break, RemoveRow, Next, StreamStep

LEMMA EndedStays ==
  ASSUME IInv, [Next]_vars, NEW t \in Tasks, disk[t].status \in Ended
  PROVE  disk'[t] = disk[t]
<1>1. ASSUME NEW u \in Tasks, TaskStep(u) PROVE disk'[t] = disk[t]
  BY <1>1, TaskStepKind DEF IInv, Publishes, WritesQuietly
<1>2. CASE ~(\E u \in Tasks : TaskStep(u))
  BY <1>2 DEF TaskStep, Next, vars, AwaiterStep, AwaitBegin, AwaitGet, AwaitTimeout,
              AwaitCancelled, StreamStep, StreamOpen, StreamSend, StreamClose, Restart
<1>3. QED BY <1>1, <1>2

LEMMA QueuesPublishOrSlide ==
  ASSUME IInv, [Next]_vars
  PROVE  \/ \E t \in Tasks, k \in EventKind : Publishes(t, k)
         \/ \A s \in Subscribers : Slides(queue[s], queue'[s])
<1> USE DEF Slides
<1>1. queue \in [Subscribers -> Seq(Event)]
  BY DEF IInv, TypeOK
<1>2. ASSUME NEW t \in Tasks, TaskStep(t)
      PROVE  (\E k \in EventKind : Publishes(t, k)) \/ UNCHANGED queue
  BY <1>2, TaskStepKind DEF IInv, WritesQuietly, bus
<1>3. ASSUME NEW a \in Awaiters, AwaiterStep(a), NEW s \in Subscribers
      PROVE  Slides(queue[s], queue'[s])
  BY <1>1, <1>3 DEF AwaiterStep, AwaitBegin, AwaitGet, AwaitTimeout, AwaitCancelled,
                    Subscribe, Unsubscribe, bus, Subscribers
<1>4. ASSUME NEW r \in Streams, StreamStep(r), NEW s \in Subscribers
      PROVE  Slides(queue[s], queue'[s])
  BY <1>1, <1>4 DEF StreamStep, StreamOpen, StreamSend, StreamClose,
                    Subscribe, Unsubscribe, Subscribers
<1>5. ASSUME Restart, NEW s \in Subscribers
      PROVE  Slides(queue[s], queue'[s])
  BY <1>5 DEF Restart
<1>6. CASE UNCHANGED vars
  BY <1>6 DEF vars
<1>7. QED BY <1>2, <1>3, <1>4, <1>5, <1>6 DEF Next, TaskStep

\* Every place of a queue that has slid was a place of the queue before, and the
\* order is kept.
LEMMA SlideKeepsOrder ==
  ASSUME NEW q \in Seq(Event), NEW r, Slides(q, r)
  PROVE  \E d \in {0, 1} : \A i \in 1..Len(r) : i + d \in 1..Len(q) /\ r[i] = q[i + d]
<1>1. CASE r = q
  BY <1>1
<1>2. CASE r = <<>>
  BY <1>2
<1>3. CASE q # <<>> /\ r = Tail(q)
  <2>1. \A i \in 1..Len(r) : i + 1 \in 1..Len(q) /\ r[i] = q[i + 1]
    BY <1>3
  <2>2. QED BY <2>1
<1>4. QED BY <1>1, <1>2, <1>3 DEF Slides

LEMMA EndIsLastStep ==
  ASSUME IInv, EndIsLast, [Next]_vars
  PROVE  EndIsLast'
<1>a. BusType /\ NewsIsTrue
  BY TypeParts DEF IInv
<1> SUFFICES ASSUME NEW s \in Subscribers, NEW i \in 1..Len(queue'[s]),
                    NEW j \in 1..Len(queue'[s]),
                    i < j, queue'[s][i].kind \in Ended
             PROVE  queue'[s][j].task # queue'[s][i].task
  BY DEF EndIsLast
<1>b. queue[s] \in Seq(Event) /\ Len(queue[s]) \in Nat
  BY <1>a DEF BusType
<1>1. ASSUME NEW t \in Tasks, NEW k \in EventKind, Publishes(t, k)
      PROVE  queue'[s][j].task # queue'[s][i].task
  <2>1. Broadcast(k, t) /\ disk[t].status \notin Ended
    BY <1>1 DEF Publishes
  <2>2. \A n \in 1..Len(queue'[s]) :
          \/ n \in 1..Len(queue[s]) /\ queue'[s][n] = queue[s][n]
          \/ n = Len(queue[s]) + 1 /\ queue'[s][n] = [kind |-> k, task |-> t]
    BY <1>a, <2>1, BroadcastQueue
  <2>3. \A n \in 1..Len(queue'[s]) : n \in Nat
    OBVIOUS
  <2>4. CASE j \in 1..Len(queue[s]) /\ queue'[s][j] = queue[s][j]
    <3>1. i \in 1..Len(queue[s]) /\ queue'[s][i] = queue[s][i]
      BY <1>b, <2>2, <2>3, <2>4
    <3>2. QED BY <2>4, <3>1 DEF EndIsLast
  <2>5. CASE j = Len(queue[s]) + 1 /\ queue'[s][j] = [kind |-> k, task |-> t]
    <3>1. i \in 1..Len(queue[s]) /\ queue'[s][i] = queue[s][i]
      BY <1>b, <2>2, <2>3, <2>5
    <3>2. disk[queue[s][i].task].status \in Ended
      BY <1>a, <3>1 DEF NewsIsTrue
    <3>3. QED BY <2>1, <2>5, <3>1, <3>2
  <2>6. QED BY <2>2, <2>4, <2>5
<1>2. CASE Slides(queue[s], queue'[s])
  <2>1. PICK d \in {0, 1} : \A n \in 1..Len(queue'[s]) :
          n + d \in 1..Len(queue[s]) /\ queue'[s][n] = queue[s][n + d]
    BY <1>b, <1>2, SlideKeepsOrder
  <2>2. i + d < j + d /\ i + d \in 1..Len(queue[s]) /\ j + d \in 1..Len(queue[s])
    BY <2>1
  <2>3. queue[s][i + d].kind \in Ended
    BY <2>1
  <2>4. queue[s][j + d].task # queue[s][i + d].task
    BY <2>2, <2>3 DEF EndIsLast
  <2>5. QED BY <2>1, <2>4
<1>3. QED BY <1>1, <1>2, QueuesPublishOrSlide

-----------------------------------------------------------------------------
(* The rows *)

\* The reader's queue stays quiet about a task whose row has ended, as long as it
\* is the same connection and the rows are the same.
LEMMA QuietStays ==
  ASSUME IInv, PanelIInv, [Next]_vars, NEW s \in Streams, link = s,
         NEW t \in Tasks, row[t] \in Ended, NEW i \in 1..Len(queue'[s])
  PROVE  queue'[s][i].task # t
<1>a. BusType /\ s \in Subscribers
  BY TypeParts DEF IInv, Subscribers
<1>b. queue[s] \in Seq(Event)
  BY <1>a DEF BusType
<1>c. \A n \in 1..Len(queue[s]) : queue[s][n].task # t
  BY DEF PanelIInv, RowIsQuiet
<1>1. ASSUME NEW u \in Tasks, NEW k \in EventKind, Publishes(u, k)
      PROVE  queue'[s][i].task # t
  <2>1. Broadcast(k, u) /\ u # t
    BY <1>1 DEF Publishes, PanelIInv, RowIsTrue
  <2>2. \/ i \in 1..Len(queue[s]) /\ queue'[s][i] = queue[s][i]
        \/ queue'[s][i] = [kind |-> k, task |-> u]
    BY <1>a, <2>1, BroadcastQueue
  <2>3. QED BY <1>c, <2>1, <2>2
<1>2. CASE Slides(queue[s], queue'[s])
  <2>1. PICK d \in {0, 1} : \A n \in 1..Len(queue'[s]) :
          n + d \in 1..Len(queue[s]) /\ queue'[s][n] = queue[s][n + d]
    BY <1>b, <1>2, SlideKeepsOrder
  <2>2. QED BY <1>c, <2>1
<1>3. QED BY <1>a, <1>1, <1>2, QueuesPublishOrSlide

\* A row that is left alone stays true, for the file of an ended task is final.
LEMMA TrueRowStays ==
  ASSUME IInv, PanelIInv, [Next]_vars, NEW t \in Tasks, row[t] \in Ended
  PROVE  disk'[t].status = row[t]
BY EndedStays DEF PanelIInv, RowIsTrue

LEMMA DeliverInv ==
  ASSUME IInv, PanelIInv, NEW s \in Streams, Deliver(s)
  PROVE  PanelTypeOK' /\ RowIsTrue' /\ RowIsQuiet'
<1> DEFINE ev == Head(queue[s])
<1>a. s \in Subscribers /\ queue \in [Subscribers -> Seq(Event)] /\ NewsIsTrue
  BY DEF IInv, TypeOK, Subscribers
<1>b. /\ link = s /\ link' = s /\ queue[s] # <<>> /\ UNCHANGED <<disk, gap>>
      /\ row' = [row EXCEPT ![ev.task] = Shown(ev.kind)]
      /\ timer' = [timer EXCEPT ![ev.task] = Expires(ev.kind)]
      /\ queue'[s] = Tail(queue[s])
  BY <1>a DEF Deliver, StreamSend, HandleTaskEvent
<1>c. /\ ev = queue[s][1] /\ 1 \in 1..Len(queue[s]) /\ ev \in Event
      /\ \A i \in 1..Len(Tail(queue[s])) :
           i + 1 \in 1..Len(queue[s]) /\ 1 < i + 1 /\ Tail(queue[s])[i] = queue[s][i + 1]
  BY <1>a, <1>b
<1>d. ev.task \in Tasks /\ ev.kind \in EventKind
  BY <1>c DEF Event
<1>e. row \in [Tasks -> Row] /\ timer \in [Tasks -> BOOLEAN]
  BY DEF PanelIInv, PanelTypeOK
<1> HIDE DEF ev
<1>1. PanelTypeOK'
  <2>1. Shown(ev.kind) \in Row /\ Expires(ev.kind) \in BOOLEAN
    BY <1>d DEF Shown, Expires, Row
  <2>2. row' \in [Tasks -> Row] /\ timer' \in [Tasks -> BOOLEAN]
    BY <1>b, <1>e, <2>1
  <2>3. QED BY <1>b, <2>2 DEF PanelIInv, PanelTypeOK
<1>2. Shown(ev.kind) \in Ended => ev.kind \in Ended /\ Shown(ev.kind) = ev.kind
  BY DEF Shown, Ended, Terminal
<1>3. RowIsTrue'
  <2>1. ev.kind \in Ended => disk[ev.task].status = ev.kind
    BY <1>a, <1>c DEF NewsIsTrue
  <2>2. QED BY <1>b, <1>d, <1>e, <1>2, <2>1 DEF PanelIInv, RowIsTrue
<1>4. RowIsQuiet'
  <2> SUFFICES ASSUME NEW t \in Tasks, row'[t] \in Ended, NEW i \in 1..Len(queue'[s])
               PROVE  queue'[s][i].task # t
    BY <1>b DEF RowIsQuiet
  <2>1. i + 1 \in 1..Len(queue[s]) /\ 1 < i + 1 /\ queue'[s][i] = queue[s][i + 1]
    BY <1>b, <1>c
  <2>2. CASE t = ev.task
    <3>1. ev.kind \in Ended
      BY <1>b, <1>e, <1>2, <2>2
    <3>2. QED BY <1>a, <1>c, <2>1, <2>2, <3>1 DEF PanelIInv, EndIsLast
  <2>3. CASE t # ev.task
    <3>1. row[t] \in Ended
      BY <1>b, <1>e, <2>3
    <3>2. QED BY <1>b, <2>1, <3>1 DEF PanelIInv, RowIsQuiet
  <2>4. QED BY <2>2, <2>3
<1>5. QED BY <1>1, <1>3, <1>4

LEMMA PanelNextInv ==
  ASSUME IInv, PanelIInv, [PanelNext]_panelVars
  PROVE  PanelIInv'
<1>a. [Next]_vars
  BY PanelStepIsServiceStep
<1>b. EndIsLast'
  BY <1>a, EndIsLastStep DEF PanelIInv
<1>1. ASSUME ServiceStep \/ (\E s \in Streams : Waste(s) \/ Notice(s)) \/ UNCHANGED panelVars
      PROVE  PanelIInv'
  <2>1. UNCHANGED <<link, row, timer>> /\ gap' \subseteq Tasks
    BY <1>1 DEF ServiceStep, Waste, Notice, panelVars, panel, PanelIInv, PanelTypeOK
  <2>2. RowIsTrue'
    BY <1>a, <2>1, TrueRowStays DEF RowIsTrue
  <2>3. RowIsQuiet'
    BY <1>a, <2>1, QuietStays DEF RowIsQuiet
  <2>4. PanelTypeOK'
    BY <2>1 DEF PanelIInv, PanelTypeOK
  <2>5. QED BY <1>b, <2>2, <2>3, <2>4 DEF PanelIInv
<1>2. ASSUME NEW s \in Streams, Deliver(s) PROVE PanelIInv'
  BY <1>b, <1>2, DeliverInv DEF PanelIInv
<1>3. ASSUME NEW s \in Streams, Connect(s) PROVE PanelIInv'
  <2>1. link' = s /\ UNCHANGED <<row, timer, gap, disk>> /\ queue'[s] = <<>>
    BY <1>3 DEF Connect, StreamOpen, Subscribe, panel, IInv, TypeOK, Subscribers
  <2>2. PanelTypeOK' /\ RowIsTrue' /\ RowIsQuiet'
    BY <2>1 DEF PanelIInv, PanelTypeOK, RowIsTrue, RowIsQuiet
  <2>3. QED BY <1>b, <2>2 DEF PanelIInv
<1>4. CASE Break \/ ServerRestart
  <2>1. link' = Down /\ UNCHANGED <<row, timer, disk>> /\ gap' \subseteq Tasks
    BY <1>4 DEF Break, ServerRestart, Restart, panel, vars, Outstanding, PanelIInv, PanelTypeOK
  <2>2. PanelTypeOK' /\ RowIsTrue' /\ RowIsQuiet'
    BY <2>1 DEF PanelIInv, PanelTypeOK, RowIsTrue, RowIsQuiet
  <2>3. QED BY <1>b, <2>2 DEF PanelIInv
<1>5. ASSUME NEW t \in Tasks, RemoveRow(t) PROVE PanelIInv'
  <2>1. /\ row' = [row EXCEPT ![t] = "none"] /\ timer' = [timer EXCEPT ![t] = FALSE]
        /\ UNCHANGED <<link, gap, disk, queue>>
    BY <1>5 DEF RemoveRow, vars
  <2>2. row \in [Tasks -> Row] /\ timer \in [Tasks -> BOOLEAN]
    BY DEF PanelIInv, PanelTypeOK
  <2>3. row' \in [Tasks -> Row] /\ timer' \in [Tasks -> BOOLEAN]
    BY <2>1, <2>2 DEF Row
  <2>4. \A u \in Tasks : row'[u] \in Ended => row[u] \in Ended /\ row'[u] = row[u]
    BY <2>1, <2>2 DEF Ended
  <2>5. PanelTypeOK' /\ RowIsTrue' /\ RowIsQuiet'
    BY <2>1, <2>3, <2>4 DEF PanelIInv, PanelTypeOK, RowIsTrue, RowIsQuiet
  <2>6. QED BY <1>b, <2>5 DEF PanelIInv
<1>6. QED BY <1>1, <1>2, <1>3, <1>4, <1>5 DEF PanelNext

LEMMA PanelInitInv == PanelInit => PanelIInv
BY DEF PanelInit, Init, PanelIInv, PanelTypeOK, Row, EndIsLast, RowIsTrue, RowIsQuiet, Ended

-----------------------------------------------------------------------------
(* The theorems *)

\* The composition does to the service nothing the service does not do alone.
THEOREM ServiceIsKept == PanelSpec => Spec
<1>1. PanelInit => Init
  BY DEF PanelInit
<1>2. QED BY <1>1, PanelStepIsServiceStep, PTL DEF PanelSpec, Spec

\* Both invariants hold in every reachable state of the composition.
THEOREM PanelInvariance == PanelSpec => [](IInv /\ PanelIInv)
<1>1. IInv /\ PanelIInv /\ [PanelNext]_panelVars => PanelIInv'
  BY PanelNextInv
<1>2. QED BY <1>1, PanelInitInv, ServiceIsKept, Invariance, PTL DEF PanelSpec

\* A row that says completed or failed agrees with the task's file, for any number
\* of tasks, broken connections and restarts (ActiveTaskPanel.svelte:165-205).
THEOREM RowsAreTrue == PanelSpec => []RowIsTrue
<1>1. PanelIInv => RowIsTrue
  BY DEF PanelIInv
<1>2. QED BY <1>1, PanelInvariance, PTL

\* A row that has ended never runs again: no event cancels its removal, although
\* the panel would let any stage event do so (ActiveTaskPanel.svelte:128-163).
THEOREM EndedRowsStayEnded ==
  PanelSpec => [][\A t \in Tasks : row[t] \in Ended => row'[t] \in {row[t], "none"}]_panelVars
<1>1. ASSUME IInv, PanelIInv, [PanelNext]_panelVars, NEW t \in Tasks, row[t] \in Ended
      PROVE  row'[t] \in {row[t], "none"}
  <2>1. ASSUME NEW s \in Streams, Deliver(s) PROVE row'[t] = row[t]
    <3>1. queue[s] \in Seq(Event) /\ queue[s] # <<>> /\ link = s
      BY <1>1, <2>1 DEF Deliver, StreamSend, IInv, TypeOK, Subscribers
    <3>2. Head(queue[s]) = queue[s][1] /\ 1 \in 1..Len(queue[s])
      BY <3>1
    <3>3. Head(queue[s]).task # t
      BY <1>1, <3>1, <3>2 DEF PanelIInv, RowIsQuiet
    <3>4. QED BY <1>1, <2>1, <3>3 DEF Deliver, HandleTaskEvent, PanelIInv, PanelTypeOK
  <2>2. ASSUME NEW u \in Tasks, RemoveRow(u) PROVE row'[t] \in {row[t], "none"}
    BY <1>1, <2>2 DEF RemoveRow, PanelIInv, PanelTypeOK
  <2>3. QED
    BY <1>1, <2>1, <2>2 DEF PanelNext, panelVars, panel, ServiceStep, ServerRestart, Connect,
                            Waste, Notice, Break
<1>2. IInv /\ PanelIInv /\ [PanelNext]_panelVars =>
        [\A t \in Tasks : row[t] \in Ended => row'[t] \in {row[t], "none"}]_panelVars
  BY <1>1
<1>3. QED BY <1>2, PanelInvariance, PTL DEF PanelSpec
=============================================================================
