------------------------------ MODULE TaskPanel ------------------------------
(***************************************************************************)
(* The reader of the task stream and the panel that shows it, composed     *)
(* with the TaskService they watch: run_task_stream_loop (task_stream.rs)  *)
(* holds one connection to GET /v1/tasks/stream and opens another after a  *)
(* pause when it breaks; ActiveTaskPanel.svelte keeps one row per task and *)
(* takes the row of an ended task away after five seconds.                 *)
(*                                                                         *)
(* Nothing is replayed: what was published while the reader was away, or   *)
(* was still queued for a connection that broke, is not heard of again.    *)
(* The pauses have no length here, and what is on the wire counts as       *)
(* still queued.                                                           *)
(***************************************************************************)
EXTENDS TaskService

VARIABLES
  link,   \* the connection the reader holds, or Down
  row,    \* [Tasks -> Row], tasksById
  timer,  \* [Tasks -> BOOLEAN], removeTimers has an entry
  gap     \* the tasks whose end the reader was not there to hear (history)

panel == <<row, timer>>
panelVars == <<vars, link, row, timer, gap>>

Down == "down"
Row == {"none", "running"} \cup Terminal

ASSUME DownAssumption == Down \notin Streams

PanelInit ==
  /\ Init
  /\ link = Down
  /\ row = [t \in Tasks |-> "none"]
  /\ timer = [t \in Tasks |-> FALSE]
  /\ gap = {}

-----------------------------------------------------------------------------
(* The panel *)

\* What the row shows after an event: any stage event makes it running again.
Shown(kind) == IF kind \in Terminal THEN kind ELSE "running"

\* Mutant: the branch of failed and cancelled forgets its scheduleRemoval.
Expires_IfCompleted(kind) == kind = "completed"

\* scheduleRemoval after a terminal event, clearRemovalTimer before any other.
Expires(kind) == kind \in Terminal

HandleTaskEvent(ev) ==
  /\ row' = [row EXCEPT ![ev.task] = Shown(ev.kind)]
  /\ timer' = [timer EXCEPT ![ev.task] = Expires(ev.kind)]

RemoveRow(t) ==
  /\ timer[t]
  /\ row' = [row EXCEPT ![t] = "none"]
  /\ timer' = [timer EXCEPT ![t] = FALSE]
  /\ UNCHANGED <<vars, link, gap>>

-----------------------------------------------------------------------------
(* The reader.  Its EventSource is dropped before the next one is built, but *)
(* the server learns of that in its own time and goes on writing until then. *)

Connect(s) ==
  /\ link = Down
  /\ StreamOpen(s)
  /\ link' = s
  /\ UNCHANGED <<panel, gap>>

Deliver(s) ==
  /\ link = s
  /\ StreamSend(s)
  /\ HandleTaskEvent(Head(queue[s]))
  /\ UNCHANGED <<link, gap>>

\* Tasks whose completed or failed event s has yet to pass on.
Outstanding(s) ==
  {t \in Tasks : \E i \in 1..Len(queue[s]) :
                   queue[s][i].task = t /\ queue[s][i].kind \in Ended}

Break ==
  /\ link # Down
  /\ link' = Down
  /\ gap' = gap \cup Outstanding(link)
  /\ UNCHANGED <<vars, panel>>

\* The server writes to a connection nobody reads any more.
Waste(s) ==
  /\ link # s
  /\ StreamSend(s)
  /\ UNCHANGED <<link, panel, gap>>

\* ... until it notices, or is_disconnected tells it.
Notice(s) ==
  /\ link # s
  /\ StreamClose(s)
  /\ UNCHANGED <<link, panel, gap>>

-----------------------------------------------------------------------------
(* The service's other steps, which the reader may or may not hear of *)

Ends(t) == disk[t].status \notin Ended /\ disk'[t].status \in Ended

Unheard(t) == Ends(t) /\ (link = Down \/ t \in missed'[link])

ServiceStep ==
  /\ \/ \E t \in Tasks : CreateTask(t) \/ CoroutineStep(t) \/ SubprocessStep(t)
                         \/ CancelTask(t)
     \/ \E a \in Awaiters : AwaiterStep(a)
  /\ gap' = gap \cup {t \in Tasks : Unheard(t)}
  /\ UNCHANGED <<link, panel>>

\* The panel outlives the server.
ServerRestart ==
  /\ Restart
  /\ link' = Down
  /\ gap' = IF link = Down THEN gap ELSE gap \cup Outstanding(link)
  /\ UNCHANGED panel

-----------------------------------------------------------------------------

PanelNext ==
  \/ ServiceStep
  \/ ServerRestart
  \/ \E s \in Streams : Connect(s) \/ Deliver(s) \/ Waste(s) \/ Notice(s)
  \/ Break
  \/ \E t \in Tasks : RemoveRow(t)

PanelSpec == PanelInit /\ [][PanelNext]_panelVars

\* A generator with something queued writes it, and a timer that is set fires.
\* Nothing says that the reader ever gets through again.
PanelFairSpec ==
  /\ PanelSpec
  /\ Fairness
  /\ \A s \in Streams : WF_panelVars(Deliver(s))
  /\ \A t \in Tasks : WF_panelVars(RemoveRow(t))

-----------------------------------------------------------------------------
(* Properties *)

\* The variables of the reader and the panel stay in their ranges.
PanelTypeOK ==
  /\ link \in Streams \cup {Down}
  /\ row \in [Tasks -> Row]
  /\ timer \in [Tasks -> BOOLEAN]
  /\ gap \subseteq Tasks

\* A row that says completed or failed says what the task's file says, whatever
\* was lost, cancelled or restarted between the two.
RowIsTrue ==
  \A t \in Tasks : row[t] \in Ended => disk[t].status = row[t]

\* The row of a task that is over goes away, unless the reader was not there when
\* it ended or its queue was full: no stage event comes behind the terminal one
\* to cancel the removal and leave the row running for good.
RowsGo ==
  \A t \in Tasks :
    row[t] # "none" /\ disk[t].status \in Ended ~> row[t] = "none" \/ t \in gap
=============================================================================
