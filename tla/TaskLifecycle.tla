---------------------------- MODULE TaskLifecycle ----------------------------
(***************************************************************************)
(* What TaskService promises the code that uses it, with no queue, no      *)
(* stage event and no driver: a status per task, and for each call of      *)
(* await_completion the outcomes it may still answer with.  An outcome     *)
(* published while a call waits may be lost to it (a full queue); it may   *)
(* never be invented, and never be another task's.                         *)
(***************************************************************************)
CONSTANTS Tasks, Cancellable, Awaiters

VARIABLES
  status,  \* [Tasks -> absent, pending, running, completed, failed, cancelled]
  phase,   \* [Awaiters -> idle, waiting, returned, gone]
  asked,   \* [Awaiters -> Tasks]
  news,    \* [Awaiters -> SUBSET Outcome], published and not yet answered
  answer   \* [Awaiters -> {"none"} \cup Outcome]

vars == <<status, phase, asked, news, answer>>

Outcome == {"completed", "failed", "cancelled"}

Init ==
  /\ status = [t \in Tasks |-> "absent"]
  /\ phase = [a \in Awaiters |-> "idle"]
  /\ asked \in [Awaiters -> Tasks]
  /\ news = [a \in Awaiters |-> {}]
  /\ answer = [a \in Awaiters |-> "none"]

\* A waiting call hears of t's outcome o, or misses it.
Publish(t, o) ==
  /\ status' = [status EXCEPT ![t] = o]
  /\ \E heard \in SUBSET {a \in Awaiters : phase[a] = "waiting" /\ asked[a] = t} :
       news' = [a \in Awaiters |-> IF a \in heard THEN news[a] \cup {o} ELSE news[a]]
  /\ UNCHANGED <<phase, asked, answer>>

Submit(t) ==
  /\ status[t] = "absent"
  /\ status' = [status EXCEPT ![t] = "pending"]
  /\ UNCHANGED <<phase, asked, news, answer>>

\* A cancelled task may be started all the same.
Run(t) ==
  /\ status[t] \in {"pending", "cancelled"}
  /\ status' = [status EXCEPT ![t] = "running"]
  /\ UNCHANGED <<phase, asked, news, answer>>

\* ... and a task that is cancelled while it runs still reports its own outcome.
Finish(t) ==
  /\ status[t] \in {"running", "cancelled"}
  /\ \E o \in {"completed", "failed"} : Publish(t, o)

Cancel(t) ==
  /\ t \in Cancellable
  /\ status[t] \in {"pending", "running"}
  /\ Publish(t, "cancelled")

Ask(a, t) ==
  /\ phase[a] = "idle"
  /\ asked' = [asked EXCEPT ![a] = t]
  /\ \/ /\ status[t] \in Outcome
        /\ phase' = [phase EXCEPT ![a] = "returned"]
        /\ answer' = [answer EXCEPT ![a] = status[t]]
     \/ /\ status[t] \notin Outcome
        /\ phase' = [phase EXCEPT ![a] = "waiting"]
        /\ UNCHANGED answer
  /\ UNCHANGED <<status, news>>

Answer(a) ==
  /\ phase[a] = "waiting"
  /\ \E o \in news[a] : answer' = [answer EXCEPT ![a] = o]
  /\ phase' = [phase EXCEPT ![a] = "returned"]
  /\ news' = [news EXCEPT ![a] = {}]
  /\ UNCHANGED <<status, asked>>

\* Deadlines, cancelled requests and restarts end any number of waits.
Leave ==
  \E gone \in SUBSET {a \in Awaiters : phase[a] = "waiting"} :
    /\ phase' = [a \in Awaiters |-> IF a \in gone THEN "gone" ELSE phase[a]]
    /\ news' = [a \in Awaiters |-> IF a \in gone THEN {} ELSE news[a]]
    /\ UNCHANGED <<status, asked, answer>>

Next ==
  \/ \E t \in Tasks : Submit(t) \/ Run(t) \/ Finish(t) \/ Cancel(t)
  \/ \E a \in Awaiters : Answer(a) \/ \E t \in Tasks : Ask(a, t)
  \/ Leave

Spec == Init /\ [][Next]_vars
=============================================================================
