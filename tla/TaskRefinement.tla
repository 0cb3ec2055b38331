---------------------------- MODULE TaskRefinement ----------------------------
(* TaskService implements TaskLifecycle. *)
EXTENDS TaskService

Phase(a) == IF pc[a] \in {"timeout", "cancelled"} THEN "gone" ELSE pc[a]

\* The answers waiting in a's queue.
News(a) == {k \in Terminal :
              \E i \in 1..Len(queue[a]) : queue[a][i] = [kind |-> k, task |-> target[a]]}

Lifecycle == INSTANCE TaskLifecycle WITH
  status <- [t \in Tasks |-> disk[t].status],
  phase <- [a \in Awaiters |-> Phase(a)],
  asked <- target,
  news <- [a \in Awaiters |-> News(a)]

\* Every step of the service is a step its users know of, or none: statuses follow
\* the lifecycle, and an answer is an outcome of the task that was asked about,
\* published after the question or recorded before it.
ImplementsLifecycle == Lifecycle!Spec
=============================================================================
