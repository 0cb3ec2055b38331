---------------------------- MODULE MCTaskService ----------------------------
(* Small instances of TaskService for TLC. *)
EXTENDS TaskRefinement

CONSTANTS t1, t2, a1, a2, s1

OneTask == {t1}
TwoTasks == {t1, t2}
SecondTask == {t2}
NoTask == {}
OneAwaiter == {a1}
TwoAwaiters == {a1, a2}
OneStream == {s1}
NoStream == {}
=============================================================================
