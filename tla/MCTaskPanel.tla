----------------------------- MODULE MCTaskPanel -----------------------------
(* A small instance of TaskPanel for TLC. *)
EXTENDS TaskPanel

CONSTANTS t1, a1, s1, s2

OneTask == {t1}
NoTask == {}
OneAwaiter == {a1}
TwoStreams == {s1, s2}
=============================================================================
