---------------------------- MODULE MCPaperCommands ----------------------------
(* A small instance of PaperCommands for TLC. *)
EXTENDS PaperCommands

CONSTANTS p1, c1, c2, l1

OnePaper == {p1}
TwoCommands == {c1, c2}
OneLens == {l1}
=============================================================================
