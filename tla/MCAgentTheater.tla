---------------------------- MODULE MCAgentTheater ----------------------------
(* Small instances of AgentTheater for TLC. *)
EXTENDS AgentTheater

CONSTANT m1

NoModelIds == {}
SomeModelIds == {m1}
=============================================================================
