---------------------------- MODULE MCChatSession ----------------------------
(* Small instance of ChatSession.  Sessions are interchangeable, but liveness *)
(* rules symmetry out.                                                        *)
EXTENDS ChatSession
=============================================================================
