--------------------------- MODULE MCAgentSession ---------------------------
(* The instance of AgentSession for TLC: three lines of any kind, so that  *)
(* a long message can come before, between and after others; it arrives in *)
(* two pieces.                                                             *)
EXTENDS AgentSession
=============================================================================
