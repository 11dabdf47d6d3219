--------------------------- MODULE MCAgentRecovery ---------------------------
(* Small instances of AgentRecovery for TLC: a worker or Boss, the           *)
(* supervisor and at most one operator process.                              *)
EXTENDS AgentRecovery

CONSTANT op1
=============================================================================
