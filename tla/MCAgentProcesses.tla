-------------------------- MODULE MCAgentProcesses --------------------------
(* The instance of AgentProcesses that TLC checks.                         *)
EXTENDS AgentProcesses
=============================================================================
