----------------------------- MODULE MCAgentCli -----------------------------
(* Instances of AgentCli for TLC: the sizes are in the .cfg files.         *)
EXTENDS AgentCli
=============================================================================
