------------------------------ MODULE MCAgentRuns ------------------------------
(* Instances of AgentRuns for TLC: two executions at once are enough for any *)
(* race for the lock, and two rows for a process that outlives its run while *)
(* another has the lock.                                                     *)
EXTENDS AgentRuns
=============================================================================
