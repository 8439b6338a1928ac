------------------------------- MODULE MCAgents -------------------------------
(* Instances of Agents.                                                    *)
EXTENDS Agents

CONSTANTS t1, t2, t3
=============================================================================
