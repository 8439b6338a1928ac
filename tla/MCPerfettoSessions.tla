--------------------------- MODULE MCPerfettoSessions ---------------------------
(* Instances of PerfettoSessions.                                          *)
EXTENDS PerfettoSessions, TLC

CONSTANTS p1, p2, s1, s2, c1, c2, k1, k2, k3

Symmetry == Permutations(Pages) \cup Permutations(Calls) \cup Permutations(Conns)
=============================================================================
