-------------------------- MODULE MCConnectorSessions --------------------------
(* Instances of ConnectorSessions.                                         *)
EXTENDS ConnectorSessions, TLC

CONSTANTS p1, p2, p3

(* Two contexts with one guard and a third with another. *)
MCContexts == 1..3
MCGuardOf == [x \in MCContexts |-> IF x = 3 THEN 2 ELSE 1]

Symmetry == Permutations(Pages)
=============================================================================
