------------------------------ MODULE MCApprovals ------------------------------
(* Instances of Approvals.                                                 *)
EXTENDS Approvals, TLC

CONSTANTS c1, c2, c3, c4, s1, s2

(* Calls of one scope with the same arguments in one session, for which    *)
(* every decision is permitted.                                            *)
OneScope == [c \in Calls |-> "write"]
SameDetails == [c \in Calls |-> "args"]
OneSession == [c \in Calls |-> s1]
AllDecisions == [c \in Calls |-> Decisions]

(* c1, c2 and c3 are the same request, an interlock that permits only once *)
(* and deny; c4 has other arguments and comes without a session.           *)
OtherDetails == [c \in Calls |-> IF c = c4 THEN "others" ELSE "args"]
NoSessionFor4 == [c \in Calls |-> IF c = c4 THEN NoSession ELSE s1]
Interlock == [c \in Calls |-> IF c = c4 THEN Decisions ELSE {"once", "deny"}]
=============================================================================
