-------------------------- MODULE MCOperationLedger --------------------------
(* Instances of OperationLedger: two or three calls over two operations.   *)
EXTENDS OperationLedger

CONSTANTS c1, c2, c3, a, b, t1

(* c1 and c2 use the same operation id; c3 is another operation. *)
MCOpOf == [c \in Calls |-> IF c = c3 THEN b ELSE a]
MCArgsOf == [c \in Calls |-> 1]
(* c2 reuses the operation id with other arguments. *)
MCArgsDiffer == [c \in Calls |-> IF c = c2 THEN 2 ELSE 1]
MCTabOf == [c \in Calls |-> t1]
(* Both operations change the same resource with the same capability ... *)
MCOneGroup == [op \in Ops |-> "g"]
MCBrowser == [op \in Ops |-> "browser"]
MCPerfetto == [op \in Ops |-> "perfetto"]
(* ... or are operations of different kinds on different resources. *)
MCTwoGroups == [op \in Ops |-> op]
MCBrowserHttp == [op \in Ops |-> IF op = a THEN "browser" ELSE "http"]
MCMixed == [op \in Ops |-> IF op = a THEN "http" ELSE "perfetto"]
=============================================================================
