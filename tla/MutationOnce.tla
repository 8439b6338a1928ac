----------------------------- MODULE MutationOnce -----------------------------
(***************************************************************************)
(* What the mutation ledger promises about each operation, whatever        *)
(* happens to connections, writes and processes:                           *)
(*   - it is sent only while nothing of it is known and nothing of it is   *)
(*     out in the world;                                                   *)
(*   - what is out stays out until an operator judges it not applied;      *)
(*   - a process that stops may forget that an operation is done, or that  *)
(*     it was judged, but only towards "unknown", never towards "none".    *)
(***************************************************************************)
CONSTANT Ops

VARIABLES
    outcome,    \* what the bridge knows of each operation
    out         \* operations the peer may have applied

vars == <<outcome, out>>

Outcomes == {"none", "inflight", "done", "unknown"}

Init ==
    /\ outcome = [op \in Ops |-> "none"]
    /\ out = {}

Send(op) ==
    /\ outcome[op] = "none" /\ op \notin out
    /\ outcome' = [outcome EXCEPT ![op] = "inflight"]
    /\ out' = out \cup {op}

Complete(op) ==
    /\ outcome[op] = "inflight"
    /\ outcome' = [outcome EXCEPT ![op] = "done"]
    /\ UNCHANGED out

(* The outcome of some operations becomes unknown. *)
LoseTrack(ops) ==
    /\ \A op \in ops : outcome[op] \in {"none", "inflight"}
    /\ outcome' = [op \in Ops |-> IF op \in ops THEN "unknown" ELSE outcome[op]]
    /\ UNCHANGED out

(* An operator judges one operation; the connection this closes may leave  *)
(* others in doubt.                                                        *)
Decide(op, ops) ==
    /\ outcome[op] = "unknown"
    /\ \A o \in ops : outcome[o] = "inflight"
    /\ \E verdict \in {"none", "done"} :
        /\ outcome' = [o \in Ops |-> IF o = op THEN verdict
                                     ELSE IF o \in ops THEN "unknown" ELSE outcome[o]]
        /\ out' = IF verdict = "none" THEN out \ {op} ELSE out

(* The process ends: nothing stays in flight. *)
Stop(ops) ==
    /\ \A op \in Ops \ ops : outcome[op] # "inflight"
    /\ outcome' = [op \in Ops |-> IF op \in ops THEN "unknown" ELSE outcome[op]]
    /\ UNCHANGED out

(* Maintenance starts a new epoch, in which every operation id is free. *)
NewEpoch ==
    /\ \A op \in Ops : outcome[op] \in {"none", "done"}
    /\ outcome' = [op \in Ops |-> "none"]
    /\ out' = {}

Next ==
    \/ \E op \in Ops : Send(op) \/ Complete(op)
    \/ \E ops \in SUBSET Ops : LoseTrack(ops) \/ Stop(ops)
    \/ \E op \in Ops, ops \in SUBSET Ops : Decide(op, ops)
    \/ NewEpoch

Spec == Init /\ [][Next]_vars
=============================================================================
