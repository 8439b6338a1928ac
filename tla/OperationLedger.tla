---------------------------- MODULE OperationLedger ----------------------------
(***************************************************************************)
(* The mutation ledger of ConnectorBroker (src/src/connectors.mjs): every  *)
(* call of a mutating capability goes through beginOperation, which writes *)
(* a durable `pending' record before anything is sent to the peer, and the *)
(* record decides what a retry of the same operationId may do, across      *)
(* lost connections, timeouts, late answers, failed writes, crashes,       *)
(* restarts, local reconciliation and the archive-ledger maintenance       *)
(* command.                                                                *)
(*                                                                         *)
(* An element of Ops stands for one operation key without its epoch        *)
(* (service, peer, resource, capability, operationId); GroupOf gives the   *)
(* part of it that findAmbiguous compares.  A call is issued once and      *)
(* sends at most one request, so the call that created a record also       *)
(* identifies the record object and its request.                           *)
(***************************************************************************)
EXTENDS Naturals, Sequences, FiniteSets

CONSTANTS
    Calls,          \* tool calls of mutating capabilities
    Ops,            \* operation keys
    Tabs,           \* connector sessions (a page, or a Perfetto client)
    NoCall,         \* no call
    OpOf,           \* [Calls -> Ops]
    ArgsOf,         \* the argsHash of each call
    TabOf,          \* [Calls -> Tabs]
    KindOf,         \* [Ops -> Kinds], how the capability is dispatched
    GroupOf,        \* service + peer + resource + capability of each operation
    MaxEpoch,       \* largest connectors.policyEpoch an operator configures
    MaxRecords,     \* MAX_OPERATION_LEDGER_RECORDS
    MaxConcurrent,  \* capability.maxConcurrent
    Strict          \* the service uses executionGuard strict_context_version

Kinds == {"browser", "http", "perfetto"}
Epochs == 1..MaxEpoch

ASSUME CallsAssumption ==
    /\ NoCall \notin Calls
    /\ OpOf \in [Calls -> Ops]
    /\ TabOf \in [Calls -> Tabs]
    /\ KindOf \in [Ops -> Kinds]

ASSUME BoundsAssumption ==
    /\ MaxEpoch \in Nat \ {0}
    /\ MaxRecords \in Nat \ {0}
    /\ MaxConcurrent \in Nat \ {0}
    /\ Strict \in BOOLEAN

VARIABLES
    mode,       \* the daemon: "down", "running" or "closing"
    epoch,      \* config.connectors.policyEpoch of the running daemon
    ledger,     \* operationLedger: [Ops -> Records]
    cached,     \* operations whose result is in the memory cache
    chain,      \* persistChain: the writes not yet performed, oldest first
    disk,       \* connector-operations.json
    archives,   \* connector-operation-archives/
    archiving,  \* epoch archive-ledger is about to reset to, 0 when idle
    call,       \* where each call stands
    waits,      \* the call whose record promise a duplicate call awaits
    pend,       \* the entry of `pending' for each browser call
    view,       \* how the snapshot of a call relates to its session now
    open,       \* sessions that are registered
    sent,       \* history: epoch in which a call's request left the bridge,
                \* 0 if it never did or was judged not applied
    answered    \* history: calls the peer answered with a valid result

daemonVars == <<mode, epoch, ledger, cached, chain, call, waits, pend, view, open>>
fileVars == <<disk, archives, archiving>>
historyVars == <<sent, answered>>
vars == <<daemonVars, fileVars, historyVars>>

Modes == {"down", "running", "closing"}
Statuses == {"absent", "pending", "completed", "completed_no_result",
             "ambiguous", "confirmed_applied"}
TerminalStatuses == {"completed", "completed_no_result", "confirmed_applied"}
Records == [status : Statuses, owner : Calls \cup {NoCall}]
NoRecord == [status |-> "absent", owner |-> NoCall]
Ledgers == [Ops -> Records]
Empty == [op \in Ops |-> NoRecord]
Writes == [snap : Ledgers, begins : Calls \cup {NoCall}, retry : BOOLEAN]
Documents == [epoch : Epochs, records : Ledgers]

Waiting == {"persisting", "ready", "sent", "dup"}
Settled == {"ok", "error", "lost"}
CallStates == {"idle"} \cup Waiting \cup Settled

Present(l) == {op \in Ops : l[op].status # "absent"}

(* Seeded fault: a pending record is dropped when it is loaded. *)
RecoveredWithoutPending(l) ==
    [op \in Ops |-> IF l[op].status = "pending" THEN NoRecord ELSE l[op]]

(* Seeded fault: a pending record is taken for a completed one. *)
RecoveredAsCompleted(l) ==
    [op \in Ops |-> IF l[op].status = "pending"
                    THEN [l[op] EXCEPT !.status = "completed_no_result"]
                    ELSE l[op]]

(* What initialize makes of a record it loads: a pending one is ambiguous. *)
Recovered(l) ==
    [op \in Ops |-> IF l[op].status = "pending"
                    THEN [l[op] EXCEPT !.status = "ambiguous"]
                    ELSE l[op]]

TypeOK ==
    /\ mode \in Modes
    /\ epoch \in Epochs
    /\ ledger \in Ledgers
    /\ cached \in SUBSET Ops
    /\ chain \in Seq(Writes)
    /\ disk \in Documents
    /\ archives \in SUBSET Documents
    /\ archiving \in Epochs \cup {0}
    /\ call \in [Calls -> CallStates]
    /\ waits \in [Calls -> Calls \cup {NoCall}]
    /\ pend \in [Calls -> {"none", "live", "tombstone"}]
    /\ view \in [Calls -> {"current", "aged", "moved", "gone"}]
    /\ open \in SUBSET Tabs
    /\ sent \in [Calls -> Epochs \cup {0}]
    /\ answered \in SUBSET Calls

Init ==
    /\ mode = "down"
    /\ epoch = 1
    /\ ledger = Empty
    /\ cached = {}
    /\ chain = <<>>
    /\ disk = [epoch |-> 1, records |-> Empty]
    /\ archives = {}
    /\ archiving = 0
    /\ call = [c \in Calls |-> "idle"]
    /\ waits = [c \in Calls |-> NoCall]
    /\ pend = [c \in Calls |-> "none"]
    /\ view = [c \in Calls |-> "gone"]
    /\ open = {}
    /\ sent = [c \in Calls |-> 0]
    /\ answered = {}

-----------------------------------------------------------------------------
(* Helpers of the broker. *)

Alive == mode \in {"running", "closing"}

(* persistOperations takes its snapshot when it is called; the write waits *)
(* for its predecessors.  begins is the call whose beginOperation awaits   *)
(* it; retry asks for one more write if this one fails.                    *)
Queue(l, begins, retry) ==
    chain' = Append(chain, [snap |-> l, begins |-> begins, retry |-> retry])
QueuePersist(l) == Queue(l, NoCall, FALSE)

(* markAmbiguous on the records created by the calls cs. *)
MarkAmbiguous(l, cs) ==
    [op \in Ops |-> IF l[op].owner \in cs /\ l[op].status = "pending"
                    THEN [l[op] EXCEPT !.status = "ambiguous"]
                    ELSE l[op]]

(* The operations cs return, and with each the duplicates that share its   *)
(* promise (resolveDuplicate, rejectDuplicate).                            *)
Return(cs, result) ==
    call' = [c \in Calls |->
                IF c \in cs \/ (call[c] = "dup" /\ waits[c] \in cs)
                THEN result ELSE call[c]]

(* Requests that hold a slot under the busyKey that call c would reserve:  *)
(* session, generation and capability.  The key of a session that is gone  *)
(* counts only requests of gone sessions, of the same one or not.          *)
SlotHolders(c) ==
    {d \in Calls :
        /\ TabOf[d] = TabOf[c]
        /\ GroupOf[OpOf[d]] = GroupOf[OpOf[c]]
        /\ IF view[c] = "gone" THEN view[d] = "gone" ELSE view[d] \in {"current", "aged"}
        /\ \/ pend[d] # "none"
           \/ KindOf[OpOf[d]] = "http" /\ call[d] = "sent"}

SlotFree(c) == Cardinality(SlotHolders(c)) < MaxConcurrent

(* dropConnectionPending: the requests that are forgotten with the         *)
(* connections of the sessions ts, and the calls among them still waiting. *)
OnTabs(ts) == {c \in Calls : TabOf[c] \in ts}
Dropped(ts) == {c \in OnTabs(ts) : pend[c] # "none"}
Unsettled(ts) == {c \in OnTabs(ts) : pend[c] = "live"}

DropPending(ts) ==
    /\ ledger' = MarkAmbiguous(ledger, Dropped(ts))
    /\ pend' = [c \in Calls |-> IF c \in OnTabs(ts) THEN "none" ELSE pend[c]]
    /\ Return(Unsettled(ts), "error")
    /\ IF ledger' # ledger THEN QueuePersist(ledger') ELSE UNCHANGED chain

-----------------------------------------------------------------------------
(* beginOperation.  A call passes prepareExecution (its session is there)  *)
(* and the first assertSnapshot; everything up to the first await is one   *)
(* step.                                                                   *)

Entering(c) ==
    /\ mode = "running"
    /\ call[c] = "idle"
    /\ TabOf[c] \in open

Existing(c) == ledger[OpOf[c]].status # "absent"
(* Seeded fault: the argument hash is not compared. *)
SameArgsUnchecked(c) == TRUE
SameArgs(c) == ArgsOf[ledger[OpOf[c]].owner] = ArgsOf[c]

FindAmbiguous(c) ==
    {op \in Ops : ledger[op].status = "ambiguous" /\ GroupOf[op] = GroupOf[OpOf[c]]}

(* A pending record with the same arguments: share its outcome. *)
BeginDuplicate(c) ==
    /\ Entering(c)
    /\ Existing(c) /\ SameArgs(c)
    /\ ledger[OpOf[c]].status = "pending"
    /\ call' = [call EXCEPT ![c] = "dup"]
    /\ waits' = [waits EXCEPT ![c] = ledger[OpOf[c]].owner]
    /\ UNCHANGED <<mode, epoch, ledger, cached, chain, pend, view, open,
                   fileVars, historyVars>>

(* A completed record whose result is still in memory: return the copy. *)
BeginCached(c) ==
    /\ Entering(c)
    /\ Existing(c) /\ SameArgs(c)
    /\ ledger[OpOf[c]].status = "completed"
    /\ OpOf[c] \in cached
    /\ call' = [call EXCEPT ![c] = "ok"]
    /\ UNCHANGED <<mode, epoch, ledger, cached, chain, waits, pend, view, open,
                   fileVars, historyVars>>

BeginRefused(c) ==
    /\ Entering(c)
    /\ \/ Existing(c) /\ ~SameArgs(c)
       \/ Existing(c) /\ ledger[OpOf[c]].status = "completed" /\ OpOf[c] \notin cached
       \/ ledger[OpOf[c]].status \in {"completed_no_result", "confirmed_applied", "ambiguous"}
       \/ ~Existing(c) /\ FindAmbiguous(c) # {}
       \/ ~Existing(c) /\ Cardinality(Present(ledger)) >= MaxRecords
    /\ call' = [call EXCEPT ![c] = "error"]
    /\ UNCHANGED <<mode, epoch, ledger, cached, chain, waits, pend, view, open,
                   fileVars, historyVars>>

BeginOperation(c) ==
    /\ Entering(c)
    /\ ~Existing(c)
    /\ FindAmbiguous(c) = {}
    /\ Cardinality(Present(ledger)) < MaxRecords
    /\ ledger' = [ledger EXCEPT ![OpOf[c]] = [status |-> "pending", owner |-> c]]
    /\ Queue(ledger', c, FALSE)
    /\ call' = [call EXCEPT ![c] = "persisting"]
    /\ view' = [view EXCEPT ![c] = "current"]
    /\ UNCHANGED <<mode, epoch, cached, waits, pend, open, fileVars, historyVars>>

-----------------------------------------------------------------------------
(* The persist chain.  writeJsonAtomic renames a complete file into place, *)
(* so a write happens entirely or not at all; a failure never stops the    *)
(* writes behind it.                                                       *)

WriteSucceeds ==
    /\ Alive
    /\ chain # <<>>
    /\ LET w == Head(chain) IN
        /\ disk' = [epoch |-> epoch, records |-> w.snap]
        /\ call' = [c \in Calls |-> IF c = w.begins THEN "ready" ELSE call[c]]
    /\ chain' = Tail(chain)
    /\ UNCHANGED <<mode, epoch, ledger, cached, waits, pend, view, open,
                   archives, archiving, historyVars>>

(* Seeded fault: a rejected write rejects the chain, and the writes behind *)
(* it never run.                                                           *)
WriteFailsAndStops ==
    /\ Alive
    /\ chain # <<>>
    /\ chain' = <<>>
    /\ UNCHANGED <<mode, epoch, ledger, cached, call, waits, pend, view, open,
                   fileVars, historyVars>>

(* beginOperation removes the record it could not persist; a failed write  *)
(* of an abandoned operation is queued again with the ledger of that time. *)
WriteFails ==
    /\ Alive
    /\ chain # <<>>
    /\ LET w == Head(chain) IN
        /\ ledger' = [op \in Ops |-> IF w.begins # NoCall /\ op = OpOf[w.begins]
                                     THEN NoRecord ELSE ledger[op]]
        /\ Return({w.begins} \cap Calls, "error")
        /\ chain' = IF w.retry
                    THEN Append(Tail(chain),
                                [snap |-> ledger, begins |-> NoCall, retry |-> FALSE])
                    ELSE Tail(chain)
    /\ UNCHANGED <<mode, epoch, cached, waits, pend, view, open, fileVars, historyVars>>

-----------------------------------------------------------------------------
(* executePrepared after the record is durable, completePerfettoMutation.  *)

(* Seeded fault: rejectDuplicate is not called. *)
ForgetWithoutDuplicates(c, retry) ==
    /\ ledger' = [ledger EXCEPT ![OpOf[c]] = NoRecord]
    /\ Queue(ledger', NoCall, retry)
    /\ call' = [call EXCEPT ![c] = "error"]

Forget(c, retry) ==
    /\ ledger' = [ledger EXCEPT ![OpOf[c]] = NoRecord]
    /\ Queue(ledger', NoCall, retry)
    /\ Return({c}, "error")

Doubt(c) ==
    /\ ledger' = MarkAmbiguous(ledger, {c})
    /\ QueuePersist(ledger')
    /\ Return({c}, "error")

SendRequest(c) ==
    /\ call' = [call EXCEPT ![c] = "sent"]
    /\ sent' = [sent EXCEPT ![c] = epoch]

(* Seeded fault: the frame is sent without waiting for the write. *)
DispatchBrowserEarly(c) ==
    /\ Alive
    /\ call[c] \in {"persisting", "ready"} /\ KindOf[OpOf[c]] = "browser"
    /\ view[c] = "current" /\ SlotFree(c)
    /\ SendRequest(c)
    /\ pend' = [pend EXCEPT ![c] = "live"]
    /\ UNCHANGED <<mode, epoch, ledger, cached, chain, waits, view, open, answered, fileVars>>

(* The second assertSnapshot, the slot and the WebSocket frame. *)
DispatchBrowser(c) ==
    /\ Alive
    /\ call[c] = "ready" /\ KindOf[OpOf[c]] = "browser"
    /\ view[c] = "current" /\ SlotFree(c)
    /\ SendRequest(c)
    /\ pend' = [pend EXCEPT ![c] = "live"]
    /\ UNCHANGED <<mode, epoch, ledger, cached, chain, waits, view, open, answered, fileVars>>

(* sendJson threw: the frame never left, but the record turns ambiguous. *)
SendFailed(c) ==
    /\ Alive
    /\ call[c] = "ready" /\ KindOf[OpOf[c]] = "browser"
    /\ view[c] = "current" /\ SlotFree(c)
    /\ Doubt(c)
    /\ UNCHANGED <<mode, epoch, cached, waits, pend, view, open, fileVars, historyVars>>

(* The snapshot went stale during the write, or no slot is free. *)
AbandonBrowser(c) ==
    /\ Alive
    /\ call[c] = "ready" /\ KindOf[OpOf[c]] = "browser"
    /\ view[c] # "current" \/ ~SlotFree(c)
    /\ Forget(c, TRUE)
    /\ UNCHANGED <<mode, epoch, cached, waits, pend, view, open, fileVars, historyVars>>

(* For HTTP the slot comes first; a stale snapshot then leaves the record  *)
(* ambiguous although nothing was sent.                                    *)
DispatchHttp(c) ==
    /\ Alive
    /\ call[c] = "ready" /\ KindOf[OpOf[c]] = "http"
    /\ \/ /\ ~SlotFree(c)
          /\ Forget(c, FALSE)
          /\ UNCHANGED sent
       \/ /\ SlotFree(c) \/ view[c] = "gone"
          /\ view[c] # "current"
          /\ Doubt(c)
          /\ UNCHANGED sent
       \/ /\ SlotFree(c) /\ view[c] = "current"
          /\ SendRequest(c)
          /\ UNCHANGED <<ledger, chain>>
    /\ UNCHANGED <<mode, epoch, cached, waits, pend, view, open, answered, fileVars>>

(* Between begin and complete, perfetto_align runs its queries and DTW and *)
(* may fail, or the target may go: cancelPerfettoMutation.                 *)
DispatchPerfetto(c) ==
    /\ Alive
    /\ call[c] = "ready" /\ KindOf[OpOf[c]] = "perfetto"
    /\ \/ /\ Forget(c, FALSE)
          /\ UNCHANGED sent
       \/ /\ view[c] = "current"
          /\ SendRequest(c)
          /\ UNCHANGED <<ledger, chain>>
    /\ UNCHANGED <<mode, epoch, cached, waits, pend, view, open, answered, fileVars>>

Dispatch(c) ==
    \/ DispatchBrowser(c) \/ SendFailed(c) \/ AbandonBrowser(c)
    \/ DispatchHttp(c) \/ DispatchPerfetto(c)

-----------------------------------------------------------------------------
(* Outcomes. *)

(* storeCompleted: the result is kept in memory unless the cache is full.  *)
StoreCompleted(c) ==
    \E keep \in BOOLEAN :
        /\ ledger' = [op \in Ops |->
                        IF ledger[op].owner = c
                        THEN [ledger[op] EXCEPT !.status =
                                IF keep THEN "completed" ELSE "completed_no_result"]
                        ELSE ledger[op]]
        /\ cached' = IF keep THEN cached \cup {OpOf[c]} ELSE cached
        /\ QueuePersist(ledger')
        /\ Return({c}, "ok")
        /\ answered' = answered \cup {c}

(* handleResponse for a request whose caller still waits.  A rejection and *)
(* a result that violates the output schema are both ambiguous.            *)
HandleResponse(c) ==
    /\ mode = "running"
    /\ pend[c] = "live"
    /\ pend' = [pend EXCEPT ![c] = "none"]
    /\ \/ StoreCompleted(c)
       \/ Doubt(c) /\ UNCHANGED <<cached, answered>>
    /\ UNCHANGED <<mode, epoch, waits, view, open, sent, fileVars>>

(* handleResponse after the timeout: only lateOutcome is recorded. *)
HandleLateResponse(c) ==
    /\ mode = "running"
    /\ pend[c] = "tombstone"
    /\ pend' = [pend EXCEPT ![c] = "none"]
    /\ QueuePersist(ledger)
    /\ UNCHANGED <<mode, epoch, ledger, cached, call, waits, view, open,
                   fileVars, historyVars>>

(* The timer of requestConnectedClient; the entry and its slot remain. *)
Timeout(c) ==
    /\ mode = "running"
    /\ pend[c] = "live"
    /\ pend' = [pend EXCEPT ![c] = "tombstone"]
    /\ Doubt(c)
    /\ UNCHANGED <<mode, epoch, cached, waits, view, open, fileVars, historyVars>>

(* requestHttp or the Perfetto dispatch ends: a result, an error, the      *)
(* abort timer.  It may end while the daemon shuts down.                   *)
Finish(c) ==
    /\ Alive
    /\ call[c] = "sent" /\ KindOf[OpOf[c]] # "browser"
    /\ \/ StoreCompleted(c)
       \/ Doubt(c) /\ UNCHANGED <<cached, answered>>
    /\ UNCHANGED <<mode, epoch, waits, pend, view, open, sent, fileVars>>

-----------------------------------------------------------------------------
(* Sessions. *)

Connect(t) ==
    /\ mode = "running"
    /\ t \notin open
    /\ open' = open \cup {t}
    /\ UNCHANGED <<mode, epoch, ledger, cached, chain, call, waits, pend, view,
                   fileVars, historyVars>>

(* The close handler of a connection, also run by close() itself. *)
Gone(ts) ==
    /\ open' = open \ ts
    /\ view' = [c \in Calls |-> IF c \in OnTabs(ts) THEN "gone" ELSE view[c]]

ConnectionLost(t) ==
    /\ mode = "running"
    /\ t \in open
    /\ DropPending({t})
    /\ Gone({t})
    /\ UNCHANGED <<mode, epoch, cached, waits, fileVars, historyVars>>

(* context.update: a new version only, another resource, or another        *)
(* execution guard projection.                                             *)
ContextUpdate(t, change) ==
    /\ mode = "running"
    /\ t \in open
    /\ IF Strict \/ change = "execution"
       THEN DropPending({t})
       ELSE UNCHANGED <<ledger, pend, call, chain>>
    /\ view' = [c \in Calls |->
                  CASE c \notin OnTabs({t}) \/ view[c] = "gone" -> view[c]
                    [] change # "version"                       -> "moved"
                    [] Strict /\ view[c] = "current"            -> "aged"
                    [] OTHER                                    -> view[c]]
    /\ UNCHANGED <<mode, epoch, cached, waits, open, fileVars, historyVars>>

(* Seeded fault: the request of a reconciled record stays in `pending'. *)
TargetTabsKept(c) == {}

(* reconcileOperation.  A request of the record that is still in `pending' *)
(* closes its connection; so does the reconcileTarget of a Perfetto record *)
(* begun by this process.                                                  *)
TargetTabs(c) ==
    IF c \in Calls /\ view[c] # "gone"
       /\ (pend[c] # "none" \/ (KindOf[OpOf[c]] = "perfetto" /\ call[c] = "error"))
    THEN {TabOf[c]} ELSE {}

Reconcile(op, decision) ==
    /\ mode = "running"
    /\ ledger[op].status = "ambiguous"
    /\ LET ts == TargetTabs(ledger[op].owner)
           dropped == MarkAmbiguous(ledger, Dropped(ts))
       IN /\ ledger' = [dropped EXCEPT ![op] =
                          IF decision = "confirmed_not_applied" THEN NoRecord
                          ELSE [@ EXCEPT !.status = "confirmed_applied"]]
          /\ pend' = [c \in Calls |-> IF c \in OnTabs(ts) THEN "none" ELSE pend[c]]
          /\ Return(Unsettled(ts), "error")
          /\ Gone(ts)
    /\ QueuePersist(ledger')
    /\ sent' = [c \in Calls |->
                  IF decision = "confirmed_not_applied" /\ OpOf[c] = op /\ sent[c] = epoch
                  THEN 0 ELSE sent[c]]
    /\ UNCHANGED <<mode, epoch, cached, waits, answered, fileVars>>

-----------------------------------------------------------------------------
(* The process. *)

(* initialize: refuse an epoch rollback, refuse a newer epoch over records *)
(* of an older one, recover, and write the result before serving.          *)
Start(e) ==
    /\ mode = "down"
    /\ archiving = 0
    /\ disk.epoch <= e
    /\ disk.epoch < e => Present(disk.records) = {}
    /\ Cardinality(Present(disk.records)) <= MaxRecords
    /\ mode' = "running"
    /\ epoch' = e
    /\ ledger' = Recovered(disk.records)
    /\ disk' = [epoch |-> e, records |-> ledger']
    /\ UNCHANGED <<cached, chain, call, waits, pend, view, open,
                   archives, archiving, historyVars>>

(* shutdown: every connection is closed and the ledger written once more; *)
(* HTTP and Perfetto calls in flight go on until the process exits.        *)
Shutdown ==
    /\ mode = "running"
    /\ mode' = "closing"
    /\ ledger' = MarkAmbiguous(ledger, Dropped(Tabs))
    /\ pend' = [c \in Calls |-> "none"]
    /\ Return(Unsettled(Tabs), "error")
    /\ QueuePersist(ledger')
    /\ Gone(Tabs)
    /\ UNCHANGED <<epoch, cached, waits, fileVars, historyVars>>

(* The process ends, by exit or by a crash: memory is lost. *)
Crash ==
    /\ Alive
    /\ mode' = "down"
    /\ ledger' = Empty
    /\ cached' = {}
    /\ chain' = <<>>
    /\ call' = [c \in Calls |-> IF call[c] \in Waiting THEN "lost" ELSE call[c]]
    /\ waits' = [c \in Calls |-> NoCall]
    /\ pend' = [c \in Calls |-> "none"]
    /\ view' = [c \in Calls |-> "gone"]
    /\ open' = {}
    /\ UNCHANGED <<epoch, fileVars, historyVars>>

(* Seeded fault: unresolved records are archived too. *)
ArchiveWriteUnresolved(e) ==
    /\ mode = "down"
    /\ archiving = 0
    /\ Present(disk.records) # {}
    /\ e > disk.epoch
    /\ archives' = archives \cup {disk}
    /\ archiving' = e
    /\ UNCHANGED <<daemonVars, disk, historyVars>>

(* archiveOperationLedger, under the data directory lock: validate with    *)
(* terminalOnly, write and verify the archive ...                          *)
ArchiveWrite(e) ==
    /\ mode = "down"
    /\ archiving = 0
    /\ Present(disk.records) # {}
    /\ \A op \in Present(disk.records) : disk.records[op].status \in TerminalStatuses
    /\ e > disk.epoch
    /\ archives' = archives \cup {disk}
    /\ archiving' = e
    /\ UNCHANGED <<daemonVars, disk, historyVars>>

(* Seeded fault: the new ledger is written one epoch too far. *)
ArchiveResetSkips ==
    /\ archiving # 0
    /\ disk \in archives
    /\ disk' = [epoch |-> archiving + 1, records |-> Empty]
    /\ archiving' = 0
    /\ UNCHANGED <<daemonVars, archives, historyVars>>

(* ... then replace the live ledger by an empty one of the next epoch, if  *)
(* it still is the document that was archived.                             *)
ArchiveReset ==
    /\ archiving # 0
    /\ disk \in archives
    /\ disk' = [epoch |-> archiving, records |-> Empty]
    /\ archiving' = 0
    /\ UNCHANGED <<daemonVars, archives, historyVars>>

(* The command fails or is killed between the two. *)
ArchiveAborts ==
    /\ archiving # 0
    /\ archiving' = 0
    /\ UNCHANGED <<daemonVars, disk, archives, historyVars>>

-----------------------------------------------------------------------------

Persist == WriteSucceeds \/ WriteFails

CallStep(c) ==
    \/ BeginDuplicate(c) \/ BeginCached(c) \/ BeginRefused(c) \/ BeginOperation(c)
    \/ Dispatch(c)
    \/ HandleResponse(c) \/ HandleLateResponse(c) \/ Timeout(c) \/ Finish(c)

SessionStep(t) ==
    \/ Connect(t) \/ ConnectionLost(t)
    \/ \E change \in {"version", "resource", "execution"} : ContextUpdate(t, change)

Next ==
    \/ \E c \in Calls : CallStep(c)
    \/ Persist
    \/ \E t \in Tabs : SessionStep(t)
    \/ \E op \in Ops, decision \in {"confirmed_applied", "confirmed_not_applied"} :
            Reconcile(op, decision)
    \/ \E e \in Epochs : Start(e) \/ ArchiveWrite(e)
    \/ Shutdown \/ Crash \/ ArchiveReset \/ ArchiveAborts

Spec == Init /\ [][Next]_vars

(* Writes end, the event loop runs a ready continuation, and every request *)
(* has a timer.                                                            *)
Fairness ==
    /\ WF_vars(Persist)
    /\ \A c \in Calls : /\ WF_vars(Dispatch(c))
                        /\ WF_vars(Timeout(c))
                        /\ WF_vars(Finish(c))

FairSpec == Spec /\ Fairness

-----------------------------------------------------------------------------
(* Properties. *)

(* A request that left the bridge is on disk from before it leaves until   *)
(* an operator judges it not applied: in the live ledger, or in an archive *)
(* of its epoch.  No crash, failed write, late snapshot or maintenance run *)
(* loses it (beginOperation awaits the write; archiveOperationLedger       *)
(* resets the ledger only after the archive is verified).                  *)
DispatchIsDurable ==
    \A c \in Calls : sent[c] # 0 =>
        \E d \in archives \cup {disk} :
            d.epoch = sent[c] /\ d.records[OpOf[c]].owner = c

(* Two calls with the same operation key never both reach the peer, unless *)
(* an operator judged the first not applied or the epoch changed in        *)
(* between: no retry, duplicate, reconnect or restart sends it again.      *)
AtMostOnceDispatch ==
    \A c, d \in Calls :
        c # d /\ OpOf[c] = OpOf[d] /\ sent[c] # 0 => sent[c] # sent[d]

(* A success that a caller sees is a success the peer reported for the     *)
(* same operation with the same arguments, even when the caller was a      *)
(* duplicate or was answered from the result cache.                        *)
SuccessIsGenuine ==
    \A c \in Calls : call[c] = "ok" =>
        \E d \in answered : OpOf[d] = OpOf[c] /\ ArgsOf[d] = ArgsOf[c]

(* A record that reads completed, in memory, in a queued snapshot or on    *)
(* disk, was answered by the peer: a timeout, a lost connection or a late  *)
(* answer never turns into completion.                                     *)
CompletedWasAnswered ==
    \A l \in {ledger, disk.records} \cup {chain[i].snap : i \in DOMAIN chain} :
        \A op \in Ops :
            l[op].status \in {"completed", "completed_no_result"} => l[op].owner \in answered

(* A duplicate waits on a call that is still under way, for the same       *)
(* operation and arguments: it is never left on a promise nobody settles.  *)
DuplicatesAreServed ==
    \A c \in Calls : call[c] = "dup" =>
        /\ waits[c] \in Calls
        /\ call[waits[c]] \in {"persisting", "ready", "sent"}
        /\ OpOf[waits[c]] = OpOf[c] /\ ArgsOf[waits[c]] = ArgsOf[c]

(* An entry of `pending' belongs to the record in the ledger: a live one   *)
(* to a pending record, a tombstone to an ambiguous one, so no answer can  *)
(* reach a record other than the one its request was sent for.             *)
RequestsMatchLedger ==
    \A c \in Calls :
        /\ pend[c] = "live" => ledger[OpOf[c]] = [status |-> "pending", owner |-> c]
        /\ pend[c] = "tombstone" => ledger[OpOf[c]] = [status |-> "ambiguous", owner |-> c]

(* SECURITY.md and TOOLS.md: while the outcome of a request is ambiguous,  *)
(* no further mutation of the same resource and capability is sent.        *)
AmbiguityBlocksDispatch ==
    [][\A c \in Calls : sent[c] = 0 /\ sent'[c] # 0 =>
            \A op \in FindAmbiguous(c) : sent[ledger[op].owner] = 0]_vars

(* Every call returns: the write it awaits ends, its request is answered   *)
(* or times out, and a duplicate returns with the call it joined.          *)
CallsReturn == \A c \in Calls : call[c] \in Waiting ~> call[c] \in Settled

-----------------------------------------------------------------------------
(* What the ledger promises: MutationOnce.  An operation whose daemon is   *)
(* down is what the next start will read from the file.                    *)

Outcome(op) ==
    LET r == IF mode = "down" THEN disk.records[op] ELSE ledger[op]
    IN  CASE r.status = "absent" -> "none"
          [] r.status = "pending" /\ mode # "down" ->
                IF sent[r.owner] = epoch THEN "inflight" ELSE "none"
          [] r.status = "pending" /\ mode = "down" -> "unknown"
          [] r.status = "ambiguous" -> "unknown"
          [] OTHER -> "done"

Out == {OpOf[c] : c \in {d \in Calls : sent[d] = disk.epoch}}

Once == INSTANCE MutationOnce WITH outcome <- [op \in Ops |-> Outcome(op)], out <- Out

(* Every step of the ledger is a step of MutationOnce: only an operation   *)
(* nothing is known of is sent, what was sent is never forgotten, and a    *)
(* new epoch starts only when every outcome is known.                      *)
ImplementsMutationOnce == Once!Spec
=============================================================================
