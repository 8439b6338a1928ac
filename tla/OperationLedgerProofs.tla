------------------------ MODULE OperationLedgerProofs ------------------------
(***************************************************************************)
(* Proofs about OperationLedger for any calls, operations, sessions and    *)
(* bounds: type correctness; that a request is durable before it leaves    *)
(* and leaves at most once; what its callers are told; and that it         *)
(* implements MutationOnce.                                                *)
(*                                                                         *)
(* Durability is not inductive.  The strengthening Durable says where      *)
(* the record of a call must already be: a call that may send, or has sent *)
(* in this epoch, owns its operation in memory, on disk and in every write *)
(* still queued; a call whose write is queued owns its operation in memory *)
(* and in every write from its own on.                                     *)
(*                                                                         *)
(* The last part proves that OperationLedger implements MutationOnce.  The *)
(* invariant adds that the file and the queued writes are never behind on  *)
(* an operation whose outcome was decided, and never ahead of memory       *)
(* (PersistedInv).                                                         *)
(***************************************************************************)
EXTENDS OperationLedger, TLAPS

(* A record that is absent has no owner. *)
WellFormed(l) == \A op \in Ops : l[op].status = "absent" => l[op].owner = NoCall

(* Past the point where the request may have left. *)
Dispatched == {"sent"} \cup Settled

FilesInv ==
    /\ Alive => disk.epoch = epoch /\ archiving = 0
    /\ archiving # 0 => mode = "down" /\ archiving > disk.epoch
    /\ mode = "down" => chain = <<>> /\ \A c \in Calls : call[c] \notin Waiting
    /\ WellFormed(disk.records)

RecordsInv ==
    /\ WellFormed(ledger)
    /\ \A i \in DOMAIN chain : WellFormed(chain[i].snap)

CallsInv ==
    \A c \in Calls :
        /\ call[c] \in {"persisting", "ready"} =>
                ledger[OpOf[c]] = [status |-> "pending", owner |-> c]
        /\ sent[c] # 0 => call[c] \in Dispatched
        /\ pend[c] # "none" => call[c] \in Dispatched

(* A queued write that a call awaits, and every later one, holds the       *)
(* record of that call.                                                    *)
ChainInv ==
    \A i \in DOMAIN chain : chain[i].begins # NoCall =>
        /\ call[chain[i].begins] = "persisting"
        /\ \A j \in DOMAIN chain :
            /\ j >= i => chain[j].snap[OpOf[chain[i].begins]].owner = chain[i].begins
            /\ chain[j].begins = chain[i].begins => j = i

(* Whoever may send, or has sent in the epoch of the file, owns the        *)
(* operation everywhere.                                                   *)
OwnsEverywhere(c) ==
    /\ disk.records[OpOf[c]].owner = c
    /\ Alive => ledger[OpOf[c]].owner = c
    /\ \A i \in DOMAIN chain : chain[i].snap[OpOf[c]].owner = c

Durable ==
    \A c \in Calls :
        /\ call[c] = "ready" => OwnsEverywhere(c)
        /\ sent[c] # 0 => sent[c] <= disk.epoch
        /\ sent[c] = disk.epoch => OwnsEverywhere(c)
        /\ sent[c] # 0 /\ sent[c] # disk.epoch =>
                \E d \in archives : d.epoch = sent[c] /\ d.records[OpOf[c]].owner = c

IInv ==
    /\ TypeOK
    /\ FilesInv /\ RecordsInv /\ CallsInv /\ ChainInv /\ Durable
    /\ AtMostOnceDispatch

-----------------------------------------------------------------------------
(* The helpers of the model. *)

(* A queued write has its type. *)
LEMMA QueueType ==
    ASSUME TypeOK, NEW l \in Ledgers, NEW begins \in Calls \cup {NoCall},
           NEW retry \in BOOLEAN, Queue(l, begins, retry)
    PROVE  chain' \in Seq(Writes)
  BY DEF TypeOK, Queue, Writes

(* markAmbiguous changes no owner, and no status but pending ones of cs. *)
LEMMA MarkEffect ==
    ASSUME NEW l \in Ledgers, NEW cs
    PROVE  /\ MarkAmbiguous(l, cs) \in Ledgers
           /\ \A op \in Ops :
                /\ MarkAmbiguous(l, cs)[op].owner = l[op].owner
                /\ l[op].owner \notin cs => MarkAmbiguous(l, cs)[op] = l[op]
                /\ MarkAmbiguous(l, cs)[op].status = "absent" => l[op].status = "absent"
                /\ MarkAmbiguous(l, cs)[op].status \in {"completed", "completed_no_result"} =>
                        MarkAmbiguous(l, cs)[op] = l[op]
  BY DEF MarkAmbiguous, Ledgers, Records, Statuses

(* Returning touches the calls of cs and their duplicates only. *)
LEMMA ReturnEffect ==
    ASSUME TypeOK, NEW cs, NEW result \in Settled, Return(cs, result)
    PROVE  /\ call' \in [Calls -> CallStates]
           /\ \A c \in Calls :
                \/ call'[c] = call[c] /\ c \notin cs
                \/ call'[c] = result /\ (c \in cs \/ call[c] = "dup")
  BY DEF TypeOK, Return, CallStates

LEMMA RecoveredEffect ==
    ASSUME NEW l \in Ledgers
    PROVE  /\ Recovered(l) \in Ledgers
           /\ \A op \in Ops :
                /\ Recovered(l)[op].owner = l[op].owner
                /\ Recovered(l)[op].status = "absent" => l[op].status = "absent"
                /\ Recovered(l)[op].status \in {"completed", "completed_no_result"} =>
                        Recovered(l)[op] = l[op]
  BY DEF Recovered, Ledgers, Records, Statuses

LEMMA RecordTypes ==
    /\ NoRecord \in Records
    /\ Empty \in Ledgers
    /\ \A c \in Calls : [status |-> "pending", owner |-> c] \in Records
    /\ WellFormed(Empty)
  BY DEF NoRecord, Records, Statuses, Empty, Ledgers, WellFormed

-----------------------------------------------------------------------------
(* Type correctness. *)

LEMMA TypeInit == Init => TypeOK
  BY BoundsAssumption, RecordTypes
     DEF Init, TypeOK, Modes, Epochs, Documents, CallStates

LEMMA TypeStep == TypeOK /\ [Next]_vars => TypeOK'
<1> SUFFICES ASSUME TypeOK, [Next]_vars PROVE TypeOK'
  OBVIOUS
<1> USE CallsAssumption, BoundsAssumption, RecordTypes
<1>1. ASSUME NEW c \in Calls, BeginDuplicate(c) PROVE TypeOK'
  BY <1>1 DEF TypeOK, BeginDuplicate, fileVars, historyVars, CallStates, Waiting,
              Ledgers, Records
<1>2. ASSUME NEW c \in Calls, BeginCached(c) \/ BeginRefused(c) PROVE TypeOK'
  BY <1>2 DEF TypeOK, BeginCached, BeginRefused, fileVars, historyVars, CallStates, Settled
<1>3. ASSUME NEW c \in Calls, BeginOperation(c) PROVE TypeOK'
  <2>1. ledger' \in Ledgers
    BY <1>3 DEF TypeOK, BeginOperation, Ledgers
  <2>2. chain' \in Seq(Writes)
    BY <1>3, <2>1, QueueType DEF BeginOperation
  <2> QED
    BY <1>3, <2>1, <2>2 DEF TypeOK, BeginOperation, fileVars, historyVars, CallStates, Waiting
<1>4. ASSUME WriteSucceeds PROVE TypeOK'
  <2>1. Head(chain) \in Writes /\ chain' \in Seq(Writes)
    BY <1>4 DEF TypeOK, WriteSucceeds
  <2>2. disk' \in Documents
    BY <1>4, <2>1 DEF TypeOK, WriteSucceeds, Documents, Writes
  <2> QED
    BY <1>4, <2>1, <2>2 DEF TypeOK, WriteSucceeds, historyVars, CallStates, Waiting
<1>5. ASSUME WriteFails PROVE TypeOK'
  <2>1. ledger' \in Ledgers
    BY <1>5 DEF TypeOK, WriteFails, Ledgers
  <2>2. chain' \in Seq(Writes)
    <3> DEFINE again == [snap |-> ledger, begins |-> NoCall, retry |-> FALSE]
    <3>1. Tail(chain) \in Seq(Writes)
      BY <1>5 DEF TypeOK, WriteFails
    <3>2. again \in Writes
      BY DEF TypeOK, Writes
    <3>3. chain' \in {Tail(chain), Append(Tail(chain), again)}
      BY <1>5 DEF WriteFails
    <3> HIDE DEF again
    <3> QED
      BY <3>1, <3>2, <3>3
  <2>3. call' \in [Calls -> CallStates]
    BY <1>5, ReturnEffect DEF WriteFails, Settled
  <2> QED
    BY <1>5, <2>1, <2>2, <2>3 DEF TypeOK, WriteFails, fileVars, historyVars
<1>6. ASSUME NEW c \in Calls, NEW retry \in BOOLEAN, Forget(c, retry)
      PROVE  ledger' \in Ledgers /\ chain' \in Seq(Writes) /\ call' \in [Calls -> CallStates]
  <2>1. ledger' \in Ledgers
    BY <1>6 DEF TypeOK, Forget, Ledgers
  <2> QED
    BY <1>6, <2>1, QueueType, ReturnEffect DEF Forget, Settled
<1>7. ASSUME NEW c \in Calls, Doubt(c)
      PROVE  ledger' \in Ledgers /\ chain' \in Seq(Writes) /\ call' \in [Calls -> CallStates]
  <2>1. ledger' \in Ledgers
    BY <1>7, MarkEffect DEF TypeOK, Doubt
  <2> QED
    BY <1>7, <2>1, QueueType, ReturnEffect DEF Doubt, QueuePersist, Settled
<1>8. ASSUME NEW c \in Calls, SendRequest(c)
      PROVE  call' \in [Calls -> CallStates] /\ sent' \in [Calls -> Epochs \cup {0}]
  BY <1>8 DEF TypeOK, SendRequest, CallStates, Waiting
<1>9. ASSUME NEW c \in Calls, StoreCompleted(c)
      PROVE  /\ ledger' \in Ledgers /\ chain' \in Seq(Writes) /\ call' \in [Calls -> CallStates]
             /\ cached' \in SUBSET Ops /\ answered' \in SUBSET Calls
  <2>1. PICK keep \in BOOLEAN :
            /\ ledger' = [op \in Ops |->
                            IF ledger[op].owner = c
                            THEN [ledger[op] EXCEPT !.status =
                                    IF keep THEN "completed" ELSE "completed_no_result"]
                            ELSE ledger[op]]
            /\ cached' = IF keep THEN cached \cup {OpOf[c]} ELSE cached
            /\ QueuePersist(ledger')
            /\ Return({c}, "ok")
            /\ answered' = answered \cup {c}
    BY <1>9 DEF StoreCompleted
  <2>2. ledger' \in Ledgers
    BY <2>1 DEF TypeOK, Ledgers, Records, Statuses
  <2> QED
    <3>1. chain' \in Seq(Writes)
      BY <2>1, <2>2, QueueType DEF QueuePersist
    <3>2. call' \in [Calls -> CallStates]
      BY <2>1, ReturnEffect DEF Settled
    <3>3. cached' \in SUBSET Ops /\ answered' \in SUBSET Calls
      BY <2>1 DEF TypeOK
    <3> QED
      BY <2>2, <3>1, <3>2, <3>3
<1>10. ASSUME NEW c \in Calls, Dispatch(c) PROVE TypeOK'
  BY <1>10, <1>6, <1>7, <1>8
     DEF TypeOK, Dispatch, DispatchBrowser, SendFailed, AbandonBrowser, DispatchHttp,
         DispatchPerfetto, fileVars, historyVars
<1>11. ASSUME NEW c \in Calls, HandleResponse(c) \/ HandleLateResponse(c) \/ Timeout(c) \/ Finish(c)
       PROVE  TypeOK'
  <2>1. CASE HandleResponse(c)
    BY <2>1, <1>7, <1>9 DEF TypeOK, HandleResponse, fileVars
  <2>2. CASE HandleLateResponse(c)
    BY <2>2, QueueType DEF TypeOK, HandleLateResponse, QueuePersist, fileVars, historyVars
  <2>3. CASE Timeout(c)
    BY <2>3, <1>7 DEF TypeOK, Timeout, fileVars, historyVars
  <2>4. CASE Finish(c)
    BY <2>4, <1>7, <1>9 DEF TypeOK, Finish, fileVars
  <2> QED
    BY <1>11, <2>1, <2>2, <2>3, <2>4
<1>12. ASSUME NEW ts, DropPending(ts)
       PROVE  /\ ledger' \in Ledgers /\ chain' \in Seq(Writes) /\ call' \in [Calls -> CallStates]
              /\ pend' \in [Calls -> {"none", "live", "tombstone"}]
  <2>1. ledger' \in Ledgers
    BY <1>12, MarkEffect DEF TypeOK, DropPending
  <2> QED
    <3>1. chain' \in Seq(Writes)
      BY <1>12, <2>1, QueueType DEF TypeOK, DropPending, QueuePersist
    <3>2. call' \in [Calls -> CallStates]
      BY <1>12, ReturnEffect DEF DropPending, Settled
    <3>3. pend' \in [Calls -> {"none", "live", "tombstone"}]
      BY <1>12 DEF TypeOK, DropPending
    <3> QED
      BY <2>1, <3>1, <3>2, <3>3
<1>13. ASSUME NEW t \in Tabs, SessionStep(t) PROVE TypeOK'
  <2>1. CASE Connect(t)
    BY <2>1 DEF TypeOK, Connect, fileVars, historyVars
  <2>2. CASE ConnectionLost(t)
    BY <2>2, <1>12 DEF TypeOK, ConnectionLost, Gone, fileVars, historyVars
  <2>3. ASSUME NEW change, ContextUpdate(t, change) PROVE TypeOK'
    <3>1. /\ ledger' \in Ledgers /\ chain' \in Seq(Writes) /\ call' \in [Calls -> CallStates]
          /\ pend' \in [Calls -> {"none", "live", "tombstone"}]
      BY <2>3, <1>12 DEF TypeOK, ContextUpdate
    <3>2. view' \in [Calls -> {"current", "aged", "moved", "gone"}]
      BY <2>3 DEF TypeOK, ContextUpdate
    <3> QED
      BY <2>3, <3>1, <3>2 DEF TypeOK, ContextUpdate, fileVars, historyVars
  <2> QED
    BY <1>13, <2>1, <2>2, <2>3 DEF SessionStep
<1>14. ASSUME NEW op \in Ops, NEW decision, Reconcile(op, decision) PROVE TypeOK'
  <2> DEFINE ts == TargetTabs(ledger[op].owner)
             dropped == MarkAmbiguous(ledger, Dropped(ts))
  <2>1. dropped \in Ledgers
    BY MarkEffect DEF TypeOK
  <2>2. ledger' = [dropped EXCEPT ![op] = IF decision = "confirmed_not_applied" THEN NoRecord
                                          ELSE [@ EXCEPT !.status = "confirmed_applied"]]
    BY <1>14 DEF Reconcile
  <2> HIDE DEF dropped
  <2>3. ledger' \in Ledgers
    <3>1. [dropped[op] EXCEPT !.status = "confirmed_applied"] \in Records
      BY <2>1 DEF Ledgers, Records, Statuses
    <3> QED
      BY <2>1, <2>2, <3>1 DEF Ledgers
  <2>4. chain' \in Seq(Writes)
    BY <1>14, <2>3, QueueType DEF Reconcile, QueuePersist
  <2>5. Return(Unsettled(ts), "error") /\ Gone(ts)
    BY <1>14 DEF Reconcile
  <2>6. call' \in [Calls -> CallStates]
    BY <2>5, ReturnEffect DEF Settled
  <2> QED
    BY <1>14, <2>3, <2>4, <2>5, <2>6 DEF TypeOK, Reconcile, Gone, fileVars
<1>15. ASSUME NEW e \in Epochs, Start(e) \/ ArchiveWrite(e) PROVE TypeOK'
  <2>1. CASE Start(e)
    <3>1. disk.records \in Ledgers
      BY DEF TypeOK, Documents
    <3>2. ledger' \in Ledgers
      BY <2>1, <3>1, RecoveredEffect DEF Start
    <3>3. disk' \in Documents
      BY <2>1, <3>2 DEF Start, Documents
    <3> QED
      BY <2>1, <3>2, <3>3 DEF TypeOK, Start, historyVars, Modes
  <2>2. CASE ArchiveWrite(e)
    BY <2>2 DEF TypeOK, ArchiveWrite, daemonVars, historyVars
  <2> QED
    BY <1>15, <2>1, <2>2
<1>16. ASSUME Shutdown PROVE TypeOK'
  <2>1. ledger' \in Ledgers
    BY <1>16, MarkEffect DEF TypeOK, Shutdown
  <2>2. chain' \in Seq(Writes) /\ call' \in [Calls -> CallStates]
    BY <1>16, <2>1, QueueType, ReturnEffect DEF Shutdown, QueuePersist, Settled
  <2> QED
    BY <1>16, <2>1, <2>2 DEF TypeOK, Shutdown, Gone, Modes, fileVars, historyVars
<1>17. ASSUME Crash PROVE TypeOK'
  BY <1>17 DEF TypeOK, Crash, Modes, CallStates, Settled, fileVars, historyVars
<1>18. ASSUME ArchiveReset \/ ArchiveAborts PROVE TypeOK'
  BY <1>18 DEF TypeOK, ArchiveReset, ArchiveAborts, Documents, daemonVars, historyVars
<1>19. CASE UNCHANGED vars
  BY <1>19 DEF TypeOK, vars, daemonVars, fileVars, historyVars
<1> QED
  BY <1>1, <1>2, <1>3, <1>4, <1>5, <1>10, <1>11, <1>13, <1>14, <1>15, <1>16, <1>17, <1>18, <1>19
     DEF Next, CallStep, Persist

(* Every variable of the ledger keeps its type, for all constants. *)
THEOREM TypeCorrect == Spec => []TypeOK
  BY TypeInit, TypeStep, PTL DEF Spec

-----------------------------------------------------------------------------
(* The inductive invariant.  Most handlers only change statuses: they      *)
(* leave owners, files and history alone, end calls that wait or have      *)
(* sent, and queue the ledger they leave.                                  *)

QuietStep ==
    /\ Alive /\ Alive'
    /\ UNCHANGED <<epoch, disk, archives, archiving, sent>>
    /\ \A op \in Ops :
        /\ ledger'[op].owner = ledger[op].owner
        /\ ledger'[op].status = "absent" => ledger[op].status = "absent"
    /\ \A c \in Calls :
        /\ call'[c] \in {"persisting", "ready"} =>
                call'[c] = call[c] /\ ledger'[OpOf[c]] = ledger[OpOf[c]]
        /\ call[c] = "persisting" => call'[c] = "persisting"
        /\ call[c] \in Dispatched => call'[c] \in Dispatched
        /\ pend'[c] # "none" => pend[c] # "none"
    /\ chain' = chain \/ QueuePersist(ledger')

(* Indices of the chain after a write is queued. *)
LEMMA QueueEffect ==
    ASSUME TypeOK, TypeOK', NEW l \in Ledgers, NEW begins \in Calls \cup {NoCall},
           NEW retry \in BOOLEAN, Queue(l, begins, retry)
    PROVE  /\ DOMAIN chain' = DOMAIN chain \cup {Len(chain) + 1}
           /\ \A i \in DOMAIN chain : i \in Nat /\ i <= Len(chain) /\ chain'[i] = chain[i]
           /\ Len(chain) \in Nat
           /\ chain'[Len(chain) + 1].snap = l
           /\ chain'[Len(chain) + 1].begins = begins
  BY DEF TypeOK, Queue, Writes

(* Indices of the chain after its head is taken off. *)
LEMMA TailEffect ==
    ASSUME TypeOK, chain # <<>>
    PROVE  /\ 1 \in DOMAIN chain /\ chain[1] = Head(chain)
           /\ \A i \in DOMAIN Tail(chain) :
                /\ i \in Nat \ {0} /\ i + 1 \in DOMAIN chain
                /\ Tail(chain)[i] = chain[i + 1]
  BY DEF TypeOK

LEMMA ChainElement ==
    ASSUME TypeOK, NEW i \in DOMAIN chain
    PROVE  /\ chain[i] \in Writes
           /\ chain[i].snap \in Ledgers
           /\ chain[i].begins \in Calls \cup {NoCall}
<1>1. chain[i] \in Writes
  BY DEF TypeOK
<1> QED
  BY <1>1 DEF Writes

LEMMA QuietInv ==
    ASSUME IInv, TypeOK', QuietStep
    PROVE  IInv'
<1> USE CallsAssumption
<1>0. TypeOK /\ ledger' \in Ledgers
  BY DEF IInv, TypeOK
<1>1. CASE chain' = chain
  <2>1. FilesInv'
    BY <1>1 DEF IInv, QuietStep, FilesInv, Alive, TypeOK
  <2>2. RecordsInv'
    BY <1>1 DEF IInv, QuietStep, RecordsInv, WellFormed
  <2>3. CallsInv'
    BY <1>1 DEF IInv, QuietStep, CallsInv
  <2>4. ChainInv'
    BY <1>0, <1>1, ChainElement DEF IInv, QuietStep, ChainInv
  <2>5. Durable' /\ AtMostOnceDispatch'
    BY <1>0, <1>1 DEF IInv, QuietStep, Durable, OwnsEverywhere, AtMostOnceDispatch, TypeOK
  <2> QED
    BY <2>1, <2>2, <2>3, <2>4, <2>5 DEF IInv
<1>2. CASE QueuePersist(ledger')
  <2>0. /\ DOMAIN chain' = DOMAIN chain \cup {Len(chain) + 1}
        /\ \A i \in DOMAIN chain : i \in Nat /\ i <= Len(chain) /\ chain'[i] = chain[i]
        /\ Len(chain) \in Nat
        /\ chain'[Len(chain) + 1].snap = ledger'
        /\ chain'[Len(chain) + 1].begins = NoCall
    BY <1>0, <1>2, QueueEffect DEF QueuePersist
  <2>1. FilesInv'
    BY DEF IInv, QuietStep, FilesInv, Alive, TypeOK
  <2>2. RecordsInv'
    BY <2>0 DEF IInv, QuietStep, RecordsInv, WellFormed
  <2>3. CallsInv'
    BY DEF IInv, QuietStep, CallsInv
  <2>4. ChainInv'
    <3> SUFFICES ASSUME NEW i \in DOMAIN chain', chain'[i].begins # NoCall
                 PROVE  /\ call'[chain'[i].begins] = "persisting"
                        /\ \A j \in DOMAIN chain' :
                            /\ j >= i => chain'[j].snap[OpOf[chain'[i].begins]].owner = chain'[i].begins
                            /\ chain'[j].begins = chain'[i].begins => j = i
      BY DEF ChainInv
    <3> DEFINE b == chain[i].begins
    <3>1. i \in DOMAIN chain /\ chain'[i] = chain[i] /\ b # NoCall
      BY <2>0
    <3>2. b \in Calls
      BY <1>0, <3>1, ChainElement
    <3>3. call[b] = "persisting" /\ call'[b] = "persisting"
      BY <3>1, <3>2 DEF IInv, ChainInv, QuietStep
    <3>4. ledger'[OpOf[b]].owner = b
      <4> HIDE DEF b
      <4>1. ledger[OpOf[b]] = [status |-> "pending", owner |-> b]
        BY <3>2, <3>3 DEF IInv, CallsInv
      <4>2. OpOf[b] \in Ops
        BY <3>2
      <4> QED
        BY <4>1, <4>2 DEF QuietStep
    <3> QED
      BY <2>0, <3>1, <3>2, <3>3, <3>4 DEF IInv, ChainInv
  <2>5. Durable'
    <3> SUFFICES ASSUME NEW c \in Calls, OwnsEverywhere(c) PROVE OwnsEverywhere(c)'
      BY DEF IInv, QuietStep, Durable, OwnsEverywhere
    <3> QED
      BY <2>0 DEF QuietStep, OwnsEverywhere
  <2>6. AtMostOnceDispatch'
    BY DEF IInv, QuietStep, AtMostOnceDispatch
  <2> QED
    BY <2>1, <2>2, <2>3, <2>4, <2>5, <2>6 DEF IInv
<1> QED
  BY <1>1, <1>2 DEF QuietStep

(* The pending records that change are records of the calls cs. *)
Touches(cs) ==
    \A op \in Ops :
        /\ ledger'[op].owner = ledger[op].owner
        /\ ledger'[op].status = "absent" => ledger[op].status = "absent"
        /\ \/ ledger'[op] = ledger[op]
           \/ ledger[op].status # "pending"
           \/ ledger[op].owner \in cs

(* A step that ends the calls cs and touches the records of calls that end *)
(* or have sent is quiet.                                                  *)
LEMMA EndingIsQuiet ==
    ASSUME IInv, TypeOK', Alive, Alive',
           UNCHANGED <<epoch, disk, archives, archiving, sent>>,
           NEW cs, NEW touched, NEW result \in Settled,
           Return(cs, result),
           \A c \in Calls : c \in cs => call[c] # "persisting",
           \A c \in Calls : c \in touched => c \in cs \/ call[c] \notin {"persisting", "ready"},
           \A c \in Calls : pend'[c] # "none" => pend[c] # "none",
           Touches(touched),
           chain' = chain \/ QueuePersist(ledger')
    PROVE  QuietStep
<1> USE CallsAssumption
<1>1. \A c \in Calls : \/ call'[c] = call[c] /\ c \notin cs
                       \/ call'[c] = result /\ (c \in cs \/ call[c] = "dup")
  BY ReturnEffect DEF IInv
<1>2. ASSUME NEW c \in Calls, call'[c] \in {"persisting", "ready"}
      PROVE  call'[c] = call[c] /\ ledger'[OpOf[c]] = ledger[OpOf[c]]
  <2>1. call'[c] = call[c] /\ c \notin cs
    BY <1>1, <1>2 DEF Settled
  <2>2. ledger[OpOf[c]] = [status |-> "pending", owner |-> c]
    BY <1>2, <2>1 DEF IInv, CallsInv
  <2>3. OpOf[c] \in Ops
    OBVIOUS
  <2> QED
    BY <1>2, <2>1, <2>2, <2>3 DEF Touches
<1>3. \A c \in Calls : /\ call[c] = "persisting" => call'[c] = "persisting"
                       /\ call[c] \in Dispatched => call'[c] \in Dispatched
  BY <1>1 DEF Dispatched, Settled
<1> QED
  BY <1>2, <1>3 DEF QuietStep, Touches

(* Doubt and StoreCompleted, for a call that is not waiting for its write. *)
LEMMA DoubtIsQuiet ==
    ASSUME IInv, TypeOK', Alive, Alive', NEW c \in Calls, call[c] # "persisting",
           UNCHANGED <<epoch, disk, archives, archiving, sent>>,
           \A d \in Calls : pend'[d] # "none" => pend[d] # "none",
           Doubt(c)
    PROVE  QuietStep
<1>1. Touches({c})
  BY MarkEffect DEF Touches, Doubt, IInv, TypeOK
<1>2. Return({c}, "error") /\ QueuePersist(ledger')
  BY DEF Doubt
<1> QED
  BY <1>1, <1>2, EndingIsQuiet DEF Settled

LEMMA StoreIsQuiet ==
    ASSUME IInv, TypeOK', Alive, Alive', NEW c \in Calls, call[c] # "persisting",
           UNCHANGED <<epoch, disk, archives, archiving, sent>>,
           \A d \in Calls : pend'[d] # "none" => pend[d] # "none",
           StoreCompleted(c)
    PROVE  QuietStep
<1>1. PICK keep \in BOOLEAN :
            /\ ledger' = [op \in Ops |->
                            IF ledger[op].owner = c
                            THEN [ledger[op] EXCEPT !.status =
                                    IF keep THEN "completed" ELSE "completed_no_result"]
                            ELSE ledger[op]]
            /\ QueuePersist(ledger')
            /\ Return({c}, "ok")
  BY DEF StoreCompleted
<1>2. Touches({c})
  BY <1>1 DEF Touches, IInv, TypeOK, Ledgers, Records
<1> QED
  BY <1>1, <1>2, EndingIsQuiet DEF Settled

(* dropConnectionPending, wherever it is called from. *)
LEMMA DropIsQuiet ==
    ASSUME IInv, TypeOK', Alive, Alive', NEW ts,
           UNCHANGED <<epoch, disk, archives, archiving, sent>>,
           ledger' = MarkAmbiguous(ledger, Dropped(ts)),
           \A d \in Calls : pend'[d] # "none" => pend[d] # "none",
           Return(Unsettled(ts), "error"),
           chain' = chain \/ QueuePersist(ledger')
    PROVE  QuietStep
<1>1. Touches(Dropped(ts))
  BY MarkEffect DEF Touches, IInv, TypeOK
<1>2. \A c \in Calls : c \in Dropped(ts) \/ c \in Unsettled(ts) =>
            call[c] \notin {"persisting", "ready"}
  BY DEF Dropped, Unsettled, IInv, CallsInv, Dispatched, Settled
<1> QED
  BY <1>1, <1>2, EndingIsQuiet DEF Settled

(* The request leaves: the call owns its operation everywhere, so no other *)
(* call of the operation has sent in this epoch.                           *)
LEMMA SendInv ==
    ASSUME IInv, TypeOK', Alive, NEW c \in Calls, call[c] = "ready", SendRequest(c),
           UNCHANGED <<mode, epoch, ledger, chain, disk, archives, archiving>>,
           \A d \in Calls : pend'[d] # "none" => pend[d] # "none" \/ d = c
    PROVE  IInv'
<1> USE CallsAssumption
<1>0. TypeOK /\ disk.epoch = epoch /\ disk' = disk /\ sent[c] = 0
  BY DEF IInv, FilesInv, CallsInv, Dispatched, Settled
<1>1. /\ call'[c] = "sent" /\ sent'[c] = epoch
      /\ \A d \in Calls : d # c => call'[d] = call[d] /\ sent'[d] = sent[d]
  BY DEF SendRequest, IInv, TypeOK
<1>2. FilesInv'
  BY <1>0 DEF IInv, FilesInv, Alive
<1>3. RecordsInv'
  BY DEF IInv, RecordsInv
<1>4. CallsInv'
  BY <1>1 DEF IInv, CallsInv, Dispatched
<1>5. ChainInv'
  <2>1. \A i \in DOMAIN chain : chain[i].begins # c
    BY DEF IInv, ChainInv
  <2> QED
    BY <1>0, <1>1, <2>1, ChainElement DEF IInv, ChainInv
<1>6. \A d \in Calls : OwnsEverywhere(d)' = OwnsEverywhere(d)
  BY <1>0 DEF OwnsEverywhere, Alive
<1>7. OwnsEverywhere(c)
  BY DEF IInv, Durable
<1>8. Durable'
  BY <1>0, <1>1, <1>6, <1>7 DEF IInv, Durable, TypeOK, Epochs
<1>9. AtMostOnceDispatch'
  <2>1. \A d \in Calls : d # c /\ OpOf[d] = OpOf[c] => sent[d] # epoch
    BY <1>0, <1>7 DEF IInv, Durable, OwnsEverywhere
  <2> QED
    BY <1>0, <1>1, <2>1 DEF IInv, AtMostOnceDispatch
<1> QED
  BY <1>2, <1>3, <1>4, <1>5, <1>8, <1>9 DEF IInv

(* One record is removed and the ledger queued: nobody who may send, or    *)
(* still counts as sent, owned it.                                         *)
LEMMA RemoveInv ==
    ASSUME IInv, TypeOK', Alive, Alive', NEW op \in Ops, NEW retry \in BOOLEAN,
           UNCHANGED <<epoch, disk, archives, archiving>>,
           \A o \in Ops \ {op} :
                /\ ledger'[o].owner = ledger[o].owner
                /\ ledger'[o].status = "absent" => ledger[o].status = "absent",
           ledger'[op] = NoRecord,
           Queue(ledger', NoCall, retry),
           \A c \in Calls :
                /\ sent'[c] \in {sent[c], 0}
                /\ OpOf[c] = op => sent'[c] # epoch
                /\ call'[c] \in {"persisting", "ready"} =>
                        /\ call'[c] = call[c] /\ OpOf[c] # op
                        /\ ledger'[OpOf[c]] = ledger[OpOf[c]]
                /\ call[c] = "persisting" => call'[c] = "persisting"
                /\ call[c] \in Dispatched => call'[c] \in Dispatched
                /\ pend'[c] # "none" => pend[c] # "none"
    PROVE  IInv'
<1> USE CallsAssumption
<1>0. TypeOK /\ ledger' \in Ledgers /\ disk.epoch = epoch /\ disk' = disk
  BY DEF IInv, FilesInv, TypeOK
<1>1. /\ DOMAIN chain' = DOMAIN chain \cup {Len(chain) + 1}
      /\ \A i \in DOMAIN chain : i \in Nat /\ i <= Len(chain) /\ chain'[i] = chain[i]
      /\ Len(chain) \in Nat
      /\ chain'[Len(chain) + 1].snap = ledger'
      /\ chain'[Len(chain) + 1].begins = NoCall
  BY <1>0 DEF Queue, TypeOK, Writes
<1>2. FilesInv'
  BY <1>0 DEF IInv, FilesInv, Alive, TypeOK
<1>3. WellFormed(ledger')
  BY DEF IInv, RecordsInv, WellFormed, NoRecord
<1>4. RecordsInv'
  BY <1>1, <1>3 DEF IInv, RecordsInv, WellFormed
<1>5. CallsInv'
  BY DEF IInv, CallsInv
<1>6. ASSUME NEW i \in DOMAIN chain, chain[i].begins # NoCall
      PROVE  /\ chain[i].begins \in Calls
             /\ call'[chain[i].begins] = "persisting"
             /\ ledger'[OpOf[chain[i].begins]].owner = chain[i].begins
  <2>1. PICK b \in Calls : b = chain[i].begins
    BY <1>0, <1>6, ChainElement
  <2>2. call[b] = "persisting" /\ call'[b] = "persisting"
    BY <1>6, <2>1 DEF IInv, ChainInv
  <2>3. ledger[OpOf[b]] = [status |-> "pending", owner |-> b]
    BY <2>2 DEF IInv, CallsInv
  <2> QED
    BY <2>1, <2>2, <2>3
<1>7. ChainInv'
  BY <1>1, <1>6 DEF IInv, ChainInv
<1>8. ASSUME NEW c \in Calls, OwnsEverywhere(c), OpOf[c] # op PROVE OwnsEverywhere(c)'
  BY <1>0, <1>1, <1>8 DEF OwnsEverywhere
<1>9. Durable'
  <2> SUFFICES ASSUME NEW c \in Calls
               PROVE  /\ call'[c] = "ready" => OwnsEverywhere(c)'
                      /\ sent'[c] # 0 => sent'[c] <= disk.epoch
                      /\ sent'[c] = disk.epoch => OwnsEverywhere(c)'
                      /\ sent'[c] # 0 /\ sent'[c] # disk.epoch =>
                            \E d \in archives : d.epoch = sent'[c] /\ d.records[OpOf[c]].owner = c
    BY <1>0 DEF Durable
  <2>1. epoch # 0
    BY <1>0 DEF TypeOK, Epochs
  <2>2. call'[c] = "ready" => OwnsEverywhere(c)'
    BY <1>8 DEF IInv, Durable
  <2>3. sent'[c] = disk.epoch => OwnsEverywhere(c)'
    BY <1>0, <1>8, <2>1 DEF IInv, Durable
  <2> QED
    BY <1>0, <2>2, <2>3 DEF IInv, Durable
<1>10. AtMostOnceDispatch'
  BY DEF IInv, AtMostOnceDispatch
<1> QED
  BY <1>2, <1>4, <1>5, <1>7, <1>9, <1>10 DEF IInv

LEMMA ForgetInv ==
    ASSUME IInv, TypeOK', Alive, NEW c \in Calls, call[c] = "ready",
           NEW retry \in BOOLEAN, Forget(c, retry),
           UNCHANGED <<mode, epoch, disk, archives, archiving, pend, sent>>
    PROVE  IInv'
<1> USE CallsAssumption
<1>1. \A d \in Calls : \/ call'[d] = call[d] /\ d \notin {c}
                       \/ call'[d] = "error" /\ (d \in {c} \/ call[d] = "dup")
  BY ReturnEffect DEF Forget, IInv, Settled
<1>2. /\ ledger'[OpOf[c]] = NoRecord
      /\ \A o \in Ops \ {OpOf[c]} : ledger'[o] = ledger[o]
  BY DEF Forget, IInv, TypeOK, Ledgers
<1>3. ledger[OpOf[c]] = [status |-> "pending", owner |-> c] /\ sent[c] = 0
  BY DEF IInv, CallsInv, Dispatched, Settled
<1>4. ASSUME NEW d \in Calls, OpOf[d] = OpOf[c] PROVE sent[d] # epoch
  BY <1>3, <1>4 DEF IInv, Durable, OwnsEverywhere, FilesInv, TypeOK, Epochs
<1>5. ASSUME NEW d \in Calls, call'[d] \in {"persisting", "ready"}
      PROVE  call'[d] = call[d] /\ OpOf[d] # OpOf[c] /\ ledger'[OpOf[d]] = ledger[OpOf[d]]
  <2>1. call'[d] = call[d] /\ d # c
    BY <1>1, <1>5
  <2>2. ledger[OpOf[d]] = [status |-> "pending", owner |-> d]
    BY <1>5, <2>1 DEF IInv, CallsInv
  <2> QED
    BY <1>2, <1>3, <2>1, <2>2
<1>6. \A d \in Calls : /\ call[d] = "persisting" => call'[d] = "persisting"
                       /\ call[d] \in Dispatched => call'[d] \in Dispatched
  BY <1>1 DEF Dispatched, Settled
<1>7. Queue(ledger', NoCall, retry)
  BY DEF Forget
<1> HIDE DEF Forget
<1> QED
  BY <1>2, <1>4, <1>5, <1>6, <1>7, RemoveInv DEF Alive

(* Local reconciliation: the decided record was ambiguous, so no call that *)
(* may still send owns it.                                                 *)
LEMMA ReconcileInv ==
    ASSUME IInv, TypeOK', NEW op \in Ops, NEW decision, Reconcile(op, decision)
    PROVE  IInv'
<1> USE CallsAssumption
<1> DEFINE ts == TargetTabs(ledger[op].owner)
           dropped == MarkAmbiguous(ledger, Dropped(ts))
<1>1. \A o \in Ops : /\ dropped[o].owner = ledger[o].owner
                     /\ ledger[o].owner \notin Dropped(ts) => dropped[o] = ledger[o]
                     /\ dropped[o].status = "absent" => ledger[o].status = "absent"
  BY MarkEffect DEF IInv, TypeOK
<1>2. /\ ledger' = [dropped EXCEPT ![op] = IF decision = "confirmed_not_applied" THEN NoRecord
                                           ELSE [@ EXCEPT !.status = "confirmed_applied"]]
      /\ Return(Unsettled(ts), "error")
      /\ QueuePersist(ledger')
  BY DEF Reconcile
<1>3. dropped \in Ledgers
  BY MarkEffect DEF IInv, TypeOK
<1>4. \A c \in Calls : c \in Dropped(ts) \/ c \in Unsettled(ts) =>
            call[c] \notin {"persisting", "ready"}
  BY DEF Dropped, Unsettled, IInv, CallsInv, Dispatched, Settled
<1>5. /\ Alive /\ Alive' /\ ledger[op].status = "ambiguous"
      /\ UNCHANGED <<epoch, disk, archives, archiving>>
      /\ \A d \in Calls : pend'[d] # "none" => pend[d] # "none"
  BY DEF Reconcile, Alive, fileVars
<1> HIDE DEF ts, dropped
<1>6. CASE decision # "confirmed_not_applied"
  <2>1. ledger'[op] = [dropped[op] EXCEPT !.status = "confirmed_applied"]
    BY <1>2, <1>3, <1>6 DEF Ledgers
  <2>2. \A o \in Ops \ {op} : ledger'[o] = dropped[o]
    BY <1>2, <1>3 DEF Ledgers
  <2>3. Touches(Dropped(ts))
    BY <1>1, <1>3, <1>5, <2>1, <2>2 DEF Touches, Ledgers, Records
  <2>4. UNCHANGED sent
    BY <1>6 DEF Reconcile, IInv, TypeOK
  <2>5. QuietStep
    BY <1>2, <1>4, <1>5, <2>3, <2>4, EndingIsQuiet DEF Settled
  <2> QED
    BY <2>5, QuietInv
<1>7. CASE decision = "confirmed_not_applied"
  <2>1. ledger'[op] = NoRecord
    BY <1>2, <1>3, <1>7 DEF Ledgers
  <2>2. \A o \in Ops \ {op} : ledger'[o] = dropped[o]
    BY <1>2, <1>3 DEF Ledgers
  <2>3. \A c \in Calls : sent'[c] \in {sent[c], 0} /\ (OpOf[c] = op => sent'[c] # epoch)
    BY <1>7 DEF Reconcile, IInv, TypeOK, Epochs
  <2>4. \A c \in Calls : \/ call'[c] = call[c] /\ c \notin Unsettled(ts)
                         \/ call'[c] = "error" /\ (c \in Unsettled(ts) \/ call[c] = "dup")
    BY <1>2, ReturnEffect DEF IInv, Settled
  <2>5. ASSUME NEW c \in Calls, call'[c] \in {"persisting", "ready"}
        PROVE  call'[c] = call[c] /\ OpOf[c] # op /\ ledger'[OpOf[c]] = ledger[OpOf[c]]
    <3>1. call'[c] = call[c] /\ c \notin Dropped(ts)
      BY <1>4, <2>4, <2>5
    <3>2. ledger[OpOf[c]] = [status |-> "pending", owner |-> c]
      BY <2>5, <3>1 DEF IInv, CallsInv
    <3>3. OpOf[c] \in Ops \ {op}
      BY <1>5, <3>2
    <3> QED
      BY <1>1, <2>2, <3>1, <3>2, <3>3
  <2>6. \A c \in Calls : /\ call[c] = "persisting" => call'[c] = "persisting"
                         /\ call[c] \in Dispatched => call'[c] \in Dispatched
    BY <1>4, <2>4 DEF Dispatched, Settled
  <2>7. Queue(ledger', NoCall, FALSE)
    BY <1>2 DEF QueuePersist
  <2>8. \A o \in Ops \ {op} :
            /\ ledger'[o].owner = ledger[o].owner
            /\ ledger'[o].status = "absent" => ledger[o].status = "absent"
    BY <1>1, <2>2
  <2>9. \A c \in Calls :
            /\ sent'[c] \in {sent[c], 0}
            /\ OpOf[c] = op => sent'[c] # epoch
            /\ call'[c] \in {"persisting", "ready"} =>
                    /\ call'[c] = call[c] /\ OpOf[c] # op
                    /\ ledger'[OpOf[c]] = ledger[OpOf[c]]
            /\ call[c] = "persisting" => call'[c] = "persisting"
            /\ call[c] \in Dispatched => call'[c] \in Dispatched
            /\ pend'[c] # "none" => pend[c] # "none"
    BY <1>5, <2>3, <2>5, <2>6
  <2>10. FALSE \in BOOLEAN
    OBVIOUS
  <2> QED
    BY <1>5, <2>1, <2>7, <2>8, <2>9, <2>10, RemoveInv
<1> QED
  BY <1>6, <1>7

(* A new record: its operation had none, so nobody owned it. *)
LEMMA BeginInv ==
    ASSUME IInv, TypeOK', NEW c \in Calls, BeginOperation(c)
    PROVE  IInv'
<1> USE CallsAssumption
<1> DEFINE op == OpOf[c]
<1>0. /\ TypeOK /\ ledger' \in Ledgers /\ disk.epoch = epoch
      /\ Alive /\ Alive' /\ op \in Ops
      /\ UNCHANGED <<mode, epoch, disk, archives, archiving, pend, sent>>
  BY DEF IInv, FilesInv, TypeOK, BeginOperation, Entering, Alive, fileVars, historyVars
<1>1. /\ ledger'[op] = [status |-> "pending", owner |-> c]
      /\ \A o \in Ops \ {op} : ledger'[o] = ledger[o]
      /\ call[c] = "idle" /\ call'[c] = "persisting"
      /\ \A d \in Calls \ {c} : call'[d] = call[d]
  BY <1>0 DEF TypeOK, BeginOperation, Entering, Ledgers
<1>2. ledger[op].status = "absent" /\ ledger[op].owner = NoCall
  BY <1>0 DEF BeginOperation, Existing, IInv, RecordsInv, WellFormed
<1>3. /\ DOMAIN chain' = DOMAIN chain \cup {Len(chain) + 1}
      /\ \A i \in DOMAIN chain : i \in Nat /\ i <= Len(chain) /\ chain'[i] = chain[i]
      /\ Len(chain) \in Nat
      /\ chain'[Len(chain) + 1].snap = ledger'
      /\ chain'[Len(chain) + 1].begins = c
  BY <1>0 DEF BeginOperation, Queue, TypeOK, Writes
<1>4. FilesInv'
  BY <1>0 DEF IInv, FilesInv, Alive, TypeOK
<1>5. WellFormed(ledger')
  BY <1>1 DEF IInv, RecordsInv, WellFormed
<1>6. RecordsInv'
  BY <1>3, <1>5 DEF IInv, RecordsInv, WellFormed
<1>7. ASSUME NEW d \in Calls, OpOf[d] = op
      PROVE  call[d] \notin {"persisting", "ready"} /\ ~OwnsEverywhere(d)
  <2>1. d # NoCall
    OBVIOUS
  <2>2. ~OwnsEverywhere(d)
    BY <1>0, <1>2, <1>7, <2>1 DEF OwnsEverywhere
  <2>3. call[d] \in {"persisting", "ready"} =>
            ledger[OpOf[d]] = [status |-> "pending", owner |-> d]
    BY DEF IInv, CallsInv
  <2> QED
    BY <1>2, <1>7, <2>1, <2>2, <2>3
<1>8. CallsInv'
  <2>1. sent[c] = 0 /\ pend[c] = "none"
    BY <1>1 DEF IInv, CallsInv, Dispatched, Settled
  <2> QED
    BY <1>0, <1>1, <1>7, <2>1 DEF IInv, CallsInv
<1>9. ASSUME NEW i \in DOMAIN chain, chain[i].begins # NoCall
      PROVE  /\ chain[i].begins \in Calls \ {c}
             /\ call'[chain[i].begins] = "persisting"
             /\ ledger'[OpOf[chain[i].begins]].owner = chain[i].begins
  <2>1. PICK b \in Calls : b = chain[i].begins
    BY <1>0, <1>9, ChainElement
  <2>2. call[b] = "persisting"
    BY <1>9, <2>1 DEF IInv, ChainInv
  <2>3. ledger[OpOf[b]] = [status |-> "pending", owner |-> b]
    BY <2>2 DEF IInv, CallsInv
  <2>4. b # c /\ OpOf[b] \in Ops \ {op}
    BY <1>1, <1>7, <2>2
  <2> QED
    BY <1>1, <2>1, <2>2, <2>3, <2>4
<1>10. ChainInv'
  BY <1>1, <1>3, <1>9 DEF IInv, ChainInv
<1>11. ASSUME NEW d \in Calls, OwnsEverywhere(d) PROVE OwnsEverywhere(d)'
  <2>1. OpOf[d] \in Ops \ {op}
    BY <1>7, <1>11
  <2> QED
    BY <1>0, <1>1, <1>3, <1>11, <2>1 DEF OwnsEverywhere
<1>12. Durable'
  BY <1>0, <1>1, <1>11 DEF IInv, Durable
<1>13. AtMostOnceDispatch'
  BY <1>0 DEF IInv, AtMostOnceDispatch
<1> QED
  BY <1>4, <1>6, <1>8, <1>10, <1>12, <1>13 DEF IInv

(* The oldest write reaches the disk: the call that awaited it owns its    *)
(* operation in this write and in all later ones.                          *)
LEMMA WriteSucceedsInv ==
    ASSUME IInv, TypeOK', WriteSucceeds
    PROVE  IInv'
<1> USE CallsAssumption
<1> DEFINE w == chain[1]
<1>0. /\ TypeOK /\ Alive /\ Alive' /\ chain # <<>> /\ disk.epoch = epoch
      /\ UNCHANGED <<mode, epoch, ledger, archives, archiving, pend, sent>>
  BY DEF IInv, FilesInv, WriteSucceeds, Alive, historyVars
<1>1. /\ 1 \in DOMAIN chain /\ w = Head(chain)
      /\ \A i \in DOMAIN chain' :
            i \in Nat \ {0} /\ i + 1 \in DOMAIN chain /\ chain'[i] = chain[i + 1]
  BY <1>0, TailEffect DEF WriteSucceeds
<1>2. w.snap \in Ledgers /\ w.begins \in Calls \cup {NoCall}
  BY <1>0, <1>1, ChainElement
<1>3. /\ disk'.epoch = epoch /\ disk'.records = w.snap
      /\ \A c \in Calls : call'[c] = IF c = w.begins THEN "ready" ELSE call[c]
  BY <1>1 DEF WriteSucceeds
<1>4. \A c \in Calls : c = w.begins => call[c] = "persisting"
  BY <1>1 DEF IInv, ChainInv
<1> HIDE DEF w
<1>5. FilesInv'
  <2>1. WellFormed(w.snap)
    BY <1>1 DEF w, IInv, RecordsInv
  <2> QED
    BY <1>0, <1>3, <2>1 DEF IInv, FilesInv, WellFormed, Alive, TypeOK
<1>6. RecordsInv'
  BY <1>0, <1>1 DEF IInv, RecordsInv, WellFormed
<1>7. CallsInv'
  BY <1>0, <1>3, <1>4 DEF IInv, CallsInv, Dispatched, Settled
<1>8. \A i \in DOMAIN chain' : chain'[i].begins # NoCall => chain'[i].begins \in Calls /\ chain'[i].begins # w.begins
  BY <1>0, <1>1, ChainElement DEF w, IInv, ChainInv
<1>9. ChainInv'
  <2>1. ASSUME NEW i \in DOMAIN chain', chain'[i].begins # NoCall
        PROVE  /\ call'[chain'[i].begins] = "persisting"
               /\ \A j \in DOMAIN chain' :
                    /\ j >= i => chain'[j].snap[OpOf[chain'[i].begins]].owner = chain'[i].begins
                    /\ chain'[j].begins = chain'[i].begins => j = i
    <3>1. PICK c \in Calls : c = chain'[i].begins /\ c # w.begins
      BY <1>8, <2>1
    <3>2. i \in Nat \ {0} /\ i + 1 \in DOMAIN chain /\ chain[i + 1].begins = c /\ c # NoCall
      BY <1>1, <2>1, <3>1
    <3>3. /\ call[c] = "persisting"
          /\ \A j \in DOMAIN chain :
               /\ j >= i + 1 => chain[j].snap[OpOf[c]].owner = c
               /\ chain[j].begins = c => j = i + 1
      BY <3>2 DEF IInv, ChainInv
    <3>4. call'[c] = "persisting"
      BY <1>3, <3>1, <3>3
    <3>5. ASSUME NEW j \in DOMAIN chain'
          PROVE  /\ j >= i => chain'[j].snap[OpOf[c]].owner = c
                 /\ chain'[j].begins = c => j = i
      <4>1. j \in Nat \ {0} /\ j + 1 \in DOMAIN chain /\ chain'[j] = chain[j + 1]
        BY <1>1, <3>5
      <4> QED BY <3>2, <3>3, <4>1
    <3> QED BY <3>1, <3>4, <3>5
  <2> QED BY <2>1 DEF ChainInv
<1>10. ASSUME NEW c \in Calls, OwnsEverywhere(c) PROVE OwnsEverywhere(c)'
  BY <1>0, <1>1, <1>3, <1>10 DEF w, OwnsEverywhere
<1>11. ASSUME NEW c \in Calls, c = w.begins PROVE OwnsEverywhere(c)'
  <2>1. ledger[OpOf[c]] = [status |-> "pending", owner |-> c]
    BY <1>4, <1>11 DEF IInv, CallsInv
  <2>2. \A j \in DOMAIN chain : j >= 1 => chain[j].snap[OpOf[c]].owner = c
    BY <1>1, <1>11 DEF w, IInv, ChainInv
  <2> QED
    BY <1>0, <1>1, <1>3, <2>1, <2>2 DEF w, OwnsEverywhere
<1>12. Durable'
  BY <1>0, <1>3, <1>10, <1>11 DEF IInv, Durable
<1>13. AtMostOnceDispatch'
  BY <1>0 DEF IInv, AtMostOnceDispatch
<1> QED
  BY <1>5, <1>6, <1>7, <1>9, <1>12, <1>13 DEF IInv

(* The oldest write fails: the record of the call that awaited it goes,    *)
(* and that call neither sent nor will.                                    *)
LEMMA WriteFailsInv ==
    ASSUME IInv, TypeOK', WriteFails
    PROVE  IInv'
<1> USE CallsAssumption
<1> DEFINE w == chain[1]
<1>0. /\ TypeOK /\ Alive /\ Alive' /\ chain # <<>> /\ disk.epoch = epoch
      /\ UNCHANGED <<mode, epoch, disk, archives, archiving, pend, sent>>
  BY DEF IInv, FilesInv, WriteFails, Alive, fileVars, historyVars
<1>1. /\ 1 \in DOMAIN chain /\ w = Head(chain)
      /\ \A i \in DOMAIN Tail(chain) :
            i \in Nat \ {0} /\ i + 1 \in DOMAIN chain /\ Tail(chain)[i] = chain[i + 1]
  BY <1>0, TailEffect
<1>2. w.begins \in Calls \cup {NoCall}
  BY <1>0, <1>1, ChainElement
<1>3. /\ ledger' = [op \in Ops |-> IF w.begins # NoCall /\ op = OpOf[w.begins]
                                   THEN NoRecord ELSE ledger[op]]
      /\ Return({w.begins} \cap Calls, "error")
      /\ chain' = IF w.retry
                  THEN Append(Tail(chain),
                              [snap |-> ledger, begins |-> NoCall, retry |-> FALSE])
                  ELSE Tail(chain)
  BY <1>1 DEF WriteFails
<1>4. \A c \in Calls : c = w.begins =>
            call[c] = "persisting" /\ ledger[OpOf[c]] = [status |-> "pending", owner |-> c]
  BY <1>1 DEF IInv, ChainInv, CallsInv
<1>5. \A i \in DOMAIN chain' :
            \/ /\ i \in Nat \ {0} /\ i + 1 \in DOMAIN chain
               /\ chain'[i] = chain[i + 1]
            \/ /\ chain'[i].snap = ledger /\ chain'[i].begins = NoCall
               /\ \A j \in DOMAIN chain' : i >= j
               /\ i \in Nat
  <2>1. Tail(chain) \in Seq(Writes)
    BY <1>0 DEF TypeOK
  <2>2. [snap |-> ledger, begins |-> NoCall, retry |-> FALSE] \in Writes
    BY <1>0 DEF TypeOK, Writes
  <2>3. CASE chain' = Tail(chain)
    BY <1>1, <2>3
  <2>4. CASE chain' = Append(Tail(chain), [snap |-> ledger, begins |-> NoCall, retry |-> FALSE])
    BY <1>1, <2>1, <2>2, <2>4
  <2> QED
    BY <1>3, <2>3, <2>4
<1>6. \A d \in Calls : \/ call'[d] = call[d] /\ d # w.begins
                       \/ call'[d] = "error" /\ (d = w.begins \/ call[d] = "dup")
  BY <1>0, <1>3, ReturnEffect DEF Settled
<1> HIDE DEF w
<1>7. ASSUME NEW d \in Calls, d # w.begins, ledger[OpOf[d]].owner = d
      PROVE  ledger'[OpOf[d]] = ledger[OpOf[d]]
  <2>1. ASSUME w.begins # NoCall PROVE OpOf[d] # OpOf[w.begins]
    <3>1. w.begins \in Calls
      BY <1>2, <2>1
    <3>2. ledger[OpOf[w.begins]] = [status |-> "pending", owner |-> w.begins]
      BY <1>4, <3>1
    <3>3. ledger[OpOf[w.begins]].owner = w.begins
      BY <3>2
    <3> QED
      BY <1>7, <3>3
  <2>2. OpOf[d] \in Ops
    OBVIOUS
  <2> QED
    BY <1>3, <2>1, <2>2
<1>8. FilesInv'
  BY <1>0 DEF IInv, FilesInv, Alive, TypeOK
<1>9. RecordsInv'
  <2>1. WellFormed(ledger')
    BY <1>3 DEF IInv, RecordsInv, WellFormed, NoRecord
  <2> QED
    BY <1>5, <2>1 DEF IInv, RecordsInv, WellFormed
<1>10. CallsInv'
  <2>1. ASSUME NEW d \in Calls, call'[d] \in {"persisting", "ready"}
        PROVE  ledger'[OpOf[d]] = [status |-> "pending", owner |-> d]
    <3>1. call'[d] = call[d] /\ d # w.begins
      BY <1>6, <2>1
    <3>2. ledger[OpOf[d]] = [status |-> "pending", owner |-> d]
      BY <2>1, <3>1 DEF IInv, CallsInv
    <3> QED
      BY <1>7, <3>1, <3>2
  <2>2. \A d \in Calls : call[d] \in Dispatched => call'[d] \in Dispatched
    BY <1>6 DEF Dispatched, Settled
  <2> QED
    BY <1>0, <2>1, <2>2 DEF IInv, CallsInv
<1>11. ChainInv'
  <2> SUFFICES ASSUME NEW i \in DOMAIN chain', chain'[i].begins # NoCall
               PROVE  /\ call'[chain'[i].begins] = "persisting"
                      /\ \A j \in DOMAIN chain' :
                          /\ j >= i => chain'[j].snap[OpOf[chain'[i].begins]].owner = chain'[i].begins
                          /\ chain'[j].begins = chain'[i].begins => j = i
    BY DEF ChainInv
  <2>1. /\ i \in Nat \ {0} /\ i + 1 \in DOMAIN chain
        /\ chain'[i] = chain[i + 1]
    BY <1>5
  <2>2. PICK b \in Calls : b = chain[i + 1].begins
    BY <1>0, <2>1, ChainElement
  <2>3. call[b] = "persisting" /\ b # w.begins
    BY <1>1, <2>1, <2>2 DEF w, IInv, ChainInv
  <2>4. call'[b] = "persisting"
    BY <1>6, <2>3
  <2>5. ledger[OpOf[b]].owner = b
    <3>1. ledger[OpOf[b]] = [status |-> "pending", owner |-> b]
      BY <2>3 DEF IInv, CallsInv
    <3> QED
      BY <3>1
  <2>6. ASSUME NEW j \in DOMAIN chain'
        PROVE  /\ j >= i => chain'[j].snap[OpOf[b]].owner = b
               /\ chain'[j].begins = b => j = i
    <3>1. CASE j \in Nat \ {0} /\ j + 1 \in DOMAIN chain /\ chain'[j] = chain[j + 1]
      BY <2>1, <2>2, <3>1 DEF IInv, ChainInv
    <3>2. CASE chain'[j].snap = ledger /\ chain'[j].begins = NoCall
      BY <2>5, <3>2
    <3> QED
      BY <1>5, <3>1, <3>2
  <2> QED
    BY <2>1, <2>2, <2>4, <2>6
<1>12. ASSUME NEW d \in Calls, d # w.begins, OwnsEverywhere(d) PROVE OwnsEverywhere(d)'
  BY <1>0, <1>1, <1>5, <1>7, <1>12 DEF OwnsEverywhere
<1>13. Durable'
  <2>1. ASSUME NEW d \in Calls, sent[d] # 0 PROVE d # w.begins
    <3>1. "persisting" \notin Dispatched
      BY DEF Dispatched, Settled
    <3>2. call[d] \in Dispatched
      BY <2>1 DEF IInv, CallsInv
    <3> QED BY <1>4, <3>1, <3>2
  <2>2. disk.epoch # 0
    BY <1>0 DEF TypeOK, Epochs
  <2> QED
    BY <1>0, <1>6, <1>12, <2>1, <2>2 DEF IInv, Durable
<1>14. AtMostOnceDispatch'
  BY <1>0 DEF IInv, AtMostOnceDispatch
<1> QED
  BY <1>8, <1>9, <1>10, <1>11, <1>13, <1>14 DEF IInv

(* A restart reads the owners back; a newer epoch starts from no records,  *)
(* so nobody counts as sent in it.                                         *)
LEMMA StartInv ==
    ASSUME IInv, TypeOK', NEW e \in Epochs, Start(e)
    PROVE  IInv'
<1> USE CallsAssumption
<1>0. /\ TypeOK /\ disk.records \in Ledgers /\ mode = "down" /\ mode' = "running" /\ archiving = 0
      /\ chain = <<>> /\ Alive' /\ epoch' = e
      /\ UNCHANGED <<chain, call, pend, archives, archiving, sent>>
      /\ disk'.epoch = e /\ disk'.records = ledger'
      /\ ledger' = Recovered(disk.records)
  BY DEF IInv, FilesInv, TypeOK, Start, Alive, Documents, historyVars
<1>1. \A op \in Ops : /\ ledger'[op].owner = disk.records[op].owner
                      /\ ledger'[op].status = "absent" => disk.records[op].status = "absent"
  BY <1>0, RecoveredEffect
<1>2. WellFormed(ledger')
  BY <1>1 DEF IInv, FilesInv, WellFormed
<1>3. FilesInv'
  BY <1>0, <1>2 DEF FilesInv, Alive, WellFormed
<1>4. RecordsInv'
  BY <1>0, <1>2 DEF RecordsInv
<1>5. \A c \in Calls : call[c] \notin {"persisting", "ready"}
  BY <1>0 DEF IInv, FilesInv, Waiting
<1>6. CallsInv'
  BY <1>0, <1>5 DEF IInv, CallsInv
<1>7. ChainInv'
  BY <1>0 DEF ChainInv
<1>8. ASSUME NEW c \in Calls, OwnsEverywhere(c) PROVE OwnsEverywhere(c)' /\ disk.epoch = e
  <2>1. disk.records[OpOf[c]].owner = c /\ c # NoCall
    BY <1>8 DEF OwnsEverywhere
  <2>2. disk.records[OpOf[c]].status # "absent"
    BY <2>1 DEF IInv, FilesInv, WellFormed
  <2>3. disk.epoch = e
    BY <1>0, <2>2 DEF Start, Present, TypeOK, Documents, Epochs
  <2> QED
    BY <1>0, <1>1, <2>1, <2>3 DEF OwnsEverywhere
<1>9. Durable'
  <2> SUFFICES ASSUME NEW c \in Calls, sent[c] # 0
               PROVE  /\ sent[c] <= e
                      /\ sent[c] = e => OwnsEverywhere(c)'
                      /\ sent[c] # e =>
                            \E d \in archives : d.epoch = sent[c] /\ d.records[OpOf[c]].owner = c
    BY <1>0, <1>5 DEF Durable, Epochs
  <2>1. disk.epoch <= e /\ sent[c] <= disk.epoch /\ disk.epoch \in Nat /\ sent[c] \in Nat /\ e \in Nat
    BY <1>0 DEF Start, IInv, Durable, TypeOK, Documents, Epochs
  <2> QED
    BY <1>8, <2>1 DEF IInv, Durable
<1>10. AtMostOnceDispatch'
  BY <1>0 DEF IInv, AtMostOnceDispatch
<1> QED
  BY <1>3, <1>4, <1>6, <1>7, <1>9, <1>10 DEF IInv

LEMMA CrashInv ==
    ASSUME IInv, TypeOK', Crash
    PROVE  IInv'
<1> USE CallsAssumption
<1>0. /\ TypeOK /\ ~Alive' /\ mode' = "down" /\ ledger' = Empty /\ chain' = <<>> /\ archiving = 0
      /\ UNCHANGED <<epoch, disk, archives, archiving, sent>>
      /\ \A c \in Calls : /\ call'[c] \notin Waiting
                          /\ call[c] \in Dispatched => call'[c] \in Dispatched
                          /\ pend'[c] = "none"
  BY DEF IInv, FilesInv, TypeOK, Crash, Alive, Waiting, Dispatched, Settled, fileVars, historyVars
<1>1. FilesInv' /\ RecordsInv'
  BY <1>0, RecordTypes DEF IInv, FilesInv, RecordsInv, WellFormed
<1>2. CallsInv' /\ ChainInv'
  BY <1>0 DEF IInv, CallsInv, ChainInv, Waiting
<1>3. Durable'
  BY <1>0 DEF IInv, Durable, OwnsEverywhere, Waiting
<1>4. AtMostOnceDispatch'
  BY <1>0 DEF IInv, AtMostOnceDispatch
<1> QED
  BY <1>1, <1>2, <1>3, <1>4 DEF IInv

(* archive-ledger: what leaves the live file is in the archive, and the    *)
(* new epoch is later than every epoch a request was sent in.              *)
LEMMA ArchiveInv ==
    ASSUME IInv, TypeOK',
           (\E e \in Epochs : ArchiveWrite(e)) \/ ArchiveReset \/ ArchiveAborts
    PROVE  IInv'
<1> USE CallsAssumption
<1>1. ASSUME NEW e \in Epochs, ArchiveWrite(e) PROVE IInv'
  <2>0. /\ mode = "down" /\ archives' = archives \cup {disk} /\ archiving' = e /\ e > disk.epoch
        /\ UNCHANGED <<daemonVars, disk, sent>>
    BY <1>1 DEF ArchiveWrite, historyVars
  <2>1. FilesInv' /\ RecordsInv' /\ CallsInv' /\ ChainInv'
    BY <2>0 DEF IInv, FilesInv, RecordsInv, CallsInv, ChainInv, Alive, WellFormed, daemonVars
  <2>2. Durable' /\ AtMostOnceDispatch'
    BY <2>0 DEF IInv, Durable, OwnsEverywhere, AtMostOnceDispatch, Alive, daemonVars
  <2> QED
    BY <2>1, <2>2 DEF IInv
<1>2. ASSUME ArchiveReset PROVE IInv'
  <2>0. /\ disk \in archives /\ archiving' = 0 /\ mode = "down" /\ archiving > disk.epoch
        /\ disk'.epoch = archiving /\ disk'.records = Empty
        /\ archiving \in Nat /\ disk.epoch \in Nat /\ \A c \in Calls : sent[c] \in Nat
        /\ UNCHANGED <<daemonVars, archives, sent>>
    BY <1>2 DEF ArchiveReset, historyVars, IInv, FilesInv, TypeOK, Documents, Epochs
  <2>1. FilesInv' /\ RecordsInv' /\ CallsInv' /\ ChainInv'
    BY <2>0, RecordTypes
       DEF IInv, FilesInv, RecordsInv, CallsInv, ChainInv, Alive, WellFormed, daemonVars
  <2>2. ASSUME NEW c \in Calls, sent[c] # 0
        PROVE  /\ sent[c] < archiving
               /\ \E d \in archives : d.epoch = sent[c] /\ d.records[OpOf[c]].owner = c
    BY <2>0, <2>2 DEF IInv, Durable, OwnsEverywhere
  <2>3. Durable'
    BY <2>0, <2>2 DEF IInv, FilesInv, Durable, Waiting, daemonVars
  <2>4. AtMostOnceDispatch'
    BY <2>0 DEF IInv, AtMostOnceDispatch
  <2> QED
    BY <2>1, <2>3, <2>4 DEF IInv
<1>3. ASSUME ArchiveAborts PROVE IInv'
  <2>1. FilesInv' /\ RecordsInv' /\ CallsInv' /\ ChainInv'
    BY <1>3 DEF ArchiveAborts, IInv, FilesInv, RecordsInv, CallsInv, ChainInv, Alive,
                WellFormed, daemonVars, historyVars
  <2>2. Durable' /\ AtMostOnceDispatch'
    BY <1>3 DEF ArchiveAborts, IInv, Durable, OwnsEverywhere, AtMostOnceDispatch, Alive,
                daemonVars, historyVars
  <2> QED
    BY <2>1, <2>2 DEF IInv
<1> QED
  BY <1>1, <1>2, <1>3

LEMMA InvInit == Init => IInv
<1> SUFFICES ASSUME Init PROVE IInv
  OBVIOUS
<1> USE CallsAssumption
<1>1. TypeOK
  BY TypeInit
<1>2. /\ mode = "down" /\ archiving = 0 /\ chain = <<>> /\ ledger = Empty
      /\ disk.records = Empty /\ disk.epoch = 1
      /\ \A c \in Calls : call[c] = "idle" /\ pend[c] = "none" /\ sent[c] = 0
  BY DEF Init
<1>3. FilesInv /\ RecordsInv
  BY <1>2, RecordTypes DEF FilesInv, RecordsInv, Alive, Waiting
<1>4. CallsInv /\ ChainInv /\ Durable /\ AtMostOnceDispatch
  BY <1>2 DEF CallsInv, ChainInv, Durable, AtMostOnceDispatch
<1> QED
  BY <1>1, <1>3, <1>4 DEF IInv

LEMMA InvStep == IInv /\ [Next]_vars => IInv'
<1> SUFFICES ASSUME IInv, [Next]_vars PROVE IInv'
  OBVIOUS
<1> USE CallsAssumption
<1>0. TypeOK /\ TypeOK'
  BY TypeStep DEF IInv
<1>1. ASSUME NEW c \in Calls, BeginDuplicate(c) \/ BeginCached(c) \/ BeginRefused(c) PROVE IInv'
  <2>1. \A d \in Calls : \/ call'[d] = call[d]
                         \/ call'[d] \in {"dup", "ok", "error"} /\ call[d] = "idle"
    <3>1. PICK result \in {"dup", "ok", "error"} : call' = [call EXCEPT ![c] = result]
      BY <1>1 DEF BeginDuplicate, BeginCached, BeginRefused
    <3>2. call[c] = "idle"
      BY <1>1 DEF BeginDuplicate, BeginCached, BeginRefused, Entering
    <3>3. call \in [Calls -> CallStates]
      BY <1>0 DEF TypeOK
    <3>4. \A d \in Calls : call'[d] = IF d = c THEN result ELSE call[d]
      BY <3>1, <3>3
    <3> QED
      BY <3>2, <3>4
  <2>2. /\ Alive /\ Alive'
        /\ UNCHANGED <<epoch, disk, archives, archiving, sent, ledger, chain, pend>>
    BY <1>1 DEF BeginDuplicate, BeginCached, BeginRefused, Entering, Alive, fileVars, historyVars
  <2>3. QuietStep
    BY <2>1, <2>2 DEF QuietStep, Dispatched, Settled
  <2> QED
    BY <1>0, <2>3, QuietInv
<1>2. ASSUME NEW c \in Calls, BeginOperation(c) PROVE IInv'
  BY <1>0, <1>2, BeginInv
<1>3. ASSUME NEW c \in Calls, Dispatch(c) PROVE IInv'
  <2>0. /\ Alive /\ Alive' /\ call[c] = "ready"
        /\ UNCHANGED <<mode, epoch, disk, archives, archiving>>
    BY <1>3 DEF Dispatch, DispatchBrowser, SendFailed, AbandonBrowser, DispatchHttp,
                DispatchPerfetto, Alive, fileVars
  <2>1. CASE SendRequest(c) /\ UNCHANGED <<ledger, chain>>
             /\ \A d \in Calls : pend'[d] # "none" => pend[d] # "none" \/ d = c
    BY <1>0, <2>0, <2>1, SendInv
  <2>2. ASSUME NEW retry \in BOOLEAN, Forget(c, retry), UNCHANGED <<pend, sent>> PROVE IInv'
    BY <1>0, <2>0, <2>2, ForgetInv
  <2>3. CASE Doubt(c) /\ UNCHANGED <<pend, sent>>
    <3>1. QuietStep
      BY <1>0, <2>0, <2>3, DoubtIsQuiet
    <3> QED
      BY <1>0, <3>1, QuietInv
  <2>4. \/ /\ SendRequest(c) /\ UNCHANGED <<ledger, chain>>
           /\ \A d \in Calls : pend'[d] # "none" => pend[d] # "none" \/ d = c
        \/ (Forget(c, TRUE) \/ Forget(c, FALSE)) /\ UNCHANGED <<pend, sent>>
        \/ Doubt(c) /\ UNCHANGED <<pend, sent>>
    <3>1. CASE DispatchBrowser(c)
      BY <1>0, <3>1 DEF DispatchBrowser, TypeOK
    <3>2. CASE SendFailed(c) \/ AbandonBrowser(c)
      BY <3>2 DEF SendFailed, AbandonBrowser, historyVars
    <3>3. CASE DispatchHttp(c) \/ DispatchPerfetto(c)
      BY <3>3 DEF DispatchHttp, DispatchPerfetto
    <3> QED
      BY <1>3, <3>1, <3>2, <3>3 DEF Dispatch
  <2> QED
    BY <2>1, <2>2, <2>3, <2>4
<1>4. ASSUME NEW c \in Calls,
             HandleResponse(c) \/ HandleLateResponse(c) \/ Timeout(c) \/ Finish(c)
      PROVE  IInv'
  <2>0. /\ Alive /\ Alive' /\ UNCHANGED <<epoch, disk, archives, archiving, sent>>
        /\ \A d \in Calls : pend'[d] # "none" => pend[d] # "none"
        /\ call[c] # "persisting"
    <3>1. /\ Alive /\ Alive' /\ UNCHANGED <<epoch, disk, archives, archiving, sent>>
          /\ pend[c] # "none" \/ call[c] = "sent"
          /\ pend' = pend \/ (pend[c] # "none" /\ \E p : pend' = [pend EXCEPT ![c] = p])
      <4>1. CASE HandleResponse(c)
        BY <4>1 DEF HandleResponse, Alive, fileVars
      <4>2. CASE HandleLateResponse(c)
        BY <4>2 DEF HandleLateResponse, Alive, fileVars, historyVars
      <4>3. CASE Timeout(c)
        BY <4>3 DEF Timeout, Alive, fileVars, historyVars
      <4>4. CASE Finish(c)
        BY <4>4 DEF Finish, Alive, fileVars
      <4> QED
        BY <1>4, <4>1, <4>2, <4>3, <4>4
    <3>2. \A d \in Calls : pend'[d] # "none" => pend[d] # "none"
      BY <1>0, <3>1 DEF TypeOK
    <3>3. call[c] # "persisting"
      BY <3>1 DEF IInv, CallsInv, Dispatched, Settled
    <3> QED
      BY <3>1, <3>2, <3>3
  <2>1. CASE Doubt(c)
    BY <1>0, <2>0, <2>1, DoubtIsQuiet, QuietInv
  <2>2. CASE StoreCompleted(c)
    BY <1>0, <2>0, <2>2, StoreIsQuiet, QuietInv
  <2>3. CASE HandleLateResponse(c)
    <3>1. QuietStep
      BY <2>0, <2>3 DEF HandleLateResponse, QuietStep
    <3> QED
      BY <1>0, <3>1, QuietInv
  <2> QED
    BY <1>4, <2>1, <2>2, <2>3 DEF HandleResponse, Timeout, Finish
<1>5. ASSUME NEW t \in Tabs, SessionStep(t) PROVE IInv'
  <2>1. CASE Connect(t)
    <3>1. QuietStep
      BY <2>1 DEF Connect, QuietStep, Alive, fileVars, historyVars
    <3> QED
      BY <1>0, <3>1, QuietInv
  <2>2. ASSUME DropPending({t}), Alive, Alive',
               UNCHANGED <<epoch, disk, archives, archiving, sent>>
        PROVE  IInv'
    <3>1. /\ ledger' = MarkAmbiguous(ledger, Dropped({t}))
          /\ Return(Unsettled({t}), "error")
          /\ chain' = chain \/ QueuePersist(ledger')
          /\ \A d \in Calls : pend'[d] # "none" => pend[d] # "none"
      BY <1>0, <2>2 DEF DropPending, TypeOK
    <3>2. QuietStep
      BY <1>0, <2>2, <3>1, DropIsQuiet
    <3> QED
      BY <1>0, <3>2, QuietInv
  <2>3. CASE ConnectionLost(t)
    BY <2>2, <2>3 DEF ConnectionLost, Alive, fileVars, historyVars
  <2>4. ASSUME NEW change, ContextUpdate(t, change) PROVE IInv'
    <3>1. Alive /\ Alive' /\ UNCHANGED <<epoch, disk, archives, archiving, sent>>
      BY <2>4 DEF ContextUpdate, Alive, fileVars, historyVars
    <3>2. CASE DropPending({t})
      BY <2>2, <3>1, <3>2
    <3>3. CASE UNCHANGED <<ledger, pend, call, chain>>
      <4>1. QuietStep
        BY <3>1, <3>3 DEF QuietStep
      <4> QED
        BY <1>0, <4>1, QuietInv
    <3> QED
      BY <2>4, <3>2, <3>3 DEF ContextUpdate
  <2> QED
    BY <1>5, <2>1, <2>3, <2>4 DEF SessionStep
<1>6. ASSUME NEW op \in Ops, NEW decision, Reconcile(op, decision) PROVE IInv'
  BY <1>0, <1>6, ReconcileInv
<1>7. CASE Shutdown
  <2>1. /\ Alive /\ Alive' /\ UNCHANGED <<epoch, disk, archives, archiving, sent>>
        /\ ledger' = MarkAmbiguous(ledger, Dropped(Tabs))
        /\ Return(Unsettled(Tabs), "error")
        /\ chain' = chain \/ QueuePersist(ledger')
        /\ \A d \in Calls : pend'[d] # "none" => pend[d] # "none"
    BY <1>7 DEF Shutdown, Alive, fileVars, historyVars
  <2>2. QuietStep
    BY <1>0, <2>1, DropIsQuiet
  <2> QED
    BY <1>0, <2>2, QuietInv
<1>8. CASE WriteSucceeds \/ WriteFails
  BY <1>0, <1>8, WriteSucceedsInv, WriteFailsInv
<1>9. ASSUME NEW e \in Epochs, Start(e) PROVE IInv'
  BY <1>0, <1>9, StartInv
<1>10. CASE Crash
  BY <1>0, <1>10, CrashInv
<1>11. CASE (\E e \in Epochs : ArchiveWrite(e)) \/ ArchiveReset \/ ArchiveAborts
  BY <1>0, <1>11, ArchiveInv
<1>12. CASE UNCHANGED vars
  <2>1. UNCHANGED <<mode, epoch, ledger, chain, call, pend, disk, archives, archiving, sent>>
    BY <1>12 DEF vars, daemonVars, fileVars, historyVars
  <2>2. FilesInv' /\ RecordsInv' /\ CallsInv' /\ ChainInv'
    BY <2>1 DEF IInv, FilesInv, RecordsInv, CallsInv, ChainInv, Alive, WellFormed
  <2>3. Durable' /\ AtMostOnceDispatch'
    BY <2>1 DEF IInv, Durable, OwnsEverywhere, AtMostOnceDispatch, Alive
  <2> QED
    BY <1>0, <2>2, <2>3 DEF IInv
<1> QED
  BY <1>1, <1>2, <1>3, <1>4, <1>5, <1>6, <1>7, <1>8, <1>9, <1>10, <1>11, <1>12
     DEF Next, CallStep, Persist

-----------------------------------------------------------------------------
(* The results. *)

(* beginOperation, persistOperations, initialize, reconcileOperation and   *)
(* archiveOperationLedger together keep the strengthened invariant.        *)
THEOREM Inductive == Spec => []IInv
  BY InvInit, InvStep, PTL DEF Spec

(* A request that left the bridge is in the ledger file, or in an archive  *)
(* of its epoch, from before it left until an operator judges it not       *)
(* applied: for any number of calls, whatever fails and whenever it stops. *)
THEOREM DispatchDurable == Spec => []DispatchIsDurable
<1>1. IInv => DispatchIsDurable
  BY DEF IInv, Durable, OwnsEverywhere, DispatchIsDurable
<1> QED
  BY <1>1, Inductive, PTL

(* Within an epoch, an operation key is sent once, unless an operator      *)
(* judges what was sent not applied.                                       *)
THEOREM DispatchAtMostOnce == Spec => []AtMostOnceDispatch
<1>1. IInv => AtMostOnceDispatch
  BY DEF IInv
<1> QED
  BY <1>1, Inductive, PTL

-----------------------------------------------------------------------------
(* What the callers are told: a record completes only with an answer, a    *)
(* success is genuine, a duplicate always has a call to wait for, and the  *)
(* requests in `pending' belong to the records in memory.                  *)
(*                                                                         *)
(* The inductive invariant adds to IInv that every record, wherever it is  *)
(* kept, belongs to a call of its operation; that the calls under way and  *)
(* the pending records in memory are each other's; and that an entry of    *)
(* `pending' outlives neither its request nor its session.                 *)

(* Calls that have a pending record of their own. *)
Active == {"persisting", "ready", "sent"}

(* A record belongs to a call of its operation; a completed one belongs to *)
(* one of the calls ans that the peer has answered.                        *)
Sound(l, ans) ==
    \A op \in Ops :
        /\ l[op].status # "absent" => l[op].owner \in Calls /\ OpOf[l[op].owner] = op
        /\ l[op].status \in {"completed", "completed_no_result"} => l[op].owner \in ans

LedgersInv ==
    /\ Sound(ledger, answered)
    /\ Sound(disk.records, answered)
    /\ \A i \in DOMAIN chain : Sound(chain[i].snap, answered)

(* The record of the operation is that of call c. *)
Holds(c, status) == ledger[OpOf[c]].status = status /\ ledger[OpOf[c]].owner = c

(* A call under way holds its record. *)
HoldersInv == \A c \in Calls : call[c] \in Active => Holds(c, "pending")

(* A pending record has a call under way. *)
PendingInv ==
    \A op \in Ops : ledger[op].status = "pending" => call[ledger[op].owner] \in Active

(* Entries of `pending': what they say of the call, the record, the session. *)
RequestsInv ==
    \A c \in Calls :
        /\ pend[c] = "live" => call[c] = "sent" /\ KindOf[OpOf[c]] = "browser"
        /\ pend[c] = "tombstone" => Holds(c, "ambiguous")
        /\ pend[c] # "none" => view[c] # "gone"

(* A process that is down has no requests. *)
StoppedInv == mode = "down" => \A c \in Calls : pend[c] = "none"

CallersInv ==
    LedgersInv /\ HoldersInv /\ PendingInv /\ RequestsInv /\ DuplicatesAreServed

OInv == IInv /\ StoppedInv /\ CallersInv /\ SuccessIsGenuine

-----------------------------------------------------------------------------
(* Where the ledgers of a step come from. *)

(* Each way a handler changes a ledger keeps it sound. *)
LEMMA SoundChanges ==
    ASSUME NEW l \in Ledgers, NEW ans, Sound(l, ans)
    PROVE  /\ \A cs : Sound(MarkAmbiguous(l, cs), ans)
           /\ Sound(Recovered(l), ans)
           /\ \A more : Sound(l, ans \cup more)
           /\ \A k \in Ledgers :
                (\A op \in Ops : k[op] = l[op] \/ k[op] = NoRecord) => Sound(k, ans)
<1>1. ASSUME NEW cs PROVE Sound(MarkAmbiguous(l, cs), ans)
  BY DEF Sound, MarkAmbiguous, Ledgers, Records
<1>2. Sound(Recovered(l), ans)
  BY DEF Sound, Recovered, Ledgers, Records
<1>3. \A more : Sound(l, ans \cup more)
  BY DEF Sound
<1>4. ASSUME NEW k \in Ledgers, \A op \in Ops : k[op] = l[op] \/ k[op] = NoRecord
      PROVE  Sound(k, ans)
  BY <1>4 DEF Sound, NoRecord
<1> QED
  BY <1>1, <1>2, <1>3, <1>4

(* A queued snapshot is an older one, or the ledger before or after the    *)
(* step; the file holds a queued snapshot, the new ledger or none.         *)
SnapsKept ==
    \A i \in DOMAIN chain' :
        \/ chain'[i].snap \in {ledger, ledger'}
        \/ \E j \in DOMAIN chain : chain'[i].snap = chain[j].snap

FileKept ==
    \/ disk'.records \in {disk.records, ledger', Empty}
    \/ \E j \in DOMAIN chain : disk'.records = chain[j].snap

LEMMA QueueKeeps ==
    ASSUME TypeOK, TypeOK', NEW begins \in Calls \cup {NoCall}, NEW retry \in BOOLEAN,
           chain' = chain \/ Queue(ledger', begins, retry)
    PROVE  SnapsKept
<1>1. CASE chain' = chain
  BY <1>1 DEF SnapsKept
<1>2. CASE Queue(ledger', begins, retry)
  <2>1. ledger' \in Ledgers
    BY DEF TypeOK
  <2>2. /\ DOMAIN chain' = DOMAIN chain \cup {Len(chain) + 1}
        /\ \A i \in DOMAIN chain : chain'[i] = chain[i]
        /\ chain'[Len(chain) + 1].snap = ledger'
    BY <1>2, <2>1, QueueEffect
  <2> QED
    BY <2>2 DEF SnapsKept
<1> QED
  BY <1>1, <1>2

(* A write leaves the head of the chain; a failed one may queue another.   *)
LEMMA TailKeeps ==
    ASSUME TypeOK, chain # <<>>,
           \/ chain' = Tail(chain)
           \/ chain' = Append(Tail(chain), [snap |-> ledger, begins |-> NoCall, retry |-> FALSE])
    PROVE  SnapsKept
<1> DEFINE again == [snap |-> ledger, begins |-> NoCall, retry |-> FALSE]
<1>1. \A i \in DOMAIN Tail(chain) :
            i \in Nat \ {0} /\ i + 1 \in DOMAIN chain /\ Tail(chain)[i] = chain[i + 1]
  BY TailEffect
<1>2. Tail(chain) \in Seq(Writes) /\ again \in Writes
  BY DEF TypeOK, Writes
<1>3. again.snap = ledger
  OBVIOUS
<1> HIDE DEF again
<1>4. CASE chain' = Tail(chain)
  BY <1>1, <1>4 DEF SnapsKept
<1>5. CASE chain' = Append(Tail(chain), again)
  BY <1>1, <1>2, <1>3, <1>5 DEF SnapsKept
<1> QED
  BY <1>4, <1>5 DEF again

LEMMA LedgersStep ==
    ASSUME LedgersInv, SnapsKept, FileKept, TypeOK, TypeOK',
           answered \subseteq answered', Sound(ledger', answered')
    PROVE  LedgersInv'
<1>1. ASSUME NEW l, Sound(l, answered) PROVE Sound(l, answered')
  BY <1>1 DEF Sound
<1>2. Sound(Empty, answered')
  BY DEF Sound, Empty, NoRecord
<1>3. Sound(disk'.records, answered')
  BY <1>1, <1>2 DEF FileKept, LedgersInv
<1>4. \A i \in DOMAIN chain' : Sound(chain'[i].snap, answered')
  BY <1>1 DEF SnapsKept, LedgersInv
<1> QED
  BY <1>3, <1>4 DEF LedgersInv

-----------------------------------------------------------------------------
(* Calls that return. *)

(* A call under way owns a pending record, so its request is no tombstone. *)
LEMMA HolderFacts ==
    ASSUME HoldersInv, RequestsInv, NEW c \in Calls, call[c] \in Active
    PROVE  OpOf[c] \in Ops /\ Holds(c, "pending") /\ pend[c] # "tombstone"
  BY CallsAssumption DEF HoldersInv, RequestsInv, Holds

(* The calls cs return, and with them whoever waits for them: their        *)
(* records and requests must not stay pending, those of others must.       *)
LEMMA ReturnKeeps ==
    ASSUME TypeOK, TypeOK', LedgersInv, HoldersInv, PendingInv, RequestsInv,
           DuplicatesAreServed,
           NEW cs, NEW result \in Settled, Return(cs, result), UNCHANGED waits,
           \A c \in Calls : call[c] \in Active /\ c \notin cs =>
                ledger'[OpOf[c]] = ledger[OpOf[c]],
           \A op \in Ops : ledger'[op].status = "pending" =>
                ledger'[op] = ledger[op] /\ ledger[op].owner \notin cs,
           \A c \in Calls :
                /\ pend'[c] = "live" => pend[c] = "live" /\ c \notin cs
                /\ pend'[c] = "tombstone" => Holds(c, "ambiguous")'
                /\ pend'[c] # "none" => view'[c] # "gone"
    PROVE  HoldersInv' /\ PendingInv' /\ RequestsInv' /\ DuplicatesAreServed'
<1> USE CallsAssumption
<1>1. \A c \in Calls :
        call'[c] = IF c \in cs \/ (call[c] = "dup" /\ waits[c] \in cs) THEN result ELSE call[c]
  BY DEF Return
<1>2. \A c \in Calls : call[c] \in Active /\ c \notin cs => call'[c] = call[c]
  BY <1>1 DEF Active
<1>3. \A c \in Calls : call'[c] \in Active => call[c] = call'[c] /\ c \notin cs
  BY <1>1 DEF Active, Settled
<1>4. HoldersInv'
  BY <1>3 DEF HoldersInv, Holds
<1>5. PendingInv'
  <2>1. \A op \in Ops : ledger[op].status = "pending" => ledger[op].owner \in Calls
    BY DEF LedgersInv, Sound
  <2> QED
    BY <1>2, <2>1 DEF PendingInv
<1>6. RequestsInv'
  BY <1>2 DEF RequestsInv, Active
<1>7. DuplicatesAreServed'
  <2> SUFFICES ASSUME NEW c \in Calls, call'[c] = "dup"
               PROVE  call'[waits[c]] \in Active
    BY <1>1 DEF DuplicatesAreServed, Active, Settled
  <2>1. call[c] = "dup" /\ waits[c] \notin cs
    BY <1>1 DEF Settled
  <2> QED
    BY <1>2, <2>1 DEF DuplicatesAreServed, Active
<1> QED
  BY <1>4, <1>5, <1>6, <1>7

(* markAmbiguous on the records of calls that return or have returned. *)
LEMMA MarkKeeps ==
    ASSUME OInv, TypeOK', NEW cs, NEW marked, Return(cs, "error"), UNCHANGED <<waits, answered>>,
           ledger' = MarkAmbiguous(ledger, marked),
           \A c \in Calls : c \in marked /\ call[c] \in Active => c \in cs,
           \A c \in Calls : c \in cs => c \in marked,
           \A c \in Calls :
                /\ pend'[c] = "live" => pend[c] = "live" /\ c \notin cs
                /\ pend'[c] = "tombstone" => pend[c] = "tombstone" \/ (pend[c] = "live" /\ c \in marked)
                /\ pend'[c] # "none" => view'[c] # "gone",
           chain' = chain \/ QueuePersist(ledger'),
           disk' = disk
    PROVE  CallersInv'
<1> USE CallsAssumption DEF CallersInv
<1>0. TypeOK /\ ledger \in Ledgers
  BY DEF OInv, IInv, TypeOK
<1>1. \A op \in Ops :
        ledger'[op] = IF ledger[op].owner \in marked /\ ledger[op].status = "pending"
                      THEN [ledger[op] EXCEPT !.status = "ambiguous"] ELSE ledger[op]
  BY DEF MarkAmbiguous
<1>2. ASSUME NEW c \in Calls, call[c] \in Active, c \notin cs
      PROVE  ledger'[OpOf[c]] = ledger[OpOf[c]]
  <2>1. OpOf[c] \in Ops /\ ledger[OpOf[c]].owner = c /\ c \notin marked
    BY <1>2, HolderFacts DEF OInv, Holds
  <2> QED
    BY <1>1, <2>1
<1>3. ASSUME NEW op \in Ops, ledger'[op].status = "pending"
      PROVE  ledger'[op] = ledger[op] /\ ledger[op].owner \notin cs
  <2>1. ledger'[op] = ledger[op] /\ ledger[op].owner \notin marked
    BY <1>0, <1>1, <1>3 DEF Ledgers, Records
  <2>2. ledger[op].owner \in Calls
    BY <1>3, <2>1 DEF OInv, LedgersInv, Sound
  <2> QED
    BY <2>1, <2>2
<1>4. ASSUME NEW c \in Calls, pend'[c] = "tombstone"
      PROVE  Holds(c, "ambiguous")'
  <2>1. CASE pend[c] = "tombstone"
    <3>1. Holds(c, "ambiguous") /\ OpOf[c] \in Ops
      BY <2>1 DEF OInv, RequestsInv
    <3> QED
      BY <1>1, <3>1 DEF Holds
  <2>2. CASE pend[c] = "live" /\ c \in marked
    <3>1. Holds(c, "pending") /\ OpOf[c] \in Ops
      BY <2>2 DEF OInv, RequestsInv, HoldersInv, Active
    <3>2. ledger[OpOf[c]] \in Records
      BY <1>0, <3>1 DEF Ledgers
    <3> QED
      BY <1>1, <2>2, <3>1, <3>2 DEF Holds, Records
  <2> QED
    BY <1>4, <2>1, <2>2
<1>5. HoldersInv' /\ PendingInv' /\ RequestsInv' /\ DuplicatesAreServed'
  <2>1. \A c \in Calls :
            /\ pend'[c] = "live" => pend[c] = "live" /\ c \notin cs
            /\ pend'[c] = "tombstone" => Holds(c, "ambiguous")'
            /\ pend'[c] # "none" => view'[c] # "gone"
    BY <1>4
  <2> QED
    BY <1>0, <1>2, <1>3, <2>1, ReturnKeeps DEF OInv, Settled
<1>6. LedgersInv'
  <2>1. Sound(ledger', answered')
    BY <1>0, SoundChanges DEF OInv, LedgersInv
  <2>2. SnapsKept /\ FileKept
    BY <1>0, QueueKeeps DEF QueuePersist, FileKept
  <2> QED
    BY <1>0, <2>1, <2>2, LedgersStep DEF OInv
<1> QED
  BY <1>5, <1>6

(* The record of a call is in doubt and the call returns. *)
LEMMA DoubtKeeps ==
    ASSUME OInv, TypeOK', NEW c \in Calls, Doubt(c),
           UNCHANGED <<waits, view, answered, disk>>,
           \A d \in Calls :
                /\ pend'[d] = "live" => pend[d] = "live" /\ d # c
                /\ pend'[d] = "tombstone" => pend[d] = "tombstone" \/ (pend[d] = "live" /\ d = c)
    PROVE  CallersInv'
<1>1. /\ Return({c}, "error")
      /\ ledger' = MarkAmbiguous(ledger, {c})
      /\ chain' = chain \/ QueuePersist(ledger')
  BY DEF Doubt
<1>2. \A d \in Calls :
            /\ pend'[d] = "live" => pend[d] = "live" /\ d \notin {c}
            /\ pend'[d] = "tombstone" => pend[d] = "tombstone" \/ (pend[d] = "live" /\ d \in {c})
            /\ pend'[d] # "none" => view'[d] # "gone"
  <2>1. pend' \in [Calls -> {"none", "live", "tombstone"}]
    BY DEF TypeOK
  <2> QED
    BY <2>1 DEF OInv, CallersInv, RequestsInv
<1> HIDE DEF Doubt
<1> QED
  BY <1>1, <1>2, MarkKeeps

(* dropConnectionPending: a request that still waits is one of its         *)
(* session, and none is left behind.                                       *)
LEMMA DropKeeps ==
    ASSUME OInv, TypeOK', NEW ts, Return(Unsettled(ts), "error"),
           UNCHANGED <<waits, answered, disk>>,
           ledger' = MarkAmbiguous(ledger, Dropped(ts)),
           pend' = [c \in Calls |-> IF c \in OnTabs(ts) THEN "none" ELSE pend[c]],
           \A c \in Calls : c \notin OnTabs(ts) => (view'[c] = "gone" => view[c] = "gone"),
           chain' = chain \/ QueuePersist(ledger')
    PROVE  CallersInv'
<1> USE CallsAssumption
<1>1. ASSUME NEW c \in Calls, c \in Dropped(ts), call[c] \in Active
      PROVE  c \in Unsettled(ts)
  <2>1. pend[c] # "tombstone"
    BY <1>1, HolderFacts DEF OInv, CallersInv
  <2>2. pend[c] \in {"none", "live", "tombstone"}
    BY DEF OInv, IInv, TypeOK
  <2> QED
    BY <1>1, <2>1, <2>2 DEF Dropped, Unsettled
<1>2. \A c \in Calls : c \in Unsettled(ts) => c \in Dropped(ts)
  BY DEF Dropped, Unsettled
<1>3. \A c \in Calls :
            /\ pend'[c] = "live" => pend[c] = "live" /\ c \notin Unsettled(ts)
            /\ pend'[c] = "tombstone" => pend[c] = "tombstone" \/ (pend[c] = "live" /\ c \in Dropped(ts))
            /\ pend'[c] # "none" => view'[c] # "gone"
  BY DEF OInv, CallersInv, RequestsInv, Unsettled
<1> QED
  BY <1>1, <1>2, <1>3, MarkKeeps

(* The request of a call leaves. *)
LEMMA SendKeeps ==
    ASSUME OInv, TypeOK', NEW c \in Calls, call[c] = "ready", SendRequest(c),
           UNCHANGED <<ledger, chain, disk, waits, view, answered>>,
           \/ UNCHANGED pend
           \/ /\ pend' = [pend EXCEPT ![c] = "live"]
              /\ KindOf[OpOf[c]] = "browser" /\ view[c] = "current"
    PROVE  CallersInv'
<1> USE CallsAssumption DEF Active
<1>0. TypeOK
  BY DEF OInv, IInv
<1>1. call'[c] = "sent" /\ \A d \in Calls : d # c => call'[d] = call[d]
  BY <1>0 DEF SendRequest, TypeOK
<1>2. LedgersInv'
  BY DEF OInv, CallersInv, LedgersInv
<1>3. HoldersInv'
  BY <1>1 DEF OInv, CallersInv, HoldersInv, Holds
<1>4. PendingInv'
  <2>1. \A op \in Ops : ledger[op].status = "pending" => ledger[op].owner \in Calls
    BY DEF OInv, CallersInv, LedgersInv, Sound
  <2> QED
    BY <1>1, <2>1 DEF OInv, CallersInv, PendingInv
<1>5. RequestsInv'
  <2>1. \A d \in Calls : \/ pend'[d] = pend[d]
                         \/ d = c /\ pend'[d] = "live" /\ KindOf[OpOf[c]] = "browser" /\ view[c] = "current"
    BY <1>0 DEF TypeOK
  <2>2. pend[c] # "live"
    BY DEF OInv, CallersInv, RequestsInv
  <2> QED
    BY <1>1, <2>1, <2>2 DEF OInv, CallersInv, RequestsInv, Holds
<1>6. DuplicatesAreServed'
  BY <1>1 DEF OInv, CallersInv, DuplicatesAreServed
<1> QED
  BY <1>2, <1>3, <1>4, <1>5, <1>6 DEF CallersInv

(* The record of a call is removed and the call returns. *)
LEMMA ForgetKeeps ==
    ASSUME OInv, TypeOK', NEW c \in Calls, call[c] = "ready",
           NEW retry \in BOOLEAN, Forget(c, retry),
           UNCHANGED <<waits, pend, view, answered, disk>>
    PROVE  CallersInv'
<1> USE CallsAssumption
<1>0. TypeOK /\ ledger \in Ledgers /\ ledger' \in Ledgers
  BY DEF OInv, IInv, TypeOK
<1>1. /\ Return({c}, "error")
      /\ Queue(ledger', NoCall, retry)
      /\ \A op \in Ops : ledger'[op] = IF op = OpOf[c] THEN NoRecord ELSE ledger[op]
  BY <1>0 DEF Forget, Ledgers
<1> HIDE DEF Forget
<1>2. OpOf[c] \in Ops /\ Holds(c, "pending") /\ pend[c] # "tombstone"
  BY HolderFacts DEF OInv, CallersInv, Active
<1>3. \A d \in Calls : d # c /\ ledger[OpOf[d]].owner = d => ledger'[OpOf[d]] = ledger[OpOf[d]]
  BY <1>1, <1>2 DEF Holds
<1>4. \A d \in Calls : call[d] \in Active /\ d \notin {c} =>
            ledger'[OpOf[d]] = ledger[OpOf[d]]
  BY <1>3, HolderFacts DEF OInv, CallersInv, Holds
<1>5. \A op \in Ops : ledger'[op].status = "pending" =>
            ledger'[op] = ledger[op] /\ ledger[op].owner \notin {c}
  BY <1>1 DEF NoRecord, OInv, CallersInv, LedgersInv, Sound
<1>6. \A d \in Calls :
            /\ pend'[d] = "live" => pend[d] = "live" /\ d \notin {c}
            /\ pend'[d] = "tombstone" => Holds(d, "ambiguous")'
            /\ pend'[d] # "none" => view'[d] # "gone"
  BY <1>2, <1>3 DEF OInv, CallersInv, RequestsInv, Holds
<1>7. HoldersInv' /\ PendingInv' /\ RequestsInv' /\ DuplicatesAreServed'
  BY <1>0, <1>1, <1>4, <1>5, <1>6, ReturnKeeps DEF OInv, CallersInv, Settled
<1>8. LedgersInv'
  <2>1. Sound(ledger', answered')
    BY <1>0, <1>1, SoundChanges DEF OInv, CallersInv, LedgersInv
  <2>2. SnapsKept /\ FileKept
    BY <1>0, <1>1, QueueKeeps DEF FileKept
  <2> QED
    BY <1>0, <2>1, <2>2, LedgersStep DEF OInv, CallersInv
<1> QED
  BY <1>7, <1>8 DEF CallersInv

(* The peer answered: the record completes, the call and its duplicates    *)
(* return with its result.                                                 *)
LEMMA StoreKeeps ==
    ASSUME OInv, TypeOK', NEW c \in Calls, call[c] = "sent", StoreCompleted(c),
           UNCHANGED <<waits, view, disk>>,
           \A d \in Calls : pend'[d] = pend[d] \/ (d = c /\ pend'[d] = "none"),
           pend'[c] # "live"
    PROVE  CallersInv' /\ SuccessIsGenuine'
<1> USE CallsAssumption
<1>0. TypeOK /\ ledger \in Ledgers /\ ledger' \in Ledgers
  BY DEF OInv, IInv, TypeOK
<1>1. PICK done \in {"completed", "completed_no_result"} :
            ledger' = [op \in Ops |-> IF ledger[op].owner = c
                                      THEN [ledger[op] EXCEPT !.status = done]
                                      ELSE ledger[op]]
  BY DEF StoreCompleted
<1>2. /\ Return({c}, "ok")
      /\ QueuePersist(ledger')
      /\ answered' = answered \cup {c}
  BY DEF StoreCompleted
<1> HIDE DEF StoreCompleted
<1>3. \A op \in Ops :
            \/ ledger[op].owner # c /\ ledger'[op] = ledger[op]
            \/ ledger[op].owner = c /\ ledger'[op].owner = c /\ ledger'[op].status = done
  BY <1>0, <1>1 DEF Ledgers, Records
<1>4. OpOf[c] \in Ops /\ Holds(c, "pending") /\ pend[c] # "tombstone"
  BY HolderFacts DEF OInv, CallersInv, Active
<1>5. \A d \in Calls : d # c /\ ledger[OpOf[d]].owner = d => ledger'[OpOf[d]] = ledger[OpOf[d]]
  BY <1>3
<1>6. \A d \in Calls : call[d] \in Active /\ d \notin {c} =>
            ledger'[OpOf[d]] = ledger[OpOf[d]]
  BY <1>5, HolderFacts DEF OInv, CallersInv, Holds
<1>7. \A op \in Ops : ledger'[op].status = "pending" =>
            ledger'[op] = ledger[op] /\ ledger[op].owner \notin {c}
  BY <1>3
<1>8. \A d \in Calls :
            /\ pend'[d] = "live" => pend[d] = "live" /\ d \notin {c}
            /\ pend'[d] = "tombstone" => Holds(d, "ambiguous")'
            /\ pend'[d] # "none" => view'[d] # "gone"
  BY <1>4, <1>5 DEF OInv, CallersInv, RequestsInv, Holds
<1>9. HoldersInv' /\ PendingInv' /\ RequestsInv' /\ DuplicatesAreServed'
  BY <1>0, <1>2, <1>6, <1>7, <1>8, ReturnKeeps DEF OInv, CallersInv, Settled
<1>10. LedgersInv'
  <2>1. Sound(ledger', answered')
    <3>1. \A op \in Ops : ledger[op].owner = c => op = OpOf[c]
      <4>1. \A op \in Ops : ledger[op].status = "absent" => ledger[op].owner = NoCall
        BY DEF OInv, IInv, RecordsInv, WellFormed
      <4> QED
        BY <4>1 DEF OInv, CallersInv, LedgersInv, Sound
    <3> QED
      BY <1>2, <1>3, <3>1 DEF OInv, CallersInv, LedgersInv, Sound
  <2>2. SnapsKept /\ FileKept
    BY <1>0, <1>2, QueueKeeps DEF QueuePersist, FileKept
  <2> QED
    BY <1>0, <1>2, <2>1, <2>2, LedgersStep DEF OInv, CallersInv
<1>11. SuccessIsGenuine'
  <2> SUFFICES ASSUME NEW d \in Calls, call'[d] = "ok"
               PROVE  \E a \in answered' : OpOf[a] = OpOf[d] /\ ArgsOf[a] = ArgsOf[d]
    BY DEF SuccessIsGenuine
  <2>1. CASE call[d] = "ok"
    BY <1>2, <2>1 DEF OInv, SuccessIsGenuine
  <2>2. CASE d = c
    BY <1>2, <2>2
  <2>3. CASE call[d] = "dup" /\ waits[d] = c
    BY <1>2, <2>3 DEF OInv, CallersInv, DuplicatesAreServed
  <2> QED
    BY <1>2, <2>1, <2>2, <2>3 DEF Return
<1> QED
  BY <1>9, <1>10, <1>11 DEF CallersInv

(* A duplicate joins the call whose pending record it found. *)
LEMMA DuplicateKeeps ==
    ASSUME OInv, TypeOK', NEW c \in Calls, BeginDuplicate(c)
    PROVE  CallersInv'
<1> USE CallsAssumption
<1> DEFINE d == ledger[OpOf[c]].owner
<1>0. /\ TypeOK
      /\ call[c] = "idle" /\ ledger[OpOf[c]].status = "pending" /\ ArgsOf[d] = ArgsOf[c]
      /\ UNCHANGED <<ledger, chain, disk, pend, view, answered>>
  BY DEF OInv, IInv, BeginDuplicate, Entering, SameArgs, fileVars, historyVars
<1>1. /\ call'[c] = "dup" /\ \A x \in Calls : x # c => call'[x] = call[x]
      /\ waits'[c] = d /\ \A x \in Calls : x # c => waits'[x] = waits[x]
  BY <1>0 DEF BeginDuplicate, TypeOK
<1>2. d \in Calls /\ OpOf[d] = OpOf[c] /\ call[d] \in Active
  BY <1>0 DEF OInv, CallersInv, LedgersInv, Sound, PendingInv
<1> HIDE DEF d
<1>3. LedgersInv'
  BY <1>0 DEF OInv, CallersInv, LedgersInv, Sound
<1>4. HoldersInv'
  BY <1>0, <1>1 DEF OInv, CallersInv, HoldersInv, Holds, Active
<1>5. PendingInv'
  <2>1. \A op \in Ops : ledger[op].status = "pending" => ledger[op].owner \in Calls
    BY DEF OInv, CallersInv, LedgersInv, Sound
  <2> QED
    BY <1>0, <1>1, <2>1 DEF OInv, CallersInv, PendingInv, Active
<1>6. RequestsInv'
  BY <1>0, <1>1 DEF OInv, CallersInv, RequestsInv, Holds
<1>7. DuplicatesAreServed'
  BY <1>0, <1>1, <1>2 DEF OInv, CallersInv, DuplicatesAreServed, Active
<1> QED
  BY <1>3, <1>4, <1>5, <1>6, <1>7 DEF CallersInv

(* A call that ends at once: only its own state changes. *)
LEMMA EndsAtOnceKeeps ==
    ASSUME OInv, TypeOK', NEW c \in Calls, NEW result \in Settled, call[c] = "idle",
           call' = [call EXCEPT ![c] = result],
           UNCHANGED <<ledger, chain, disk, waits, pend, view, answered>>
    PROVE  CallersInv'
<1> USE CallsAssumption
<1>1. call'[c] = result /\ \A x \in Calls : x # c => call'[x] = call[x]
  BY DEF OInv, IInv, TypeOK
<1>2. LedgersInv'
  BY DEF OInv, CallersInv, LedgersInv, Sound
<1>3. HoldersInv'
  BY <1>1 DEF OInv, CallersInv, HoldersInv, Holds, Active, Settled
<1>4. PendingInv'
  <2>1. \A op \in Ops : ledger[op].status = "pending" => ledger[op].owner \in Calls
    BY DEF OInv, CallersInv, LedgersInv, Sound
  <2> QED
    BY <1>1, <2>1 DEF OInv, CallersInv, PendingInv, Active
<1>5. RequestsInv'
  BY <1>1 DEF OInv, CallersInv, RequestsInv, Holds
<1>6. DuplicatesAreServed'
  BY <1>1 DEF OInv, CallersInv, DuplicatesAreServed, Settled
<1> QED
  BY <1>2, <1>3, <1>4, <1>5, <1>6 DEF CallersInv

(* A new record: its operation had none, and the call no request. *)
LEMMA BeginKeeps ==
    ASSUME OInv, TypeOK', NEW c \in Calls, BeginOperation(c)
    PROVE  CallersInv'
<1> USE CallsAssumption
<1>0. /\ TypeOK /\ call[c] = "idle" /\ ledger[OpOf[c]].status = "absent"
      /\ Queue(ledger', c, FALSE)
      /\ UNCHANGED <<disk, waits, pend, answered>>
  BY DEF OInv, IInv, BeginOperation, Entering, Existing, fileVars, historyVars
<1>1. /\ call'[c] = "persisting" /\ \A x \in Calls : x # c => call'[x] = call[x]
      /\ view'[c] = "current" /\ \A x \in Calls : x # c => view'[x] = view[x]
      /\ OpOf[c] \in Ops
  BY <1>0 DEF BeginOperation, TypeOK
<1>2. /\ ledger'[OpOf[c]].status = "pending" /\ ledger'[OpOf[c]].owner = c
      /\ \A op \in Ops : op # OpOf[c] => ledger'[op] = ledger[op]
  BY <1>0, <1>1 DEF BeginOperation, TypeOK, Ledgers
<1>3. ASSUME NEW d \in Calls, ledger[OpOf[d]].status # "absent"
      PROVE  d # c /\ ledger'[OpOf[d]] = ledger[OpOf[d]]
  BY <1>0, <1>2, <1>3
<1>4. LedgersInv'
  <2>1. Sound(ledger', answered')
    BY <1>0, <1>2 DEF OInv, CallersInv, LedgersInv, Sound
  <2>2. SnapsKept /\ FileKept
    BY <1>0, QueueKeeps DEF FileKept
  <2> QED
    BY <1>0, <2>1, <2>2, LedgersStep DEF OInv, CallersInv
<1>5. HoldersInv'
  <2> SUFFICES ASSUME NEW d \in Calls, call'[d] \in Active, d # c PROVE Holds(d, "pending")'
    BY <1>2 DEF HoldersInv, Holds
  <2>1. Holds(d, "pending")
    BY <1>1 DEF OInv, CallersInv, HoldersInv
  <2> QED
    BY <1>3, <2>1 DEF Holds
<1>6. PendingInv'
  <2>1. \A op \in Ops : ledger[op].status = "pending" => ledger[op].owner \in Calls
    BY DEF OInv, CallersInv, LedgersInv, Sound
  <2>2. \A x \in Calls : call[x] \in Active => call'[x] \in Active
    BY <1>1 DEF Active
  <2>3. call'[c] \in Active
    BY <1>1 DEF Active
  <2> QED
    BY <1>2, <2>1, <2>2, <2>3 DEF OInv, CallersInv, PendingInv
<1>7. RequestsInv'
  <2>1. pend[c] = "none"
    BY <1>0 DEF OInv, IInv, CallsInv, Dispatched, Settled
  <2>2. \A d \in Calls : Holds(d, "ambiguous") => Holds(d, "ambiguous")'
    BY <1>3 DEF Holds
  <2> QED
    BY <1>0, <1>1, <2>1, <2>2 DEF OInv, CallersInv, RequestsInv
<1>8. DuplicatesAreServed'
  BY <1>0, <1>1 DEF OInv, CallersInv, DuplicatesAreServed
<1> QED
  BY <1>4, <1>5, <1>6, <1>7, <1>8 DEF CallersInv

(* A queued write ends well. *)
LEMMA WriteSucceedsKeeps ==
    ASSUME OInv, TypeOK', WriteSucceeds
    PROVE  CallersInv'
<1> USE CallsAssumption
<1>0. /\ TypeOK /\ chain # <<>>
      /\ UNCHANGED <<ledger, waits, pend, view, answered>>
  BY DEF OInv, IInv, WriteSucceeds, historyVars
<1>1. /\ 1 \in DOMAIN chain /\ chain[1] = Head(chain)
      /\ \A i \in DOMAIN chain' :
            i \in Nat \ {0} /\ i + 1 \in DOMAIN chain /\ chain'[i] = chain[i + 1]
  BY <1>0, TailEffect DEF WriteSucceeds
<1>2. /\ disk'.records = chain[1].snap
      /\ \A c \in Calls : call'[c] = IF c = chain[1].begins THEN "ready" ELSE call[c]
  BY <1>1 DEF WriteSucceeds
<1>3. \A c \in Calls : c = chain[1].begins => call[c] = "persisting"
  BY <1>1 DEF OInv, IInv, ChainInv
<1>4. \A c \in Calls :
            \/ call'[c] = call[c]
            \/ call[c] = "persisting" /\ call'[c] = "ready"
  BY <1>2, <1>3
<1>5. LedgersInv'
  <2>1. SnapsKept /\ FileKept
    BY <1>1, <1>2 DEF SnapsKept, FileKept
  <2>2. Sound(ledger', answered')
    BY <1>0 DEF OInv, CallersInv, LedgersInv
  <2> QED
    BY <1>0, <2>1, <2>2, LedgersStep DEF OInv, CallersInv
<1>6. HoldersInv'
  BY <1>0, <1>4 DEF OInv, CallersInv, HoldersInv, Holds, Active
<1>7. PendingInv'
  <2>1. \A op \in Ops : ledger[op].status = "pending" => ledger[op].owner \in Calls
    BY DEF OInv, CallersInv, LedgersInv, Sound
  <2> QED
    BY <1>0, <1>4, <2>1 DEF OInv, CallersInv, PendingInv, Active
<1>8. RequestsInv'
  BY <1>0, <1>4 DEF OInv, CallersInv, RequestsInv, Holds
<1>9. DuplicatesAreServed'
  BY <1>0, <1>4 DEF OInv, CallersInv, DuplicatesAreServed
<1> QED
  BY <1>5, <1>6, <1>7, <1>8, <1>9 DEF CallersInv

(* A queued write fails: the call that awaited it returns, and its record  *)
(* goes.                                                                   *)
LEMMA WriteFailsKeeps ==
    ASSUME OInv, TypeOK', WriteFails
    PROVE  CallersInv'
<1> USE CallsAssumption
<1> DEFINE b == chain[1].begins
           cs == {b} \cap Calls
<1>0. /\ TypeOK /\ chain # <<>> /\ ledger \in Ledgers /\ ledger' \in Ledgers
      /\ UNCHANGED <<waits, pend, view, answered, disk>>
  BY DEF OInv, IInv, TypeOK, WriteFails, fileVars, historyVars
<1>1. /\ 1 \in DOMAIN chain /\ chain[1] = Head(chain)
      /\ \A i \in DOMAIN Tail(chain) :
            i \in Nat \ {0} /\ i + 1 \in DOMAIN chain /\ Tail(chain)[i] = chain[i + 1]
  BY <1>0, TailEffect
<1>2. b \in Calls \cup {NoCall}
  BY <1>0, <1>1, ChainElement
<1>3. /\ \A op \in Ops : ledger'[op] = IF b # NoCall /\ op = OpOf[b] THEN NoRecord ELSE ledger[op]
      /\ Return(cs, "error")
      /\ \/ chain' = Tail(chain)
         \/ chain' = Append(Tail(chain), [snap |-> ledger, begins |-> NoCall, retry |-> FALSE])
  BY <1>1 DEF WriteFails
<1>4. b \in Calls => /\ call[b] = "persisting" /\ b # NoCall
                     /\ OpOf[b] \in Ops /\ Holds(b, "pending") /\ pend[b] # "tombstone"
  <2>1. b \in Calls => call[b] = "persisting" /\ b # NoCall
    BY <1>1 DEF OInv, IInv, ChainInv
  <2> QED
    BY <2>1, HolderFacts DEF OInv, CallersInv, Active
<1> HIDE DEF b
<1>5. \A d \in Calls : d \notin cs /\ ledger[OpOf[d]].owner = d => ledger'[OpOf[d]] = ledger[OpOf[d]]
  BY <1>2, <1>3, <1>4 DEF Holds
<1>6. \A d \in Calls : call[d] \in Active /\ d \notin cs =>
            ledger'[OpOf[d]] = ledger[OpOf[d]]
  BY <1>5, HolderFacts DEF OInv, CallersInv, Holds
<1>7. \A op \in Ops : ledger'[op].status = "pending" =>
            ledger'[op] = ledger[op] /\ ledger[op].owner \notin cs
  BY <1>3, <1>4 DEF NoRecord, OInv, CallersInv, LedgersInv, Sound
<1>8. \A d \in Calls :
            /\ pend'[d] = "live" => pend[d] = "live" /\ d \notin cs
            /\ pend'[d] = "tombstone" => Holds(d, "ambiguous")'
            /\ pend'[d] # "none" => view'[d] # "gone"
  BY <1>0, <1>4, <1>5 DEF OInv, CallersInv, RequestsInv, Holds
<1>9. HoldersInv' /\ PendingInv' /\ RequestsInv' /\ DuplicatesAreServed'
  BY <1>0, <1>3, <1>6, <1>7, <1>8, ReturnKeeps DEF OInv, CallersInv, Settled
<1>10. LedgersInv'
  <2>1. Sound(ledger', answered')
    BY <1>0, <1>3, SoundChanges DEF OInv, CallersInv, LedgersInv
  <2>2. SnapsKept
    BY <1>0, <1>3, TailKeeps
  <2>3. FileKept
    BY <1>0 DEF FileKept
  <2> QED
    BY <1>0, <2>1, <2>2, <2>3, LedgersStep DEF OInv, CallersInv
<1> QED
  BY <1>9, <1>10 DEF CallersInv

(* An operator decides an ambiguous record; the connection this closes     *)
(* takes its requests along.                                               *)
LEMMA ReconcileKeeps ==
    ASSUME OInv, TypeOK', NEW op \in Ops, NEW decision, Reconcile(op, decision)
    PROVE  CallersInv'
<1> USE CallsAssumption
<1> DEFINE ts == TargetTabs(ledger[op].owner)
           dropped == MarkAmbiguous(ledger, Dropped(ts))
<1>0. /\ TypeOK /\ ledger \in Ledgers /\ ledger' \in Ledgers /\ dropped \in Ledgers
      /\ ledger[op].status = "ambiguous"
      /\ UNCHANGED <<waits, answered, disk>>
  BY MarkEffect DEF OInv, IInv, TypeOK, Reconcile, fileVars
<1>1. /\ ledger' = [dropped EXCEPT ![op] = IF decision = "confirmed_not_applied" THEN NoRecord
                                           ELSE [@ EXCEPT !.status = "confirmed_applied"]]
      /\ Return(Unsettled(ts), "error")
      /\ QueuePersist(ledger')
      /\ pend' = [c \in Calls |-> IF c \in OnTabs(ts) THEN "none" ELSE pend[c]]
      /\ Gone(ts)
  BY DEF Reconcile
<1>2. \A o \in Ops :
        dropped[o] = IF ledger[o].owner \in Dropped(ts) /\ ledger[o].status = "pending"
                     THEN [ledger[o] EXCEPT !.status = "ambiguous"] ELSE ledger[o]
  BY DEF MarkAmbiguous
<1> HIDE DEF ts, dropped
<1>3. /\ \A o \in Ops : o # op => ledger'[o] = dropped[o]
      /\ ledger'[op].status \in {"absent", "confirmed_applied"}
      /\ ledger'[op].status # "absent" => ledger'[op].owner = ledger[op].owner
  BY <1>0, <1>1, <1>2 DEF Ledgers, Records, NoRecord
<1>4. ASSUME NEW c \in Calls, call[c] \in Active, c \notin Unsettled(ts)
      PROVE  ledger'[OpOf[c]] = ledger[OpOf[c]]
  <2>1. OpOf[c] \in Ops /\ Holds(c, "pending") /\ pend[c] # "tombstone"
    BY <1>4, HolderFacts DEF OInv, CallersInv
  <2>2. pend[c] \in {"none", "live", "tombstone"}
    BY <1>0 DEF TypeOK
  <2>3. c \notin Dropped(ts) /\ OpOf[c] # op
    BY <1>0, <1>4, <2>1, <2>2 DEF Dropped, Unsettled, Holds
  <2> QED
    BY <1>2, <1>3, <2>1, <2>3 DEF Holds
<1>5. ASSUME NEW o \in Ops, ledger'[o].status = "pending"
      PROVE  ledger'[o] = ledger[o] /\ ledger[o].owner \notin Unsettled(ts)
  <2>1. o # op /\ ledger'[o] = dropped[o]
    BY <1>3, <1>5
  <2>2. ledger[o] \in Records
    BY <1>0 DEF Ledgers
  <2>3. dropped[o] = ledger[o] /\ ledger[o].owner \notin Dropped(ts)
    BY <1>2, <1>5, <2>1, <2>2 DEF Records
  <2> QED
    BY <2>1, <2>3 DEF Dropped, Unsettled
<1>6. ASSUME NEW c \in Calls
      PROVE  /\ pend'[c] = "live" => pend[c] = "live" /\ c \notin Unsettled(ts)
             /\ pend'[c] = "tombstone" => Holds(c, "ambiguous")'
             /\ pend'[c] # "none" => view'[c] # "gone"
  <2>1. CASE c \in OnTabs(ts)
    BY <1>1, <2>1
  <2>2. CASE c \notin OnTabs(ts)
    <3>1. pend'[c] = pend[c] /\ view'[c] = view[c] /\ c \notin Unsettled(ts)
      BY <1>1, <2>2 DEF Gone, Unsettled
    <3>2. ASSUME pend[c] = "tombstone" PROVE Holds(c, "ambiguous")'
      <4>1. Holds(c, "ambiguous") /\ view[c] # "gone" /\ OpOf[c] \in Ops
        BY <3>2 DEF OInv, CallersInv, RequestsInv
      <4>2. OpOf[c] # op
        <5> SUFFICES ASSUME OpOf[c] = op PROVE FALSE
          OBVIOUS
        <5>1. ledger[op].owner = c
          BY <4>1 DEF Holds
        <5>2. ts = {TabOf[c]}
          BY <3>2, <4>1, <5>1 DEF ts, TargetTabs
        <5> QED
          BY <2>2, <5>2 DEF OnTabs
      <4> QED
        BY <1>2, <1>3, <4>1, <4>2 DEF Holds
    <3> QED
      BY <3>1, <3>2 DEF OInv, CallersInv, RequestsInv
  <2> QED
    BY <2>1, <2>2
<1>7. HoldersInv' /\ PendingInv' /\ RequestsInv' /\ DuplicatesAreServed'
  BY <1>0, <1>1, <1>4, <1>5, <1>6, ReturnKeeps DEF OInv, CallersInv, Settled
<1>8. LedgersInv'
  <2>1. Sound(dropped, answered)
    BY <1>0, SoundChanges DEF dropped, OInv, CallersInv, LedgersInv
  <2>2. Sound(ledger', answered')
    <3>1. ledger[op].owner \in Calls /\ OpOf[ledger[op].owner] = op
      BY <1>0 DEF OInv, CallersInv, LedgersInv, Sound
    <3> QED
      BY <1>0, <1>3, <2>1, <3>1 DEF Sound
  <2>3. SnapsKept /\ FileKept
    BY <1>0, <1>1, QueueKeeps DEF QueuePersist, FileKept
  <2> QED
    BY <1>0, <2>2, <2>3, LedgersStep DEF OInv, CallersInv
<1> QED
  BY <1>7, <1>8 DEF CallersInv

(* The process starts or stops: no call is under way, nothing is pending.  *)
LEMMA ProcessKeeps ==
    ASSUME OInv, TypeOK', (\E e \in Epochs : Start(e)) \/ Crash
    PROVE  CallersInv'
<1> USE CallsAssumption
<1>0. TypeOK /\ ledger' \in Ledgers /\ disk.records \in Ledgers
  BY DEF OInv, IInv, TypeOK, Documents
<1>1. /\ \A c \in Calls : call'[c] \notin Waiting /\ pend'[c] = "none"
      /\ \A op \in Ops : ledger'[op].status # "pending"
      /\ Sound(ledger', answered')
      /\ SnapsKept /\ FileKept
      /\ UNCHANGED answered
  <2>1. ASSUME NEW e \in Epochs, Start(e) PROVE <1>1!:
    <3>0. /\ ledger' = Recovered(disk.records) /\ disk'.records = ledger'
          /\ mode = "down"
          /\ UNCHANGED <<chain, call, pend, answered>>
      BY <2>1 DEF Start, historyVars
    <3>1. \A c \in Calls : call'[c] \notin Waiting /\ pend'[c] = "none"
      BY <3>0 DEF OInv, IInv, FilesInv, StoppedInv
    <3>2. \A op \in Ops : ledger'[op].status # "pending"
      BY <1>0, <3>0 DEF Recovered, Ledgers, Records
    <3>3. Sound(ledger', answered')
      BY <1>0, <3>0, SoundChanges DEF OInv, CallersInv, LedgersInv
    <3> QED
      BY <3>0, <3>1, <3>2, <3>3 DEF SnapsKept, FileKept
  <2>2. CASE Crash
    <3>0. /\ ledger' = Empty /\ chain' = <<>>
          /\ UNCHANGED <<disk, answered>>
          /\ \A c \in Calls : call'[c] \notin Waiting /\ pend'[c] = "none"
      BY <2>2 DEF Crash, fileVars, historyVars, Waiting
    <3>1. \A op \in Ops : ledger'[op].status = "absent"
      BY <3>0 DEF Empty, NoRecord
    <3> QED
      BY <3>0, <3>1 DEF Sound, SnapsKept, FileKept
  <2> QED
    BY <2>1, <2>2
<1>2. LedgersInv'
  BY <1>0, <1>1, LedgersStep DEF OInv, CallersInv
<1>3. HoldersInv' /\ PendingInv' /\ RequestsInv' /\ DuplicatesAreServed'
  BY <1>1 DEF HoldersInv, PendingInv, RequestsInv, DuplicatesAreServed, Active, Waiting
<1> QED
  BY <1>2, <1>3 DEF CallersInv

-----------------------------------------------------------------------------
(* The invariant. *)

(* Only answers add successes, only a dispatch adds requests. *)
LEMMA NextEffect ==
    ASSUME TypeOK, [Next]_vars
    PROVE  /\ answered \subseteq answered'
           /\ mode' = "down" => \A c \in Calls : pend'[c] # "none" => mode = "down" /\ pend[c] # "none"
  <1> USE DEF historyVars, fileVars, daemonVars
  <1>1. ASSUME NEW c \in Calls, CallStep(c)
        PROVE  answered \subseteq answered' /\ mode' = mode /\ mode # "down"
    BY <1>1 DEF CallStep, BeginDuplicate, BeginCached, BeginRefused, BeginOperation, Entering,
                Dispatch, DispatchBrowser, SendFailed, AbandonBrowser, DispatchHttp,
                DispatchPerfetto, HandleResponse, HandleLateResponse, Timeout, Finish,
                StoreCompleted, Alive
  <1>2. CASE Persist
    BY <1>2 DEF Persist, WriteSucceeds, WriteFails, Alive
  <1>3. ASSUME NEW t \in Tabs, SessionStep(t)
        PROVE  answered' = answered /\ mode' = mode /\ mode # "down"
    BY <1>3 DEF SessionStep, Connect, ConnectionLost, ContextUpdate
  <1>4. ASSUME NEW op \in Ops, NEW decision, Reconcile(op, decision)
        PROVE  answered' = answered /\ mode' = mode /\ mode # "down"
    BY <1>4 DEF Reconcile
  <1>5. ASSUME NEW e \in Epochs, Start(e) \/ ArchiveWrite(e)
        PROVE  answered' = answered /\ (mode' = "running" \/ (mode' = mode /\ pend' = pend))
    BY <1>5 DEF Start, ArchiveWrite
  <1>6. CASE Shutdown \/ Crash
    BY <1>6 DEF Shutdown, Crash
  <1>7. CASE ArchiveReset \/ ArchiveAborts \/ UNCHANGED vars
    BY <1>7 DEF ArchiveReset, ArchiveAborts, vars
  <1> QED
    BY <1>1, <1>2, <1>3, <1>4, <1>5, <1>6, <1>7 DEF Next

(* A success is served by an answered call, which stays answered. *)
LEMMA SuccessKeeps ==
    ASSUME SuccessIsGenuine, answered \subseteq answered',
           \A c \in Calls : call'[c] = "ok" => call[c] = "ok"
    PROVE  SuccessIsGenuine'
  BY DEF SuccessIsGenuine

LEMMA OutcomesInit == Init => OInv
<1> SUFFICES ASSUME Init PROVE OInv
  OBVIOUS
<1>1. IInv
  BY InvInit
<1>2. /\ chain = <<>> /\ \A op \in Ops : ledger[op] = NoRecord /\ disk.records[op] = NoRecord
      /\ \A c \in Calls : call[c] = "idle" /\ pend[c] = "none"
  BY DEF Init, Empty
<1>3. LedgersInv
  BY <1>2 DEF LedgersInv, Sound, NoRecord
<1>4. HoldersInv /\ PendingInv /\ RequestsInv /\ StoppedInv /\ DuplicatesAreServed /\ SuccessIsGenuine
  BY <1>2 DEF HoldersInv, PendingInv, RequestsInv, StoppedInv, DuplicatesAreServed,
              SuccessIsGenuine, Active, NoRecord
<1> QED
  BY <1>1, <1>3, <1>4 DEF OInv, CallersInv

LEMMA OutcomesStep == OInv /\ [Next]_vars => OInv'
<1> SUFFICES ASSUME OInv, [Next]_vars PROVE OInv'
  OBVIOUS
<1> USE CallsAssumption
<1>0. TypeOK /\ TypeOK' /\ IInv' /\ answered \subseteq answered'
  BY TypeStep, InvStep, NextEffect DEF OInv, IInv
<1>1. StoppedInv'
  BY <1>0, NextEffect DEF OInv, StoppedInv
<1> DEFINE Goal == CallersInv' /\ SuccessIsGenuine'
<1>e. ASSUME NEW cs, Return(cs, "error") PROVE SuccessIsGenuine'
  BY <1>0, <1>e, SuccessKeeps DEF Return, OInv
<1>2. ASSUME NEW c \in Calls, BeginDuplicate(c) PROVE Goal
  <2>1. \A d \in Calls : call'[d] = "ok" => call[d] = "ok"
    BY <1>0, <1>2 DEF BeginDuplicate, TypeOK
  <2> QED
    BY <1>0, <1>2, <2>1, DuplicateKeeps, SuccessKeeps DEF OInv
<1>3. ASSUME NEW c \in Calls, BeginCached(c) \/ BeginRefused(c) PROVE Goal
  <2>1. PICK result \in {"ok", "error"} : call' = [call EXCEPT ![c] = result]
    BY <1>3 DEF BeginCached, BeginRefused
  <2>2. /\ call[c] = "idle"
        /\ UNCHANGED <<ledger, chain, disk, waits, pend, view, answered>>
    BY <1>3 DEF BeginCached, BeginRefused, Entering, fileVars, historyVars
  <2>3. CallersInv'
    BY <1>0, <2>1, <2>2, EndsAtOnceKeeps DEF Settled
  <2>4. CASE BeginCached(c)
    <3> DEFINE d == ledger[OpOf[c]].owner
    <3>1. d \in answered /\ OpOf[d] = OpOf[c] /\ ArgsOf[d] = ArgsOf[c]
      BY <2>4 DEF BeginCached, SameArgs, OInv, CallersInv, LedgersInv, Sound
    <3>2. \A x \in Calls : call'[x] = "ok" => call[x] = "ok" \/ x = c
      BY <1>0, <2>1 DEF TypeOK
    <3> QED
      BY <2>2, <2>3, <3>1, <3>2 DEF OInv, SuccessIsGenuine
  <2>5. CASE BeginRefused(c)
    <3>1. \A x \in Calls : call'[x] = "ok" => call[x] = "ok"
      BY <1>0, <2>5 DEF BeginRefused, TypeOK
    <3> QED
      BY <1>0, <2>3, <3>1, SuccessKeeps DEF OInv
  <2> QED
    BY <1>3, <2>4, <2>5
<1>4. ASSUME NEW c \in Calls, BeginOperation(c) PROVE Goal
  <2>1. \A d \in Calls : call'[d] = "ok" => call[d] = "ok"
    BY <1>0, <1>4 DEF BeginOperation, TypeOK
  <2> QED
    BY <1>0, <1>4, <2>1, BeginKeeps, SuccessKeeps DEF OInv
<1>5. ASSUME NEW c \in Calls, Dispatch(c) PROVE Goal
  <2>0. call[c] = "ready" /\ UNCHANGED <<disk, waits, view, answered>>
    BY <1>5 DEF Dispatch, DispatchBrowser, SendFailed, AbandonBrowser, DispatchHttp,
                DispatchPerfetto, fileVars, historyVars
  <2>1. CASE /\ SendRequest(c) /\ UNCHANGED <<ledger, chain>>
             /\ \/ UNCHANGED pend
                \/ /\ pend' = [pend EXCEPT ![c] = "live"]
                   /\ KindOf[OpOf[c]] = "browser" /\ view[c] = "current"
    <3>1. \A d \in Calls : call'[d] = "ok" => call[d] = "ok"
      BY <1>0, <2>1 DEF SendRequest, TypeOK
    <3> QED
      BY <1>0, <2>0, <2>1, <3>1, SendKeeps, SuccessKeeps DEF OInv
  <2>2. ASSUME NEW retry \in BOOLEAN, Forget(c, retry), UNCHANGED pend PROVE Goal
    <3>1. Return({c}, "error")
      BY <2>2 DEF Forget
    <3> QED
      BY <1>0, <1>e, <2>0, <2>2, <3>1, ForgetKeeps
  <2>3. CASE Doubt(c) /\ UNCHANGED pend
    <3>1. Return({c}, "error")
      BY <2>3 DEF Doubt
    <3>2. pend[c] # "live"
      BY <2>0 DEF OInv, CallersInv, RequestsInv
    <3>3. \A d \in Calls : /\ pend'[d] = "live" => pend[d] = "live" /\ d # c
                           /\ pend'[d] = "tombstone" => pend[d] = "tombstone"
      BY <2>3, <3>2
    <3> QED
      BY <1>0, <1>e, <2>0, <2>3, <3>1, <3>3, DoubtKeeps
  <2>4. \/ /\ SendRequest(c) /\ UNCHANGED <<ledger, chain>>
           /\ \/ UNCHANGED pend
              \/ /\ pend' = [pend EXCEPT ![c] = "live"]
                 /\ KindOf[OpOf[c]] = "browser" /\ view[c] = "current"
        \/ (Forget(c, TRUE) \/ Forget(c, FALSE)) /\ UNCHANGED pend
        \/ Doubt(c) /\ UNCHANGED pend
    BY <1>5 DEF Dispatch, DispatchBrowser, SendFailed, AbandonBrowser, DispatchHttp, DispatchPerfetto
  <2> HIDE DEF Goal
  <2> QED
    BY <2>1, <2>2, <2>3, <2>4
<1>6. ASSUME NEW c \in Calls, HandleResponse(c) \/ Timeout(c) \/ Finish(c) PROVE Goal
  <2>0. /\ UNCHANGED <<disk, waits, view>> /\ call[c] = "sent"
        /\ \A d \in Calls : d # c => pend'[d] = pend[d]
        /\ pend'[c] # "live"
        /\ pend'[c] = "tombstone" => pend[c] \in {"live", "tombstone"}
    <3>1. CASE HandleResponse(c)
      BY <1>0, <3>1 DEF HandleResponse, fileVars, OInv, CallersInv, RequestsInv, TypeOK
    <3>2. CASE Timeout(c)
      BY <1>0, <3>2 DEF Timeout, fileVars, OInv, CallersInv, RequestsInv, TypeOK
    <3>3. CASE Finish(c)
      BY <1>0, <3>3 DEF Finish, fileVars, OInv, CallersInv, RequestsInv
    <3> QED
      BY <1>6, <3>1, <3>2, <3>3
  <2>1. CASE Doubt(c) /\ UNCHANGED answered
    <3>1. Return({c}, "error")
      BY <2>1 DEF Doubt
    <3> QED
      BY <1>0, <1>e, <2>0, <2>1, <3>1, DoubtKeeps
  <2>2. CASE StoreCompleted(c) /\ ~Timeout(c)
    <3>1. \A d \in Calls : pend'[d] = pend[d] \/ (d = c /\ pend'[d] = "none")
      BY <1>0, <1>6, <2>0, <2>2 DEF HandleResponse, Finish, TypeOK
    <3> QED
      BY <1>0, <2>0, <2>2, <3>1, StoreKeeps
  <2>3. \/ Doubt(c) /\ UNCHANGED answered
        \/ StoreCompleted(c) /\ ~Timeout(c)
    BY <1>6 DEF HandleResponse, Timeout, Finish, historyVars
  <2> HIDE DEF Goal
  <2> QED
    BY <2>1, <2>2, <2>3
<1>7. ASSUME NEW c \in Calls, HandleLateResponse(c) PROVE Goal
  <2>1. /\ UNCHANGED <<ledger, disk, call, waits, view, answered>>
        /\ QueuePersist(ledger')
        /\ \A d \in Calls : pend'[d] = pend[d] \/ pend'[d] = "none"
    BY <1>0, <1>7 DEF HandleLateResponse, TypeOK, fileVars, historyVars
  <2>2. LedgersInv'
    <3>1. SnapsKept /\ FileKept
      BY <1>0, <2>1, QueueKeeps DEF QueuePersist, FileKept
    <3>2. Sound(ledger', answered')
      BY <2>1 DEF OInv, CallersInv, LedgersInv
    <3> QED
      BY <1>0, <3>1, <3>2, LedgersStep DEF OInv, CallersInv
  <2>3. HoldersInv' /\ PendingInv' /\ RequestsInv' /\ DuplicatesAreServed' /\ SuccessIsGenuine'
    BY <2>1 DEF OInv, CallersInv, HoldersInv, PendingInv, RequestsInv, DuplicatesAreServed,
                SuccessIsGenuine, Holds
  <2> QED
    BY <2>2, <2>3 DEF CallersInv
<1>8. ASSUME Persist PROVE Goal
  <2>1. CASE WriteSucceeds
    <3>1. \A d \in Calls : call'[d] = "ok" => call[d] = "ok"
      BY <2>1 DEF WriteSucceeds
    <3> QED
      BY <1>0, <2>1, <3>1, WriteSucceedsKeeps, SuccessKeeps DEF OInv
  <2>2. CASE WriteFails
    <3>1. Return({Head(chain).begins} \cap Calls, "error")
      BY <2>2 DEF WriteFails
    <3> QED
      BY <1>0, <1>e, <2>2, <3>1, WriteFailsKeeps
  <2> QED
    BY <1>8, <2>1, <2>2 DEF Persist
<1>9. ASSUME NEW t \in Tabs, DropPending({t}), UNCHANGED <<waits, answered, disk>>,
             \A c \in Calls : c \notin OnTabs({t}) => (view'[c] = "gone" => view[c] = "gone")
      PROVE  Goal
  <2>1. /\ Return(Unsettled({t}), "error")
        /\ ledger' = MarkAmbiguous(ledger, Dropped({t}))
        /\ pend' = [c \in Calls |-> IF c \in OnTabs({t}) THEN "none" ELSE pend[c]]
        /\ chain' = chain \/ QueuePersist(ledger')
    BY <1>9 DEF DropPending
  <2> QED
    BY <1>0, <1>e, <1>9, <2>1, DropKeeps
<1>10. ASSUME UNCHANGED <<ledger, disk, chain, call, waits, pend, answered>>,
              \A c \in Calls : view'[c] = "gone" => view[c] = "gone"
       PROVE  Goal
  BY <1>10 DEF OInv, CallersInv, LedgersInv, Sound, HoldersInv, PendingInv, RequestsInv,
               DuplicatesAreServed, SuccessIsGenuine, Holds
<1>11. ASSUME NEW t \in Tabs, SessionStep(t) PROVE Goal
  <2>1. CASE Connect(t)
    <3>1. UNCHANGED <<ledger, disk, chain, call, waits, pend, view, answered>>
      BY <2>1 DEF Connect, fileVars, historyVars
    <3> QED
      BY <1>10, <3>1
  <2>2. CASE ConnectionLost(t)
    <3>1. /\ DropPending({t}) /\ UNCHANGED <<waits, answered, disk>>
          /\ \A c \in Calls : c \notin OnTabs({t}) => view'[c] = view[c]
      BY <2>2 DEF ConnectionLost, Gone, fileVars, historyVars
    <3> QED
      BY <1>9, <3>1
  <2>3. ASSUME NEW change, ContextUpdate(t, change) PROVE Goal
    <3>1. /\ DropPending({t}) \/ UNCHANGED <<ledger, pend, call, chain>>
          /\ UNCHANGED <<waits, answered, disk>>
      BY <2>3 DEF ContextUpdate, fileVars, historyVars
    <3>2. \A c \in Calls : view'[c] = "gone" => view[c] = "gone"
      BY <2>3 DEF ContextUpdate
    <3> QED
      BY <1>9, <1>10, <3>1, <3>2
  <2> QED
    BY <1>11, <2>1, <2>2, <2>3 DEF SessionStep
<1>12. ASSUME NEW op \in Ops, NEW decision, Reconcile(op, decision) PROVE Goal
  <2>1. \E cs : Return(cs, "error")
    BY <1>12 DEF Reconcile
  <2> QED
    BY <1>0, <1>e, <1>12, <2>1, ReconcileKeeps
<1>13. ASSUME Shutdown PROVE Goal
  <2>1. /\ Return(Unsettled(Tabs), "error")
        /\ ledger' = MarkAmbiguous(ledger, Dropped(Tabs))
        /\ QueuePersist(ledger')
        /\ UNCHANGED <<waits, answered, disk>>
    BY <1>13 DEF Shutdown, fileVars, historyVars
  <2>2. \A c \in Calls : c \in OnTabs(Tabs)
    BY DEF OnTabs
  <2>3. pend' = [c \in Calls |-> IF c \in OnTabs(Tabs) THEN "none" ELSE pend[c]]
    BY <1>13, <2>2 DEF Shutdown
  <2> QED
    BY <1>0, <1>e, <2>1, <2>2, <2>3, DropKeeps
<1>14. ASSUME (\E e \in Epochs : Start(e)) \/ Crash PROVE Goal
  <2>1. \A d \in Calls : call'[d] = "ok" => call[d] = "ok"
    BY <1>14 DEF Start, Crash
  <2> QED
    BY <1>0, <1>14, <2>1, ProcessKeeps, SuccessKeeps DEF OInv
<1>15. ASSUME (\E e \in Epochs : ArchiveWrite(e)) \/ ArchiveAborts \/ UNCHANGED vars PROVE Goal
  <2>1. UNCHANGED <<ledger, disk, chain, call, waits, pend, view, answered>>
    BY <1>15 DEF ArchiveWrite, ArchiveAborts, vars, daemonVars, fileVars, historyVars
  <2> QED
    BY <1>10, <2>1
<1>16. ASSUME ArchiveReset PROVE Goal
  <2>1. /\ UNCHANGED <<ledger, chain, call, waits, pend, view, answered>>
        /\ disk'.records = Empty
    BY <1>16 DEF ArchiveReset, daemonVars, historyVars
  <2>2. LedgersInv'
    BY <2>1 DEF OInv, CallersInv, LedgersInv, Sound, Empty, NoRecord
  <2>3. HoldersInv' /\ PendingInv' /\ RequestsInv' /\ DuplicatesAreServed' /\ SuccessIsGenuine'
    BY <2>1 DEF OInv, CallersInv, HoldersInv, PendingInv, RequestsInv, DuplicatesAreServed,
                SuccessIsGenuine, Holds
  <2> QED
    BY <2>2, <2>3 DEF CallersInv
<1>17. Goal
  <2> HIDE DEF Goal
  <2> QED
    BY <1>2, <1>3, <1>4, <1>5, <1>6, <1>7, <1>8, <1>11, <1>12, <1>13, <1>14, <1>15, <1>16
       DEF Next, CallStep
<1> QED
  BY <1>0, <1>1, <1>17 DEF OInv

-----------------------------------------------------------------------------
(* The results. *)

(* The strengthened invariant of the callers holds in every reachable      *)
(* state of the ledger.                                                    *)
THEOREM OutcomesInductive == Spec => []OInv
  BY OutcomesInit, OutcomesStep, PTL DEF Spec

(* A record that reads completed, in memory, in a queued write or on disk, *)
(* was answered by the peer (handleResponse, requestHttp): no timeout,     *)
(* lost connection, late answer or restart completes one.                  *)
THEOREM CompletedAnswered == Spec => []CompletedWasAnswered
<1>1. OInv => CompletedWasAnswered
  BY DEF OInv, CallersInv, LedgersInv, Sound, CompletedWasAnswered
<1> QED
  BY <1>1, OutcomesInductive, PTL

(* An entry of `pending' belongs to the record in the ledger, so a late    *)
(* answer reaches no record but the one its request was sent for.          *)
THEOREM RequestsMatch == Spec => []RequestsMatchLedger
<1>1. OInv => RequestsMatchLedger
  <2> SUFFICES ASSUME OInv, NEW c \in Calls
               PROVE  /\ pend[c] = "live" => ledger[OpOf[c]] = [status |-> "pending", owner |-> c]
                      /\ pend[c] = "tombstone" => ledger[OpOf[c]] = [status |-> "ambiguous", owner |-> c]
    BY DEF RequestsMatchLedger
  <2>1. ledger[OpOf[c]] \in Records
    BY CallsAssumption DEF OInv, IInv, TypeOK, Ledgers
  <2>2. ledger[OpOf[c]] = [status |-> ledger[OpOf[c]].status, owner |-> ledger[OpOf[c]].owner]
    BY <2>1 DEF Records
  <2>3. /\ pend[c] = "live" => Holds(c, "pending")
        /\ pend[c] = "tombstone" => Holds(c, "ambiguous")
    BY DEF OInv, CallersInv, HoldersInv, RequestsInv, Active
  <2> QED
    BY <2>2, <2>3 DEF Holds
<1> QED
  BY <1>1, OutcomesInductive, PTL

(* A duplicate waits on a call that is still under way, for the same       *)
(* operation and arguments.                                                *)
THEOREM DuplicatesServed == Spec => []DuplicatesAreServed
<1>1. OInv => DuplicatesAreServed
  BY DEF OInv, CallersInv
<1> QED
  BY <1>1, OutcomesInductive, PTL

(* A success that a caller sees, its own, shared with a duplicate or read  *)
(* from the result cache, is one the peer reported for the same operation  *)
(* with the same arguments.                                                *)
THEOREM SuccessGenuine == Spec => []SuccessIsGenuine
<1>1. OInv => SuccessIsGenuine
  BY DEF OInv
<1> QED
  BY <1>1, OutcomesInductive, PTL

-----------------------------------------------------------------------------
(* OperationLedger implements MutationOnce: every step of the ledger       *)
(* sends, completes, loses track of, decides, stops or renews operations   *)
(* as MutationOnce allows, or changes nothing it sees.  The crash needs    *)
(* the most: what memory knew must be what the next start reads from the   *)
(* file, or become unknown.                                                *)

(* A call whose request is out sent it in this epoch. *)
SentInv == \A c \in Calls : call[c] = "sent" => sent[c] = epoch

(* A snapshot s holds some record of every operation the ledger l holds an *)
(* outcome of, and calls done only what l calls done.                      *)
Follows(s, l) ==
    \A op \in Ops :
        /\ l[op].status \in TerminalStatuses \cup {"ambiguous"} => s[op].status # "absent"
        /\ s[op].status \in TerminalStatuses => l[op].status \in TerminalStatuses

PersistedInv ==
    Alive => /\ Follows(disk.records, ledger)
             /\ \A i \in DOMAIN chain : Follows(chain[i].snap, ledger)

(* Only finished records are archived. *)
ArchivesInv ==
    \A d \in archives : \A op \in Ops : d.records[op].status \in TerminalStatuses \cup {"absent"}

RInv == OInv /\ SentInv /\ PersistedInv /\ ArchivesInv

-----------------------------------------------------------------------------
(* How a step of a running daemon moves the record of an operation. *)

LifeStep(op) ==
    \/ ledger'[op] = ledger[op]
    \/ ledger[op].status \in {"absent", "pending"} /\ ledger'[op].status \in {"absent", "pending"}
    \/ /\ ledger[op].status = "pending"
       /\ call[ledger[op].owner] \in {"ready", "sent"}
       /\ ledger'[op].status \in {"ambiguous", "completed", "completed_no_result"}
    \/ /\ ledger[op].status = "ambiguous"
       /\ ledger'[op].status \in {"absent", "confirmed_applied"}

(* Where a call that may answer is under way, its record is in the file    *)
(* and in every queued write.                                              *)
LEMMA ReadyOwns ==
    ASSUME RInv, Alive, NEW c \in Calls, call[c] \in {"ready", "sent"}
    PROVE  OwnsEverywhere(c)
<1>1. CASE call[c] = "ready"
  BY <1>1 DEF RInv, OInv, IInv, Durable
<1>2. CASE call[c] = "sent"
  <2>1. sent[c] = disk.epoch
    BY <1>2 DEF RInv, SentInv, OInv, IInv, FilesInv
  <2> QED
    BY <2>1 DEF RInv, OInv, IInv, Durable
<1> QED
  BY <1>1, <1>2

(* Records that move along their life keep the file and the queued writes  *)
(* behind the ledger.                                                      *)
LEMMA PersistedStep ==
    ASSUME RInv, TypeOK', Alive, \A op \in Ops : LifeStep(op), SnapsKept,
           \/ disk'.records = disk.records
           \/ \E j \in DOMAIN chain : disk'.records = chain[j].snap
    PROVE  PersistedInv'
<1> USE CallsAssumption
<1>0. TypeOK /\ ledger \in Ledgers /\ ledger' \in Ledgers
  BY DEF RInv, OInv, IInv, TypeOK
<1>1. \A op \in Ops : ledger[op].status = "pending" =>
            /\ ledger[op].owner \in Calls
            /\ OpOf[ledger[op].owner] = op
  BY DEF RInv, OInv, CallersInv, LedgersInv, Sound
<1>2. ASSUME NEW s, Follows(s, ledger), WellFormed(s),
             \A c \in Calls : call[c] \in {"ready", "sent"} => s[OpOf[c]].owner = c
      PROVE  Follows(s, ledger')
  <2> SUFFICES ASSUME NEW op \in Ops
               PROVE  /\ ledger'[op].status \in TerminalStatuses \cup {"ambiguous"} => s[op].status # "absent"
                      /\ s[op].status \in TerminalStatuses => ledger'[op].status \in TerminalStatuses
    BY DEF Follows
  <2>1. CASE ledger'[op] = ledger[op]
    BY <1>2, <2>1 DEF Follows
  <2>2. CASE ledger[op].status \in {"absent", "pending"} /\ ledger'[op].status \in {"absent", "pending"}
    BY <1>2, <2>2 DEF Follows, TerminalStatuses
  <2>3. CASE /\ ledger[op].status = "pending"
             /\ call[ledger[op].owner] \in {"ready", "sent"}
             /\ ledger'[op].status \in {"ambiguous", "completed", "completed_no_result"}
    <3>1. s[op].owner = ledger[op].owner /\ ledger[op].owner # NoCall
      BY <1>1, <1>2, <2>3
    <3>2. s[op].status # "absent"
      BY <1>2, <3>1 DEF WellFormed
    <3> QED
      BY <1>2, <2>3, <3>2 DEF Follows, TerminalStatuses
  <2>4. CASE ledger[op].status = "ambiguous" /\ ledger'[op].status \in {"absent", "confirmed_applied"}
    BY <1>2, <2>4 DEF Follows, TerminalStatuses
  <2> QED
    BY <2>1, <2>2, <2>3, <2>4 DEF LifeStep
<1>3. \A c \in Calls : call[c] \in {"ready", "sent"} =>
            /\ disk.records[OpOf[c]].owner = c
            /\ ledger[OpOf[c]].owner = c
            /\ \A i \in DOMAIN chain : chain[i].snap[OpOf[c]].owner = c
  BY ReadyOwns DEF OwnsEverywhere
<1>4. Follows(disk.records, ledger')
  BY <1>2, <1>3 DEF RInv, PersistedInv, OInv, IInv, FilesInv
<1>5. \A i \in DOMAIN chain : Follows(chain[i].snap, ledger')
  BY <1>2, <1>3 DEF RInv, PersistedInv, OInv, IInv, RecordsInv
<1>6. Follows(ledger', ledger')
  BY DEF Follows, TerminalStatuses
<1>7. Follows(ledger, ledger')
  <2>1. Follows(ledger, ledger)
    BY DEF Follows, TerminalStatuses
  <2> QED
    BY <1>2, <1>3, <2>1 DEF RInv, OInv, IInv, RecordsInv
<1> QED
  BY <1>4, <1>5, <1>6, <1>7 DEF PersistedInv, SnapsKept

-----------------------------------------------------------------------------
(* The abstract steps, from what happens to each operation. *)

LEMMA Stutters ==
    ASSUME \A op \in Ops : Outcome(op)' = Outcome(op), Out' = Out
    PROVE  [Once!Next]_(Once!vars)
  BY DEF Once!vars

LEMMA LosesTrack ==
    ASSUME NEW ops \in SUBSET Ops,
           \A op \in ops : Outcome(op) \in {"none", "inflight"},
           \A op \in Ops : Outcome(op)' = IF op \in ops THEN "unknown" ELSE Outcome(op),
           Out' = Out
    PROVE  [Once!Next]_(Once!vars)
<1>1. Once!LoseTrack(ops)
  BY DEF Once!LoseTrack
<1> QED
  BY <1>1 DEF Once!Next

(* What a step of a running daemon shows of itself. *)
Moves == (\A op \in Ops : LifeStep(op)) /\ [Once!Next]_(Once!vars)

(* Outcomes while the daemon runs. *)
LEMMA AliveOutcome ==
    ASSUME Alive, NEW op \in Ops
    PROVE  /\ ledger[op].status = "absent" => Outcome(op) = "none"
           /\ ledger[op].status = "pending" =>
                Outcome(op) = IF sent[ledger[op].owner] = epoch THEN "inflight" ELSE "none"
           /\ ledger[op].status = "ambiguous" => Outcome(op) = "unknown"
           /\ ledger[op].status \in TerminalStatuses => Outcome(op) = "done"
  BY DEF Alive, Outcome, TerminalStatuses

(* The record, and whether its request is out, stay as they are. *)
LEMMA SameOutcome ==
    ASSUME Alive, Alive', NEW op \in Ops, epoch' = epoch, ledger'[op] = ledger[op],
           sent'[ledger[op].owner] = sent[ledger[op].owner]
    PROVE  Outcome(op)' = Outcome(op)
  BY DEF Alive, Outcome

(* What is known of a call that has not sent, and of one that has. *)
LEMMA CallOutcome ==
    ASSUME RInv, Alive, NEW c \in Calls, call[c] \in Active
    PROVE  /\ OpOf[c] \in Ops /\ Holds(c, "pending")
           /\ call[c] # "sent" => sent[c] = 0 /\ Outcome(OpOf[c]) = "none"
           /\ call[c] = "sent" => sent[c] = epoch /\ Outcome(OpOf[c]) = "inflight"
<1>1. OpOf[c] \in Ops /\ Holds(c, "pending")
  BY HolderFacts DEF RInv, OInv, CallersInv
<1>2. call[c] # "sent" => sent[c] = 0
  BY DEF RInv, OInv, IInv, CallsInv, Dispatched, Settled, Active
<1>3. call[c] = "sent" => sent[c] = epoch
  BY DEF RInv, SentInv
<1>4. epoch # 0
  BY DEF RInv, OInv, IInv, TypeOK, Epochs
<1> QED
  BY <1>1, <1>2, <1>3, <1>4, AliveOutcome DEF Holds

(* Nothing of the ledger changes. *)
LEMMA SameMoves ==
    ASSUME Alive, Alive', UNCHANGED <<epoch, sent, ledger>>, disk'.epoch = disk.epoch
    PROVE  Moves
<1>1. \A op \in Ops : Outcome(op)' = Outcome(op)
  BY SameOutcome
<1>2. Out' = Out
  BY DEF Out
<1>3. \A op \in Ops : LifeStep(op)
  BY DEF LifeStep
<1> QED
  BY <1>1, <1>2, <1>3, Stutters DEF Moves

(* A record of which nothing was sent comes or goes. *)
LEMMA UnsentMoves ==
    ASSUME RInv, Alive, Alive', UNCHANGED <<epoch, sent, disk>>, NEW op \in Ops,
           \A o \in Ops : o # op => ledger'[o] = ledger[o],
           ledger[op].status \in {"absent", "pending"}, Outcome(op) = "none",
           \/ ledger'[op].status = "absent"
           \/ ledger'[op].status = "pending" /\ sent[ledger'[op].owner] = 0
    PROVE  Moves
<1>1. epoch # 0
  BY DEF RInv, OInv, IInv, TypeOK, Epochs
<1>2. Outcome(op)' = "none"
  BY <1>1 DEF Alive, Outcome
<1>3. \A o \in Ops : Outcome(o)' = Outcome(o)
  BY <1>2, SameOutcome
<1>4. Out' = Out
  BY DEF Out
<1>5. \A o \in Ops : LifeStep(o)
  BY DEF LifeStep
<1> QED
  BY <1>3, <1>4, <1>5, Stutters DEF Moves

(* Pending records turn ambiguous: the bridge loses track of them. *)
LEMMA MarkMoves ==
    ASSUME RInv, Alive, Alive', UNCHANGED <<epoch, sent, disk>>, NEW marked,
           ledger' = MarkAmbiguous(ledger, marked),
           \A c \in Calls : c \in marked /\ call[c] \in Active => call[c] \in {"ready", "sent"}
    PROVE  Moves
<1> DEFINE lost == {op \in Ops : ledger[op].owner \in marked /\ ledger[op].status = "pending"}
<1>0. ledger \in Ledgers
  BY DEF RInv, OInv, IInv, TypeOK
<1>1. \A op \in Ops : /\ op \notin lost => ledger'[op] = ledger[op]
                      /\ op \in lost => ledger'[op].status = "ambiguous"
  BY <1>0 DEF MarkAmbiguous, Ledgers, Records
<1>2. \A op \in lost : Outcome(op) \in {"none", "inflight"}
  BY AliveOutcome
<1>3. \A op \in Ops : Outcome(op)' = IF op \in lost THEN "unknown" ELSE Outcome(op)
  <2>1. \A op \in lost : Outcome(op)' = "unknown"
    BY <1>1 DEF Alive, Outcome
  <2>2. \A op \in Ops : op \notin lost => Outcome(op)' = Outcome(op)
    BY <1>1, SameOutcome
  <2> QED
    BY <2>1, <2>2
<1>4. Out' = Out
  BY DEF Out
<1>5. \A op \in Ops : LifeStep(op)
  <2>1. \A op \in lost : call[ledger[op].owner] \in {"ready", "sent"}
    BY DEF RInv, OInv, CallersInv, LedgersInv, Sound, PendingInv
  <2> QED
    BY <1>1, <2>1 DEF LifeStep
<1> HIDE DEF lost
<1>6. lost \in SUBSET Ops
  BY DEF lost
<1> QED
  BY <1>2, <1>3, <1>4, <1>5, <1>6, LosesTrack DEF Moves

(* A request leaves: nothing was known of its operation, and nothing of it *)
(* was out.                                                                *)
LEMMA SendMoves ==
    ASSUME RInv, Alive, Alive', UNCHANGED <<epoch, disk, ledger>>, NEW c \in Calls,
           call[c] = "ready", SendRequest(c)
    PROVE  Moves
<1> USE CallsAssumption
<1> DEFINE op == OpOf[c]
<1>0. /\ op \in Ops /\ Holds(c, "pending") /\ sent[c] = 0 /\ Outcome(op) = "none"
      /\ disk.epoch = epoch /\ epoch # 0
  BY CallOutcome DEF Active, RInv, OInv, IInv, FilesInv, TypeOK, Epochs
<1>1. sent'[c] = epoch /\ \A d \in Calls : d # c => sent'[d] = sent[d]
  BY DEF SendRequest, RInv, OInv, IInv, TypeOK
<1>2. op \notin Out
  <2> SUFFICES ASSUME NEW d \in Calls, OpOf[d] = op, sent[d] = epoch PROVE FALSE
    BY <1>0 DEF Out
  <2>1. ledger[op].owner = d /\ d # c
    BY <1>0 DEF RInv, OInv, IInv, Durable, OwnsEverywhere
  <2> QED
    BY <1>0, <2>1 DEF Holds
<1>3. Out' = Out \cup {op}
  BY <1>0, <1>1 DEF Out
<1>4. Outcome(op)' = "inflight"
  BY <1>0, <1>1 DEF Alive, Outcome, Holds
<1>5. \A o \in Ops : o # op => Outcome(o)' = Outcome(o)
  <2> SUFFICES ASSUME NEW o \in Ops, o # op PROVE Outcome(o)' = Outcome(o)
    OBVIOUS
  <2>1. CASE ledger[o].status = "absent"
    BY <2>1 DEF Alive, Outcome
  <2>2. CASE ledger[o].status # "absent"
    <3>1. ledger[o].owner \in Calls /\ ledger[o].owner # c
      BY <2>2 DEF RInv, OInv, CallersInv, LedgersInv, Sound
    <3> QED
      BY <1>1, <3>1, SameOutcome
  <2> QED
    BY <2>1, <2>2
<1> HIDE DEF op
<1>6. Once!Send(op)
  BY <1>0, <1>2, <1>3, <1>4, <1>5 DEF Once!Send
<1>7. \A o \in Ops : LifeStep(o)
  BY DEF LifeStep
<1> QED
  BY <1>0, <1>6, <1>7 DEF Moves, Once!Next

(* The peer answers: the operation in flight is done. *)
LEMMA StoreMoves ==
    ASSUME RInv, Alive, Alive', UNCHANGED <<epoch, disk, sent>>, NEW c \in Calls,
           call[c] = "sent", StoreCompleted(c)
    PROVE  Moves
<1> USE CallsAssumption
<1> DEFINE op == OpOf[c]
<1>0. /\ op \in Ops /\ Holds(c, "pending") /\ Outcome(op) = "inflight"
      /\ ledger \in Ledgers
  BY CallOutcome DEF Active, RInv, OInv, IInv, TypeOK
<1>1. PICK done \in {"completed", "completed_no_result"} :
            ledger' = [o \in Ops |-> IF ledger[o].owner = c
                                     THEN [ledger[o] EXCEPT !.status = done]
                                     ELSE ledger[o]]
  BY DEF StoreCompleted
<1>2. \A o \in Ops : ledger[o].owner = c => o = op
  <2>1. \A o \in Ops : ledger[o].status = "absent" => ledger[o].owner = NoCall
    BY DEF RInv, OInv, IInv, RecordsInv, WellFormed
  <2> QED
    BY <2>1 DEF RInv, OInv, CallersInv, LedgersInv, Sound
<1>3. /\ ledger'[op].status = done
      /\ \A o \in Ops : o # op => ledger'[o] = ledger[o]
  BY <1>0, <1>1, <1>2 DEF Holds, Ledgers, Records
<1>4. Outcome(op)' = "done"
  BY <1>3 DEF Alive, Outcome
<1>5. \A o \in Ops : o # op => Outcome(o)' = Outcome(o)
  BY <1>3, SameOutcome
<1>6. Out' = Out
  BY DEF Out
<1>7. \A o \in Ops : LifeStep(o)
  BY <1>0, <1>3 DEF LifeStep, Holds
<1> HIDE DEF op
<1>8. Once!Complete(op)
  BY <1>0, <1>4, <1>5, <1>6 DEF Once!Complete
<1> QED
  BY <1>0, <1>7, <1>8 DEF Moves, Once!Next

(* An operator decides one operation, and the connection this closes       *)
(* leaves only operations in flight in doubt.                              *)
LEMMA ReconcileMoves ==
    ASSUME RInv, NEW op \in Ops, NEW decision, Reconcile(op, decision)
    PROVE  Moves
<1> USE CallsAssumption
<1> DEFINE ts == TargetTabs(ledger[op].owner)
           lost == {o \in Ops : ledger[o].owner \in Dropped(ts) /\ ledger[o].status = "pending"}
           verdict == IF decision = "confirmed_not_applied" THEN "none" ELSE "done"
<1>0. /\ Alive /\ Alive' /\ UNCHANGED <<epoch, disk>>
      /\ ledger \in Ledgers /\ ledger[op].status = "ambiguous"
      /\ epoch # 0 /\ disk.epoch = epoch
  BY DEF RInv, OInv, IInv, FilesInv, TypeOK, Epochs, Reconcile, Alive, fileVars
<1>1. /\ ledger' = [MarkAmbiguous(ledger, Dropped(ts)) EXCEPT ![op] =
                        IF decision = "confirmed_not_applied" THEN NoRecord
                        ELSE [@ EXCEPT !.status = "confirmed_applied"]]
      /\ \A c \in Calls :
            sent'[c] = IF decision = "confirmed_not_applied" /\ OpOf[c] = op /\ sent[c] = epoch
                       THEN 0 ELSE sent[c]
  BY DEF Reconcile
<1>2. /\ \A o \in Ops : o # op => ledger'[o] = MarkAmbiguous(ledger, Dropped(ts))[o]
      /\ decision = "confirmed_not_applied" => ledger'[op].status = "absent"
      /\ decision # "confirmed_not_applied" => ledger'[op].status = "confirmed_applied"
  <2>1. MarkAmbiguous(ledger, Dropped(ts)) \in Ledgers
    BY <1>0, MarkEffect
  <2> QED
    BY <1>1, <2>1 DEF Ledgers, Records, NoRecord
<1> HIDE DEF ts
<1>3. /\ op \notin lost
      /\ \A o \in Ops : /\ o # op /\ o \notin lost => ledger'[o] = ledger[o]
                        /\ o \in lost => o # op /\ ledger'[o].status = "ambiguous"
  BY <1>0, <1>2 DEF MarkAmbiguous, Ledgers, Records
<1> HIDE DEF lost
<1>4. ASSUME NEW o \in lost
      PROVE  /\ Outcome(o) = "inflight" /\ o \in Ops
             /\ ledger[o].status = "pending" /\ call[ledger[o].owner] = "sent"
  <2> USE DEF lost
  <2> DEFINE c == ledger[o].owner
  <2>1. c \in Calls /\ OpOf[c] = o /\ call[c] \in Active
    BY DEF RInv, OInv, CallersInv, LedgersInv, Sound, PendingInv
  <2>2. pend[c] # "none" /\ pend[c] \in {"none", "live", "tombstone"}
    BY <2>1 DEF Dropped, RInv, OInv, IInv, TypeOK
  <2> HIDE DEF c
  <2>3. call[c] = "sent"
    BY <2>1, <2>2, HolderFacts DEF RInv, OInv, CallersInv, RequestsInv
  <2> QED
    BY <1>0, <2>1, <2>3, CallOutcome DEF c
<1>5. Outcome(op) = "unknown" /\ Outcome(op)' = verdict
  BY <1>0, <1>2 DEF Alive, Outcome
<1>6. ASSUME NEW o \in Ops, o # op
      PROVE  Outcome(o)' = IF o \in lost THEN "unknown" ELSE Outcome(o)
  <2>1. CASE o \in lost
    BY <1>0, <1>3, <2>1 DEF Alive, Outcome
  <2>2. CASE o \notin lost
    <3>1. ledger'[o] = ledger[o]
      BY <1>3, <1>6, <2>2
    <3>2. CASE ledger[o].status = "absent"
      BY <1>0, <2>2, <3>1, <3>2 DEF Alive, Outcome
    <3>3. CASE ledger[o].status # "absent"
      <4>1. ledger[o].owner \in Calls /\ OpOf[ledger[o].owner] # op
        BY <1>6, <3>3 DEF RInv, OInv, CallersInv, LedgersInv, Sound
      <4> QED
        BY <1>0, <1>1, <2>2, <3>1, <4>1, SameOutcome
    <3> QED
      BY <3>2, <3>3
  <2> QED
    BY <2>1, <2>2
<1>7. Out' = IF verdict = "none" THEN Out \ {op} ELSE Out
  BY <1>0, <1>1 DEF Out
<1>8. \A o \in Ops : LifeStep(o)
  BY <1>0, <1>2, <1>3, <1>4 DEF LifeStep
<1>9. lost \in SUBSET Ops /\ verdict \in {"none", "done"}
  BY DEF lost
<1> HIDE DEF verdict
<1>10. Once!Decide(op, lost)
  BY <1>3, <1>4, <1>5, <1>6, <1>7, <1>9 DEF Once!Decide
<1> QED
  BY <1>8, <1>9, <1>10 DEF Moves, Once!Next

-----------------------------------------------------------------------------
(* The process and the maintenance command. *)

(* initialize takes over what the file says, and calls pending unknown. *)
LEMMA StartStutters ==
    ASSUME RInv, NEW e \in Epochs, Start(e)
    PROVE  PersistedInv' /\ [Once!Next]_(Once!vars)
<1> USE CallsAssumption
<1>0. /\ mode = "down" /\ mode' = "running" /\ epoch' = e /\ chain' = <<>>
      /\ ledger' = Recovered(disk.records) /\ disk'.records = ledger' /\ disk'.epoch = e
      /\ disk.records \in Ledgers /\ disk.epoch \in Epochs
      /\ UNCHANGED sent
      /\ disk.epoch <= e /\ (disk.epoch < e => Present(disk.records) = {})
  BY DEF RInv, OInv, IInv, FilesInv, TypeOK, Documents, Start, historyVars
<1>1. \A op \in Ops :
        /\ disk.records[op].status = "pending" => ledger'[op].status = "ambiguous"
        /\ disk.records[op].status # "pending" => ledger'[op] = disk.records[op]
  BY <1>0 DEF Recovered, Ledgers, Records
<1>2. \A op \in Ops : disk.records[op].status \in Statuses
  BY <1>0 DEF Ledgers, Records
<1>3. PersistedInv'
  BY <1>0 DEF PersistedInv, Follows, TerminalStatuses
<1>4. \A op \in Ops : Outcome(op)' = Outcome(op)
  BY <1>0, <1>1, <1>2 DEF Outcome, Statuses
<1>5. Out' = Out
  <2>1. CASE disk.epoch = e
    BY <1>0, <2>1 DEF Out
  <2>2. CASE disk.epoch # e
    <3>1. \A op \in Ops : disk.records[op].status = "absent"
      BY <1>0, <2>2 DEF Present, Epochs
    <3>2. \A op \in Ops : disk.records[op].owner = NoCall
      BY <3>1 DEF RInv, OInv, IInv, FilesInv, WellFormed
    <3>3. \A c \in Calls : sent[c] # disk.epoch
      BY <3>2 DEF RInv, OInv, IInv, Durable, OwnsEverywhere
    <3>4. \A c \in Calls : sent[c] # e
      <4>1. \A c \in Calls : sent[c] \in Nat /\ (sent[c] # 0 => sent[c] <= disk.epoch)
        BY DEF RInv, OInv, IInv, Durable, TypeOK, Epochs
      <4> QED
        BY <1>0, <2>2, <4>1 DEF Epochs
    <3> QED
      BY <1>0, <3>3, <3>4 DEF Out
  <2> QED
    BY <2>1, <2>2
<1> QED
  BY <1>3, <1>4, <1>5, Stutters

(* A crash: what the file holds no finished record of becomes unknown, and *)
(* nothing known to be in flight or done is ever read back as not begun.   *)
LEMMA CrashStops ==
    ASSUME RInv, Crash
    PROVE  [Once!Next]_(Once!vars)
<1> USE CallsAssumption
<1> DEFINE ops == {op \in Ops : disk.records[op].status \in {"pending", "ambiguous"}}
<1>0. /\ Alive /\ mode' = "down" /\ disk' = disk /\ sent' = sent
      /\ disk.records \in Ledgers /\ ledger \in Ledgers /\ disk.epoch = epoch
  BY DEF RInv, OInv, IInv, FilesInv, TypeOK, Documents, Crash, fileVars, historyVars
<1>1. \A op \in ops : Outcome(op)' = "unknown"
  BY <1>0 DEF Outcome
<1>2. ASSUME NEW op \in Ops, op \notin ops
      PROVE  Outcome(op)' = Outcome(op) /\ Outcome(op) # "inflight"
  <2>1. Follows(disk.records, ledger)
    BY <1>0 DEF RInv, PersistedInv
  <2>2. disk.records[op].status \in Statuses /\ ledger[op].status \in Statuses
    BY <1>0 DEF Ledgers, Records
  <2>3. CASE disk.records[op].status = "absent"
    <3>1. Outcome(op)' = "none"
      BY <1>0, <2>3 DEF Outcome
    <3>2. ledger[op].status \in {"absent", "pending"}
      BY <2>1, <2>2, <2>3 DEF Follows, Statuses, TerminalStatuses
    <3>3. ASSUME ledger[op].status = "pending" PROVE sent[ledger[op].owner] # epoch
      <4>1. ledger[op].owner \in Calls /\ OpOf[ledger[op].owner] = op
        BY <3>3 DEF RInv, OInv, CallersInv, LedgersInv, Sound
      <4>2. disk.records[op].owner = NoCall
        BY <2>3 DEF RInv, OInv, IInv, FilesInv, WellFormed
      <4> QED
        BY <1>0, <4>1, <4>2 DEF RInv, OInv, IInv, Durable, OwnsEverywhere
    <3> QED
      BY <1>0, <3>1, <3>2, <3>3, AliveOutcome
  <2>4. CASE disk.records[op].status \in TerminalStatuses
    <3>1. Outcome(op)' = "done"
      BY <1>0, <2>4 DEF Outcome, TerminalStatuses
    <3>2. Outcome(op) = "done"
      BY <1>0, <2>1, <2>4, AliveOutcome DEF Follows
    <3> QED
      BY <3>1, <3>2
  <2> QED
    BY <1>2, <2>2, <2>3, <2>4 DEF Statuses, TerminalStatuses
<1>3. Out' = Out
  BY <1>0 DEF Out
<1>4. ops \in SUBSET Ops
  OBVIOUS
<1> HIDE DEF ops
<1>5. Once!Stop(ops)
  BY <1>1, <1>2, <1>3, <1>4 DEF Once!Stop
<1> QED
  BY <1>4, <1>5 DEF Once!Next

(* The archived document is finished, so a new epoch loses nothing. *)
LEMMA ResetRenews ==
    ASSUME RInv, ArchiveReset
    PROVE  [Once!Next]_(Once!vars)
<1> USE CallsAssumption
<1>0. /\ mode = "down" /\ mode' = "down" /\ sent' = sent
      /\ disk \in archives /\ disk'.records = Empty /\ disk'.epoch = archiving
      /\ archiving > disk.epoch /\ archiving \in Nat /\ disk.epoch \in Nat
  BY DEF RInv, OInv, IInv, FilesInv, TypeOK, Documents, Epochs, ArchiveReset, daemonVars, historyVars
<1>1. \A op \in Ops : Outcome(op) \in {"none", "done"}
  BY <1>0 DEF RInv, ArchivesInv, Outcome, TerminalStatuses
<1>2. \A op \in Ops : Outcome(op)' = "none"
  BY <1>0 DEF Outcome, Empty, NoRecord
<1>3. Out' = {}
  <2>1. \A c \in Calls : sent[c] \in Nat /\ (sent[c] # 0 => sent[c] <= disk.epoch)
    BY DEF RInv, OInv, IInv, Durable, TypeOK, Epochs
  <2> QED
    BY <1>0, <2>1 DEF Out
<1>4. Once!NewEpoch
  BY <1>1, <1>2, <1>3 DEF Once!NewEpoch
<1> QED
  BY <1>4 DEF Once!Next

(* Steps that change no record, file, epoch, mode or request. *)
LEMMA IdleStutters ==
    ASSUME UNCHANGED <<mode, epoch, ledger, disk, sent>>
    PROVE  [Once!Next]_(Once!vars)
<1>1. \A op \in Ops : Outcome(op)' = Outcome(op)
  BY DEF Outcome
<1>2. Out' = Out
  BY DEF Out
<1> QED
  BY <1>1, <1>2, Stutters
-----------------------------------------------------------------------------
(* The steps of a running daemon. *)

(* What such a step keeps besides: the file and the queued writes hold     *)
(* what they or the ledger held before, and requests are of this epoch.    *)
Keeps ==
    /\ SnapsKept
    /\ \/ disk'.records = disk.records
       \/ \E j \in DOMAIN chain : disk'.records = chain[j].snap
    /\ SentInv'

LEMMA ReturnSends ==
    ASSUME SentInv, NEW cs, NEW result \in Settled, Return(cs, result), UNCHANGED <<epoch, sent>>
    PROVE  SentInv'
  BY DEF SentInv, Return, Settled

LEMMA QueueSnaps ==
    ASSUME TypeOK, TypeOK', NEW begins \in Calls \cup {NoCall}, NEW retry \in BOOLEAN,
           chain' = chain \/ Queue(ledger', begins, retry), disk' = disk, SentInv'
    PROVE  Keeps
  BY QueueKeeps DEF Keeps

(* Every pending request that is forgotten with its connection is out. *)
LEMMA DroppedSent ==
    ASSUME RInv, NEW ts, NEW c \in Calls, c \in Dropped(ts), call[c] \in Active
    PROVE  call[c] \in {"ready", "sent"}
<1>1. pend[c] # "none" /\ pend[c] \in {"none", "live", "tombstone"} /\ pend[c] # "tombstone"
  BY HolderFacts DEF Dropped, RInv, OInv, IInv, TypeOK, CallersInv
<1> QED
  BY <1>1 DEF RInv, OInv, CallersInv, RequestsInv

LEMMA DropMoves ==
    ASSUME RInv, TypeOK', Alive, Alive', NEW ts, Return(Unsettled(ts), "error"),
           UNCHANGED <<epoch, sent, disk>>,
           ledger' = MarkAmbiguous(ledger, Dropped(ts)),
           chain' = chain \/ QueuePersist(ledger')
    PROVE  Moves /\ Keeps
<1>1. Moves
  BY DroppedSent, MarkMoves
<1>2. SentInv'
  BY ReturnSends DEF RInv, Settled
<1> QED
  BY <1>1, <1>2, QueueSnaps DEF QueuePersist, RInv, OInv, IInv

LEMMA DoubtMoves ==
    ASSUME RInv, TypeOK', Alive, Alive', NEW c \in Calls, Doubt(c),
           call[c] \in {"ready", "sent"}, UNCHANGED <<epoch, sent, disk>>
    PROVE  Moves /\ Keeps
<1>1. /\ ledger' = MarkAmbiguous(ledger, {c})
      /\ QueuePersist(ledger')
      /\ Return({c}, "error")
  BY DEF Doubt
<1>2. Moves
  BY <1>1, MarkMoves
<1>3. SentInv'
  BY <1>1, ReturnSends DEF RInv, Settled
<1> QED
  BY <1>1, <1>2, <1>3, QueueSnaps DEF QueuePersist, RInv, OInv, IInv

LEMMA ForgetMoves ==
    ASSUME RInv, TypeOK', Alive, Alive', NEW c \in Calls, NEW retry \in BOOLEAN,
           Forget(c, retry), call[c] = "ready", UNCHANGED <<epoch, sent, disk>>
    PROVE  Moves /\ Keeps
<1>1. /\ ledger' = [ledger EXCEPT ![OpOf[c]] = NoRecord]
      /\ Queue(ledger', NoCall, retry)
      /\ Return({c}, "error")
  BY DEF Forget
<1>2. /\ OpOf[c] \in Ops /\ ledger[OpOf[c]].status = "pending" /\ Outcome(OpOf[c]) = "none"
      /\ ledger \in Ledgers
  BY CallOutcome DEF Active, Holds, RInv, OInv, IInv, TypeOK
<1>3. /\ ledger'[OpOf[c]].status = "absent"
      /\ \A o \in Ops : o # OpOf[c] => ledger'[o] = ledger[o]
  BY <1>1, <1>2 DEF Ledgers, NoRecord
<1>4. Moves
  BY <1>2, <1>3, UnsentMoves
<1>5. SentInv'
  BY <1>1, ReturnSends DEF RInv, Settled
<1> QED
  BY <1>1, <1>4, <1>5, QueueSnaps DEF RInv, OInv, IInv

LEMMA DispatchMoves ==
    ASSUME RInv, TypeOK', NEW c \in Calls, Dispatch(c)
    PROVE  Moves /\ Keeps
<1>1. /\ Alive /\ Alive' /\ call[c] = "ready" /\ UNCHANGED <<epoch, disk>>
      /\ \/ SendRequest(c) /\ UNCHANGED <<ledger, chain>>
         \/ (Forget(c, TRUE) \/ Forget(c, FALSE)) /\ UNCHANGED sent
         \/ Doubt(c) /\ UNCHANGED sent
  BY DEF Dispatch, DispatchBrowser, SendFailed, AbandonBrowser, DispatchHttp,
         DispatchPerfetto, fileVars, historyVars, Alive
<1>2. ASSUME SendRequest(c), UNCHANGED <<ledger, chain>> PROVE Moves /\ Keeps
  <2>1. Moves
    BY <1>1, <1>2, SendMoves
  <2>2. SentInv'
    BY <1>1, <1>2 DEF SendRequest, RInv, SentInv, OInv, IInv, TypeOK
  <2> QED
    BY <1>1, <1>2, <2>1, <2>2 DEF Keeps, SnapsKept
<1> QED
  BY <1>1, <1>2, ForgetMoves, DoubtMoves

LEMMA AnswerMoves ==
    ASSUME RInv, TypeOK', NEW c \in Calls, HandleResponse(c) \/ Timeout(c) \/ Finish(c)
    PROVE  Moves /\ Keeps
<1>1. /\ Alive /\ Alive' /\ UNCHANGED <<epoch, disk, sent>>
      /\ StoreCompleted(c) \/ Doubt(c)
  BY DEF HandleResponse, Timeout, Finish, fileVars, historyVars, Alive
<1>2. call[c] = "sent"
  BY DEF HandleResponse, Timeout, Finish, RInv, OInv, CallersInv, RequestsInv
<1>3. ASSUME StoreCompleted(c) PROVE Moves /\ Keeps
  <2>1. Moves
    BY <1>1, <1>2, <1>3, StoreMoves
  <2>2. QueuePersist(ledger') /\ Return({c}, "ok")
    BY <1>3 DEF StoreCompleted
  <2>3. SentInv'
    BY <1>1, <2>2, ReturnSends DEF RInv, Settled
  <2> QED
    BY <1>1, <2>1, <2>2, <2>3, QueueSnaps DEF QueuePersist, RInv, OInv, IInv
<1> QED
  BY <1>1, <1>2, <1>3, DoubtMoves

LEMMA BeginMoves ==
    ASSUME RInv, TypeOK', NEW c \in Calls, BeginOperation(c)
    PROVE  Moves /\ Keeps
<1> USE CallsAssumption
<1>1. /\ Alive /\ Alive' /\ call[c] = "idle" /\ ledger[OpOf[c]].status = "absent"
      /\ Queue(ledger', c, FALSE)
      /\ UNCHANGED <<epoch, sent, disk>>
      /\ OpOf[c] \in Ops /\ ledger \in Ledgers /\ TypeOK
  BY DEF BeginOperation, Entering, Existing, Alive, fileVars, historyVars, RInv, OInv, IInv, TypeOK
<1>2. /\ ledger'[OpOf[c]].status = "pending" /\ ledger'[OpOf[c]].owner = c
      /\ \A o \in Ops : o # OpOf[c] => ledger'[o] = ledger[o]
  BY <1>1 DEF BeginOperation, Ledgers
<1>3. sent[c] = 0
  BY <1>1 DEF RInv, OInv, IInv, CallsInv, Dispatched, Settled
<1>4. Moves
  BY <1>1, <1>2, <1>3, AliveOutcome, UnsentMoves
<1>5. SentInv'
  BY <1>1 DEF BeginOperation, RInv, SentInv, TypeOK
<1> QED
  BY <1>1, <1>4, <1>5, QueueSnaps

(* Nothing of the ledger, the file or the queue changes, or a write of the *)
(* ledger as it is is queued.                                              *)
LEMMA QuietMoves ==
    ASSUME RInv, TypeOK', Alive, Alive', UNCHANGED <<epoch, sent, ledger, disk>>,
           chain' = chain \/ QueuePersist(ledger'),
           \A c \in Calls : call'[c] = "sent" => call[c] = "sent"
    PROVE  Moves /\ Keeps
<1>1. SentInv'
  BY DEF RInv, SentInv
<1> QED
  BY <1>1, SameMoves, QueueSnaps DEF QueuePersist, RInv, OInv, IInv

LEMMA PersistMoves ==
    ASSUME RInv, TypeOK', Persist
    PROVE  Moves /\ Keeps
<1> USE CallsAssumption
<1> DEFINE b == Head(chain).begins
<1>0. /\ TypeOK /\ Alive /\ Alive' /\ chain # <<>> /\ UNCHANGED <<epoch, sent>>
      /\ disk.epoch = epoch
  BY DEF Persist, WriteSucceeds, WriteFails, Alive, fileVars, historyVars, RInv, OInv, IInv, FilesInv
<1>1. 1 \in DOMAIN chain /\ chain[1] = Head(chain)
  BY <1>0, TailEffect
<1>2. b \in Calls \cup {NoCall}
  BY <1>0, <1>1, ChainElement
<1>3. b \in Calls => b # NoCall /\ call[b] = "persisting"
  BY <1>1 DEF RInv, OInv, IInv, ChainInv
<1>4. CASE WriteSucceeds
  <2>1. /\ UNCHANGED ledger /\ disk'.epoch = disk.epoch /\ disk'.records = chain[1].snap
        /\ chain' = Tail(chain)
        /\ \A c \in Calls : call'[c] = IF c = b THEN "ready" ELSE call[c]
    BY <1>0, <1>1, <1>4 DEF WriteSucceeds
  <2>2. Moves
    BY <1>0, <2>1, SameMoves
  <2>3. SentInv'
    BY <1>0, <2>1 DEF RInv, SentInv
  <2> QED
    BY <1>0, <1>1, <2>1, <2>2, <2>3, TailKeeps DEF Keeps
<1>5. CASE WriteFails
  <2>1. /\ \A o \in Ops : ledger'[o] = IF b # NoCall /\ o = OpOf[b] THEN NoRecord ELSE ledger[o]
        /\ Return({b} \cap Calls, "error") /\ UNCHANGED disk
        /\ \/ chain' = Tail(chain)
           \/ chain' = Append(Tail(chain), [snap |-> ledger, begins |-> NoCall, retry |-> FALSE])
    BY <1>5 DEF WriteFails, fileVars
  <2>2. SnapsKept
    BY <1>0, <2>1, TailKeeps
  <2>3. SentInv'
    BY <1>0, <2>1, ReturnSends DEF RInv, Settled
  <2> HIDE DEF b
  <2>4. CASE b = NoCall
    <3>1. ledger' = ledger
      BY <1>0, <2>1, <2>4 DEF TypeOK, Ledgers
    <3> QED
      BY <1>0, <2>1, <2>2, <2>3, <3>1, SameMoves DEF Keeps
  <2>5. CASE b \in Calls
    <3>1. /\ OpOf[b] \in Ops /\ ledger[OpOf[b]].status = "pending" /\ Outcome(OpOf[b]) = "none"
      BY <1>0, <1>3, <2>5, CallOutcome DEF Active, Holds
    <3>2. /\ ledger'[OpOf[b]].status = "absent"
          /\ \A o \in Ops : o # OpOf[b] => ledger'[o] = ledger[o]
      BY <1>3, <2>1, <2>5, <3>1 DEF NoRecord
    <3>3. Moves
      BY <1>0, <2>1, <3>1, <3>2, UnsentMoves
    <3> QED
      BY <2>1, <2>2, <2>3, <3>3 DEF Keeps
  <2> QED
    BY <1>2, <2>4, <2>5
<1> QED
  BY <1>4, <1>5 DEF Persist

LEMMA ReconcileKeepsFile ==
    ASSUME RInv, TypeOK', NEW op \in Ops, NEW decision, Reconcile(op, decision)
    PROVE  Keeps
<1> USE CallsAssumption
<1> DEFINE ts == TargetTabs(ledger[op].owner)
<1>1. /\ ledger[op].status = "ambiguous" /\ UNCHANGED <<epoch, disk>>
      /\ QueuePersist(ledger') /\ Return(Unsettled(ts), "error")
      /\ \A c \in Calls :
            sent'[c] = IF decision = "confirmed_not_applied" /\ OpOf[c] = op /\ sent[c] = epoch
                       THEN 0 ELSE sent[c]
  BY DEF Reconcile, fileVars
<1> HIDE DEF ts
<1>2. ASSUME NEW c \in Calls, call'[c] = "sent" PROVE sent'[c] = epoch'
  <2>1. call[c] = "sent" /\ sent[c] = epoch
    BY <1>1, <1>2 DEF Return, RInv, SentInv
  <2>2. OpOf[c] # op
    BY <1>1, <2>1, HolderFacts DEF Holds, Active, RInv, OInv, CallersInv
  <2> QED
    BY <1>1, <2>1, <2>2
<1>3. SentInv'
  BY <1>2 DEF SentInv
<1> QED
  BY <1>1, <1>3, QueueSnaps DEF QueuePersist, RInv, OInv, IInv

LEMMA SessionMoves ==
    ASSUME RInv, TypeOK', NEW t \in Tabs, SessionStep(t)
    PROVE  Moves /\ Keeps
<1>1. /\ Alive /\ Alive' /\ UNCHANGED <<epoch, sent, disk>>
      /\ DropPending({t}) \/ UNCHANGED <<ledger, chain, call>>
  BY DEF SessionStep, Connect, ConnectionLost, ContextUpdate, Alive, fileVars, historyVars
<1>2. ASSUME DropPending({t}) PROVE Moves /\ Keeps
  <2>1. /\ Return(Unsettled({t}), "error")
        /\ ledger' = MarkAmbiguous(ledger, Dropped({t}))
        /\ chain' = chain \/ QueuePersist(ledger')
    BY <1>2 DEF DropPending
  <2> QED
    BY <1>1, <2>1, DropMoves
<1>3. ASSUME UNCHANGED <<ledger, chain, call>> PROVE Moves /\ Keeps
  BY <1>1, <1>3, QuietMoves
<1> QED
  BY <1>1, <1>2, <1>3

LEMMA ShutdownMoves ==
    ASSUME RInv, TypeOK', Shutdown
    PROVE  Moves /\ Keeps
<1>1. /\ Alive /\ Alive' /\ UNCHANGED <<epoch, sent, disk>>
      /\ Return(Unsettled(Tabs), "error")
      /\ ledger' = MarkAmbiguous(ledger, Dropped(Tabs))
      /\ chain' = chain \/ QueuePersist(ledger')
  BY DEF Shutdown, Alive, fileVars, historyVars
<1> QED
  BY <1>1, DropMoves

(* A step of the daemon while it runs. *)
RunningStep ==
    \/ \E c \in Calls : CallStep(c)
    \/ Persist
    \/ \E t \in Tabs : SessionStep(t)
    \/ \E op \in Ops, decision \in {"confirmed_applied", "confirmed_not_applied"} :
            Reconcile(op, decision)
    \/ Shutdown

LEMMA RunningMoves ==
    ASSUME RInv, TypeOK', RunningStep
    PROVE  Moves /\ Keeps /\ Alive /\ Alive' /\ archives' = archives
<1> DEFINE Goal == Moves /\ Keeps
<1>1. ASSUME NEW c \in Calls, BeginDuplicate(c) \/ BeginCached(c) \/ BeginRefused(c) PROVE Goal
  <2>1. /\ Alive /\ Alive' /\ UNCHANGED <<epoch, sent, ledger, disk, chain>>
        /\ \A d \in Calls : call'[d] = "sent" => call[d] = "sent"
    BY <1>1 DEF BeginDuplicate, BeginCached, BeginRefused, Entering, Alive, fileVars, historyVars,
                RInv, OInv, IInv, TypeOK
  <2> QED
    BY <2>1, QuietMoves
<1>2. ASSUME NEW c \in Calls, HandleLateResponse(c) PROVE Goal
  <2>1. /\ Alive /\ Alive' /\ UNCHANGED <<epoch, sent, ledger, disk, call>>
        /\ QueuePersist(ledger')
    BY <1>2 DEF HandleLateResponse, Alive, fileVars, historyVars
  <2> QED
    BY <2>1, QuietMoves
<1>3. ASSUME NEW op \in Ops, NEW decision, Reconcile(op, decision) PROVE Goal
  BY <1>3, ReconcileMoves, ReconcileKeepsFile
<1>4. Goal
  <2> HIDE DEF Goal
  <2>1. ASSUME NEW c \in Calls, CallStep(c) PROVE Goal
    <3> USE DEF Goal
    <3> QED
      BY <1>1, <1>2, <2>1, BeginMoves, DispatchMoves, AnswerMoves DEF CallStep
  <2>2. ASSUME Persist \/ Shutdown \/ \E t \in Tabs : SessionStep(t) PROVE Goal
    BY <2>2, PersistMoves, ShutdownMoves, SessionMoves DEF Goal
  <2> QED
    BY <1>3, <2>1, <2>2 DEF RunningStep
<1>5. Alive /\ Alive' /\ archives' = archives
  <2> USE DEF Alive, fileVars
  <2>1. ASSUME NEW c \in Calls, CallStep(c) PROVE Alive /\ Alive' /\ archives' = archives
    BY <2>1 DEF CallStep, BeginDuplicate, BeginCached, BeginRefused, BeginOperation, Entering,
                Dispatch, DispatchBrowser, SendFailed, AbandonBrowser, DispatchHttp,
                DispatchPerfetto, HandleResponse, HandleLateResponse, Timeout, Finish
  <2>2. CASE Persist
    BY <2>2 DEF Persist, WriteSucceeds, WriteFails
  <2>3. ASSUME NEW t \in Tabs, SessionStep(t) PROVE Alive /\ Alive' /\ archives' = archives
    BY <2>3 DEF SessionStep, Connect, ConnectionLost, ContextUpdate
  <2>4. ASSUME NEW op \in Ops, NEW decision, Reconcile(op, decision)
        PROVE  Alive /\ Alive' /\ archives' = archives
    BY <2>4 DEF Reconcile
  <2>5. CASE Shutdown
    BY <2>5 DEF Shutdown
  <2> QED
    BY <2>1, <2>2, <2>3, <2>4, <2>5 DEF RunningStep
<1> QED
  BY <1>4, <1>5

-----------------------------------------------------------------------------
(* The refinement. *)

LEMMA RefinementInit == Init => RInv /\ Once!Init
<1> SUFFICES ASSUME Init PROVE RInv /\ Once!Init
  OBVIOUS
<1>1. /\ OInv /\ mode = "down" /\ archives = {} /\ disk.records = Empty
      /\ \A c \in Calls : call[c] = "idle" /\ sent[c] = 0
      /\ disk.epoch = 1
  BY OutcomesInit DEF Init
<1>2. RInv
  BY <1>1 DEF RInv, SentInv, PersistedInv, ArchivesInv, Alive
<1>3. \A op \in Ops : Outcome(op) = "none"
  BY <1>1 DEF Outcome, Empty, NoRecord
<1>4. Out = {}
  BY <1>1 DEF Out
<1> QED
  BY <1>2, <1>3, <1>4 DEF Once!Init

LEMMA RefinementStep == RInv /\ [Next]_vars => RInv' /\ [Once!Next]_(Once!vars)
<1> SUFFICES ASSUME RInv, [Next]_vars PROVE RInv' /\ [Once!Next]_(Once!vars)
  OBVIOUS
<1>0. OInv' /\ TypeOK' /\ TypeOK
  BY OutcomesStep DEF RInv, OInv, IInv
<1> DEFINE Goal == SentInv' /\ PersistedInv' /\ ArchivesInv' /\ [Once!Next]_(Once!vars)
<1>1. ASSUME RunningStep PROVE Goal
  <2>1. Moves /\ Keeps /\ Alive /\ archives' = archives
    BY <1>0, <1>1, RunningMoves
  <2>2. PersistedInv'
    BY <1>0, <2>1, PersistedStep DEF Moves, Keeps
  <2> QED
    BY <2>1, <2>2 DEF Moves, Keeps, RInv, ArchivesInv
<1>2. ASSUME NEW e \in Epochs, Start(e) PROVE Goal
  <2>1. PersistedInv' /\ [Once!Next]_(Once!vars)
    BY <1>2, StartStutters
  <2>2. /\ mode = "down" /\ UNCHANGED <<call, archives>>
        /\ \A c \in Calls : call[c] # "sent"
    BY <1>2 DEF Start, RInv, OInv, IInv, FilesInv, Waiting
  <2> QED
    BY <2>1, <2>2 DEF RInv, SentInv, ArchivesInv
<1>3. ASSUME Crash PROVE Goal
  <2>1. /\ mode' = "down" /\ UNCHANGED archives
        /\ \A c \in Calls : call'[c] # "sent"
    BY <1>3 DEF Crash, Waiting, fileVars
  <2> QED
    BY <1>3, <2>1, CrashStops DEF RInv, SentInv, ArchivesInv, PersistedInv, Alive
<1>4. ASSUME ArchiveReset PROVE Goal
  <2>1. mode' = "down" /\ UNCHANGED <<call, epoch, sent, archives>>
    BY <1>4 DEF ArchiveReset, daemonVars, historyVars, RInv, OInv, IInv, FilesInv
  <2> QED
    BY <1>4, <2>1, ResetRenews DEF RInv, SentInv, ArchivesInv, PersistedInv, Alive
<1>5. ASSUME NEW e \in Epochs, ArchiveWrite(e) PROVE Goal
  <2>1. /\ UNCHANGED <<mode, epoch, ledger, disk, sent, call>> /\ mode = "down"
        /\ archives' = archives \cup {disk}
        /\ \A op \in Ops : disk.records[op].status \in TerminalStatuses \cup {"absent"}
    BY <1>5 DEF ArchiveWrite, daemonVars, historyVars, Present
  <2> QED
    BY <2>1, IdleStutters DEF RInv, SentInv, ArchivesInv, PersistedInv, Alive
<1>6. ASSUME ArchiveAborts \/ UNCHANGED vars PROVE Goal
  <2>1. UNCHANGED <<mode, epoch, ledger, disk, chain, sent, call, archives>>
    BY <1>6 DEF ArchiveAborts, vars, daemonVars, fileVars, historyVars
  <2> QED
    BY <2>1, IdleStutters DEF RInv, SentInv, ArchivesInv, PersistedInv, Alive
<1>7. Goal
  <2> HIDE DEF Goal
  <2> QED
    BY <1>1, <1>2, <1>3, <1>4, <1>5, <1>6 DEF Next, RunningStep
<1> QED
  BY <1>0, <1>7 DEF RInv

(* What the file and the queued writes hold is never ahead of what the     *)
(* bridge knows, and never misses an operation it may have sent: the       *)
(* invariant that a crash depends on.                                      *)
THEOREM PersistedInductive == Spec => []RInv
  BY RefinementInit, RefinementStep, PTL DEF Spec

(* The ledger implements MutationOnce: only an operation nothing is known  *)
(* of is sent (beginOperation), what was sent is never forgotten, whatever *)
(* happens to writes, connections and the process, and a new epoch starts  *)
(* only when every outcome is known (archiveOperationLedger).              *)
THEOREM ImplementsOnce == Spec => ImplementsMutationOnce
  BY RefinementInit, RefinementStep, PTL DEF Spec, ImplementsMutationOnce, Once!Spec
=============================================================================
