----------------------------- MODULE AgentsProofs -----------------------------
(***************************************************************************)
(* Proofs about Agents for any tabs, workers, calls, commands and faults:  *)
(* type correctness with the order of tabs and queue, workers change as    *)
(* was approved, commands reach the tabs, and a claimed command is carried *)
(* out once.                                                               *)
(*                                                                         *)
(* The inductive invariant has a part for each owner of state.  Of the     *)
(* broker: ids are given in order, a worker without a chat is new or was   *)
(* restored, and nothing is queued from nextCursor on (BrokerInv).  Of the *)
(* browser: what tabs have polled was queued (BrowserInv), and a command   *)
(* that a tab is about to carry out is claimed, was not carried out, and   *)
(* no other tab is about to, unless its claim was dropped (ClaimsInv).     *)
(***************************************************************************)
EXTENDS Agents, FiniteSetTheorems, TLAPS

WorkerRecords == [status : Statuses \cup {"none"}, chat : Chats \cup {None},
                  restored : BOOLEAN, known : BOOLEAN]
CommandRecords == [type : {"none", "open_worker", "message_worker"},
                   worker : Workers \cup {None}, chat : Chats \cup {None},
                   status : {"none", "pending", "cancelled", "acknowledged", "failed", "dropped"}]
CallRecords == [kind : {"none", "spawn", "message", "report", "clear"},
                worker : Workers \cup {None},
                seen : SUBSET (Workers \X Statuses),
                step : {"idle", "approving", "queued", "done"}]
TabRecords == [step : {"unused", "closed", "loading", "starting", "open", "renamed", "dead"},
               name : {"new", "named"}, role : Workers \cup {None},
               cursor : 0..MaxCommands, reporting : Workers \cup {None}]
Tasks == [tab : Tabs, cursor : Cursors, step : {"polled", "doing", "acking", "nacking"}]

(* Of the workers ws: ids are given in order, and a worker that once had a *)
(* chat has one, unless it was restored.                                   *)
WorkersFit(ws) ==
    /\ ws \in [Workers -> WorkerRecords]
    /\ \A w \in Workers : ws[w].status = "none" => ws[w] = NoWorker
    /\ \A w \in Workers : ws[w].known => ws[w].restored \/ ws[w].chat # None
    /\ \E n \in 0..MaxSpawned : \A w \in Workers : ws[w] # NoWorker <=> w <= n

BrokerInv ==
    /\ WorkersFit(workers)
    /\ commands \in [Cursors -> CommandRecords]
    /\ next \in 1..(MaxCommands + 1)
    /\ \A c \in Cursors : commands[c].status # "none" => c < next

CallsInv == calls \in [Calls -> CallRecords] /\ faults \in 0..MaxFaults

BrowserInv ==
    /\ tabs \in [Tabs -> TabRecords]
    /\ tasks \subseteq Tasks
    /\ claims \subseteq Cursors /\ forgotten \subseteq Cursors
    /\ payloads \in [Tabs -> Workers \cup {None}]
    /\ \A t \in Tabs : tabs[t].cursor < next
    /\ \A k \in tasks : k.cursor < next

ClaimsInv ==
    /\ runs \in [Cursors -> Nat]
    /\ \A c \in Cursors \ forgotten :
        /\ runs[c] <= 1
        /\ c \notin claims => runs[c] = 0
    /\ \A k \in tasks : k.step = "doing" /\ k.cursor \notin forgotten =>
        /\ k.cursor \in claims /\ runs[k.cursor] = 0
        /\ \A l \in tasks : l.step = "doing" /\ l.cursor = k.cursor => l = k

AInv == BrokerInv /\ CallsInv /\ BrowserInv /\ ClaimsInv
-----------------------------------------------------------------------------
(* Constants and records. *)

LEMMA ConstantFacts ==
    /\ MaxSpawned \in Nat /\ MaxCommands \in Nat /\ MaxFaults \in Nat /\ MaxWorkers \in Nat
    /\ None \notin Tabs /\ None \notin Workers /\ None \notin Chats
    /\ Opened \subseteq Tabs
    /\ \A c \in Cursors : c \in Nat \ {0} /\ c <= MaxCommands
  BY AgentBounds DEF Workers, Cursors

LEMMA EmptyRecords ==
    /\ NoWorker \in WorkerRecords /\ NoCommand \in CommandRecords
    /\ NoCall \in CallRecords /\ Ended \in CallRecords /\ NoTab \in TabRecords
    /\ NoWorker.status = "none" /\ NoWorker.known = FALSE /\ NoCommand.status = "none"
    /\ NoTab.cursor = 0 /\ NoTab.role = None /\ Ended.step = "done"
<1>1. NoCall \in CallRecords /\ Ended = [kind |-> "none", worker |-> None, seen |-> {}, step |-> "done"]
  BY DEF NoCall, Ended, CallRecords
<1>2. Ended \in CallRecords /\ Ended.step = "done"
  BY <1>1 DEF CallRecords
<1>3. NoTab \in TabRecords /\ NoTab.cursor = 0 /\ NoTab.role = None
  BY ConstantFacts DEF NoTab, TabRecords
<1> QED
  BY <1>1, <1>2, <1>3 DEF NoWorker, NoCommand, WorkerRecords, CommandRecords

LEMMA InvTypes == AInv => TypeOK
  BY DEF AInv, BrokerInv, WorkersFit, CallsInv, BrowserInv, TypeOK, WorkerRecords,
         CommandRecords, CallRecords, TabRecords, Tasks

-----------------------------------------------------------------------------
(* What the broker does with workers and commands. *)

(* Workers that exist go on existing, and no others appear. *)
LEMMA FitsAlike ==
    ASSUME NEW ws, WorkersFit(ws), NEW f \in [Workers -> WorkerRecords],
           \A w \in Workers : /\ ws[w] = NoWorker <=> f[w] = NoWorker
                              /\ f[w].status = "none" => f[w] = NoWorker
                              /\ f[w].known => f[w].restored \/ f[w].chat # None
    PROVE  WorkersFit(f)
  BY DEF WorkersFit

LEMMA FitsRecord ==
    ASSUME NEW ws, WorkersFit(ws), NEW w \in Workers, ws[w].status # "none",
           NEW r \in WorkerRecords, r.status # "none",
           r.known => r.restored \/ r.chat # None
    PROVE  WorkersFit([ws EXCEPT ![w] = r])
<1> DEFINE f == [ws EXCEPT ![w] = r]
<1>1. ws \in [Workers -> WorkerRecords] /\ f \in [Workers -> WorkerRecords]
  BY DEF WorkersFit
<1>2. \A v \in Workers : f[v] = IF v = w THEN r ELSE ws[v]
  BY <1>1
<1>3. ws[w] # NoWorker /\ r # NoWorker
  BY EmptyRecords
<1>4. \A v \in Workers : /\ ws[v] = NoWorker <=> f[v] = NoWorker
                         /\ f[v].status = "none" => f[v] = NoWorker
                         /\ f[v].known => f[v].restored \/ f[v].chat # None
  BY <1>2, <1>3 DEF WorkersFit
<1> QED
  BY <1>1, <1>4, FitsAlike

LEMMA FitsStatus ==
    ASSUME WorkersFit(workers), NEW w \in Workers, workers[w].status # "none", NEW s \in Statuses
    PROVE  WorkersFit([workers EXCEPT ![w].status = s])
<1> DEFINE r == [workers[w] EXCEPT !.status = s]
<1>1. workers[w] \in WorkerRecords /\ s # "none"
  BY DEF WorkersFit, Statuses
<1>2. r = [status |-> s, chat |-> workers[w].chat, restored |-> workers[w].restored,
           known |-> workers[w].known]
  BY <1>1 DEF WorkerRecords
<1>3. r \in WorkerRecords /\ r.status # "none"
  BY <1>1, <1>2 DEF WorkerRecords
<1>4. r.known => r.restored \/ r.chat # None
  BY <1>2 DEF WorkersFit
<1>5. [workers EXCEPT ![w].status = s] = [workers EXCEPT ![w] = r]
  BY DEF WorkersFit
<1> HIDE DEF r
<1> QED
  BY <1>3, <1>4, <1>5, FitsRecord

(* The id that a spawned worker gets was never used. *)
LEMMA FreshNumber ==
    ASSUME WorkersFit(workers),
           NEW number, number = Cardinality({w \in Workers : workers[w] # NoWorker}) + 1,
           number \in Workers
    PROVE  /\ workers[number] = NoWorker
           /\ \A w \in Workers : workers[w] # NoWorker <=> w <= number - 1
<1>1. PICK n \in 0..MaxSpawned : \A w \in Workers : workers[w] # NoWorker <=> w <= n
  BY DEF WorkersFit
<1>2. {w \in Workers : workers[w] # NoWorker} = 1..n
  BY <1>1, ConstantFacts DEF Workers
<1>3. n \in Nat /\ 1 \in Int /\ n \in Int
  BY ConstantFacts
<1>4. Cardinality(1..n) = IF 1 > n THEN 0 ELSE n - 1 + 1
  BY <1>3, FS_Interval
<1>5. Cardinality(1..n) = n
  BY <1>3, <1>4
<1>6. Cardinality({w \in Workers : workers[w] # NoWorker}) = n
  BY <1>2, <1>5, Zenon
<1>7. number = n + 1
  BY <1>6, Zenon
<1>8. number - 1 = n
  BY <1>3, <1>7
<1> QED
  BY <1>1, <1>3, <1>7, <1>8

LEMMA FitsSpawn ==
    ASSUME BrokerInv, Spawn
    PROVE  /\ WorkersFit(workers')
           /\ \E w \in Workers : Enqueue("open_worker", w, None)
           /\ \A w \in Workers : workers[w] # NoWorker => workers'[w] = workers[w]
           /\ \A w \in Workers : workers[w] = NoWorker => workers'[w].status \in {"none", "starting"}
<1>1. PICK number \in Workers :
        /\ number = Cardinality({w \in Workers : workers[w] # NoWorker}) + 1
        /\ workers' = [workers EXCEPT ![number].status = "starting"]
        /\ Enqueue("open_worker", number, None)
  BY DEF Spawn
<1>2. workers \in [Workers -> WorkerRecords]
  BY DEF BrokerInv, WorkersFit
<1>3. /\ workers[number] = NoWorker
      /\ \A w \in Workers : workers[w] # NoWorker <=> w <= number - 1
  BY <1>1, FreshNumber DEF BrokerInv
<1>4. workers'[number] = [status |-> "starting", chat |-> None, restored |-> FALSE, known |-> FALSE]
  <2>1. workers'[number] = [workers[number] EXCEPT !.status = "starting"]
    BY <1>1, <1>2
  <2>2. workers[number] = [status |-> "none", chat |-> None, restored |-> FALSE, known |-> FALSE]
    BY <1>3 DEF NoWorker
  <2>3. workers'[number] = [[status |-> "none", chat |-> None, restored |-> FALSE, known |-> FALSE]
                                EXCEPT !.status = "starting"]
    BY <2>1, <2>2, Zenon
  <2> QED
    BY <2>3
<1>5. workers'[number] \in WorkerRecords /\ workers'[number] # NoWorker
  BY <1>4 DEF WorkerRecords, Statuses, NoWorker
<1>6. workers' \in [Workers -> WorkerRecords] /\ \A w \in Workers \ {number} : workers'[w] = workers[w]
  BY <1>1, <1>2, <1>5
<1>7. \A w \in Workers : workers'[w] # NoWorker <=> w <= number
  BY <1>3, <1>5, <1>6 DEF Workers
<1>8. number \in 0..MaxSpawned
  BY ConstantFacts DEF Workers
<1>9. \A w \in Workers : workers'[w].status = "none" => workers'[w] = NoWorker
  BY <1>4, <1>6 DEF BrokerInv, WorkersFit
<1>10. \A w \in Workers : workers'[w].known => workers'[w].restored \/ workers'[w].chat # None
  BY <1>4, <1>6 DEF BrokerInv, WorkersFit
<1>11. WorkersFit(workers')
  BY <1>6, <1>7, <1>8, <1>9, <1>10 DEF WorkersFit
<1> QED
  BY <1>1, <1>3, <1>4, <1>6, <1>11, EmptyRecords

LEMMA EnqueueFits ==
    ASSUME BrokerInv, WorkersFit(workers'),
           NEW type \in {"open_worker", "message_worker"}, NEW w \in Workers,
           NEW chat \in Chats \cup {None}, Enqueue(type, w, chat)
    PROVE  /\ BrokerInv' /\ next \in Cursors /\ next' = next + 1
           /\ commands'[next] = [type |-> type, worker |-> w, chat |-> chat, status |-> "pending"]
           /\ \A c \in Cursors \ {next} : commands'[c] = commands[c]
<1>1. next \in Cursors /\ next' = next + 1 /\ commands \in [Cursors -> CommandRecords]
  BY DEF BrokerInv, Enqueue
<1>2. [type |-> type, worker |-> w, chat |-> chat, status |-> "pending"] \in CommandRecords
  BY DEF CommandRecords
<1>3. /\ commands'[next] = [type |-> type, worker |-> w, chat |-> chat, status |-> "pending"]
      /\ \A c \in Cursors \ {next} : commands'[c] = commands[c]
      /\ commands' \in [Cursors -> CommandRecords]
  BY <1>1, <1>2 DEF Enqueue
<1>4. next' \in 1..(MaxCommands + 1)
  BY <1>1, ConstantFacts DEF Cursors
<1>5. \A c \in Cursors : commands'[c].status # "none" => c < next'
  BY <1>1, <1>3, ConstantFacts DEF BrokerInv
<1> QED
  BY <1>1, <1>3, <1>4, <1>5 DEF BrokerInv

LEMMA MessageFits ==
    ASSUME BrokerInv, NEW w \in Workers, Message(w)
    PROVE  /\ BrokerInv' /\ next \in Cursors /\ next' = next + 1
           /\ commands'[next] = [type |-> "message_worker", worker |-> w,
                                 chat |-> workers[w].chat, status |-> "pending"]
           /\ \A c \in Cursors \ {next} : commands'[c] = commands[c]
           /\ workers[w].known => workers[w].chat # None
           /\ \A v \in Workers : workers'[v].status = IF v = w THEN "working" ELSE workers[v].status
<1>1. workers \in [Workers -> WorkerRecords] /\ WorkersFit(workers)
  BY DEF BrokerInv, WorkersFit
<1>2. workers[w].chat \in Chats \cup {None}
  BY <1>1 DEF WorkerRecords
<1>3. /\ w \in Living /\ ~(workers[w].restored /\ workers[w].chat = None)
      /\ workers' = [workers EXCEPT ![w].status = "working"]
      /\ Enqueue("message_worker", w, workers[w].chat)
  BY DEF Message, MayMessage
<1>4. WorkersFit(workers')
  BY <1>1, <1>3, FitsStatus DEF Living, Statuses
<1>5. workers[w].known => workers[w].chat # None
  BY <1>1, <1>3 DEF WorkersFit
<1>6. \A v \in Workers : workers'[v].status = IF v = w THEN "working" ELSE workers[v].status
  BY <1>1, <1>3 DEF WorkerRecords
<1> QED
  BY <1>2, <1>3, <1>4, <1>5, <1>6, EnqueueFits

LEMMA ReportFits ==
    ASSUME BrokerInv, NEW w \in Workers, Report(w)
    PROVE  /\ BrokerInv' /\ next' = next /\ commands' = commands
           /\ \A v \in Workers : /\ workers[v].status = "retired" => workers'[v].status = "retired"
                                 /\ workers'[v].status = "retired" => workers[v].status = "retired"
<1>1. PICK s \in {"sleeping", "failed"} : workers' = [workers EXCEPT ![w].status = s]
  BY DEF Report
<1>2. workers \in [Workers -> WorkerRecords] /\ w \in Living /\ next' = next /\ commands' = commands
  BY DEF BrokerInv, WorkersFit, Report
<1>3. WorkersFit(workers')
  BY <1>1, <1>2, FitsStatus DEF BrokerInv, Living, Statuses
<1>4. \A v \in Workers : workers'[v].status = IF v = w THEN s ELSE workers[v].status
  BY <1>1, <1>2 DEF WorkerRecords
<1> QED
  BY <1>2, <1>3, <1>4 DEF BrokerInv, Living

(* Retired workers stay so, nobody retires, and nothing is queued. *)
KeepsRetired == \A w \in Workers : workers[w].status = "retired" => workers'[w].status = "retired"
RetiresNone == \A w \in Workers : workers'[w].status = "retired" => workers[w].status = "retired"
QueuesNone == \A c \in Cursors : commands'[c].status = "pending" => commands[c].status = "pending"

LEMMA RetiredFields ==
    ASSUME NEW x \in WorkerRecords, NEW r, r = [x EXCEPT !.status = "retired"]
    PROVE  /\ r \in WorkerRecords
           /\ r.status = "retired" /\ r.chat = x.chat /\ r.restored = x.restored /\ r.known = x.known
<1>1. r = [status |-> "retired", chat |-> x.chat, restored |-> x.restored, known |-> x.known]
  BY DEF WorkerRecords
<1> QED
  BY <1>1 DEF WorkerRecords, Statuses

LEMMA RestoredFields ==
    ASSUME NEW x \in WorkerRecords, NEW r,
           r = [x EXCEPT !.chat = None, !.restored = TRUE,
                    !.status = IF @ \in {"starting", "working"} THEN "sleeping" ELSE @]
    PROVE  /\ r \in WorkerRecords
           /\ r.chat = None /\ r.restored = TRUE /\ r.known = x.known
           /\ r.status = IF x.status \in {"starting", "working"} THEN "sleeping" ELSE x.status
<1> DEFINE s == IF x.status \in {"starting", "working"} THEN "sleeping" ELSE x.status
<1>1. r = [x EXCEPT !.chat = None, !.restored = TRUE, !.status = s]
  BY Zenon
<1>2. s \in Statuses \cup {"none"}
  BY DEF WorkerRecords, Statuses
<1>3. s = IF x.status \in {"starting", "working"} THEN "sleeping" ELSE x.status
  OBVIOUS
<1> HIDE DEF s
<1>4. r = [status |-> s, chat |-> None, restored |-> TRUE, known |-> x.known]
  BY <1>1 DEF WorkerRecords
<1> QED
  BY <1>2, <1>3, <1>4 DEF WorkerRecords

LEMMA ClearFits ==
    ASSUME BrokerInv, Clear
    PROVE  /\ BrokerInv' /\ next' = next
           /\ KeepsRetired /\ QueuesNone
           /\ \A w \in Workers : workers'[w].status = "retired" /\ workers[w].status # "retired" => w \in Living
<1>1. /\ WorkersFit(workers) /\ workers \in [Workers -> WorkerRecords]
      /\ commands \in [Cursors -> CommandRecords]
  BY DEF BrokerInv, WorkersFit
<1>2. \A w \in Workers :
        workers'[w] = IF workers[w] = NoWorker THEN NoWorker ELSE [workers[w] EXCEPT !.status = "retired"]
  BY DEF Clear
<1>3. \A w \in Workers : workers[w] # NoWorker =>
        /\ workers'[w] \in WorkerRecords
        /\ workers'[w].status = "retired" /\ workers'[w].chat = workers[w].chat
        /\ workers'[w].restored = workers[w].restored /\ workers'[w].known = workers[w].known
  <2> SUFFICES ASSUME NEW w \in Workers, workers[w] # NoWorker
               PROVE  /\ workers'[w] \in WorkerRecords
                      /\ workers'[w].status = "retired" /\ workers'[w].chat = workers[w].chat
                      /\ workers'[w].restored = workers[w].restored
                      /\ workers'[w].known = workers[w].known
    OBVIOUS
  <2>1. workers[w] \in WorkerRecords /\ workers'[w] = [workers[w] EXCEPT !.status = "retired"]
    BY <1>1, <1>2
  <2> QED
    BY <2>1, RetiredFields
<1>4. \A w \in Workers : workers'[w] \in WorkerRecords
  BY <1>2, <1>3, EmptyRecords
<1>5. workers' \in [Workers -> WorkerRecords]
  <2>1. workers' = [w \in Workers |-> IF workers[w] = NoWorker THEN NoWorker
                                      ELSE [workers[w] EXCEPT !.status = "retired"]]
    BY DEF Clear
  <2>2. workers' = [w \in Workers |-> workers'[w]]
    BY <2>1
  <2> QED
    BY <1>4, <2>2
<1>6. \A w \in Workers : /\ workers[w] = NoWorker <=> workers'[w] = NoWorker
                         /\ workers'[w].status = "none" => workers'[w] = NoWorker
                         /\ workers'[w].known => workers'[w].restored \/ workers'[w].chat # None
  <2> SUFFICES ASSUME NEW w \in Workers
               PROVE  /\ workers[w] = NoWorker <=> workers'[w] = NoWorker
                      /\ workers'[w].status = "none" => workers'[w] = NoWorker
                      /\ workers'[w].known => workers'[w].restored \/ workers'[w].chat # None
    OBVIOUS
  <2>1. CASE workers[w] = NoWorker
    BY <1>2, <2>1, EmptyRecords
  <2>2. CASE workers[w] # NoWorker
    BY <1>1, <1>3, <2>2, EmptyRecords DEF WorkersFit
  <2> QED
    BY <2>1, <2>2
<1>7. WorkersFit(workers')
  BY <1>1, <1>5, <1>6, FitsAlike
<1>8. \A c \in Cursors :
        commands'[c] = IF c \in Pending THEN [commands[c] EXCEPT !.status = "cancelled"] ELSE commands[c]
  BY DEF Clear
<1>9. \A c \in Cursors : /\ commands'[c] \in CommandRecords
                         /\ commands'[c].status = IF c \in Pending THEN "cancelled" ELSE commands[c].status
  BY <1>1, <1>8, ZenonT(30) DEF CommandRecords
<1>10. commands' \in [Cursors -> CommandRecords]
  <2>1. commands' = [c \in Cursors |-> IF c \in Pending THEN [commands[c] EXCEPT !.status = "cancelled"]
                                       ELSE commands[c]]
    BY DEF Clear
  <2>2. commands' = [c \in Cursors |-> commands'[c]]
    BY <2>1
  <2> QED
    BY <1>9, <2>2
<1>11. next' = next /\ \A c \in Cursors : commands'[c].status # "none" => c < next'
  BY <1>9 DEF Clear, BrokerInv, Pending
<1>12. BrokerInv'
  BY <1>7, <1>10, <1>11 DEF BrokerInv
<1>13. KeepsRetired
  BY <1>2, <1>3, EmptyRecords DEF KeepsRetired
<1>14. QueuesNone
  BY <1>9 DEF QueuesNone
<1>15. \A w \in Workers : workers'[w].status = "retired" /\ workers[w].status # "retired" => w \in Living
  <2> SUFFICES ASSUME NEW w \in Workers, workers'[w].status = "retired", workers[w].status # "retired"
               PROVE  w \in Living
    OBVIOUS
  <2>1. workers[w] # NoWorker
    BY <1>2, EmptyRecords
  <2> QED
    BY <1>1, <2>1 DEF WorkersFit, Living
<1> QED
  BY <1>11, <1>12, <1>13, <1>14, <1>15

LEMMA RegisterFits ==
    ASSUME BrokerInv, BrowserInv, NEW t \in Tabs, RegisterWorker(t), UNCHANGED <<commands, next>>
    PROVE  BrokerInv' /\ KeepsRetired /\ RetiresNone /\ QueuesNone
<1>1. workers \in [Workers -> WorkerRecords] /\ WorkersFit(workers) /\ tabs \in [Tabs -> TabRecords]
  BY DEF BrokerInv, WorkersFit, BrowserInv
<1>2. QueuesNone
  BY DEF QueuesNone
<1>3. CASE workers' = workers
  BY <1>2, <1>3 DEF BrokerInv, KeepsRetired, RetiresNone
<1>4. CASE workers' # workers
  <2> DEFINE w == tabs[t].role
             r == [status |-> "working", chat |-> <<t, tabs[t].name>>, restored |-> FALSE, known |-> TRUE]
  <2>1. w \in Living /\ workers' = [workers EXCEPT ![w] = r]
    BY <1>4 DEF RegisterWorker
  <2>2. w \in Workers /\ workers[w].status \notin {"none", "retired"}
    BY <2>1 DEF Living
  <2>3. tabs[t].name \in {"new", "named"}
    BY <1>1 DEF TabRecords
  <2>4. <<t, tabs[t].name>> \in Chats
    BY <2>3 DEF Chats
  <2>5. r \in WorkerRecords /\ r.status = "working" /\ r.chat # None
    BY <2>4, ConstantFacts DEF WorkerRecords, Statuses
  <2>6. WorkersFit([workers EXCEPT ![w] = r])
    <3> HIDE DEF r, w
    <3> QED
      BY <1>1, <2>2, <2>5, FitsRecord
  <2>7. WorkersFit(workers')
    BY <2>1, <2>6
  <2>8. \A v \in Workers : workers'[v].status = IF v = w THEN "working" ELSE workers[v].status
    BY <1>1, <2>1
  <2> HIDE DEF w, r
  <2> QED
    BY <1>2, <2>2, <2>7, <2>8 DEF BrokerInv, KeepsRetired, RetiresNone
<1> QED
  BY <1>3, <1>4

LEMMA ReportWorkerFits ==
    ASSUME BrokerInv, NEW t \in Tabs, ReportWorker(t)
    PROVE  BrokerInv' /\ KeepsRetired /\ RetiresNone /\ QueuesNone
<1>1. workers \in [Workers -> WorkerRecords] /\ WorkersFit(workers)
  BY DEF BrokerInv, WorkersFit
<1>2. QueuesNone /\ UNCHANGED <<commands, next>>
  BY DEF ReportWorker, QueuesNone
<1>3. CASE workers' = workers
  BY <1>2, <1>3 DEF BrokerInv, KeepsRetired, RetiresNone
<1>4. CASE workers' # workers
  <2> DEFINE w == tabs[t].reporting
  <2>1. w \in Living /\ workers' = [workers EXCEPT ![w].status = "sleeping"]
    BY <1>4 DEF ReportWorker
  <2>2. w \in Workers /\ workers[w].status \notin {"none", "retired"}
    BY <2>1 DEF Living
  <2> HIDE DEF w
  <2>3. WorkersFit([workers EXCEPT ![w].status = "sleeping"])
    BY <1>1, <2>2, FitsStatus DEF Statuses
  <2>4. \A v \in Workers : workers'[v].status = IF v = w THEN "sleeping" ELSE workers[v].status
    BY <1>1, <2>1 DEF WorkerRecords
  <2> QED
    BY <1>2, <2>1, <2>2, <2>3, <2>4 DEF BrokerInv, KeepsRetired, RetiresNone
<1> QED
  BY <1>3, <1>4

LEMMA AcknowledgedFits ==
    ASSUME BrokerInv, NEW c \in Cursors, c < next, NEW status \in {"acknowledged", "failed"},
           Acknowledged(c, status) \/ UNCHANGED commands, UNCHANGED <<workers, next>>
    PROVE  BrokerInv' /\ KeepsRetired /\ RetiresNone /\ QueuesNone
<1>1. commands \in [Cursors -> CommandRecords]
  BY DEF BrokerInv
<1>2. KeepsRetired /\ RetiresNone
  BY DEF KeepsRetired, RetiresNone
<1>3. CASE UNCHANGED commands
  BY <1>2, <1>3 DEF BrokerInv, QueuesNone
<1>4. CASE Acknowledged(c, status)
  <2>1. commands' = [commands EXCEPT ![c].status = IF @ = "dropped" THEN @ ELSE status]
    BY <1>4 DEF Acknowledged
  <2>2. commands[c] \in CommandRecords
    BY <1>1
  <2>3. commands'[c] = [type |-> commands[c].type, worker |-> commands[c].worker,
                        chat |-> commands[c].chat,
                        status |-> IF commands[c].status = "dropped" THEN "dropped" ELSE status]
    BY <1>1, <2>1, <2>2 DEF CommandRecords
  <2>4. commands'[c] \in CommandRecords /\ commands'[c].status # "pending"
    BY <2>2, <2>3 DEF CommandRecords
  <2>5. commands' \in [Cursors -> CommandRecords] /\ \A d \in Cursors \ {c} : commands'[d] = commands[d]
    BY <1>1, <2>1, <2>4
  <2> QED
    BY <1>2, <2>4, <2>5 DEF BrokerInv, QueuesNone
<1> QED
  BY <1>3, <1>4

LEMMA RestartFits ==
    ASSUME BrokerInv, Restarted
    PROVE  BrokerInv' /\ KeepsRetired /\ RetiresNone /\ QueuesNone /\ next' = next
<1>1. /\ WorkersFit(workers) /\ workers \in [Workers -> WorkerRecords]
      /\ commands \in [Cursors -> CommandRecords] /\ next' = next
  BY DEF BrokerInv, WorkersFit, Restarted
<1>2. \A w \in Workers :
        workers'[w] = IF workers[w] = NoWorker THEN NoWorker
                      ELSE [workers[w] EXCEPT !.chat = None, !.restored = TRUE,
                                !.status = IF @ \in {"starting", "working"} THEN "sleeping" ELSE @]
  BY DEF Restarted
<1>3. \A w \in Workers : workers[w] # NoWorker =>
        /\ workers'[w] \in WorkerRecords
        /\ workers'[w].chat = None /\ workers'[w].restored /\ workers'[w].known = workers[w].known
        /\ workers'[w].status = IF workers[w].status \in {"starting", "working"} THEN "sleeping"
                                ELSE workers[w].status
  <2> SUFFICES ASSUME NEW w \in Workers, workers[w] # NoWorker
               PROVE  /\ workers'[w] \in WorkerRecords
                      /\ workers'[w].chat = None /\ workers'[w].restored
                      /\ workers'[w].known = workers[w].known
                      /\ workers'[w].status = IF workers[w].status \in {"starting", "working"}
                                              THEN "sleeping" ELSE workers[w].status
    OBVIOUS
  <2>1. workers[w] \in WorkerRecords
        /\ workers'[w] = [workers[w] EXCEPT !.chat = None, !.restored = TRUE,
                            !.status = IF @ \in {"starting", "working"} THEN "sleeping" ELSE @]
    BY <1>1, <1>2
  <2> QED
    BY <2>1, RestoredFields
<1>4. \A w \in Workers : workers'[w] \in WorkerRecords
  BY <1>2, <1>3, EmptyRecords
<1>5. workers' \in [Workers -> WorkerRecords]
  <2>1. workers' = [w \in Workers |->
                        IF workers[w] = NoWorker THEN NoWorker
                        ELSE [workers[w] EXCEPT !.chat = None, !.restored = TRUE,
                                !.status = IF @ \in {"starting", "working"} THEN "sleeping" ELSE @]]
    BY DEF Restarted
  <2>2. workers' = [w \in Workers |-> workers'[w]]
    BY <2>1
  <2> QED
    BY <1>4, <2>2
<1>6. \A w \in Workers : workers[w] # NoWorker => workers[w].status # "none" /\ workers'[w].restored
  BY <1>1, <1>3 DEF WorkersFit
<1>7. \A w \in Workers : /\ workers[w] = NoWorker <=> workers'[w] = NoWorker
                         /\ workers'[w].status = "none" => workers'[w] = NoWorker
                         /\ workers'[w].known => workers'[w].restored \/ workers'[w].chat # None
  <2> SUFFICES ASSUME NEW w \in Workers
               PROVE  /\ workers[w] = NoWorker <=> workers'[w] = NoWorker
                      /\ workers'[w].status = "none" => workers'[w] = NoWorker
                      /\ workers'[w].known => workers'[w].restored \/ workers'[w].chat # None
    OBVIOUS
  <2>1. CASE workers[w] = NoWorker
    BY <1>2, <2>1, EmptyRecords
  <2>2. CASE workers[w] # NoWorker
    BY <1>3, <1>6, <2>2, EmptyRecords
  <2> QED
    BY <2>1, <2>2
<1>8. WorkersFit(workers')
  BY <1>1, <1>5, <1>7, FitsAlike
<1>9. \A c \in Cursors :
        commands'[c] = IF c < next THEN [commands[c] EXCEPT !.status = "dropped"] ELSE commands[c]
  BY DEF Restarted
<1>10. \A c \in Cursors : /\ commands'[c] \in CommandRecords
                          /\ commands'[c].status = IF c < next THEN "dropped" ELSE commands[c].status
  BY <1>1, <1>9 DEF CommandRecords
<1>11. commands' \in [Cursors -> CommandRecords]
  <2>1. commands' = [c \in Cursors |-> IF c < next THEN [commands[c] EXCEPT !.status = "dropped"]
                                       ELSE commands[c]]
    BY DEF Restarted
  <2>2. commands' = [c \in Cursors |-> commands'[c]]
    BY <2>1
  <2> QED
    BY <1>10, <2>2
<1>12. BrokerInv' /\ QueuesNone
  BY <1>1, <1>8, <1>10, <1>11 DEF BrokerInv, QueuesNone
<1>13. KeepsRetired /\ RetiresNone
  <2>1. \A w \in Workers : workers'[w].status = "retired" <=> workers[w].status = "retired"
    BY <1>2, <1>3, EmptyRecords
  <2> QED
    BY <2>1 DEF KeepsRetired, RetiresNone
<1> QED
  BY <1>1, <1>12, <1>13

-----------------------------------------------------------------------------
(* The steps of the calls and of the daemon. *)

(* What the two action properties say of a step. *)
Approved ==
    \A w \in Workers :
        /\ workers[w].status = "retired" => workers'[w].status = "retired"
        /\ \/ workers'[w].status = "retired" /\ workers[w].status # "retired"
           \/ \E c \in Cursors : commands'[c].type = "message_worker" /\ commands'[c].worker = w
                                    /\ NewlyPending(c)
           => \E c \in Calls : calls[c].step = "queued" /\ <<w, workers[w].status>> \in calls[c].seen

Reaches ==
    \A c \in Cursors : NewlyPending(c) =>
        /\ \A t \in Tabs : tabs[t].cursor < c
        /\ commands'[c].type = "message_worker" /\ workers[commands'[c].worker].known
                => commands'[c].chat # None

Quiet == KeepsRetired /\ RetiresNone /\ QueuesNone

LEMMA QuietSteps == Quiet => Approved /\ Reaches
<1>1. QueuesNone => \A c \in Cursors : ~NewlyPending(c)
  BY DEF QueuesNone, NewlyPending
<1> QED
  BY <1>1 DEF Quiet, KeepsRetired, RetiresNone, Approved, Reaches

LEMMA BrokerStays ==
    ASSUME UNCHANGED brokerVars
    PROVE  (BrokerInv => BrokerInv') /\ Quiet
<1>1. workers' = workers /\ commands' = commands /\ next' = next
  BY DEF brokerVars
<1> QED
  BY <1>1 DEF BrokerInv, Quiet, KeepsRetired, RetiresNone, QueuesNone

LEMMA CallsStay == CallsInv /\ UNCHANGED <<calls, faults>> => CallsInv'
  BY DEF CallsInv

LEMMA ClaimsStay == ClaimsInv /\ UNCHANGED <<tasks, claims, runs, forgotten>> => ClaimsInv'
  BY DEF ClaimsInv

LEMMA BrowserStays ==
    ASSUME BrowserInv, ClaimsInv, UNCHANGED browserVars, next \in Nat, next' \in Nat, next <= next'
    PROVE  BrowserInv' /\ ClaimsInv'
<1>1. /\ tabs' = tabs /\ tasks' = tasks /\ claims' = claims /\ payloads' = payloads
      /\ runs' = runs /\ forgotten' = forgotten
  BY DEF browserVars
<1>2. ClaimsInv'
  BY <1>1, ClaimsStay
<1>3. \A t \in Tabs : tabs[t].cursor < next'
  <2> SUFFICES ASSUME NEW t \in Tabs PROVE tabs[t].cursor < next'
    OBVIOUS
  <2>1. tabs[t].cursor \in Nat /\ tabs[t].cursor < next
    BY ConstantFacts DEF BrowserInv, TabRecords
  <2> QED
    BY <2>1
<1>4. \A k \in tasks : k.cursor < next'
  <2> SUFFICES ASSUME NEW k \in tasks PROVE k.cursor < next'
    OBVIOUS
  <2>1. k.cursor \in Nat /\ k.cursor < next
    BY ConstantFacts DEF BrowserInv, Tasks
  <2> QED
    BY <2>1
<1> QED
  BY <1>1, <1>2, <1>3, <1>4 DEF BrowserInv

LEMMA NextIsNat == BrokerInv => next \in Nat /\ next \in Int
  BY ConstantFacts DEF BrokerInv

LEMMA FaultFits == CallsInv /\ Fault => faults' \in 0..MaxFaults
  BY ConstantFacts DEF CallsInv, Fault

(* What a call has seen is workers and the states they are in. *)
LEMMA SeenFits ==
    ASSUME BrokerInv, NEW kind, NEW w
    PROVE  Seen(kind, w) \in SUBSET (Workers \X Statuses)
<1>1. \A v \in Living : v \in Workers /\ workers[v].status \in Statuses
  BY DEF BrokerInv, WorkersFit, WorkerRecords, Living
<1> QED
  BY <1>1 DEF Seen

LEMMA EnterCallStep ==
    ASSUME AInv, NEW c \in Calls, NEW w \in Workers \cup {None},
           NEW kind \in {"spawn", "message", "report", "clear"}, EnterCall(c, kind, w)
    PROVE  AInv' /\ Quiet
<1>1. BrokerInv' /\ Quiet
  BY BrokerStays DEF AInv, EnterCall
<1>2. BrowserInv' /\ ClaimsInv'
  BY BrowserStays, NextIsNat DEF AInv, EnterCall, brokerVars
<1>3. [kind |-> kind, worker |-> w, seen |-> Seen(kind, w), step |-> "approving"] \in CallRecords
  BY SeenFits DEF AInv, CallRecords
<1>4. CallsInv'
  BY <1>3 DEF AInv, CallsInv, EnterCall
<1> QED
  BY <1>1, <1>2, <1>4 DEF AInv

LEMMA CallMoves ==
    ASSUME AInv, NEW c \in Calls, Approve(c) \/ CallFails(c)
    PROVE  AInv' /\ Quiet
<1>1. UNCHANGED brokerVars /\ UNCHANGED browserVars /\ faults' = faults
  BY DEF Approve, CallFails
<1>2. BrokerInv' /\ Quiet
  BY <1>1, BrokerStays DEF AInv
<1>3. BrowserInv' /\ ClaimsInv'
  BY <1>1, BrowserStays, NextIsNat DEF AInv, brokerVars
<1>4. calls \in [Calls -> CallRecords] /\ calls[c] \in CallRecords
  BY DEF AInv, CallsInv
<1>5. [calls[c] EXCEPT !.step = "queued"] \in CallRecords
  <2>1. [calls[c] EXCEPT !.step = "queued"]
            = [kind |-> calls[c].kind, worker |-> calls[c].worker, seen |-> calls[c].seen, step |-> "queued"]
    BY <1>4 DEF CallRecords
  <2> QED
    BY <1>4, <2>1 DEF CallRecords
<1>6. \/ calls' = [calls EXCEPT ![c] = [calls[c] EXCEPT !.step = "queued"]]
      \/ calls' = [calls EXCEPT ![c] = Ended]
  BY DEF Approve, CallFails
<1>7. CallsInv'
  BY <1>1, <1>4, <1>5, <1>6, EmptyRecords DEF AInv, CallsInv
<1> QED
  BY <1>2, <1>3, <1>7 DEF AInv

LEMMA RestartStep == AInv /\ Restart => AInv' /\ Quiet
<1> SUFFICES ASSUME AInv, Restart PROVE AInv' /\ Quiet
  OBVIOUS
<1>1. BrokerInv' /\ Quiet /\ next' = next
  BY RestartFits DEF AInv, Restart, Quiet
<1>2. BrowserInv' /\ ClaimsInv'
  BY <1>1, BrowserStays, NextIsNat DEF AInv, Restart
<1>3. calls' \in [Calls -> CallRecords]
  BY EmptyRecords DEF Restart
<1>4. CallsInv'
  BY <1>3, FaultFits DEF AInv, CallsInv, Restart
<1> QED
  BY <1>1, <1>2, <1>4 DEF AInv

(* An approved call acts: what it does to a worker it was approved for, in *)
(* the state the worker is in.                                             *)
LEMMA ActStep ==
    ASSUME AInv, NEW c \in Calls, Act(c)
    PROVE  AInv' /\ Approved /\ Reaches
<1>1. /\ calls[c].step = "queued" /\ calls[c].seen = Seen(calls[c].kind, calls[c].worker)
      /\ calls' = [calls EXCEPT ![c] = Ended] /\ UNCHANGED browserVars /\ faults' = faults
  BY DEF Act, TargetUnchanged
<1>2. CallsInv'
  BY <1>1, EmptyRecords DEF AInv, CallsInv
<1>3. BrokerInv /\ next \in Nat
  BY NextIsNat DEF AInv
<1>4. \A t \in Tabs : tabs[t].cursor < next
  BY DEF AInv, BrowserInv
<1> DEFINE Goal == BrokerInv' /\ next' \in Nat /\ next <= next' /\ Approved /\ Reaches
<1>5. ASSUME calls[c].kind = "spawn", Spawn PROVE Goal
  <2>1. /\ WorkersFit(workers')
        /\ \A w \in Workers : workers[w] # NoWorker => workers'[w] = workers[w]
        /\ \A w \in Workers : workers[w] = NoWorker => workers'[w].status \in {"none", "starting"}
    BY <1>3, <1>5, FitsSpawn
  <2>2. PICK w \in Workers : Enqueue("open_worker", w, None)
    BY <1>3, <1>5, FitsSpawn
  <2>3. /\ BrokerInv' /\ next \in Cursors /\ next' = next + 1
        /\ commands'[next] = [type |-> "open_worker", worker |-> w, chat |-> None, status |-> "pending"]
        /\ \A d \in Cursors \ {next} : commands'[d] = commands[d]
    BY <1>3, <2>1, <2>2, EnqueueFits
  <2>4. \A d \in Cursors : NewlyPending(d) => d = next /\ commands'[d].type = "open_worker"
    BY <2>3 DEF NewlyPending
  <2>5. Approved
    BY <2>1, <2>4, EmptyRecords DEF Approved
  <2>6. Reaches
    BY <1>4, <2>4 DEF Reaches
  <2> QED
    BY <1>3, <2>3, <2>5, <2>6
<1>6. ASSUME calls[c].kind = "message", Message(calls[c].worker) PROVE Goal
  <2> DEFINE w == calls[c].worker
  <2>1. w \in Living /\ w \in Workers
    BY <1>6 DEF Message, MayMessage, Living
  <2>2. /\ BrokerInv' /\ next \in Cursors /\ next' = next + 1
        /\ commands'[next] = [type |-> "message_worker", worker |-> w,
                              chat |-> workers[w].chat, status |-> "pending"]
        /\ \A d \in Cursors \ {next} : commands'[d] = commands[d]
        /\ workers[w].known => workers[w].chat # None
        /\ \A v \in Workers : workers'[v].status = IF v = w THEN "working" ELSE workers[v].status
    BY <1>3, <1>6, <2>1, MessageFits
  <2>3. \A d \in Cursors : NewlyPending(d) => d = next
    BY <2>2 DEF NewlyPending
  <2>4. <<w, workers[w].status>> \in calls[c].seen
    BY <1>1, <1>6, <2>1 DEF Seen
  <2> HIDE DEF w
  <2>5. workers[w].status # "retired"
    BY <2>1 DEF Living
  <2>6. Approved
    <3> SUFFICES ASSUME NEW v \in Workers
                 PROVE  /\ workers[v].status = "retired" => workers'[v].status = "retired"
                        /\ \/ workers'[v].status = "retired" /\ workers[v].status # "retired"
                           \/ \E d \in Cursors : commands'[d].type = "message_worker"
                                    /\ commands'[d].worker = v /\ NewlyPending(d)
                           => \E d \in Calls : calls[d].step = "queued"
                                    /\ <<v, workers[v].status>> \in calls[d].seen
      BY DEF Approved
    <3>1. CASE v = w
      BY <1>1, <2>4, <2>5, <3>1
    <3>2. CASE v # w
      BY <2>2, <2>3, <3>2
    <3> QED
      BY <3>1, <3>2
  <2>7. Reaches
    BY <1>4, <2>2, <2>3 DEF Reaches
  <2> QED
    BY <1>3, <2>2, <2>6, <2>7
<1>7. ASSUME calls[c].kind = "report", Report(calls[c].worker) PROVE Goal
  <2>1. calls[c].worker \in Workers
    BY <1>7 DEF Report, Living
  <2>2. /\ BrokerInv' /\ next' = next /\ commands' = commands
        /\ \A v \in Workers : /\ workers[v].status = "retired" => workers'[v].status = "retired"
                              /\ workers'[v].status = "retired" => workers[v].status = "retired"
    BY <1>3, <1>7, <2>1, ReportFits
  <2>3. Quiet
    BY <2>2 DEF Quiet, KeepsRetired, RetiresNone, QueuesNone
  <2> QED
    BY <1>3, <2>2, <2>3, QuietSteps
<1>8. ASSUME calls[c].kind = "clear", Clear PROVE Goal
  <2>1. /\ BrokerInv' /\ next' = next /\ KeepsRetired /\ QueuesNone
        /\ \A w \in Workers : workers'[w].status = "retired" /\ workers[w].status # "retired" => w \in Living
    BY <1>3, <1>8, ClearFits
  <2>2. \A d \in Cursors : ~NewlyPending(d)
    BY <2>1 DEF QueuesNone, NewlyPending
  <2>3. \A w \in Living : <<w, workers[w].status>> \in calls[c].seen
    BY <1>1, <1>8 DEF Seen
  <2>4. Approved
    BY <1>1, <2>1, <2>2, <2>3 DEF Approved, KeepsRetired
  <2>5. Reaches
    BY <2>2 DEF Reaches
  <2> QED
    BY <1>3, <2>1, <2>4, <2>5
<1>9. Goal
  <2> HIDE DEF Goal
  <2> QED
    BY <1>5, <1>6, <1>7, <1>8 DEF Act
<1>10. BrowserInv' /\ ClaimsInv'
  BY <1>1, <1>3, <1>9, BrowserStays DEF AInv
<1> QED
  BY <1>2, <1>9, <1>10 DEF AInv

-----------------------------------------------------------------------------
(* The steps of the tabs. *)

TabSteps == {"unused", "closed", "loading", "starting", "open", "renamed", "dead"}

LEMMA TabUpdate ==
    ASSUME BrowserInv, next' = next, NEW t \in Tabs,
           NEW r \in TabRecords, r.cursor < next, tabs' = [tabs EXCEPT ![t] = r]
    PROVE  /\ tabs' \in [Tabs -> TabRecords]
           /\ \A u \in Tabs : tabs'[u].cursor < next'
  BY DEF BrowserInv

LEMMA TabTypes ==
    ASSUME BrowserInv, NEW t \in Tabs
    PROVE  /\ tabs[t].step \in TabSteps /\ tabs[t].name \in {"new", "named"}
           /\ tabs[t].role \in Workers \cup {None} /\ tabs[t].cursor \in 0..MaxCommands
           /\ tabs[t].cursor < next /\ tabs[t].reporting \in Workers \cup {None}
           /\ payloads[t] \in Workers \cup {None}
  BY DEF BrowserInv, TabRecords, TabSteps

(* What a step makes of the tab x: its content script moves on, or one     *)
(* starts anew.                                                            *)
TabAfter(x, step, w, n, c) ==
    {x, [x EXCEPT !.step = step], [x EXCEPT !.step = step, !.role = w],
     [x EXCEPT !.name = n, !.step = step], [x EXCEPT !.role = w], [x EXCEPT !.reporting = w],
     [x EXCEPT !.cursor = c], [NoTab EXCEPT !.step = step], [NoTab EXCEPT !.step = step, !.name = n]}

LEMMA TabFields ==
    ASSUME NEW x \in TabRecords, NEW step \in TabSteps, NEW w \in Workers \cup {None},
           NEW n \in {"new", "named"}, NEW c \in 0..MaxCommands,
           NEW r \in TabAfter(x, step, w, n, c)
    PROVE  r \in TabRecords /\ (r.cursor = x.cursor \/ r.cursor = 0 \/ r.cursor = c)
<1>1. [x EXCEPT !.step = step] = [step |-> step, name |-> x.name, role |-> x.role,
                                  cursor |-> x.cursor, reporting |-> x.reporting]
  BY DEF TabRecords
<1>2. [x EXCEPT !.step = step, !.role = w] = [step |-> step, name |-> x.name, role |-> w,
                                  cursor |-> x.cursor, reporting |-> x.reporting]
  <2>1. [x EXCEPT !.step = step, !.role = w] = [[x EXCEPT !.step = step] EXCEPT !.role = w]
    OBVIOUS
  <2>2. [[x EXCEPT !.step = step] EXCEPT !.role = w]
            = [[step |-> step, name |-> x.name, role |-> x.role, cursor |-> x.cursor,
                reporting |-> x.reporting] EXCEPT !.role = w]
    BY <1>1, Zenon
  <2> QED
    BY <2>1, <2>2
<1>3. [x EXCEPT !.name = n, !.step = step] = [step |-> step, name |-> n, role |-> x.role,
                                  cursor |-> x.cursor, reporting |-> x.reporting]
  <2>1. [x EXCEPT !.name = n, !.step = step] = [[x EXCEPT !.name = n] EXCEPT !.step = step]
    OBVIOUS
  <2>2. [x EXCEPT !.name = n] = [step |-> x.step, name |-> n, role |-> x.role, cursor |-> x.cursor,
                                 reporting |-> x.reporting]
    BY DEF TabRecords
  <2>3. [[x EXCEPT !.name = n] EXCEPT !.step = step]
            = [[step |-> x.step, name |-> n, role |-> x.role, cursor |-> x.cursor,
                reporting |-> x.reporting] EXCEPT !.step = step]
    BY <2>2, Zenon
  <2> QED
    BY <2>1, <2>3
<1>4. [x EXCEPT !.role = w] = [step |-> x.step, name |-> x.name, role |-> w,
                                  cursor |-> x.cursor, reporting |-> x.reporting]
  BY DEF TabRecords
<1>5. [x EXCEPT !.reporting = w] = [step |-> x.step, name |-> x.name, role |-> x.role,
                                  cursor |-> x.cursor, reporting |-> w]
  BY DEF TabRecords
<1>6. [x EXCEPT !.cursor = c] = [step |-> x.step, name |-> x.name, role |-> x.role,
                                  cursor |-> c, reporting |-> x.reporting]
  BY DEF TabRecords
<1>7. [NoTab EXCEPT !.step = step] = [step |-> step, name |-> "new", role |-> None,
                                  cursor |-> 0, reporting |-> None]
  BY DEF NoTab
<1>8. [NoTab EXCEPT !.step = step, !.name = n] = [step |-> step, name |-> n, role |-> None,
                                  cursor |-> 0, reporting |-> None]
  <2>1. [NoTab EXCEPT !.step = step, !.name = n] = [[NoTab EXCEPT !.step = step] EXCEPT !.name = n]
    OBVIOUS
  <2>2. [[NoTab EXCEPT !.step = step] EXCEPT !.name = n]
            = [[step |-> step, name |-> "new", role |-> None, cursor |-> 0, reporting |-> None]
                    EXCEPT !.name = n]
    BY <1>7, Zenon
  <2> QED
    BY <2>1, <2>2
<1>9. /\ x.step \in TabSteps /\ x.name \in {"new", "named"} /\ x.role \in Workers \cup {None}
      /\ x.cursor \in 0..MaxCommands /\ x.reporting \in Workers \cup {None} /\ 0 \in 0..MaxCommands
  BY ConstantFacts DEF TabRecords, TabSteps
<1>10. \A a \in TabSteps, b \in {"new", "named"}, d \in Workers \cup {None}, e \in 0..MaxCommands,
         f \in Workers \cup {None} :
            /\ [step |-> a, name |-> b, role |-> d, cursor |-> e, reporting |-> f] \in TabRecords
            /\ [step |-> a, name |-> b, role |-> d, cursor |-> e, reporting |-> f].cursor = e
  BY DEF TabRecords, TabSteps
<1>11. CASE r = x
  BY <1>11
<1>12. CASE r # x
  <2>1. \E a \in TabSteps, b \in {"new", "named"}, d \in Workers \cup {None}, e \in {x.cursor, 0, c},
           f \in Workers \cup {None} :
            r = [step |-> a, name |-> b, role |-> d, cursor |-> e, reporting |-> f]
    <3>1. \/ r = [step |-> step, name |-> x.name, role |-> x.role, cursor |-> x.cursor,
                  reporting |-> x.reporting]
          \/ r = [step |-> step, name |-> x.name, role |-> w, cursor |-> x.cursor,
                  reporting |-> x.reporting]
          \/ r = [step |-> step, name |-> n, role |-> x.role, cursor |-> x.cursor,
                  reporting |-> x.reporting]
          \/ r = [step |-> x.step, name |-> x.name, role |-> w, cursor |-> x.cursor,
                  reporting |-> x.reporting]
          \/ r = [step |-> x.step, name |-> x.name, role |-> x.role, cursor |-> x.cursor,
                  reporting |-> w]
          \/ r = [step |-> x.step, name |-> x.name, role |-> x.role, cursor |-> c,
                  reporting |-> x.reporting]
          \/ r = [step |-> step, name |-> "new", role |-> None, cursor |-> 0, reporting |-> None]
          \/ r = [step |-> step, name |-> n, role |-> None, cursor |-> 0, reporting |-> None]
      BY <1>1, <1>2, <1>3, <1>4, <1>5, <1>6, <1>7, <1>8, <1>12 DEF TabAfter
    <3>2. /\ None \in Workers \cup {None} /\ "new" \in {"new", "named"}
          /\ x.cursor \in {x.cursor, 0, c} /\ 0 \in {x.cursor, 0, c} /\ c \in {x.cursor, 0, c}
      OBVIOUS
    <3> QED
      BY <1>9, <3>1, <3>2, ZenonT(30)
  <2>2. PICK a \in TabSteps, b \in {"new", "named"}, d \in Workers \cup {None}, e \in {x.cursor, 0, c},
           f \in Workers \cup {None} :
            r = [step |-> a, name |-> b, role |-> d, cursor |-> e, reporting |-> f]
    BY <2>1
  <2>3. e \in 0..MaxCommands
    BY <1>9, <2>2
  <2>4. r \in TabRecords /\ r.cursor = e
    BY <1>10, <2>2, <2>3
  <2> QED
    BY <2>2, <2>4
<1> QED
  BY <1>11, <1>12

(* What a step may do to one tab. *)
LEMMA TabMoves ==
    ASSUME BrokerInv, BrowserInv, next' = next, NEW t \in Tabs, NEW step \in TabSteps,
           NEW w \in Workers \cup {None}, NEW n \in {"new", "named"},
           NEW c \in 0..MaxCommands, c < next,
           NEW r \in TabAfter(tabs[t], step, w, n, c),
           tabs' = [tabs EXCEPT ![t] = r]
    PROVE  /\ tabs' \in [Tabs -> TabRecords]
           /\ \A u \in Tabs : tabs'[u].cursor < next'
<1>1. tabs[t] \in TabRecords /\ tabs[t].cursor < next /\ 0 < next
  BY NextIsNat DEF BrowserInv, BrokerInv
<1>2. r \in TabRecords /\ (r.cursor = tabs[t].cursor \/ r.cursor = 0 \/ r.cursor = c)
  BY <1>1, TabFields
<1>3. r.cursor < next
  BY <1>1, <1>2
<1> QED
  BY <1>2, <1>3, TabUpdate

(* Only the tab, its role and its payload change. *)
LEMMA TabStays ==
    ASSUME BrowserInv, ClaimsInv, next' = next,
           tabs' \in [Tabs -> TabRecords], \A u \in Tabs : tabs'[u].cursor < next',
           payloads' \in [Tabs -> Workers \cup {None}], UNCHANGED <<tasks, claims, runs, forgotten>>
    PROVE  BrowserInv' /\ ClaimsInv'
<1>1. ClaimsInv'
  BY ClaimsStay
<1> QED
  BY <1>1 DEF BrowserInv

LEMMA NoneFits ==
    ASSUME BrokerInv, BrowserInv
    PROVE  /\ None \in Workers \cup {None} /\ 0 \in 0..MaxCommands /\ 0 < next
           /\ payloads \in [Tabs -> Workers \cup {None}] /\ "new" \in {"new", "named"}
           /\ {"dead", "starting", "open", "renamed", "loading", "closed"} \subseteq TabSteps
  BY NextIsNat, ConstantFacts DEF BrokerInv, BrowserInv, TabSteps

LEMMA ClaimInitialStep ==
    ASSUME AInv, NEW t \in Tabs, ClaimInitial(t)
    PROVE  AInv' /\ Quiet
<1>1. UNCHANGED <<brokerVars, calls, tasks, claims, runs, forgotten, faults>> /\ next' = next
  BY DEF ClaimInitial, brokerVars
<1>2. BrokerInv' /\ Quiet /\ CallsInv'
  BY <1>1, BrokerStays, CallsStay DEF AInv
<1>3. payloads[t] \in Workers \cup {None} /\ payloads' \in [Tabs -> Workers \cup {None}]
  BY DEF AInv, BrowserInv, ClaimInitial
<1> DEFINE r == [tabs[t] EXCEPT !.step = "starting", !.role = payloads[t]]
<1>4. tabs' = [tabs EXCEPT ![t] = r]
  BY DEF AInv, BrowserInv, TabRecords, ClaimInitial
<1>5. r \in TabAfter(tabs[t], "starting", payloads[t], "new", 0)
  BY DEF TabAfter
<1> HIDE DEF r
<1>6. tabs' \in [Tabs -> TabRecords] /\ \A u \in Tabs : tabs'[u].cursor < next'
  BY <1>1, <1>3, <1>4, <1>5, NoneFits, TabMoves DEF AInv
<1>7. BrowserInv' /\ ClaimsInv'
  BY <1>1, <1>3, <1>6, TabStays DEF AInv
<1> QED
  BY <1>2, <1>7 DEF AInv

LEMMA RegisterStep ==
    ASSUME AInv, NEW t \in Tabs, Register(t) \/ RegisterLost(t)
    PROVE  AInv' /\ Quiet
<1>1. /\ UNCHANGED <<commands, next, calls, tasks, claims, payloads, runs, forgotten>>
      /\ RegisterWorker(t) \/ UNCHANGED workers
  BY DEF Register, RegisterLost
<1>2. BrokerInv' /\ Quiet
  <2>1. CASE RegisterWorker(t)
    BY <1>1, <2>1, RegisterFits DEF AInv, Quiet
  <2>2. CASE UNCHANGED workers
    BY <1>1, <2>2, BrokerStays DEF AInv, brokerVars
  <2> QED
    BY <1>1, <2>1, <2>2
<1>3. CallsInv'
  <2>1. CASE Register(t)
    BY <2>1, CallsStay DEF AInv, Register
  <2>2. CASE RegisterLost(t)
    BY <2>2, FaultFits DEF AInv, CallsInv, RegisterLost
  <2> QED
    BY <2>1, <2>2
<1>4. payloads' \in [Tabs -> Workers \cup {None}] /\ tabs[t].step \in TabSteps
  BY <1>1, TabTypes DEF AInv, BrowserInv
<1>5. \E step \in TabSteps : tabs' = [tabs EXCEPT ![t] = [tabs[t] EXCEPT !.step = step]]
  <2> DEFINE new == IF tabs[t].role \in Living \cup {None} THEN "open"
                    ELSE IF tabs[t].step = "starting" THEN "dead" ELSE tabs[t].step
  <2>1. new \in TabSteps
    BY <1>4 DEF TabSteps
  <2>2. CASE Register(t)
    <3>1. tabs' = [tabs EXCEPT ![t] = [tabs[t] EXCEPT !.step = new]]
      BY <2>2 DEF Register
    <3> QED
      BY <2>1, <3>1
  <2>3. CASE RegisterLost(t)
    <3>1. tabs' = [tabs EXCEPT ![t] = [tabs[t] EXCEPT !.step = "dead"]]
      BY <2>3 DEF RegisterLost
    <3> QED
      BY <3>1 DEF TabSteps
  <2> QED
    BY <2>2, <2>3
<1>6. PICK step \in TabSteps : tabs' = [tabs EXCEPT ![t] = [tabs[t] EXCEPT !.step = step]]
  BY <1>5
<1>7. [tabs[t] EXCEPT !.step = step] \in TabAfter(tabs[t], step, None, "new", 0)
  BY DEF TabAfter
<1>8. tabs' \in [Tabs -> TabRecords] /\ \A u \in Tabs : tabs'[u].cursor < next'
  BY <1>1, <1>6, <1>7, NoneFits, TabMoves DEF AInv
<1>9. BrowserInv' /\ ClaimsInv'
  BY <1>1, <1>4, <1>8, TabStays DEF AInv
<1> QED
  BY <1>2, <1>3, <1>9 DEF AInv

LEMMA ScriptStep ==
    ASSUME AInv, NEW t \in Tabs, Rename(t) \/ AnswerEnds(t)
    PROVE  AInv' /\ Quiet
<1>1. UNCHANGED <<brokerVars, calls, tasks, claims, payloads, runs, forgotten, faults>> /\ next' = next
  BY DEF Rename, AnswerEnds, brokerVars
<1>2. BrokerInv' /\ Quiet /\ CallsInv'
  BY <1>1, BrokerStays, CallsStay DEF AInv
<1>3. payloads' \in [Tabs -> Workers \cup {None}] /\ tabs[t].role \in Workers \cup {None}
  BY <1>1, TabTypes DEF AInv, BrowserInv
<1>4. \E r \in TabAfter(tabs[t], "renamed", tabs[t].role, "named", 0) : tabs' = [tabs EXCEPT ![t] = r]
  <2>1. CASE Rename(t)
    <3>1. tabs' = [tabs EXCEPT ![t] = [tabs[t] EXCEPT !.name = "named", !.step = "renamed"]]
      BY <2>1 DEF Rename, AInv, BrowserInv, TabRecords
    <3> QED
      BY <3>1 DEF TabAfter
  <2>2. CASE AnswerEnds(t)
    <3>1. tabs' = [tabs EXCEPT ![t] = [tabs[t] EXCEPT !.reporting = tabs[t].role]]
      BY <2>2 DEF AnswerEnds
    <3> QED
      BY <3>1 DEF TabAfter
  <2> QED
    BY <2>1, <2>2
<1>5. tabs' \in [Tabs -> TabRecords] /\ \A u \in Tabs : tabs'[u].cursor < next'
  BY <1>1, <1>3, <1>4, NoneFits, TabMoves DEF AInv
<1>6. BrowserInv' /\ ClaimsInv'
  BY <1>1, <1>3, <1>5, TabStays DEF AInv
<1> QED
  BY <1>2, <1>6 DEF AInv

LEMMA ReportWorkerStep ==
    ASSUME AInv, NEW t \in Tabs, ReportWorker(t)
    PROVE  AInv' /\ Quiet
<1>1. UNCHANGED <<commands, next, calls, tasks, claims, payloads, runs, forgotten, faults>>
  BY DEF ReportWorker
<1>2. BrokerInv' /\ Quiet /\ CallsInv'
  BY <1>1, ReportWorkerFits, CallsStay DEF AInv, Quiet
<1>3. payloads' \in [Tabs -> Workers \cup {None}]
  BY <1>1 DEF AInv, BrowserInv
<1>4. /\ tabs' = [tabs EXCEPT ![t] = [tabs[t] EXCEPT !.reporting = None]]
      /\ [tabs[t] EXCEPT !.reporting = None] \in TabAfter(tabs[t], "open", None, "new", 0)
  BY DEF ReportWorker, TabAfter
<1>5. tabs' \in [Tabs -> TabRecords] /\ \A u \in Tabs : tabs'[u].cursor < next'
  BY <1>1, <1>4, NoneFits, TabMoves DEF AInv
<1>6. BrowserInv' /\ ClaimsInv'
  BY <1>1, <1>3, <1>5, TabStays DEF AInv
<1> QED
  BY <1>2, <1>6 DEF AInv

-----------------------------------------------------------------------------
(* The steps of the tasks: commands that tabs have polled. *)

LEMMA TaskFacts ==
    /\ \A t \in Tabs, c \in Cursors, step \in {"polled", "doing", "acking", "nacking"} :
        /\ Task(t, c, step) \in Tasks
        /\ Task(t, c, step).tab = t /\ Task(t, c, step).cursor = c /\ Task(t, c, step).step = step
    /\ \A k \in Tasks : k.tab \in Tabs /\ k.cursor \in Cursors
                        /\ k = Task(k.tab, k.cursor, k.step)
  BY DEF Task, Tasks

(* A step that begins to carry out nothing keeps the claims. *)
LEMMA ClaimsShrink ==
    ASSUME ClaimsInv, UNCHANGED <<claims, runs, forgotten>>,
           \A k \in tasks' : k.step = "doing" => k \in tasks
    PROVE  ClaimsInv'
  BY DEF ClaimsInv

LEMMA PollStep ==
    ASSUME AInv, NEW t \in Tabs, Poll(t)
    PROVE  AInv' /\ Quiet
<1>1. UNCHANGED <<brokerVars, calls, tabs, claims, payloads, runs, forgotten, faults>> /\ next' = next
  BY DEF Poll, brokerVars
<1>2. BrokerInv' /\ Quiet /\ CallsInv'
  BY <1>1, BrokerStays, CallsStay DEF AInv
<1>3. \A k \in tasks' : k \in tasks \/ \E c \in Pending : k = Task(t, c, "polled")
  BY DEF Poll
<1>4. \A c \in Pending : c \in Cursors /\ c < next
  BY DEF AInv, BrokerInv, Pending
<1>5. tasks' \subseteq Tasks /\ \A k \in tasks' : k.cursor < next'
  BY <1>1, <1>3, <1>4, TaskFacts DEF AInv, BrowserInv
<1>6. \A k \in tasks' : k.step = "doing" => k \in tasks
  BY <1>3, <1>4, TaskFacts
<1>7. ClaimsInv'
  BY <1>1, <1>6, ClaimsShrink DEF AInv
<1>8. BrowserInv'
  BY <1>1, <1>5 DEF AInv, BrowserInv
<1> QED
  BY <1>2, <1>7, <1>8 DEF AInv

(* A tab begins a command it can claim: the only one to do so while the    *)
(* claim is kept.                                                          *)
LEMMA HandleCommandStep ==
    ASSUME AInv, NEW t \in Tabs, NEW c \in Cursors, HandleCommand(t, c)
    PROVE  AInv' /\ Quiet
<1>1. /\ UNCHANGED <<brokerVars, calls, payloads, runs, forgotten, faults>> /\ next' = next
      /\ Task(t, c, "polled") \in tasks
  BY DEF HandleCommand, brokerVars
<1>2. BrokerInv' /\ Quiet /\ CallsInv'
  BY <1>1, BrokerStays, CallsStay DEF AInv
<1>3. c < next /\ tabs[t].cursor < next /\ c \in 0..MaxCommands /\ tabs[t].cursor \in 0..MaxCommands
  <2>1. Task(t, c, "polled").cursor = c
    BY TaskFacts
  <2>2. c < next
    BY <1>1, <2>1 DEF AInv, BrowserInv
  <2> QED
    BY <2>2, TabTypes, ConstantFacts DEF AInv
<1>4. Last(t, c) \in 0..MaxCommands /\ Last(t, c) < next
  BY <1>3 DEF Last
<1>5. /\ tabs' = [tabs EXCEPT ![t] = [tabs[t] EXCEPT !.cursor = Last(t, c)]]
      /\ [tabs[t] EXCEPT !.cursor = Last(t, c)] \in TabAfter(tabs[t], "open", None, "new", Last(t, c))
  BY DEF HandleCommand, TabAfter
<1>6. tabs' \in [Tabs -> TabRecords] /\ \A u \in Tabs : tabs'[u].cursor < next'
  BY <1>1, <1>4, <1>5, NoneFits, TabMoves DEF AInv
<1>7. \A k \in tasks' : k \in tasks \/ k = Task(t, c, "doing")
  BY DEF HandleCommand, Becomes, Done
<1>8. tasks' \subseteq Tasks /\ \A k \in tasks' : k.cursor < next'
  BY <1>1, <1>3, <1>7, TaskFacts DEF AInv, BrowserInv
<1>9. claims' \subseteq Cursors
  BY DEF AInv, BrowserInv, HandleCommand
<1>10. BrowserInv'
  BY <1>1, <1>6, <1>8, <1>9 DEF AInv, BrowserInv
<1>11. CASE MayClaim(t, c)
  <2>1. claims' = claims \cup {c} /\ c \notin claims /\ runs' = runs /\ forgotten' = forgotten
    BY <1>1, <1>11 DEF HandleCommand, MayClaim
  <2>2. c \notin forgotten =>
            /\ runs[c] = 0
            /\ \A k \in tasks : ~(k.step = "doing" /\ k.cursor = c)
    BY <2>1 DEF AInv, ClaimsInv
  <2>3. \A k \in tasks' : k.step = "doing" /\ k.cursor \notin forgotten =>
            /\ k.cursor \in claims' /\ runs[k.cursor] = 0
            /\ \A l \in tasks' : l.step = "doing" /\ l.cursor = k.cursor => l = k
    <3> SUFFICES ASSUME NEW k \in tasks', k.step = "doing", k.cursor \notin forgotten
                 PROVE  /\ k.cursor \in claims' /\ runs[k.cursor] = 0
                        /\ \A l \in tasks' : l.step = "doing" /\ l.cursor = k.cursor => l = k
      OBVIOUS
    <3>1. CASE k = Task(t, c, "doing")
      <4>1. k.cursor = c
        BY <3>1, TaskFacts
      <4>2. k.cursor \in claims' /\ runs[k.cursor] = 0
        BY <2>1, <2>2, <4>1
      <4>3. \A l \in tasks' : l.step = "doing" /\ l.cursor = k.cursor => l = k
        BY <1>7, <2>2, <3>1, <4>1
      <4> QED
        BY <4>2, <4>3
    <3>2. CASE k # Task(t, c, "doing")
      <4>1. k \in tasks
        BY <1>7, <3>2
      <4>2. k.cursor \in claims /\ runs[k.cursor] = 0
            /\ \A l \in tasks : l.step = "doing" /\ l.cursor = k.cursor => l = k
        BY <4>1 DEF AInv, ClaimsInv
      <4>3. k.cursor # c
        BY <2>1, <4>2
      <4>4. Task(t, c, "doing").cursor = c
        BY TaskFacts
      <4> QED
        BY <1>7, <2>1, <4>2, <4>3, <4>4
    <3> QED
      BY <3>1, <3>2
  <2>4. ClaimsInv'
    BY <2>1, <2>3 DEF AInv, ClaimsInv
  <2> QED
    BY <1>2, <1>10, <2>4 DEF AInv
<1>12. CASE ~MayClaim(t, c)
  <2>1. claims' = claims /\ tasks' \subseteq tasks
    BY <1>12 DEF HandleCommand, Done
  <2>2. ClaimsInv'
    BY <1>1, <2>1, ClaimsShrink DEF AInv
  <2> QED
    BY <1>2, <1>10, <2>2 DEF AInv
<1> QED
  BY <1>11, <1>12

(* A command is carried out: it runs once, for its claim is kept.          *)
LEMMA ExecuteStep ==
    ASSUME AInv, NEW t \in Tabs, NEW c \in Cursors, Execute(t, c)
    PROVE  AInv' /\ Quiet
<1>1. /\ UNCHANGED <<brokerVars, calls, claims, forgotten, faults>> /\ next' = next
      /\ Task(t, c, "doing") \in tasks /\ runs' = [runs EXCEPT ![c] = @ + 1]
      /\ Becomes(t, c, "doing", "acking")
  BY DEF Execute, brokerVars
<1>2. BrokerInv' /\ Quiet /\ CallsInv'
  BY <1>1, BrokerStays, CallsStay DEF AInv
<1>3. commands[c] \in CommandRecords
  BY DEF AInv, BrokerInv
<1>4. commands[c].worker \in Workers \cup {None} /\ commands[c].chat \in Chats \cup {None}
  BY <1>3 DEF CommandRecords
<1> DEFINE w == commands[c].worker
           Goal == /\ tabs' \in [Tabs -> TabRecords] /\ \A u \in Tabs : tabs'[u].cursor < next'
                   /\ payloads' \in [Tabs -> Workers \cup {None}]
<1>5. ASSUME OpenChat(c) PROVE Goal
  <2>1. PICK u \in Tabs : /\ tabs' = [tabs EXCEPT ![u] = [NoTab EXCEPT !.step = "loading"]]
                          /\ payloads' = [payloads EXCEPT ![u] = w]
    BY <1>5 DEF OpenChat
  <2>2. [NoTab EXCEPT !.step = "loading"] \in TabAfter(tabs[u], "loading", None, "new", 0)
    BY DEF TabAfter
  <2> HIDE DEF w
  <2>3. tabs' \in [Tabs -> TabRecords] /\ \A v \in Tabs : tabs'[v].cursor < next'
    BY <1>1, <2>1, <2>2, NoneFits, TabMoves DEF AInv
  <2>4. payloads' \in [Tabs -> Workers \cup {None}]
    BY <1>4, <2>1, NoneFits DEF AInv, w
  <2> QED
    BY <2>3, <2>4
<1>6. ASSUME commands[c].chat # None, Deliver(c) PROVE Goal
  <2>1. \A u \in DeliverTo(c) : u \in Tabs
    BY <1>4, <1>6 DEF DeliverTo, Chats
  <2>2. PICK u \in Tabs :
            \/ payloads' = [payloads EXCEPT ![u] = w] /\ UNCHANGED tabs
            \/ tabs' = [tabs EXCEPT ![u] = [tabs[u] EXCEPT !.role = w]]
               /\ payloads' = [payloads EXCEPT ![u] = None]
    BY <1>6, <2>1 DEF Deliver
  <2>3. payloads' \in [Tabs -> Workers \cup {None}]
    BY <1>4, <2>2, NoneFits DEF AInv
  <2>4. [tabs[u] EXCEPT !.role = w] \in TabAfter(tabs[u], "open", w, "new", 0)
    BY DEF TabAfter
  <2>5. CASE UNCHANGED tabs
    BY <1>1, <2>3, <2>5 DEF AInv, BrowserInv
  <2>6. CASE tabs' = [tabs EXCEPT ![u] = [tabs[u] EXCEPT !.role = w]]
    <3>1. w \in Workers \cup {None}
      BY <1>4
    <3> HIDE DEF w
    <3>2. tabs' \in [Tabs -> TabRecords] /\ \A v \in Tabs : tabs'[v].cursor < next'
      BY <1>1, <2>4, <2>6, <3>1, NoneFits, TabMoves DEF AInv
    <3> QED
      BY <2>3, <3>2
  <2> QED
    BY <2>2, <2>5, <2>6
<1>7. Goal
  <2> HIDE DEF Goal
  <2> QED
    BY <1>5, <1>6 DEF Execute
<1> HIDE DEF w
<1>8. \A k \in tasks' : \/ k \in tasks /\ k # Task(t, c, "doing")
                        \/ k = Task(t, c, "acking")
  BY <1>1, TaskFacts DEF Becomes
<1>9. tasks' \subseteq Tasks /\ \A k \in tasks' : k.cursor < next'
  <2>1. Task(t, c, "doing").cursor = c /\ Task(t, c, "acking").cursor = c
        /\ Task(t, c, "acking") \in Tasks
    BY TaskFacts
  <2>2. c < next
    BY <1>1, <2>1 DEF AInv, BrowserInv
  <2> QED
    BY <1>1, <1>8, <2>1, <2>2 DEF AInv, BrowserInv
<1>10. BrowserInv'
  BY <1>1, <1>7, <1>9 DEF AInv, BrowserInv
<1>11. ClaimsInv'
  <2>1. /\ runs \in [Cursors -> Nat] /\ runs' \in [Cursors -> Nat] /\ runs'[c] = runs[c] + 1
        /\ \A d \in Cursors \ {c} : runs'[d] = runs[d]
        /\ claims' = claims /\ forgotten' = forgotten
    BY <1>1 DEF AInv, ClaimsInv
  <2>2. Task(t, c, "doing").step = "doing" /\ Task(t, c, "doing").cursor = c
        /\ Task(t, c, "acking").step = "acking"
    BY TaskFacts
  <2>3. c \notin forgotten =>
            /\ c \in claims /\ runs[c] = 0
            /\ \A l \in tasks : l.step = "doing" /\ l.cursor = c => l = Task(t, c, "doing")
    BY <1>1, <2>2 DEF AInv, ClaimsInv
  <2>4. \A d \in Cursors \ forgotten' : runs'[d] <= 1 /\ (d \notin claims' => runs'[d] = 0)
    BY <2>1, <2>3 DEF AInv, ClaimsInv
  <2>5. \A k \in tasks' : k.step = "doing" /\ k.cursor \notin forgotten' =>
            k \in tasks /\ k.cursor \in Cursors \ {c}
    <3> SUFFICES ASSUME NEW k \in tasks', k.step = "doing", k.cursor \notin forgotten'
                 PROVE  k \in tasks /\ k.cursor \in Cursors \ {c}
      OBVIOUS
    <3>1. k \in tasks /\ k # Task(t, c, "doing")
      BY <1>8, <2>2
    <3>2. k.cursor \in Cursors /\ k.cursor # c
      BY <1>9, <2>1, <2>3, <3>1, TaskFacts
    <3> QED
      BY <3>1, <3>2
  <2>6. \A k \in tasks' : k.step = "doing" => k \in tasks
    BY <1>8, <2>2
  <2>7. \A k \in tasks' : k.step = "doing" /\ k.cursor \notin forgotten' =>
            /\ k.cursor \in claims' /\ runs'[k.cursor] = 0
            /\ \A l \in tasks' : l.step = "doing" /\ l.cursor = k.cursor => l = k
    BY <2>1, <2>5, <2>6 DEF AInv, ClaimsInv
  <2> QED
    BY <2>1, <2>4, <2>7 DEF ClaimsInv
<1> QED
  BY <1>2, <1>10, <1>11 DEF AInv

(* Commands are acknowledged, and what was begun ends. *)
LEMMA AcknowledgeStep ==
    ASSUME AInv, NEW t \in Tabs, NEW c \in Cursors, Acknowledge(t, c) \/ AcknowledgeLost(t, c)
    PROVE  AInv' /\ Quiet
<1>1. /\ UNCHANGED <<workers, next, calls, tabs, claims, payloads, runs, forgotten>>
      /\ faults' = faults \/ Fault
  BY DEF Acknowledge, AcknowledgeLost
<1>2. CallsInv'
  BY <1>1, FaultFits DEF AInv, CallsInv
<1>3. /\ \E step \in {"doing", "acking", "nacking"} : Task(t, c, step) \in tasks
      /\ \A k \in tasks' : k \in tasks \/ k = Task(t, c, "nacking")
  BY DEF Acknowledge, AcknowledgeLost, Becomes, Done
<1>4. c < next /\ Task(t, c, "nacking") \in Tasks /\ Task(t, c, "nacking").cursor = c
      /\ Task(t, c, "nacking").step = "nacking"
  <2>1. PICK step \in {"doing", "acking", "nacking"} : Task(t, c, step) \in tasks
    BY <1>3
  <2>2. Task(t, c, step).cursor = c
    BY TaskFacts
  <2>3. c < next
    BY <2>1, <2>2 DEF AInv, BrowserInv
  <2> QED
    BY <2>3, TaskFacts
<1>5. \E status \in {"acknowledged", "failed"} : Acknowledged(c, status) \/ UNCHANGED commands
  <2>1. CASE Acknowledge(t, c)
    BY <2>1 DEF Acknowledge
  <2>2. CASE AcknowledgeLost(t, c)
    BY <2>2 DEF AcknowledgeLost
  <2> QED
    BY <2>1, <2>2
<1>6. BrokerInv' /\ Quiet
  BY <1>1, <1>4, <1>5, AcknowledgedFits DEF AInv, Quiet
<1>7. BrowserInv'
  BY <1>1, <1>3, <1>4 DEF AInv, BrowserInv
<1>8. ClaimsInv'
  BY <1>1, <1>3, <1>4, ClaimsShrink DEF AInv
<1> QED
  BY <1>2, <1>6, <1>7, <1>8 DEF AInv

LEMMA ForgetClaimsStep ==
    ASSUME AInv, ForgetClaims
    PROVE  AInv' /\ Quiet
<1>1. UNCHANGED <<brokerVars, calls, tabs, tasks, payloads, runs>> /\ next' = next /\ Fault
  BY DEF ForgetClaims, brokerVars
<1>2. BrokerInv' /\ Quiet /\ CallsInv'
  BY <1>1, BrokerStays, FaultFits DEF AInv, CallsInv
<1>3. PICK cs \in SUBSET claims : claims' = claims \ cs /\ forgotten' = forgotten \cup cs
  <2>1. PICK cs \in {{c} : c \in claims} \cup {claims} :
            claims' = claims \ cs /\ forgotten' = forgotten \cup cs
    BY DEF ForgetClaims
  <2>2. cs \in SUBSET claims
    OBVIOUS
  <2> QED
    BY <2>1, <2>2
<1>4. BrowserInv'
  BY <1>1, <1>3 DEF AInv, BrowserInv
<1>5. ClaimsInv'
  BY <1>1, <1>3 DEF AInv, ClaimsInv
<1> QED
  BY <1>2, <1>4, <1>5 DEF AInv

LEMMA LeaveStep ==
    ASSUME AInv, NEW t \in Tabs, Leave(t)
    PROVE  AInv' /\ Quiet
<1>1. /\ UNCHANGED <<brokerVars, calls, claims, runs, forgotten>> /\ next' = next /\ Fault
      /\ tasks' \subseteq tasks
  BY DEF Leave, brokerVars
<1>2. BrokerInv' /\ Quiet /\ CallsInv'
  BY <1>1, BrokerStays, FaultFits DEF AInv, CallsInv
<1>3. payloads' \in [Tabs -> Workers \cup {None}]
  BY DEF AInv, BrowserInv, Leave
<1>4. tabs' \in [Tabs -> TabRecords] /\ \A u \in Tabs : tabs'[u].cursor < next'
  <2>1. CASE tabs' = [tabs EXCEPT ![t] = [NoTab EXCEPT !.step = "closed"]]
    <3>1. [NoTab EXCEPT !.step = "closed"] \in TabAfter(tabs[t], "closed", None, "new", 0)
      BY DEF TabAfter
    <3> QED
      BY <1>1, <2>1, <3>1, NoneFits, TabMoves DEF AInv
  <2>2. CASE tabs' = [tabs EXCEPT ![t] = [NoTab EXCEPT !.step = "loading", !.name = tabs[t].name]]
    <3> DEFINE n == tabs[t].name
               r == [NoTab EXCEPT !.step = "loading", !.name = n]
    <3>1. r \in TabAfter(tabs[t], "loading", None, n, 0) /\ n \in {"new", "named"}
      BY TabTypes DEF TabAfter, AInv
    <3>2. tabs' = [tabs EXCEPT ![t] = r]
      BY <2>2
    <3> HIDE DEF n, r
    <3> QED
      BY <1>1, <3>1, <3>2, NoneFits, TabMoves DEF AInv
  <2> QED
    BY <2>1, <2>2 DEF Leave
<1>5. ClaimsInv'
  BY <1>1, ClaimsShrink DEF AInv
<1>6. BrowserInv'
  BY <1>1, <1>3, <1>4 DEF AInv, BrowserInv
<1> QED
  BY <1>2, <1>5, <1>6 DEF AInv

-----------------------------------------------------------------------------
(* The specification. *)

LEMMA AgentsInit == Init => AInv
<1> SUFFICES ASSUME Init PROVE AInv
  OBVIOUS
<1>1. 0 \in 0..MaxSpawned /\ 0 \in 0..MaxFaults /\ next = 1 /\ next \in 1..(MaxCommands + 1)
  BY ConstantFacts DEF Init
<1>2. \A w \in Workers : workers[w] = NoWorker /\ ~(w <= 0)
  BY DEF Init, Workers
<1>3. WorkersFit(workers)
  BY <1>1, <1>2, EmptyRecords DEF Init, WorkersFit
<1>4. BrokerInv
  BY <1>1, <1>3, EmptyRecords DEF Init, BrokerInv
<1>5. CallsInv
  BY <1>1, EmptyRecords DEF Init, CallsInv
<1>6. tabs \in [Tabs -> TabRecords] /\ \A t \in Tabs : tabs[t].cursor < next
  <2> DEFINE chat == [NoTab EXCEPT !.step = "open", !.name = "named"]
  <2>1. chat \in TabAfter(NoTab, "open", None, "named", 0)
    BY DEF TabAfter
  <2>2. tabs = [t \in Tabs |-> IF t \in Opened THEN chat ELSE NoTab]
    BY DEF Init
  <2> HIDE DEF chat
  <2>3. "open" \in TabSteps /\ 0 \in 0..MaxCommands /\ "named" \in {"new", "named"}
    BY ConstantFacts DEF TabSteps
  <2>4. chat \in TabRecords /\ chat.cursor = 0
    BY <2>1, <2>3, EmptyRecords, TabFields
  <2> QED
    BY <1>1, <2>2, <2>4, EmptyRecords
<1>7. BrowserInv
  BY <1>6 DEF Init, BrowserInv
<1>8. ClaimsInv
  BY DEF Init, ClaimsInv
<1> QED
  BY <1>4, <1>5, <1>7, <1>8 DEF AInv

LEMMA AgentsStep == AInv /\ [Next]_vars => AInv' /\ Approved /\ Reaches
<1> SUFFICES ASSUME AInv, [Next]_vars PROVE AInv' /\ Approved /\ Reaches
  OBVIOUS
<1>1. ASSUME NEW c \in Calls, NEW w \in Workers \cup {None},
             NEW kind \in {"spawn", "message", "report", "clear"}, EnterCall(c, kind, w)
      PROVE  AInv' /\ Approved /\ Reaches
  BY <1>1, EnterCallStep, QuietSteps
<1>2. ASSUME NEW c \in Calls, Approve(c) \/ Act(c) \/ CallFails(c)
      PROVE  AInv' /\ Approved /\ Reaches
  BY <1>2, CallMoves, ActStep, QuietSteps
<1>3. ASSUME NEW t \in Tabs,
             TabStep(t) \/ RegisterLost(t) \/ Rename(t) \/ AnswerEnds(t) \/ Leave(t)
      PROVE  AInv' /\ Approved /\ Reaches
  BY <1>3, ClaimInitialStep, RegisterStep, ReportWorkerStep, PollStep, ScriptStep, LeaveStep, QuietSteps
     DEF TabStep
<1>4. ASSUME NEW t \in Tabs, NEW c \in Cursors, TaskStep(t, c) \/ AcknowledgeLost(t, c)
      PROVE  AInv' /\ Approved /\ Reaches
  BY <1>4, HandleCommandStep, ExecuteStep, AcknowledgeStep, QuietSteps DEF TaskStep
<1>5. CASE ForgetClaims \/ Restart
  BY <1>5, ForgetClaimsStep, RestartStep, QuietSteps
<1>6. CASE UNCHANGED vars
  <2>1. UNCHANGED brokerVars /\ UNCHANGED browserVars /\ calls' = calls /\ faults' = faults /\ next' = next
    BY <1>6 DEF vars, brokerVars
  <2>2. BrokerInv' /\ Quiet /\ CallsInv'
    BY <2>1, BrokerStays, CallsStay DEF AInv
  <2>3. BrowserInv' /\ ClaimsInv'
    BY <2>1, BrowserStays, NextIsNat DEF AInv
  <2> QED
    BY <2>2, <2>3, QuietSteps DEF AInv
<1> QED
  BY <1>1, <1>2, <1>3, <1>4, <1>5, <1>6 DEF Next

(* The strengthening holds in every reachable state, for any tabs, workers, *)
(* calls, commands and faults.                                              *)
THEOREM AgentsInductive == Spec => []AInv
  BY AgentsInit, AgentsStep, PTL DEF Spec

(* Agents is well typed, and nextCursor is ahead of every tab: the broker   *)
(* never queues a command where pollCommands has already been.              *)
THEOREM AgentsTyped == Spec => []TypeOK
  BY AgentsInductive, InvTypes, PTL

(* Workers change as was approved, whatever registers, reports or restarts  *)
(* late: agentAction compares the target again under the mutex.             *)
THEOREM ApprovedChanges == Spec => WorkersAsApproved
<1>1. Approved => \A w \in Workers :
        /\ workers[w].status = "retired" => workers'[w].status = "retired"
        /\ \/ workers'[w].status = "retired" /\ workers[w].status # "retired"
           \/ \E c \in Cursors : commands'[c].type = "message_worker" /\ commands'[c].worker = w
                                    /\ NewlyPending(c)
           => \E c \in Calls : calls[c].step = "queued" /\ <<w, workers[w].status>> \in calls[c].seen
  BY DEF Approved
<1> QED
  BY <1>1, AgentsInductive, AgentsStep, PTL DEF Spec, WorkersAsApproved

(* A queued command is ahead of every tab, and a message to a worker that   *)
(* once had a chat names the one it has registered since the restart.       *)
THEOREM CommandsReach == Spec => CommandsReachTabs
<1>1. Reaches => \A c \in Cursors : NewlyPending(c) =>
        /\ \A t \in Tabs : tabs[t].cursor < c
        /\ commands'[c].type = "message_worker" /\ workers[commands'[c].worker].known
                => commands'[c].chat # None
  BY DEF Reaches
<1> QED
  BY <1>1, AgentsInductive, AgentsStep, PTL DEF Spec, CommandsReachTabs

(* A command runs at most once while its claim is kept: claimedCommands     *)
(* settles which of the tabs that polled a command carries it out.          *)
THEOREM ClaimsKept == Spec => []ClaimsHold
<1>1. AInv => ClaimsHold
  BY DEF AInv, ClaimsInv, ClaimsHold
<1> QED
  BY <1>1, AgentsInductive, PTL

=============================================================================
