------------------------------- MODULE Agents -------------------------------
(***************************************************************************)
(* Browser workers: the broker of worker lifecycles and browser commands   *)
(* (AgentBroker, src/src/agents.mjs), the MCP calls that act on workers    *)
(* after approval (agentAction, mcp.mjs), and the browser extension, which *)
(* polls the commands, opens chats for workers and registers and reports   *)
(* for them (extension/content.js, background.js).                         *)
(*                                                                         *)
(* The workers are those of one prime.  Sessions are not recorded, which   *)
(* is the default: commands and bindings to chats live in memory only.     *)
(* A mutation of the broker holds its mutex until it is written, and       *)
(* nothing reads the state in between: it is one step.                     *)
(***************************************************************************)
EXTENDS Naturals, FiniteSets

CONSTANTS
    Tabs,           \* bound: the browser tabs
    None,
    Opened,         \* the tabs with a chat open at the start
    MaxWorkers,     \* limits.maxWorkers
    MaxSpawned,     \* bound: workers that are ever spawned
    MaxCalls,       \* bound: MCP calls
    MaxCommands,    \* bound: commands that are ever queued
    MaxFaults       \* bound: restarts, losses, tabs closed or loaded again

(* Workers are named by the number they get, as when no id is given. *)
Workers == 1..MaxSpawned
Calls == 1..MaxCalls
Cursors == 1..MaxCommands

(* A chat has a provisional id until it is given its own. *)
Chats == Tabs \X {"new", "named"}

ASSUME AgentBounds ==
    /\ None \notin Tabs \cup Nat \cup Chats
    /\ Opened \subseteq Tabs
    /\ {MaxWorkers, MaxSpawned, MaxCalls, MaxCommands, MaxFaults} \subseteq Nat

VARIABLES
    workers,    \* broker: the workers of the prime
    commands,   \* broker: commands, by cursor
    next,       \* broker: nextCursor
    calls,      \* the MCP calls
    tabs,       \* extension: the content script of each tab
    tasks,      \* extension: commands a tab has polled and not finished
    claims,     \* extension: claimedCommands
    payloads,   \* extension: the initial payload kept for a tab
    runs,       \* history: how often a command was carried out
    forgotten,  \* history: commands whose claim was dropped
    faults

brokerVars == <<workers, commands, next>>
browserVars == <<tabs, tasks, claims, payloads, runs, forgotten>>
vars == <<brokerVars, calls, browserVars, faults>>

Statuses == {"starting", "working", "sleeping", "failed", "retired"}
NoWorker == [status |-> "none", chat |-> None, restored |-> FALSE, known |-> FALSE]
NoCommand == [type |-> "none", worker |-> None, chat |-> None, status |-> "none"]
NoTab == [step |-> "unused", name |-> "new", role |-> None, cursor |-> 0, reporting |-> None]
NoCall == [kind |-> "none", worker |-> None, seen |-> {}, step |-> "idle"]
Ended == [NoCall EXCEPT !.step = "done"]

(* The state is well formed, and no tab is ahead of the queue. *)
TypeOK ==
    /\ workers \in [Workers -> [status : Statuses \cup {"none"}, chat : Chats \cup {None},
                                restored : BOOLEAN, known : BOOLEAN]]
    /\ commands \in [Cursors -> [type : {"none", "open_worker", "message_worker"},
                        worker : Workers \cup {None}, chat : Chats \cup {None},
                        status : {"none", "pending", "cancelled", "acknowledged", "failed", "dropped"}]]
    /\ next \in 1..(MaxCommands + 1)
    /\ calls \in [Calls -> [kind : {"none", "spawn", "message", "report", "clear"},
                            worker : Workers \cup {None},
                            seen : SUBSET (Workers \X Statuses),
                            step : {"idle", "approving", "queued", "done"}]]
    /\ tabs \in [Tabs -> [step : {"unused", "closed", "loading", "starting", "open", "renamed", "dead"},
                          name : {"new", "named"}, role : Workers \cup {None},
                          cursor : 0..MaxCommands, reporting : Workers \cup {None}]]
    /\ tasks \subseteq [tab : Tabs, cursor : Cursors, step : {"polled", "doing", "acking", "nacking"}]
    /\ claims \subseteq Cursors /\ forgotten \subseteq Cursors
    /\ payloads \in [Tabs -> Workers \cup {None}]
    /\ faults \in 0..MaxFaults
    /\ \A t \in Tabs : tabs[t].cursor < next

Init ==
    /\ workers = [w \in Workers |-> NoWorker]
    /\ commands = [c \in Cursors |-> NoCommand] /\ next = 1
    /\ calls = [c \in Calls |-> NoCall]
    /\ tabs = [t \in Tabs |-> IF t \in Opened THEN [NoTab EXCEPT !.step = "open", !.name = "named"] ELSE NoTab]
    /\ tasks = {} /\ claims = {}
    /\ payloads = [t \in Tabs |-> None]
    /\ runs = [c \in Cursors |-> 0] /\ forgotten = {}
    /\ faults = 0

Fault == faults < MaxFaults /\ faults' = faults + 1

-----------------------------------------------------------------------------
(* The broker. *)

Active == {w \in Workers : workers[w].status \in {"starting", "working"}}
Living == {w \in Workers : workers[w].status \notin {"none", "retired"}}
Pending == {c \in Cursors : commands[c].status = "pending"}

(* approvalSnapshot: what the approval of a call is bound to. *)
Seen(kind, w) ==
    {<<v, workers[v].status>> : v \in {u \in Living : kind = "clear" \/ (kind \in {"message", "report"} /\ u = w)}}

(* enqueueUnlocked *)
Enqueue(type, w, chat) ==
    /\ next \in Cursors
    /\ commands' = [commands EXCEPT ![next] =
            [type |-> type, worker |-> w, chat |-> chat, status |-> "pending"]]
    /\ next' = next + 1

(* spawn: there is a slot.  The id was never used: a worker that retires   *)
(* keeps its own.                                                          *)
Spawn ==
    LET number == Cardinality({w \in Workers : workers[w] # NoWorker}) + 1
    IN  /\ Cardinality(Active) < MaxWorkers
        /\ number \in Workers
        /\ workers' = [workers EXCEPT ![number].status = "starting"]
        /\ Enqueue("open_worker", number, None)

(* Seeded fault: the chat of a worker restored after a restart is not asked for. *)
MayMessageAnyone(w) ==
    w \in Living /\ (w \in Active \/ Cardinality(Active) < MaxWorkers)

(* message: a worker restored after a restart has no chat until it registers. *)
MayMessage(w) ==
    /\ w \in Living
    /\ ~(workers[w].restored /\ workers[w].chat = None)
    /\ w \in Active \/ Cardinality(Active) < MaxWorkers

Message(w) ==
    /\ MayMessage(w)
    /\ workers' = [workers EXCEPT ![w].status = "working"]
    /\ Enqueue("message_worker", w, workers[w].chat)

(* report of an MCP call. *)
Report(w) ==
    /\ w \in Living
    /\ \E status \in {"sleeping", "failed"} : workers' = [workers EXCEPT ![w].status = status]
    /\ UNCHANGED <<commands, next>>

(* clear: every worker retires, and the commands of the prime are cancelled. *)
Clear ==
    /\ workers' = [w \in Workers |-> IF workers[w] = NoWorker THEN NoWorker
                                     ELSE [workers[w] EXCEPT !.status = "retired"]]
    /\ commands' = [c \in Cursors |-> IF c \in Pending THEN [commands[c] EXCEPT !.status = "cancelled"]
                                      ELSE commands[c]]
    /\ UNCHANGED next

(* registerWorker *)
RegisterWorker(t) ==
    IF tabs[t].role \in Living
    THEN workers' = [workers EXCEPT ![tabs[t].role] =
            [status |-> "working", chat |-> <<t, tabs[t].name>>, restored |-> FALSE, known |-> TRUE]]
    ELSE UNCHANGED workers

(* Seeded fault: the cursor starts over. *)
RestartedFromOne ==
    /\ workers' = [w \in Workers |->
            IF workers[w] = NoWorker THEN NoWorker
            ELSE [workers[w] EXCEPT !.chat = None, !.restored = TRUE,
                        !.status = IF @ \in {"starting", "working"} THEN "sleeping" ELSE @]]
    /\ commands' = [c \in Cursors |-> IF c < next THEN [commands[c] EXCEPT !.status = "dropped"] ELSE commands[c]]
    /\ next' = 1

(* initialize, from agents.json: no commands, nobody works, chats are     *)
(* known by their keys only; the cursor goes on.                           *)
Restarted ==
    /\ workers' = [w \in Workers |->
            IF workers[w] = NoWorker THEN NoWorker
            ELSE [workers[w] EXCEPT !.chat = None, !.restored = TRUE,
                        !.status = IF @ \in {"starting", "working"} THEN "sleeping" ELSE @]]
    /\ commands' = [c \in Cursors |-> IF c < next THEN [commands[c] EXCEPT !.status = "dropped"] ELSE commands[c]]
    /\ UNCHANGED next

(* The daemon ends and starts again: the calls under way are lost. *)
Restart ==
    /\ Fault
    /\ Restarted
    /\ calls' = [c \in Calls |-> IF calls[c] = NoCall THEN NoCall ELSE Ended]
    /\ UNCHANGED browserVars

-----------------------------------------------------------------------------
(* The MCP calls. *)

(* The snapshot is taken, and approval asked for. *)
EnterCall(c, kind, w) ==
    /\ calls[c] = NoCall
    /\ \A d \in Calls : d < c => calls[d] # NoCall
    /\ IF kind \in {"message", "report"} THEN w \in Living ELSE w = None
    /\ calls' = [calls EXCEPT ![c] = [kind |-> kind, worker |-> w, seen |-> Seen(kind, w), step |-> "approving"]]
    /\ UNCHANGED <<brokerVars, browserVars, faults>>

Approve(c) ==
    /\ calls[c].step = "approving"
    /\ calls' = [calls EXCEPT ![c].step = "queued"]
    /\ UNCHANGED <<brokerVars, browserVars, faults>>

(* Seeded fault: the target is compared when the call is approved only. *)
TargetWasUnchanged(c) == TRUE

(* expectedTargetHash *)
TargetUnchanged(c) == calls[c].seen = Seen(calls[c].kind, calls[c].worker)

Act(c) ==
    /\ calls[c].step = "queued" /\ TargetUnchanged(c)
    /\ \/ calls[c].kind = "spawn" /\ Spawn
       \/ calls[c].kind = "message" /\ Message(calls[c].worker)
       \/ calls[c].kind = "report" /\ Report(calls[c].worker)
       \/ calls[c].kind = "clear" /\ Clear
    /\ calls' = [calls EXCEPT ![c] = Ended]
    /\ UNCHANGED <<browserVars, faults>>

(* The call is denied, refused by a check, or its write fails. *)
CallFails(c) ==
    /\ calls[c].step \in {"approving", "queued"}
    /\ calls' = [calls EXCEPT ![c] = Ended]
    /\ UNCHANGED <<brokerVars, browserVars, faults>>

-----------------------------------------------------------------------------
(* The extension. *)

Polling == {t \in Tabs : tabs[t].step \in {"open", "renamed"}}
Task(t, c, step) == [tab |-> t, cursor |-> c, step |-> step]
Becomes(t, c, from, to) == tasks' = (tasks \ {Task(t, c, from)}) \cup {Task(t, c, to)}
Done(t, c, from) == tasks' = tasks \ {Task(t, c, from)}
Last(t, c) == IF tabs[t].cursor > c THEN tabs[t].cursor ELSE c

(* start: the payload left for the tab is claimed, and the chat registered. *)
ClaimInitial(t) ==
    /\ tabs[t].step = "loading"
    /\ tabs' = [tabs EXCEPT ![t].step = "starting", ![t].role = payloads[t]]
    /\ payloads' = [payloads EXCEPT ![t] = None]
    /\ UNCHANGED <<brokerVars, calls, tasks, claims, runs, forgotten, faults>>

(* The answer of /bridge/register.  A tab whose first one fails does not   *)
(* poll; later ones are tried again.                                       *)
Register(t) ==
    /\ tabs[t].step \in {"starting", "renamed"}
    /\ RegisterWorker(t)
    /\ tabs' = [tabs EXCEPT ![t].step =
            IF tabs[t].role \in Living \cup {None} THEN "open" ELSE IF @ = "starting" THEN "dead" ELSE @]
    /\ UNCHANGED <<commands, next, calls, tasks, claims, payloads, runs, forgotten, faults>>

RegisterLost(t) ==
    /\ tabs[t].step = "starting"
    /\ Fault
    /\ tabs' = [tabs EXCEPT ![t].step = "dead"]
    /\ RegisterWorker(t) \/ UNCHANGED workers
    /\ UNCHANGED <<commands, next, calls, tasks, claims, payloads, runs, forgotten>>

(* With its first message the chat is given its own id, and registers it. *)
Rename(t) ==
    /\ tabs[t].step = "open" /\ tabs[t].name = "new"
    /\ tabs' = [tabs EXCEPT ![t].name = "named", ![t].step = "renamed"]
    /\ UNCHANGED <<brokerVars, calls, tasks, claims, payloads, runs, forgotten, faults>>

(* A worker's answer ends with its marker, and is reported. *)
AnswerEnds(t) ==
    /\ t \in Polling /\ tabs[t].role # None /\ tabs[t].reporting = None
    /\ tabs' = [tabs EXCEPT ![t].reporting = tabs[t].role]
    /\ UNCHANGED <<brokerVars, calls, tasks, claims, payloads, runs, forgotten, faults>>

(* /bridge/worker/report, not bound to an approval. *)
ReportWorker(t) ==
    /\ tabs[t].reporting # None
    /\ tabs' = [tabs EXCEPT ![t].reporting = None]
    /\ workers' = IF tabs[t].reporting \in Living
                  THEN [workers EXCEPT ![tabs[t].reporting].status = "sleeping"] ELSE workers
    /\ UNCHANGED <<commands, next, calls, tasks, claims, payloads, runs, forgotten, faults>>

(* pollCommands: the pending commands after the cursor of the tab. *)
Poll(t) ==
    LET new == {Task(t, c, "polled") : c \in {d \in Pending : d > tabs[t].cursor}}
    IN  /\ t \in Polling /\ ~(new \subseteq tasks)
        /\ tasks' = tasks \cup new
        /\ UNCHANGED <<brokerVars, calls, tabs, claims, payloads, runs, forgotten, faults>>

(* handleCommand: a command for another chat is passed over; one that is   *)
(* claimed is left to the tab that claimed it.  Commands are begun in      *)
(* order, and once more when polls of the tab overlap.                     *)
Mine(t, c) == commands[c].chat \in {None, <<t, tabs[t].name>>}

(* Seeded fault: the claim is not looked at. *)
MayClaimAlways(t, c) == Mine(t, c)

MayClaim(t, c) == Mine(t, c) /\ c \notin claims

HandleCommand(t, c) ==
    /\ Task(t, c, "polled") \in tasks
    /\ \A d \in Cursors : Task(t, d, "polled") \in tasks /\ d < c => d <= tabs[t].cursor
    /\ tabs' = [tabs EXCEPT ![t].cursor = Last(t, c)]
    /\ \/ /\ MayClaim(t, c)
          /\ claims' = claims \cup {c}
          /\ \/ Becomes(t, c, "polled", "doing")
             \/ c > tabs[t].cursor /\ tasks' = tasks \cup {Task(t, c, "doing")}
       \/ /\ ~MayClaim(t, c)
          /\ Done(t, c, "polled")
          /\ UNCHANGED claims
    /\ UNCHANGED <<brokerVars, calls, payloads, runs, forgotten, faults>>

(* Seeded fault: the payload of the new tab is not kept. *)
OpenChatForgets(c) ==
    \E u \in Tabs : /\ tabs[u].step = "unused"
                    /\ tabs' = [tabs EXCEPT ![u] = [NoTab EXCEPT !.step = "loading"]]
                    /\ UNCHANGED payloads

(* openChat without a chat: a new tab, which will claim the payload. *)
OpenChat(c) ==
    \E u \in Tabs : /\ tabs[u].step = "unused"
                    /\ tabs' = [tabs EXCEPT ![u] = [NoTab EXCEPT !.step = "loading"]]
                    /\ payloads' = [payloads EXCEPT ![u] = commands[c].worker]

(* openChat for the chat of a worker: the payload goes to the first tab    *)
(* whose address begins with that of the chat.  A chat without its own id  *)
(* has the address of the site, with which every chat begins.              *)
DeliverTo(c) ==
    IF commands[c].chat[2] = "named" THEN {commands[c].chat[1]}
    ELSE {u \in Tabs : tabs[u].step \notin {"unused", "closed"}}

Deliver(c) ==
    \E u \in DeliverTo(c) :
        IF tabs[u].step = "loading"
        THEN payloads' = [payloads EXCEPT ![u] = commands[c].worker] /\ UNCHANGED tabs
        ELSE /\ tabs' = [tabs EXCEPT ![u].role = commands[c].worker]
             /\ payloads' = [payloads EXCEPT ![u] = None]

Execute(t, c) ==
    /\ Task(t, c, "doing") \in tasks
    /\ IF commands[c].chat = None THEN OpenChat(c) ELSE Deliver(c)
    /\ Becomes(t, c, "doing", "acking")
    /\ runs' = [runs EXCEPT ![c] = @ + 1]
    /\ UNCHANGED <<brokerVars, calls, claims, forgotten, faults>>

Acknowledged(c, status) ==
    commands' = [commands EXCEPT ![c].status = IF @ = "dropped" THEN @ ELSE status]

(* The acknowledgement; one that fails is followed by a report of failure, *)
(* also of a command that was carried out, and that one may be lost.       *)
Acknowledge(t, c) ==
    /\ \/ /\ Task(t, c, "acking") \in tasks
          /\ IF commands[c].status = "dropped" THEN Becomes(t, c, "acking", "nacking") ELSE Done(t, c, "acking")
          /\ Acknowledged(c, "acknowledged")
       \/ /\ Task(t, c, "nacking") \in tasks
          /\ Done(t, c, "nacking")
          /\ Acknowledged(c, "failed") \/ UNCHANGED commands
    /\ UNCHANGED <<workers, next, calls, tabs, claims, payloads, runs, forgotten, faults>>

(* A command cannot be carried out, or its acknowledgement is lost on one  *)
(* of its ways.                                                            *)
AcknowledgeLost(t, c) ==
    /\ Fault
    /\ \/ /\ Task(t, c, "doing") \in tasks
          /\ Becomes(t, c, "doing", "nacking")
          /\ UNCHANGED commands
       \/ /\ Task(t, c, "acking") \in tasks
          /\ Becomes(t, c, "acking", "nacking")
          /\ UNCHANGED commands \/ Acknowledged(c, "acknowledged")
    /\ UNCHANGED <<workers, next, calls, tabs, claims, payloads, runs, forgotten>>

(* Claims go after 60 s, or with the service worker of the extension. *)
ForgetClaims ==
    /\ claims # {}
    /\ Fault
    /\ \E cs \in {{c} : c \in claims} \cup {claims} :
        /\ claims' = claims \ cs
        /\ forgotten' = forgotten \cup cs
    /\ UNCHANGED <<brokerVars, calls, tabs, tasks, payloads, runs>>

(* A tab is closed, or loaded again: its content script starts anew. *)
Leave(t) ==
    /\ tabs[t].step \notin {"unused", "closed"}
    /\ Fault
    /\ \/ /\ tabs' = [tabs EXCEPT ![t] = [NoTab EXCEPT !.step = "closed"]]
          /\ payloads' = [payloads EXCEPT ![t] = None]
       \/ /\ tabs' = [tabs EXCEPT ![t] = [NoTab EXCEPT !.step = "loading", !.name = tabs[t].name]]
          /\ UNCHANGED payloads
    /\ tasks' = {k \in tasks : k.tab # t}
    /\ UNCHANGED <<brokerVars, calls, claims, runs, forgotten>>

-----------------------------------------------------------------------------

TabStep(t) == ClaimInitial(t) \/ Register(t) \/ ReportWorker(t) \/ Poll(t)
TaskStep(t, c) == HandleCommand(t, c) \/ Execute(t, c) \/ Acknowledge(t, c)

Next ==
    \/ \E c \in Calls, w \in Workers \cup {None}, kind \in {"spawn", "message", "report", "clear"} :
            EnterCall(c, kind, w)
    \/ \E c \in Calls : Approve(c) \/ Act(c) \/ CallFails(c)
    \/ \E t \in Tabs : TabStep(t) \/ RegisterLost(t) \/ Rename(t) \/ AnswerEnds(t) \/ Leave(t)
    \/ \E t \in Tabs, c \in Cursors : TaskStep(t, c) \/ AcknowledgeLost(t, c)
    \/ ForgetClaims \/ Restart

Spec == Init /\ [][Next]_vars

(* Tabs poll every 1.5 s, and what they have begun goes on. *)
FairSpec ==
    /\ Spec
    /\ \A t \in Tabs : WF_vars(ClaimInitial(t)) /\ WF_vars(Register(t)) /\ WF_vars(Poll(t))
    /\ \A t \in Tabs, c \in Cursors : WF_vars(TaskStep(t, c))

-----------------------------------------------------------------------------
(* Properties. *)

NewlyPending(c) == commands'[c].status = "pending" /\ commands[c].status # "pending"

(* Workers change as was approved.  A retired worker stays retired,        *)
(* whatever registers, reports or restarts late (SECURITY.md: a late       *)
(* register or report does not revive it); and workers retire, and are     *)
(* messaged, by a call that was approved for them in the state they are in. *)
WorkersAsApproved ==
    [][\A w \in Workers :
        /\ workers[w].status = "retired" => workers'[w].status = "retired"
        /\ \/ workers'[w].status = "retired" /\ workers[w].status # "retired"
           \/ \E c \in Cursors : commands'[c].type = "message_worker" /\ commands'[c].worker = w
                                    /\ NewlyPending(c)
           => \E c \in Calls : calls[c].step = "queued" /\ <<w, workers[w].status>> \in calls[c].seen]_vars

(* A command is carried out at most once while its claim is kept: several  *)
(* tabs poll the same commands, and polls overlap.                         *)
ClaimsHold == \A c \in Cursors : c \notin forgotten => runs[c] <= 1

(* A command that is queued is ahead of every tab, so that the tabs which  *)
(* were open before a restart see it; and a message to a worker that once  *)
(* had a chat is for a chat it has registered since the restart, never for *)
(* one opened afresh.                                                      *)
CommandsReachTabs ==
    [][\A c \in Cursors : NewlyPending(c) =>
        /\ \A t \in Tabs : tabs[t].cursor < c
        /\ commands'[c].type = "message_worker" /\ workers[commands'[c].worker].known
                => commands'[c].chat # None]_vars

(* The bound on the tabs is in the way of a command. *)
OutOfTabs ==
    /\ \A t \in Tabs : tabs[t].step # "unused"
    /\ \E k \in tasks : k.step = "doing" /\ commands[k.cursor].chat = None

(* A worker that is spawned starts to work, or is retired, if nothing goes *)
(* wrong in the browser: the command reaches a tab, which opens a chat     *)
(* that claims the payload and registers.                                  *)
SpawnedWorkersStart ==
    \A w \in Workers :
        workers[w].status = "starting" ~> workers[w].status # "starting" \/ faults > 0 \/ OutOfTabs
=============================================================================
