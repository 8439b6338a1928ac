---------------------------- MODULE PerfettoSessions ----------------------------
(***************************************************************************)
(* Perfetto traces in REF/DUT sessions: the broker (PerfettoBroker,        *)
(* src/src/perfetto-broker.mjs), its durable store (perfetto-store.mjs),   *)
(* the tool calls that use them (perfetto-tools.mjs), and the plugin in    *)
(* the Perfetto page (bridge_client.ts).                                   *)
(*                                                                         *)
(* A plugin draws a client id for each trace it opens, so a page stands    *)
(* for a client id and its trace; session ids are drawn too and never come *)
(* back.  A snapshot of a client is thus told apart by its connection.     *)
(***************************************************************************)
EXTENDS Naturals, Sequences, FiniteSets

CONSTANTS
    Pages, Sessions,
    Calls,              \* bound: the tool calls made, each once
    Kinds,              \* the tools they call
    Conns,              \* bound: the sockets that exist at a time
    None,
    Announces,          \* the plugin sends session.attached, as bridge_client.ts does
    MaxClients,         \* perfetto.maxClients
    MaxPending,         \* perfetto.maxConcurrentRequests
    MaxFaults,          \* bound: losses, crashes, failed writes, pings, pages that leave
    Joined              \* the pages that are connected at the start

(* A call makes one request, an authenticated socket one to restore its role. *)
Ids == Calls \cup Conns
Slots == Sessions \X {"ref", "dut"}

ASSUME PerfettoBounds ==
    /\ None \notin Pages \cup Sessions \cup Calls \cup Conns \cup Slots \cup Nat
    /\ Kinds \subseteq {"attach", "detach", "remove", "select", "query"}
    /\ Announces \in BOOLEAN
    /\ {MaxClients, MaxPending, MaxFaults} \subseteq Nat
    /\ Calls \cap Conns = {}
    /\ Joined \subseteq Pages /\ IsFiniteSet(Joined) /\ Cardinality(Joined) <= MaxClients

VARIABLES
    stage,      \* broker: where accept stands with each socket
    clients,    \* broker: clients
    pending,    \* broker: pending
    calls,      \* broker: the tool calls that run
    mutex,      \* broker: the call that holds assignmentMutex
    existing,   \* store: the sessions
    born,       \* store: the session ids drawn so far
    given,      \* store: the trace of each role of each session
    toBroker,   \* frames on their way from the pages
    toPage,     \* frames on their way to the pages
    plugin,     \* pages: PerfettoBridgeClient
    unsynced,   \* history: an attach was stored and then failed, unsynchronised
    faults

memVars == <<stage, clients, pending, calls, mutex, unsynced>>
storeVars == <<existing, born, given>>
netVars == <<toBroker, toPage>>
vars == <<memVars, storeVars, netVars, plugin, faults>>

NoClient == [conn |-> None, at |-> None, restore |-> None, query |-> None]
NoCall == [kind |-> "none", step |-> "idle", page |-> None, slot |-> None, conn |-> None]
Ended == [NoCall EXCEPT !.step = "done"]

(* The state is well formed; the limits on sockets, clients and requests hold. *)
TypeOK ==
    /\ stage \in [Conns -> {"closed", "challenge", "response", "audit", "open"}]
    /\ clients \in [Pages -> [conn : Conns \cup {None}, at : Slots \cup {None},
                              restore : Slots \cup {None}, query : Calls \cup {None}]]
    /\ pending \subseteq [id : Ids, page : Pages, conn : Conns]
    /\ calls \in [Calls -> [kind : Kinds \cup {"none"}, page : Pages \cup {None},
                            step : {"idle", "approving", "queued", "asked", "writing", "done"},
                            slot : Slots \cup {None}, conn : Conns \cup {None}]]
    /\ mutex \in Calls \cup {None}
    /\ existing \subseteq born /\ born \subseteq Sessions
    /\ given \in [Slots -> Pages \cup {None}]
    /\ plugin \in [Pages -> [state : {"idle", "challenging", "await_ack", "connected", "failed", "gone"},
                             socket : Conns \cup {None}, attachment : Slots \cup {None},
                             running : SUBSET Calls]]
    /\ unsynced \in BOOLEAN /\ faults \in 0..MaxFaults
    /\ Cardinality({k \in Conns : stage[k] # "closed"}) <= 2 * MaxClients
    /\ Cardinality({p \in Pages : clients[p] # NoClient}) <= MaxClients
    /\ Cardinality(pending) <= MaxPending

(* Joined pages have been through the handshake, and the store holds what  *)
(* an earlier run of the daemon left in it.                                *)
Init ==
    \E socket \in [Joined -> Conns], e \in SUBSET Sessions, g \in [Slots -> Joined \cup {None}] :
    LET slotOf(p) == IF \E s \in Slots : g[s] = p THEN CHOOSE s \in Slots : g[s] = p ELSE None
    IN
    /\ \A p, q \in Joined : socket[p] = socket[q] => p = q
    /\ \A s, t \in Slots : g[s] # None => s[1] \in e /\ (g[s] = g[t] => s = t)
    /\ existing = e /\ born = e /\ given = g
    /\ stage = [k \in Conns |-> IF \E p \in Joined : socket[p] = k THEN "open" ELSE "closed"]
    /\ clients = [p \in Pages |-> IF p \in Joined
                    THEN [NoClient EXCEPT !.conn = socket[p], !.at = slotOf(p)] ELSE NoClient]
    /\ pending = {} /\ calls = [c \in Calls |-> NoCall] /\ mutex = None
    /\ toBroker = [k \in Conns |-> <<>>] /\ toPage = [k \in Conns |-> <<>>]
    /\ plugin = [p \in Pages |-> IF p \in Joined
            THEN [state |-> "connected", socket |-> socket[p], attachment |-> slotOf(p), running |-> {}]
            ELSE [state |-> "idle", socket |-> None, attachment |-> None, running |-> {}]]
    /\ unsynced = FALSE /\ faults = 0

-----------------------------------------------------------------------------
(* Sockets and frames. *)

Fault == faults < MaxFaults /\ faults' = faults + 1
Frame(type) == [type |-> type]
Close(code) == [type |-> "close", code |-> code]
Live(ks) == {k \in ks : stage[k] # "closed"}
Attached(k) == \E p \in Pages : plugin[p].socket = k
Sent(fs) == [k \in Conns |-> IF Attached(k) THEN toPage[k] \o fs[k] ELSE <<>>]
On(ks, f) == [k \in Conns |-> IF k \in ks THEN <<f>> ELSE <<>>]
Ignored(ks) == [k \in Conns |-> IF k \in ks THEN <<>> ELSE toBroker[k]]
Received(k) == [toBroker EXCEPT ![k] = Tail(@)]
Closed(ks) == [k \in Conns |-> IF k \in ks THEN "closed" ELSE stage[k]]

Registered == {p \in Pages : clients[p] # NoClient}
ConnOf(p) == Live({clients[p].conn} \ {None})

(* Ends calls: their promise settles, and a holder gives the mutex back. *)
EndCalls(cs) ==
    /\ calls' = [c \in Calls |-> IF c \in cs THEN Ended ELSE calls[c]]
    /\ mutex' = IF mutex \in cs THEN None ELSE mutex

(* The close events of sockets the broker knows, which reject the requests *)
(* of their clients; the calls in ended end as well.                       *)
HandleCloses(ks, ended) ==
    LET lost == {q \in pending : q.conn \in ks /\ clients[q.page].conn = q.conn}
    IN  /\ pending' = pending \ lost
        /\ EndCalls(ended \cup ({q.id : q \in lost} \cap Calls))
        /\ toBroker' = Ignored(ks)

Dropped(cl, ks) == [p \in Pages |-> IF cl[p].conn \in ks THEN NoClient ELSE cl[p]]

(* The broker closes sockets. *)
Hangup(ks, code, cl, ended) ==
    /\ stage' = Closed(ks)
    /\ clients' = Dropped(cl, ks)
    /\ HandleCloses(ks, ended)
    /\ toPage' = Sent(On(ks, Close(code)))

(* Both ends of a lost socket see it end, each when it notices. *)
Lose(k) ==
    /\ stage[k] # "closed" /\ Attached(k)
    /\ Fault
    /\ toBroker' = [toBroker EXCEPT ![k] = <<Close(1006)>>]
    /\ toPage' = [toPage EXCEPT ![k] = <<Close(1006)>>]
    /\ UNCHANGED <<memVars, storeVars, plugin>>

-----------------------------------------------------------------------------
(* Requests to a client. *)

(* request: a query locks the client, and the table of requests is bounded; *)
(* a socket that is closed throws.                                         *)
CanAsk(p, method) ==
    /\ ConnOf(p) # {}
    /\ ~(method = "query" /\ clients[p].query # None)
    /\ Cardinality(pending) < MaxPending

Asked(id, p) == pending \cup {[id |-> id, page |-> p, conn |-> clients[p].conn]}
Request(id, method, slot) == [type |-> "request", id |-> id, method |-> method, slot |-> slot]

(* The request of a call that runs. *)
Ask(c, method) ==
    LET p == calls[c].page
    IN  /\ pending' = Asked(c, p)
        /\ calls' = [calls EXCEPT ![c].step = "asked"]
        /\ clients' = IF method = "query" THEN [clients EXCEPT ![p].query = c] ELSE clients
        /\ toPage' = Sent(On(ConnOf(p), Request(c, method, calls[c].slot)))

-----------------------------------------------------------------------------
(* The broker: accept, and one action per frame. *)

At(k, stages, type) == stage[k] \in stages /\ toBroker[k] # <<>> /\ Head(toBroker[k]).type = type

AuthChallenge(k) ==
    /\ At(k, {"challenge"}, "auth_challenge")
    /\ stage' = [stage EXCEPT ![k] = "response"]
    /\ toBroker' = Received(k)
    /\ toPage' = Sent(On({k}, Frame("auth_challenge_ack")))
    /\ UNCHANGED <<clients, pending, calls, mutex, unsynced, storeVars, plugin, faults>>

Refuse(k) ==
    /\ stage' = Closed({k})
    /\ toBroker' = Ignored({k})
    /\ toPage' = Sent([On({k}, Close(1008)) EXCEPT ![k] =
                        <<[type |-> "hello_ack", accepted |-> FALSE]>> \o @])
    /\ UNCHANGED <<clients, pending, calls, mutex>>

(* A message that is not the one the handshake waits for. *)
RefuseMessage(k) ==
    /\ At(k, {"challenge", "response"}, "response")
    /\ Refuse(k)
    /\ UNCHANGED <<unsynced, storeVars, plugin, faults>>

AssignmentIn(g, p) ==
    IF \E s \in Slots : g[s] = p THEN CHOOSE s \in Slots : g[s] = p ELSE None

Joining(k, p) ==
    [conn |-> k, at |-> AssignmentIn(given, p), restore |-> AssignmentIn(given, p), query |-> None]

(* Seeded fault: the new socket is registered before the old one is closed, *)
(* whose close event then finds a client that is not its own.              *)
RegisterFirst(k, p) ==
    /\ stage' = [Closed(ConnOf(p)) EXCEPT ![k] = "audit"]
    /\ clients' = [clients EXCEPT ![p] = Joining(k, p)]
    /\ toBroker' = [Ignored(ConnOf(p)) EXCEPT ![k] = Tail(toBroker[k])]
    /\ toPage' = Sent(On(ConnOf(p), Close(4001)))
    /\ UNCHANGED <<pending, calls, mutex>>

(* The trace replaces its previous socket, whose requests are rejected. *)
Register(k, p) ==
    LET lost == {q \in pending : q.conn \in ConnOf(p) /\ clients[q.page].conn = q.conn}
    IN  /\ stage' = [Closed(ConnOf(p)) EXCEPT ![k] = "audit"]
        /\ clients' = [clients EXCEPT ![p] = Joining(k, p)]
        /\ pending' = pending \ lost
        /\ EndCalls({q.id : q \in lost} \cap Calls)
        /\ toBroker' = [Ignored(ConnOf(p)) EXCEPT ![k] = Tail(toBroker[k])]
        /\ toPage' = Sent(On(ConnOf(p), Close(4001)))

(* Seeded fault: a client more than the limit is let in. *)
NoRoomAbove(p) == p \notin Registered /\ Cardinality(Registered) > MaxClients

NoRoom(p) == p \notin Registered /\ Cardinality(Registered) >= MaxClients

(* The proof is checked and the client known; its audit record is next. *)
AuthResponse(k) ==
    /\ At(k, {"response"}, "auth_response")
    /\ LET p == Head(toBroker[k]).page
       IN  IF NoRoom(p)
           THEN Refuse(k)
           ELSE Register(k, p)
    /\ UNCHANGED <<unsynced, storeVars, plugin, faults>>

(* The page closes the socket right after its answer and both frames come  *)
(* in one piece: the close event runs first, and the client then           *)
(* registered is that of a closed socket.                                  *)
AuthResponseAfterClose(k) ==
    /\ At(k, {"response"}, "auth_response")
    /\ Len(toBroker[k]) = 2 /\ toBroker[k][2] = Close(1000)
    /\ LET p == Head(toBroker[k]).page
           lost == {q \in pending : q.conn \in ConnOf(p) /\ clients[q.page].conn = q.conn}
       IN  /\ ~NoRoom(p)
           /\ stage' = Closed(ConnOf(p) \cup {k})
           /\ clients' = [clients EXCEPT ![p] = Joining(k, p)]
           /\ pending' = pending \ lost
           /\ EndCalls({q.id : q \in lost} \cap Calls)
           /\ toBroker' = Ignored(ConnOf(p) \cup {k})
           /\ toPage' = Sent(On(ConnOf(p), Close(4001)))
    /\ UNCHANGED <<unsynced, storeVars, plugin, faults>>

ClientOf(k) == CHOOSE p \in Pages : clients[p].conn = k

(* The audit record is written: hello_ack, and the attach request of the   *)
(* assignment the trace had when it joined.                                *)
HelloAck(k) ==
    /\ stage[k] = "audit"
    /\ stage' = [stage EXCEPT ![k] = "open"]
    /\ LET p == ClientOf(k)
           ack == <<[type |-> "hello_ack", accepted |-> TRUE]>>
           slot == clients[p].restore
       IN  IF slot # None /\ CanAsk(p, "attach")
           THEN /\ toPage' = Sent([On({}, ack) EXCEPT ![k] = ack \o <<Request(k, "attach", slot)>>])
                /\ pending' = Asked(k, p)
           ELSE /\ toPage' = Sent([On({}, ack) EXCEPT ![k] = ack])
                /\ UNCHANGED pending
    /\ clients' = [clients EXCEPT ![ClientOf(k)].restore = None]
    /\ UNCHANGED <<calls, mutex, unsynced, storeVars, toBroker, plugin, faults>>

(* The audit record cannot be written, or the handshake takes too long. *)
AuthFails(k) ==
    /\ stage[k] \in {"challenge", "response", "audit"}
    /\ Fault
    /\ Hangup({k}, 1008, clients, {})
    /\ UNCHANGED <<unsynced, storeVars, plugin>>

PeerClosed(k) ==
    /\ At(k, {"challenge", "response", "audit", "open"}, "close")
    /\ stage' = Closed({k})
    /\ clients' = Dropped(clients, {k})
    /\ HandleCloses({k}, {})
    /\ UNCHANGED <<unsynced, storeVars, toPage, plugin, faults>>

(* Seeded fault: a socket that has replaced the approved one will do. *)
HoldsByTrace(c) ==
    LET x == calls[c]
    IN  /\ x.page \in Registered
        /\ x.kind # "attach" /\ x.slot # None => given[x.slot] = x.page

(* assertSnapshot: the socket is the client's, and the role still its own. *)
Holds(c) ==
    LET x == calls[c]
    IN  /\ clients[x.page].conn = x.conn
        /\ x.kind # "attach" /\ x.slot # None => given[x.slot] = x.page

(* Seeded fault: an answer that comes after the timeout is ignored. *)
UnlockedInTime(id) ==
    [p \in Pages |-> IF clients[p].query = id /\ \E q \in pending : q.id = id
                     THEN [clients[p] EXCEPT !.query = None] ELSE clients[p]]

Unlocked(id) ==
    [p \in Pages |-> IF clients[p].query = id THEN [clients[p] EXCEPT !.query = None] ELSE clients[p]]

(* The plugin or validatePerfettoResult may refuse; a query ends with its  *)
(* answer.  A plugin always takes the role of an attach.                   *)
Refusable(c) == calls[c].kind # "attach" \/ ~Holds(c)

(* handleResponse: a late answer only unlocks; else the call goes on, and  *)
(* with an error or a changed target it ends.                              *)
Response(k) ==
    /\ At(k, {"open"}, "response")
    /\ LET id == Head(toBroker[k]).id
           mine == {q \in pending : q.id = id /\ q.conn = k}
           call == {q.id : q \in mine} \cap Calls
       IN  /\ clients' = Unlocked(id)
           /\ pending' = pending \ mine
           /\ \/ /\ \A c \in call : calls[c].kind # "query" /\ Holds(c)
                 /\ calls' = [c \in Calls |-> IF c \in call THEN [calls[c] EXCEPT !.step = "writing"]
                                              ELSE calls[c]]
                 /\ UNCHANGED mutex
              \/ /\ \E c \in call : Refusable(c)
                 /\ EndCalls(call)
    /\ toBroker' = Received(k)
    /\ UNCHANGED <<stage, unsynced, storeVars, toPage, plugin, faults>>

(* handleEvent knows bridge.pong and trace.closing; any other is refused. *)
Event(k) ==
    /\ At(k, {"open"}, "event")
    /\ IF Head(toBroker[k]).name \in {"bridge.pong", "trace.closing"}
       THEN /\ toBroker' = Received(k)
            /\ UNCHANGED <<stage, clients, pending, calls, mutex, toPage>>
       ELSE Hangup({k}, 1008, clients, {})
    /\ UNCHANGED <<unsynced, storeVars, plugin, faults>>

(* A request is not answered in time.  A query stays locked. *)
Timeout(q) ==
    /\ q \in pending
    /\ pending' = pending \ {q}
    /\ EndCalls({q.id} \cap Calls)
    /\ UNCHANGED <<stage, clients, unsynced, storeVars, netVars, plugin, faults>>

(* The daemon ends, in order or not, and starts again from the store. *)
Restarted ==
    /\ stage' = [k \in Conns |-> "closed"]
    /\ clients' = [p \in Pages |-> NoClient]
    /\ pending' = {} /\ calls' = [c \in Calls |-> IF calls[c] = NoCall THEN NoCall ELSE Ended] /\ mutex' = None
    /\ unsynced' = FALSE
    /\ toBroker' = [k \in Conns |-> <<>>]
    /\ toPage' = Sent(On(Live(Conns), Close(1001)))
    /\ UNCHANGED <<storeVars, plugin>>

Restart == Fault /\ Restarted

(* ping, every 20 s: a client silent for 60 s is closed.  The send to a    *)
(* socket that is closed throws out of the timer, which ends the daemon.   *)
Ping ==
    /\ Registered # {}
    /\ \A p \in Registered : \A i \in DOMAIN toPage[clients[p].conn] :
            toPage[clients[p].conn][i].type # "ping"
    /\ Fault
    /\ IF \E p \in Registered : ConnOf(p) = {}
       THEN Restarted
       ELSE /\ \E silent \in SUBSET {clients[p].conn : p \in Registered} :
                /\ stage' = Closed(silent)
                /\ clients' = Dropped(clients, silent)
                /\ HandleCloses(silent, {})
                /\ toPage' = Sent([k \in Conns |->
                        IF k \in silent THEN <<Close(4000)>>
                        ELSE IF \E p \in Registered : clients[p].conn = k THEN <<Frame("ping")>>
                        ELSE <<>>])
            /\ UNCHANGED <<unsynced, storeVars, plugin>>

-----------------------------------------------------------------------------
(* The calls. *)

(* Sessions are created under the store's mutex alone. *)
CreateSession(s) ==
    /\ s \notin born
    /\ born' = born \cup {s} /\ existing' = existing \cup {s}
    /\ UNCHANGED <<memVars, given, netVars, plugin, faults>>

Starts(c, kind, p, slot) ==
    /\ calls[c] = NoCall /\ kind \in Kinds
    /\ calls' = [calls EXCEPT ![c] = [kind |-> kind, step |-> "approving", page |-> p, slot |-> slot,
                    conn |-> IF p = None THEN None ELSE clients[p].conn]]
    /\ UNCHANGED <<stage, clients, pending, mutex, unsynced, storeVars, netVars, plugin, faults>>

(* The call takes its snapshot and asks for approval. *)
StartCall(c, p) ==
    \/ \E slot \in Slots :
        /\ slot[1] \in existing
        /\ \/ p \in Registered /\ Starts(c, "attach", p, slot)
           \/ p \in Registered /\ given[slot] = p /\ \E kind \in {"detach", "query"} : Starts(c, kind, p, slot)
           \/ p \in Registered /\ given[slot] = p /\ slot[2] = "dut" /\ Starts(c, "select", p, slot)
           \/ slot[2] = "ref" /\ Starts(c, "remove", None, slot)
    \/ p \in Registered /\ Starts(c, "query", p, None)

(* The approval: a query is sent at once, the others wait for their turn. *)
Approved(c) ==
    /\ calls[c].step = "approving"
    /\ \/ /\ calls[c].kind = "query" /\ Holds(c) /\ CanAsk(calls[c].page, "query")
          /\ Ask(c, "query")
          /\ UNCHANGED mutex
       \/ /\ calls[c].kind = "query" /\ ~(Holds(c) /\ CanAsk(calls[c].page, "query"))
          /\ EndCalls({c})
          /\ UNCHANGED <<clients, pending, toPage>>
       \/ /\ calls[c].kind # "query"
          /\ calls' = [calls EXCEPT ![c] = IF @.kind # "detach" \/ Holds(c)
                                           THEN [@ EXCEPT !.step = "queued"] ELSE Ended]
          /\ UNCHANGED <<clients, pending, mutex, toPage>>
    /\ UNCHANGED <<stage, unsynced, storeVars, toBroker, plugin, faults>>

Denied(c) ==
    /\ calls[c].step = "approving"
    /\ EndCalls({c})
    /\ UNCHANGED <<stage, clients, pending, unsynced, storeVars, netVars, plugin, faults>>

MayEnter(c) ==
    /\ calls[c].slot[1] \in existing
    /\ calls[c].kind # "remove" => Holds(c)
    /\ calls[c].kind \in {"attach", "select"} => CanAsk(calls[c].page, calls[c].kind)

Turn(c) == calls[c].step = "queued" /\ mutex = None

(* The first step under assignmentMutex: ask the plugin, or write. *)
Enter(c) ==
    /\ Turn(c)
    /\ \/ /\ MayEnter(c)
          /\ mutex' = c
          /\ IF calls[c].kind \in {"attach", "select"}
             THEN Ask(c, calls[c].kind)
             ELSE /\ calls' = [calls EXCEPT ![c].step = "writing"]
                  /\ UNCHANGED <<clients, pending, toPage>>
       \/ /\ ~MayEnter(c)
          /\ EndCalls({c})
          /\ UNCHANGED <<clients, pending, toPage>>
    /\ UNCHANGED <<stage, unsynced, storeVars, toBroker, plugin, faults>>

(* synchronizeAssignments *)
Synchronized(g) ==
    [p \in Pages |-> IF p \in Registered THEN [clients[p] EXCEPT !.at = AssignmentIn(g, p)] ELSE NoClient]

(* PerfettoSessionStore.attach: a trace has one role at a time. *)
AttachedTo(slot, p) ==
    [s \in Slots |-> IF s = slot THEN p ELSE IF given[s] = p THEN None ELSE given[s]]

(* The attach is stored.  If the target changed meanwhile the call fails,  *)
(* and neither the clients nor the trace displaced hear of it.             *)
StoreAttach(c) ==
    LET x == calls[c]
        displaced == {given[x.slot]} \ {None, x.page}
    IN  /\ calls[c].step = "writing" /\ x.kind = "attach"
        /\ given' = AttachedTo(x.slot, x.page)
        /\ IF Holds(c)
           THEN /\ Hangup(UNION {ConnOf(p) : p \in displaced}, 4002,
                          Synchronized(AttachedTo(x.slot, x.page)), {c})
                /\ unsynced' = FALSE
           ELSE /\ EndCalls({c})
                /\ unsynced' = TRUE
                /\ UNCHANGED <<stage, clients, pending, netVars>>
        /\ UNCHANGED <<existing, born, plugin, faults>>

(* Seeded fault: the clients are not synchronised. *)
StoreDetachUnsynced(c) ==
    LET x == calls[c]
        g == [given EXCEPT ![x.slot] = None]
    IN  /\ calls[c].step = "writing" /\ x.kind = "detach"
        /\ given' = g
        /\ EndCalls({c})
        /\ UNCHANGED <<stage, clients, pending, netVars, unsynced, existing, born, plugin, faults>>

StoreDetach(c) ==
    LET x == calls[c]
        g == [given EXCEPT ![x.slot] = None]
    IN  /\ calls[c].step = "writing" /\ x.kind = "detach"
        /\ given' = g
        /\ Hangup(Live({x.conn}), 4002, Synchronized(g), {c})
        /\ unsynced' = FALSE
        /\ UNCHANGED <<existing, born, plugin, faults>>

StoreRemove(c) ==
    LET session == calls[c].slot[1]
        g == [s \in Slots |-> IF s[1] = session THEN None ELSE given[s]]
        before == {given[s] : s \in {session} \X {"ref", "dut"}} \ {None}
    IN  /\ calls[c].step = "writing" /\ calls[c].kind = "remove"
        /\ given' = g
        /\ existing' = existing \ {session}
        /\ Hangup(UNION {ConnOf(p) : p \in before}, 4002, Synchronized(g), {c})
        /\ unsynced' = FALSE
        /\ UNCHANGED <<born, plugin, faults>>

(* recordAlignment, after the mapped area was selected. *)
StoreAlignment(c) ==
    /\ calls[c].step = "writing" /\ calls[c].kind = "select"
    /\ EndCalls({c})
    /\ UNCHANGED <<stage, clients, pending, unsynced, storeVars, netVars, plugin, faults>>

(* The write fails; an attach closes the socket of its trace. *)
StoreFails(c) ==
    /\ calls[c].step = "writing"
    /\ Fault
    /\ Hangup(IF calls[c].kind = "attach" THEN Live({calls[c].conn}) ELSE {}, 1011, clients, {c})
    /\ UNCHANGED <<unsynced, storeVars, plugin>>

-----------------------------------------------------------------------------
(* The plugin in the page. *)

SetPlugin(p, b) == plugin' = [plugin EXCEPT ![p] = b]
Waiting(p, states, types) ==
    LET k == plugin[p].socket
    IN  plugin[p].state \in states /\ k # None /\ toPage[k] # <<>> /\ Head(toPage[k]).type \in types
Consume(p) == toPage' = [toPage EXCEPT ![plugin[p].socket] = Tail(@)]
Reply(p, fs) == toBroker' = [toBroker EXCEPT ![plugin[p].socket] =
                    IF stage[plugin[p].socket] = "closed" THEN <<>> ELSE @ \o fs]

(* The plugin closes its socket; what is on the way to it is dropped. *)
Leave(p, b, last) ==
    /\ SetPlugin(p, [b EXCEPT !.socket = None, !.attachment = None])
    /\ Reply(p, last \o <<Close(1000)>>)
    /\ toPage' = [toPage EXCEPT ![plugin[p].socket] = <<>>]

Free == {k \in Conns : /\ stage[k] = "closed" /\ ~Attached(k) /\ toPage[k] = <<>>
                       /\ \A p \in Pages : clients[p].conn # k
                       /\ \A c \in Calls : calls[c].conn # k}

(* openSocket, and onopen with the challenge. *)
Connect(p) ==
    /\ plugin[p].state = "idle"
    /\ \E k \in Free :
           /\ SetPlugin(p, [plugin[p] EXCEPT !.state = "challenging", !.socket = k])
           /\ IF Cardinality(Live(Conns)) >= 2 * MaxClients
              THEN /\ toPage' = [toPage EXCEPT ![k] = <<Close(1013)>>]
                   /\ UNCHANGED <<stage, toBroker>>
              ELSE /\ stage' = [stage EXCEPT ![k] = "challenge"]
                   /\ toBroker' = [toBroker EXCEPT ![k] = <<Frame("auth_challenge")>>]
                   /\ UNCHANGED toPage
    /\ UNCHANGED <<clients, pending, calls, mutex, unsynced, storeVars, faults>>

HandleAuthChallengeAck(p) ==
    /\ Waiting(p, {"challenging"}, {"auth_challenge_ack"})
    /\ SetPlugin(p, [plugin[p] EXCEPT !.state = "await_ack"])
    /\ Consume(p)
    /\ Reply(p, <<[type |-> "auth_response", page |-> p]>>)
    /\ UNCHANGED <<memVars, storeVars, faults>>

HandleHelloAck(p) ==
    /\ Waiting(p, {"challenging", "await_ack"}, {"hello_ack"})
    /\ IF plugin[p].state = "await_ack" /\ Head(toPage[plugin[p].socket]).accepted
       THEN /\ SetPlugin(p, [plugin[p] EXCEPT !.state = "connected"])
            /\ Consume(p)
            /\ UNCHANGED toBroker
       ELSE Leave(p, [plugin[p] EXCEPT !.state = "failed"], <<>>)
    /\ UNCHANGED <<memVars, storeVars, faults>>

(* A ping or a request before the authentication ends it for good. *)
FailAuthentication(p) ==
    /\ Waiting(p, {"challenging", "await_ack"}, {"ping", "request"})
    /\ Leave(p, [plugin[p] EXCEPT !.state = "failed"], <<>>)
    /\ UNCHANGED <<memVars, storeVars, faults>>

EventFrame(name) == [type |-> "event", name |-> name]
ResponseFrame(id) == [type |-> "response", id |-> id]

HandlePing(p) ==
    /\ Waiting(p, {"connected"}, {"ping"})
    /\ Consume(p)
    /\ Reply(p, <<EventFrame("bridge.pong")>>)
    /\ UNCHANGED <<memVars, storeVars, plugin, faults>>

(* handleRequest and dispatch: a query runs on while other frames come. *)
HandleRequest(p) ==
    /\ Waiting(p, {"connected"}, {"request"})
    /\ LET m == Head(toPage[plugin[p].socket])
       IN  \/ /\ m.method = "query"
              /\ SetPlugin(p, [plugin[p] EXCEPT !.running = @ \cup {m.id}])
              /\ UNCHANGED toBroker
           \/ /\ m.method = "select"
              /\ Reply(p, <<ResponseFrame(m.id)>>)
              /\ UNCHANGED plugin
           \/ /\ m.method = "attach"
              /\ SetPlugin(p, [plugin[p] EXCEPT !.attachment = m.slot])
              /\ Reply(p, (IF Announces THEN <<EventFrame("session.attached")>> ELSE <<>>)
                            \o <<ResponseFrame(m.id)>>)
    /\ Consume(p)
    /\ UNCHANGED <<memVars, storeVars, faults>>

(* The query ends; its answer goes to the socket the client has by then. *)
AnswerQuery(p, id) ==
    /\ id \in plugin[p].running
    /\ SetPlugin(p, [plugin[p] EXCEPT !.running = @ \ {id}])
    /\ IF plugin[p].socket # None THEN Reply(p, <<ResponseFrame(id)>>) ELSE UNCHANGED toBroker
    /\ UNCHANGED <<memVars, storeVars, toPage, faults>>

(* onclose: a policy close during the authentication is final. *)
HandleClose(p) ==
    /\ Waiting(p, {"challenging", "await_ack", "connected"}, {"close"})
    /\ SetPlugin(p, [plugin[p] EXCEPT !.socket = None, !.attachment = None,
                     !.state = IF @ # "connected" /\ Head(toPage[plugin[p].socket]).code = 1008
                               THEN "failed" ELSE "idle"])
    /\ toPage' = [toPage EXCEPT ![plugin[p].socket] = <<>>]
    /\ UNCHANGED <<memVars, storeVars, toBroker, faults>>

(* The handshake takes 5.5 s. *)
HandshakeTimeout(p) ==
    /\ plugin[p].state \in {"challenging", "await_ack"}
    /\ Fault
    /\ Leave(p, [plugin[p] EXCEPT !.state = "failed"], <<>>)
    /\ UNCHANGED <<memVars, storeVars>>

(* dispose: the trace is closed for good, or the Native Host has new       *)
(* credentials and the plugin starts over with them.                       *)
Dispose(p) ==
    /\ plugin[p].socket # None
    /\ Fault
    /\ \E state \in {"gone", "idle"} :
        Leave(p, [plugin[p] EXCEPT !.state = state, !.running = {}],
              IF plugin[p].state = "connected" THEN <<EventFrame("trace.closing")>> ELSE <<>>)
    /\ UNCHANGED <<memVars, storeVars>>

-----------------------------------------------------------------------------

BrokerStep(k) ==
    \/ AuthChallenge(k) \/ RefuseMessage(k) \/ AuthResponse(k) \/ HelloAck(k)
    \/ PeerClosed(k) \/ Response(k) \/ Event(k)

PageStep(p) ==
    \/ Connect(p) \/ HandleAuthChallengeAck(p) \/ HandleHelloAck(p) \/ FailAuthentication(p)
    \/ HandlePing(p) \/ HandleRequest(p) \/ HandleClose(p)

StoreStep(c) == StoreAttach(c) \/ StoreDetach(c) \/ StoreRemove(c) \/ StoreAlignment(c)

Next ==
    \/ \E k \in Conns : BrokerStep(k) \/ AuthResponseAfterClose(k) \/ AuthFails(k) \/ Lose(k)
    \/ \E p \in Pages : PageStep(p) \/ HandshakeTimeout(p) \/ Dispose(p)
    \/ \E p \in Pages, c \in Calls : AnswerQuery(p, c)
    \/ \E c \in Calls : Approved(c) \/ Denied(c) \/ Enter(c) \/ StoreStep(c) \/ StoreFails(c)
    \/ \E c \in Calls, p \in Pages : StartCall(c, p)
    \/ \E q \in pending : Timeout(q)
    \/ \E s \in Sessions : CreateSession(s)
    \/ Ping \/ Restart

Spec == Init /\ [][Next]_vars

(* Frames are handled, writes end, request timers fire, queries end, and   *)
(* assignmentMutex serves its waiters in order.                            *)
FairSpec ==
    /\ Spec
    /\ \A k \in Conns : WF_vars(BrokerStep(k))
    /\ \A p \in Pages : WF_vars(PageStep(p))
    /\ \A p \in Pages, c \in Calls : WF_vars(AnswerQuery(p, c))
    /\ \A c \in Calls : WF_vars(StoreStep(c)) /\ SF_vars(Enter(c))
    /\ WF_vars(\E q \in pending : Timeout(q))

-----------------------------------------------------------------------------
(* Properties. *)

(* A trace has at most one role in all sessions, roles belong to sessions  *)
(* that exist, and clients are listed with the roles of the store, unless  *)
(* an attach was stored whose target then changed: however attaches,       *)
(* detaches, removals, reconnects and restarts interleave.                 *)
RolesMatchStore ==
    /\ \A s, t \in Slots : given[s] = given[t] /\ given[s] # None => s = t
    /\ \A s \in Slots : given[s] # None => s[1] \in existing
    /\ unsynced \/ \A p \in Registered : clients[p].at = AssignmentIn(given, p)

(* The queries the page behind a socket has been sent and not answered.    *)
OwedTo(k) ==
    {i \in Calls : \/ \E n \in DOMAIN toPage[k] : toPage[k][n].type = "request"
                        /\ toPage[k][n].id = i /\ toPage[k][n].method = "query"
                 \/ \E p \in Registered : clients[p].conn = k /\ clients[p].query = i}

(* A request waits for an answer of the socket its client has now: a       *)
(* client that is replaced or gone leaves no request behind.  On that      *)
(* socket a trace runs one query at a time, also when the broker has       *)
(* stopped waiting for the first.                                          *)
RequestsFollowClients ==
    /\ \A q \in pending : clients[q.page].conn = q.conn /\ stage[q.conn] # "closed"
    /\ \A p \in Registered : Cardinality(OwedTo(clients[p].conn)) <= 1

(* A role is given only to a trace whose plugin has taken that role on the *)
(* socket of the approved snapshot, unless that socket is gone by then.    *)
RolesAreConfirmed ==
    [][\A s \in Slots, p \in Pages :
            given'[s] = p /\ given[s] # p /\ p \in Registered /\ ~unsynced'
                /\ plugin[p].socket = clients[p].conn
            => plugin[p].attachment = s]_vars

(* A call that is approved ends, whatever its trace does, and a query lock *)
(* ends with the answer, however late, or with the socket.                 *)
CallsAndLocksEnd ==
    /\ \A c \in Calls : calls[c].step = "queued" ~> calls[c].step = "done"
    /\ \A p \in Pages : clients[p].query # None ~> clients[p].query = None

(* The broker takes every event the plugin's protocol has. *)
EventsAreTaken == [][\A k \in Conns : Event(k) => stage'[k] = "open"]_vars
=============================================================================
