--------------------------- MODULE ConnectorSessions ---------------------------
(***************************************************************************)
(* Connector sessions: the broker's side (ConnectorBroker.accept and what  *)
(* it calls, src/src/connectors.mjs) and the page's side, the browser SDK  *)
(* (src/sdk/relu-web-connector.js), over WebSockets that may be lost.      *)
(*                                                                         *)
(* A page is known by its origin and client id, which the SDK replaces     *)
(* when it is told to reset; the broker remembers the page in a resume     *)
(* record.  The secret of a record and the page binding are both drawn     *)
(* when the record is made, so one number stands for them.                 *)
(***************************************************************************)
EXTENDS Naturals, Sequences, FiniteSets

CONSTANTS
    Pages,
    Contexts,           \* what getContext may return
    GuardOf,            \* [Contexts -> resource and execution guard projections]
    Strict,             \* the service guards with strict_context_version
    MaxSessions,        \* connectors.maxSessions
    MaxConns,           \* bound: sockets that exist at a time
    MaxFaults,          \* bound: losses, timeouts, expiries, restarts
    MaxChanges,         \* bound: context changes of the pages
    MaxBoth             \* bound: faults and changes together

Conns == 1..MaxConns
Idents == 1..(MaxFaults + 1)
Keys == Pages \X Idents         \* clientIndexKey
Bindings == Nat \ {0}
None == 0                       \* no secret, no socket

ASSUME SessionBounds ==
    /\ Contexts # {} /\ GuardOf \in [Contexts -> Nat]
    /\ Strict \in BOOLEAN
    /\ {MaxSessions, MaxConns, MaxFaults, MaxChanges, MaxBoth} \subseteq Nat

VARIABLES
    stage,      \* broker: where accept stands with each socket
    sessions,   \* broker: sessions and clientIndex
    records,    \* broker: resumeRecords
    bindings,   \* broker: bindings drawn so far
    toBroker,   \* frames on their way from the pages
    toPage,     \* frames on their way to the pages
    client,     \* pages: the SDK's state
    live,       \* pages: what getContext returns
    dirty,      \* pages: scheduleContextUpdate's timer runs
    snap,       \* the snapshot a tool call holds while it waits for approval
    faults, changes

brokerVars == <<stage, sessions, records, bindings>>
netVars == <<toBroker, toPage>>
pageVars == <<client, live, dirty>>
boundVars == <<faults, changes>>
vars == <<brokerVars, netVars, pageVars, snap, boundVars>>

Stages == {"closed", "init", "proof", "audit", "open"}
States == {"stopped", "idle", "await_challenge", "await_ack", "connected", "rejected"}
Sessions == [conn : Conns, binding : Bindings, generation : Nat \ {0},
             context : Contexts, version : Nat \ {0}]
NoSession == [conn |-> None]
Records == [binding : Bindings, generation : Nat \ {0}]
NoRecord == [binding |-> None]
Clients == [state : States, socket : Conns \cup {None}, ident : Idents,
            secret : Bindings \cup {None}, resets : 0..1, context : Contexts \cup {None}]
Snapshots == [key : Keys, session : Sessions, kind : {"action", "read"}, changed : BOOLEAN]
NoSnapshot == [kind |-> "none"]

Frames ==
    [type : {"auth_init", "auth_challenge", "request"}]
    \cup [type : {"auth_response"}, key : Keys, secret : Bindings \cup {None}, context : Contexts]
    \cup [type : {"context.update"}, context : Contexts]
    \cup [type : {"hello_ack"}, secret : Bindings]
    \cup [type : {"rejected"}, code : {"RESET_REQUIRED", "INVALID_MESSAGE"}]
    \cup [type : {"close"}, code : {1001, 1006, 1008, 1013, 4000, 4001}]

Live == {key \in Keys : sessions[key] # NoSession}
Remembered == {key \in Keys : records[key] # NoRecord}

(* The state is well formed; sessions and resume records keep their limits. *)
TypeOK ==
    /\ stage \in [Conns -> Stages]
    /\ sessions \in [Keys -> Sessions \cup {NoSession}]
    /\ records \in [Keys -> Records \cup {NoRecord}]
    /\ bindings \in Nat
    /\ toBroker \in [Conns -> Seq(Frames)] /\ toPage \in [Conns -> Seq(Frames)]
    /\ client \in [Pages -> Clients]
    /\ live \in [Pages -> Contexts] /\ dirty \in [Pages -> BOOLEAN]
    /\ snap \in Snapshots \cup {NoSnapshot}
    /\ faults \in 0..MaxFaults /\ changes \in 0..MaxChanges
    /\ Cardinality(Live) <= MaxSessions
    /\ Cardinality(Remembered) <= 2 * MaxSessions

Init ==
    /\ stage = [k \in Conns |-> "closed"]
    /\ sessions = [key \in Keys |-> NoSession]
    /\ records = [key \in Keys |-> NoRecord]
    /\ bindings = 0
    /\ toBroker = [k \in Conns |-> <<>>] /\ toPage = [k \in Conns |-> <<>>]
    /\ live = [p \in Pages |-> CHOOSE context \in Contexts : TRUE]
    /\ client = [p \in Pages |-> [state |-> "idle", socket |-> None, ident |-> 1,
                                 secret |-> None, resets |-> 0, context |-> None]]
    /\ dirty = [p \in Pages |-> FALSE]
    /\ snap = NoSnapshot
    /\ faults = 0 /\ changes = 0

-----------------------------------------------------------------------------
(* The network: frames arrive in order, unless the socket is lost. *)

Fault == /\ faults < MaxFaults /\ faults + changes < MaxBoth
         /\ faults' = faults + 1 /\ UNCHANGED changes
Frame(type) == [type |-> type]
Close(code) == [type |-> "close", code |-> code]
Attached(k) == \E p \in Pages : client[p].socket = k

(* What the pages have waiting when fs[k] is sent on each socket k. *)
Sent(fs) == [k \in Conns |-> IF Attached(k) THEN toPage[k] \o fs[k] ELSE <<>>]
On(ks, f) == [k \in Conns |-> IF k \in ks THEN <<f>> ELSE <<>>]

(* The broker's sockets ks are closed: close events run at once, so what   *)
(* the page still sends is ignored.                                        *)
Ignored(ks) == [k \in Conns |-> IF k \in ks THEN <<>> ELSE toBroker[k]]
Received(k) == [toBroker EXCEPT ![k] = Tail(@)]
Closed(ks) == [k \in Conns |-> IF k \in ks THEN "closed" ELSE stage[k]]
Without(ks) == [key \in Keys |-> IF sessions[key].conn \in ks THEN NoSession ELSE sessions[key]]

(* Both ends of a lost socket see it end, each when it notices. *)
Lose(k) ==
    /\ stage[k] # "closed" /\ Attached(k)
    /\ Fault
    /\ toBroker' = [toBroker EXCEPT ![k] = <<Close(1006)>>]
    /\ toPage' = [toPage EXCEPT ![k] = <<Close(1006)>>]
    /\ UNCHANGED <<brokerVars, pageVars, snap>>

-----------------------------------------------------------------------------
(* Snapshots: createSnapshot before the approval, assertSnapshot after it. *)

(* A snapshot is changed once its session ended, was replaced or changed   *)
(* what the call is about: the guard, or for a read the whole context.     *)
SameSubject(s, t, kind) ==
    /\ s # NoSession /\ t # NoSession
    /\ s.conn = t.conn /\ s.binding = t.binding
    /\ GuardOf[s.context] = GuardOf[t.context]
    /\ kind = "read" => s.version = t.version

SetSessions(ss) ==
    /\ sessions' = ss
    /\ snap' = IF snap = NoSnapshot THEN snap
               ELSE [snap EXCEPT !.changed = @ \/ ~SameSubject(sessions[snap.key], ss[snap.key], snap.kind)]

CreateSnapshot(key, kind) ==
    /\ key \in Live
    /\ snap = NoSnapshot
    /\ snap' = [key |-> key, session |-> sessions[key], kind |-> kind, changed |-> FALSE]
    /\ UNCHANGED <<brokerVars, netVars, pageVars, boundVars>>

(* Seeded fault: the generation is not compared. *)
AcceptedWithoutGeneration(s) ==
    LET now == sessions[s.key]
    IN  /\ now # NoSession
        /\ now.binding = s.session.binding /\ now.conn = s.session.conn
        /\ IF s.kind = "read" \/ Strict THEN now.version = s.session.version
           ELSE GuardOf[now.context] = GuardOf[s.session.context]

Accepted(s) ==
    LET now == sessions[s.key]
    IN  /\ now # NoSession
        /\ now.binding = s.session.binding /\ now.conn = s.session.conn
        /\ now.generation = s.session.generation
        /\ IF s.kind = "read" \/ Strict THEN now.version = s.session.version
           ELSE GuardOf[now.context] = GuardOf[s.session.context]

(* Bound: a page has one ping or request at a time to answer. *)
Asked(k) == \E i \in DOMAIN toPage[k] : toPage[k][i].type = "request"

(* The call goes on: the request is sent, or the context returned. *)
UseSnapshot ==
    /\ snap # NoSnapshot
    /\ snap' = NoSnapshot
    /\ IF snap.kind = "action" /\ Accepted(snap)
       THEN /\ ~Asked(snap.session.conn)
            /\ toPage' = Sent(On({snap.session.conn}, Frame("request")))
       ELSE UNCHANGED toPage
    /\ UNCHANGED <<brokerVars, toBroker, pageVars, boundVars>>

-----------------------------------------------------------------------------
(* The broker: accept, and one action per frame. *)

At(k, s, type) == stage[k] = s /\ toBroker[k] # <<>> /\ Head(toBroker[k]).type = type

AcceptAuthInit(k) ==
    /\ At(k, "init", "auth_init")
    /\ stage' = [stage EXCEPT ![k] = "proof"]
    /\ toBroker' = Received(k)
    /\ toPage' = Sent(On({k}, Frame("auth_challenge")))
    /\ UNCHANGED <<sessions, records, bindings, pageVars, snap, boundVars>>

(* failConnection of a page that is authenticated but has no session. *)
Refuse(k, code) ==
    /\ stage' = Closed({k})
    /\ toBroker' = Ignored({k})
    /\ toPage' = Sent([On({k}, Close(1008)) EXCEPT ![k] =
                        <<[type |-> "rejected", code |-> code]>> \o @])
    /\ UNCHANGED <<sessions, snap>>

(* Seeded fault: the previous socket of a page that reconnects stays open. *)
ReplacedQuietly(key) == {}

Replaced(key) == IF key \in Live THEN {sessions[key].conn} ELSE {}

(* Seeded fault: a session more than the limit is let in. *)
NoRoomAbove(key, binding) ==
    /\ ~(key \in Live /\ sessions[key].binding = binding)
    /\ Cardinality(Live) > MaxSessions

NoRoom(key, binding) ==
    /\ ~(key \in Live /\ sessions[key].binding = binding)
    /\ Cardinality(Live) >= MaxSessions

(* The record is stored before the session limit is looked at. *)
Register(k, key, record, context) ==
    /\ records' = [records EXCEPT ![key] = record]
    /\ IF NoRoom(key, record.binding)
       THEN Refuse(k, "INVALID_MESSAGE")
       ELSE /\ stage' = [Closed(Replaced(key)) EXCEPT ![k] = "audit"]
            /\ toBroker' = [Ignored(Replaced(key)) EXCEPT ![k] = Tail(@)]
            /\ toPage' = Sent(On(Replaced(key), Close(4001)))
            /\ SetSessions([sessions EXCEPT ![key] =
                    [conn |-> k, binding |-> record.binding, generation |-> record.generation,
                     context |-> context, version |-> 1]])

(* acceptAuthResponse and acceptHello. *)
AcceptHello(k) ==
    /\ At(k, "proof", "auth_response")
    /\ LET m == Head(toBroker[k])
           old == records[m.key]
           full == Cardinality(Remembered) >= 2 * MaxSessions
           Refused(code) == Refuse(k, code) /\ UNCHANGED <<records, bindings>>
       IN  \/ old # NoRecord /\ m.secret # old.binding /\ Refused("INVALID_MESSAGE")
           \/ old = NoRecord /\ m.secret # None /\ Refused("RESET_REQUIRED")
           \/ old = NoRecord /\ m.secret = None /\ full /\ Refused("INVALID_MESSAGE")
           \/ /\ old # NoRecord /\ m.secret = old.binding
              /\ Register(k, m.key, [old EXCEPT !.generation = @ + 1], m.context)
              /\ UNCHANGED bindings
           \/ /\ old = NoRecord /\ m.secret = None /\ ~full
              /\ bindings' = bindings + 1
              /\ Register(k, m.key, [binding |-> bindings + 1, generation |-> 1], m.context)
    /\ UNCHANGED <<pageVars, boundVars>>

(* The audit record of the session is written, or cannot be written. *)
SendHelloAck(k) ==
    /\ stage[k] = "audit"
    /\ stage' = [stage EXCEPT ![k] = "open"]
    /\ \E key \in Live :
        /\ sessions[key].conn = k
        /\ toPage' = Sent(On({k}, [type |-> "hello_ack", secret |-> sessions[key].binding]))
    /\ UNCHANGED <<sessions, records, bindings, toBroker, pageVars, snap, boundVars>>

BrokerCloses(ks, code) ==
    /\ stage' = Closed(ks)
    /\ SetSessions(Without(ks))
    /\ toBroker' = Ignored(ks)
    /\ toPage' = Sent(On(ks, Close(code)))

AuditFails(k) ==
    /\ stage[k] = "audit"
    /\ Fault
    /\ BrokerCloses({k}, 1008)
    /\ UNCHANGED <<records, bindings, pageVars>>

AuthTimeout(k) ==
    /\ stage[k] \in {"init", "proof"}
    /\ Fault
    /\ BrokerCloses({k}, 1008)
    /\ UNCHANGED <<records, bindings, pageVars>>

KeyOf(k) == CHOOSE key \in Live : sessions[key].conn = k

(* handleEvent of context.update. *)
ContextEvent(k) ==
    /\ At(k, "open", "context.update")
    /\ LET key == KeyOf(k)
           new == Head(toBroker[k]).context
           step == IF GuardOf[new] # GuardOf[sessions[key].context] THEN 1 ELSE 0
       IN  /\ SetSessions([sessions EXCEPT ![key].context = new, ![key].version = @ + 1,
                                           ![key].generation = @ + step])
           /\ records' = IF step = 0 THEN records
                         ELSE [records EXCEPT ![key].generation = sessions[key].generation + 1]
    /\ toBroker' = Received(k)
    /\ UNCHANGED <<stage, bindings, toPage, pageVars, boundVars>>

(* The close event of a socket that its page closed or that was lost. *)
PeerClosed(k) ==
    /\ stage[k] # "closed" /\ toBroker[k] # <<>> /\ Head(toBroker[k]).type = "close"
    /\ stage' = Closed({k})
    /\ SetSessions(Without({k}))
    /\ toBroker' = Ignored({k})
    /\ UNCHANGED <<records, bindings, toPage, pageVars, boundVars>>

(* ping: every 20 s; a session not heard of for 60 s is closed. *)
Ping ==
    /\ Live # {}
    /\ \A key \in Live : ~Asked(sessions[key].conn)
    /\ \E silent \in SUBSET {sessions[key].conn : key \in Live} :
        /\ IF silent = {} THEN UNCHANGED boundVars ELSE Fault
        /\ stage' = Closed(silent)
        /\ SetSessions(Without(silent))
        /\ toBroker' = Ignored(silent)
        /\ toPage' = Sent([k \in Conns |->
                IF k \in silent THEN <<Close(4000)>>
                ELSE IF \E key \in Live : sessions[key].conn = k THEN <<Frame("request")>>
                ELSE <<>>])
    /\ UNCHANGED <<records, bindings, pageVars>>

(* The resume record of a page that has been away for RESUME_TTL_MS; ping  *)
(* touches the records of the sessions.                                    *)
Expire(key) ==
    /\ key \in Remembered \ Live
    /\ Fault
    /\ records' = [records EXCEPT ![key] = NoRecord]
    /\ UNCHANGED <<stage, sessions, bindings, netVars, pageVars, snap>>

(* The daemon ends, in order or not, and is started again. *)
Restart ==
    /\ Fault
    /\ stage' = [k \in Conns |-> "closed"]
    /\ SetSessions([key \in Keys |-> NoSession])
    /\ records' = [key \in Keys |-> NoRecord]
    /\ toBroker' = [k \in Conns |-> <<>>]
    /\ toPage' = [k \in Conns |-> IF stage[k] = "closed" THEN toPage[k] ELSE Sent(On({k}, Close(1001)))[k]]
    /\ UNCHANGED <<bindings, pageVars>>

-----------------------------------------------------------------------------
(* The page. *)

Set(p, c) == client' = [client EXCEPT ![p] = c]
Waiting(p, states, types) ==
    LET k == client[p].socket
    IN  /\ client[p].state \in states /\ k # None
        /\ toPage[k] # <<>> /\ Head(toPage[k]).type \in types
Consume(p) == toPage' = [toPage EXCEPT ![client[p].socket] = Tail(@)]
Reply(p, f) == toBroker' = [toBroker EXCEPT ![client[p].socket] =
                                IF stage[client[p].socket] = "closed" THEN <<>> ELSE Append(@, f)]

(* The page closes its socket; what is on the way to it is not delivered. *)
Leave(p, c) ==
    /\ Set(p, [c EXCEPT !.socket = None, !.context = None])
    /\ Reply(p, Close(1006))
    /\ toPage' = [toPage EXCEPT ![client[p].socket] = <<>>]

Free == {k \in Conns : stage[k] = "closed" /\ ~Attached(k) /\ toPage[k] = <<>>}
OpenConns == {k \in Conns : stage[k] # "closed"}

(* connect: the context is taken before the socket opens. *)
Connect(p) ==
    /\ client[p].state = "idle"
    /\ Free # {}
    /\ LET k == CHOOSE i \in Free : \A j \in Free : i <= j
       IN  /\ Set(p, [client[p] EXCEPT !.state = "await_challenge", !.socket = k,
                                       !.context = live[p]])
           /\ IF Cardinality(OpenConns) >= 2 * MaxSessions
              THEN /\ toPage' = [toPage EXCEPT ![k] = <<Close(1013)>>]
                   /\ UNCHANGED <<stage, toBroker>>
              ELSE /\ stage' = [stage EXCEPT ![k] = "init"]
                   /\ toBroker' = [toBroker EXCEPT ![k] = <<Frame("auth_init")>>]
                   /\ UNCHANGED toPage
    /\ UNCHANGED <<sessions, records, bindings, live, dirty, snap, boundVars>>

HandleAuthChallenge(p) ==
    /\ Waiting(p, {"await_challenge"}, {"auth_challenge"})
    /\ Set(p, [client[p] EXCEPT !.state = "await_ack", !.context = None])
    /\ Consume(p)
    /\ Reply(p, [type |-> "auth_response", key |-> <<p, client[p].ident>>,
                 secret |-> client[p].secret, context |-> client[p].context])
    /\ UNCHANGED <<brokerVars, live, dirty, snap, boundVars>>

(* handleHelloAck *)
HelloAccepted(p) ==
    /\ Waiting(p, {"await_ack"}, {"hello_ack"})
    /\ Set(p, [client[p] EXCEPT !.state = "connected", !.resets = 0,
                                !.secret = Head(toPage[client[p].socket]).secret])
    /\ Consume(p)
    /\ UNCHANGED <<brokerVars, toBroker, live, dirty, snap, boundVars>>

(* Seeded fault: nothing reconnects after the reset. *)
HelloResetStops(p) ==
    /\ Waiting(p, {"await_ack"}, {"rejected"})
    /\ IF Head(toPage[client[p].socket]).code = "RESET_REQUIRED" /\ client[p].resets = 0
       THEN Leave(p, [client[p] EXCEPT !.state = "await_ack", !.resets = 1, !.secret = None,
                                       !.ident = @ + 1])
       ELSE Leave(p, [client[p] EXCEPT !.state = "rejected"])
    /\ UNCHANGED <<brokerVars, live, dirty, snap, boundVars>>

(* A reset makes a new client id, once in a row; anything else is final. *)
HelloRejected(p) ==
    /\ Waiting(p, {"await_ack"}, {"rejected"})
    /\ IF Head(toPage[client[p].socket]).code = "RESET_REQUIRED" /\ client[p].resets = 0
       THEN Leave(p, [client[p] EXCEPT !.state = "idle", !.resets = 1, !.secret = None,
                                       !.ident = @ + 1])
       ELSE Leave(p, [client[p] EXCEPT !.state = "rejected"])
    /\ UNCHANGED <<brokerVars, live, dirty, snap, boundVars>>

(* rejectProtocolMessage: only hello_ack is allowed before authentication. *)
RejectProtocolMessage(p) ==
    /\ Waiting(p, {"await_challenge", "await_ack"}, {"request"})
    /\ Leave(p, [client[p] EXCEPT !.state = "rejected"])
    /\ UNCHANGED <<brokerVars, live, dirty, snap, boundVars>>

(* A ping or a request; what its answer does is in OperationLedger. *)
HandleRequest(p) ==
    /\ Waiting(p, {"connected"}, {"request"})
    /\ Consume(p)
    /\ UNCHANGED <<brokerVars, toBroker, pageVars, snap, boundVars>>

(* The close event: a policy close during authentication is final. *)
HandleClose(p) ==
    /\ Waiting(p, {"await_challenge", "await_ack", "connected"}, {"close"})
    /\ Set(p, [client[p] EXCEPT !.socket = None, !.context = None,
                !.state = IF @ # "connected" /\ Head(toPage[client[p].socket]).code = 1008
                          THEN "rejected" ELSE "idle"])
    /\ toPage' = [toPage EXCEPT ![client[p].socket] = <<>>]
    /\ UNCHANGED <<brokerVars, toBroker, live, dirty, snap, boundVars>>

HandshakeTimeout(p) ==
    /\ client[p].state \in {"await_challenge", "await_ack"}
    /\ client[p].socket # None
    /\ Fault
    /\ Leave(p, [client[p] EXCEPT !.state = "idle"])
    /\ UNCHANGED <<brokerVars, live, dirty, snap>>

(* The page's socket is closed by its end, if there is one. *)
Hangup(p, c) ==
    IF client[p].socket = None THEN Set(p, c) /\ UNCHANGED netVars ELSE Leave(p, c)

(* stop: the timers end; the client id and the secret are kept. *)
Stop(p) ==
    /\ client[p].state # "stopped"
    /\ Fault
    /\ Hangup(p, [client[p] EXCEPT !.state = "stopped"])
    /\ dirty' = [dirty EXCEPT ![p] = FALSE]
    /\ UNCHANGED <<brokerVars, live, snap>>

(* start, after stop: a page that was rejected tries again. *)
Restarts(p) ==
    /\ client[p].state = "stopped"
    /\ Set(p, [client[p] EXCEPT !.state = "idle", !.resets = 0])
    /\ UNCHANGED <<brokerVars, netVars, live, dirty, snap, boundVars>>

(* The page is loaded again: a new connector, with a client id of its own. *)
Reload(p) ==
    /\ Fault
    /\ Hangup(p, [client[p] EXCEPT !.state = "idle", !.resets = 0, !.secret = None, !.ident = @ + 1])
    /\ dirty' = [dirty EXCEPT ![p] = FALSE]
    /\ UNCHANGED <<brokerVars, live, snap>>

ChangeContext(p, context) ==
    /\ changes < MaxChanges /\ faults + changes < MaxBoth
    /\ context # live[p]
    /\ live' = [live EXCEPT ![p] = context]
    /\ dirty' = [dirty EXCEPT ![p] = TRUE]
    /\ changes' = changes + 1
    /\ UNCHANGED <<brokerVars, netVars, client, snap, faults>>

(* updateContext, 100 ms later: nothing is sent unless connected. *)
UpdateContext(p) ==
    /\ dirty[p]
    /\ dirty' = [dirty EXCEPT ![p] = FALSE]
    /\ IF client[p].state = "connected"
       THEN Reply(p, [type |-> "context.update", context |-> live[p]])
       ELSE UNCHANGED toBroker
    /\ UNCHANGED <<brokerVars, toPage, client, live, snap, boundVars>>

-----------------------------------------------------------------------------

BrokerStep(k) ==
    \/ AcceptAuthInit(k) \/ AcceptHello(k) \/ SendHelloAck(k)
    \/ ContextEvent(k) \/ PeerClosed(k)

PageStep(p) ==
    \/ Connect(p) \/ HandleAuthChallenge(p) \/ HelloAccepted(p) \/ HelloRejected(p)
    \/ RejectProtocolMessage(p) \/ HandleRequest(p) \/ HandleClose(p) \/ UpdateContext(p)

Next ==
    \/ \E k \in Conns : BrokerStep(k) \/ AuditFails(k) \/ AuthTimeout(k) \/ Lose(k)
    \/ \E p \in Pages : PageStep(p) \/ HandshakeTimeout(p) \/ Stop(p) \/ Restarts(p) \/ Reload(p)
    \/ \E p \in Pages, context \in Contexts : ChangeContext(p, context)
    \/ \E key \in Keys : Expire(key)
    \/ \E key \in Keys, kind \in {"action", "read"} : CreateSnapshot(key, kind)
    \/ UseSnapshot \/ Ping \/ Restart

Spec == Init /\ [][Next]_vars

(* Frames are delivered and handled, a write of the audit log ends, and    *)
(* the page's reconnect timer fires.                                       *)
FairSpec ==
    /\ Spec
    /\ \A k \in Conns : WF_vars(BrokerStep(k))
    /\ \A p \in Pages : WF_vars(PageStep(p))

-----------------------------------------------------------------------------
(* Properties. *)

(* A snapshot that assertSnapshot accepts after the approval is about the  *)
(* same page, socket and guarded context as when it was taken, without a   *)
(* change and a change back in between; a read returns the context of now. *)
SnapshotsAreCurrent ==
    snap # NoSnapshot /\ Accepted(snap) =>
        /\ ~snap.changed
        /\ snap.kind = "read" => sessions[snap.key].context = snap.session.context

(* The broker's tables agree.  Each registered socket is that of exactly   *)
(* one session: a page that is replaced, refused or gone leaves no second  *)
(* socket that could answer.  The resume record of a session has its       *)
(* binding and generation, so a reconnect goes on from the generation the  *)
(* broker last used.                                                       *)
TablesAgree ==
    /\ \A k \in Conns :
        Cardinality({key \in Live : sessions[key].conn = k}) = IF stage[k] \in {"audit", "open"} THEN 1 ELSE 0
    /\ \A key \in Live :
        /\ key \in Remembered
        /\ records[key].binding = sessions[key].binding
        /\ records[key].generation = sessions[key].generation

(* When sockets are no longer lost, a page that is not stopped ends up     *)
(* connected with a session of its own, or is rejected for good.           *)
PagesSettle ==
    <>[](\A p \in Pages :
            \/ client[p].state \in {"rejected", "stopped"}
            \/ /\ client[p].state = "connected"
               /\ sessions[<<p, client[p].ident>>].conn = client[p].socket)

(* The SDK asserts that only hello_ack comes before authentication: the    *)
(* broker sends nothing else to a page that waits for it.  It does (README, *)
(* known divergences).                                                     *)
AckComesFirst ==
    \A p \in Pages : client[p].state = "await_ack" /\ toPage[client[p].socket] # <<>> =>
        Head(toPage[client[p].socket]).type \notin {"request"}
=============================================================================
