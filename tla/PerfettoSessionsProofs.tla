------------------------- MODULE PerfettoSessionsProofs -------------------------
(***************************************************************************)
(* Proofs about PerfettoSessions for any pages, sessions, calls, sockets   *)
(* and limits: type correctness with the limits of the broker, roles that  *)
(* are those of the store, one change of the store at a time, and requests *)
(* that follow the socket of their client; and, after them, that a role is *)
(* stored only when the plugin of the trace has taken it.                  *)
(*                                                                         *)
(* The inductive invariant has a part for each owner of state: which calls *)
(* are under the mutex and what is asked for them (CallsInv), which client *)
(* has which socket (ClientsInv), and where the request of a query is, on  *)
(* its way, with the plugin or answered, at one place at a time            *)
(* (QueriesInv).  Of a step it mostly matters only what it adds to the     *)
(* frames on their way: Forwards and Tells say so for the two directions,  *)
(* and the lemmas of the actions conclude with them.                       *)
(***************************************************************************)
EXTENDS PerfettoSessions, FiniteSetTheorems, SequenceTheorems, TLAPS

Stages == {"closed", "challenge", "response", "audit", "open"}
ClientRecords == [conn : Conns \cup {None}, at : Slots \cup {None},
                  restore : Slots \cup {None}, query : Calls \cup {None}]
PendingRecords == [id : Ids, page : Pages, conn : Conns]
CallRecords == [kind : Kinds \cup {"none"}, page : Pages \cup {None},
                step : {"idle", "approving", "queued", "asked", "writing", "done"},
                slot : Slots \cup {None}, conn : Conns \cup {None}]
PluginRecords == [state : {"idle", "challenging", "await_ack", "connected", "failed", "gone"},
                  socket : Conns \cup {None}, attachment : Slots \cup {None},
                  running : SUBSET Calls]

(* The frames on their way to the pages and to the broker. *)
Methods == {"attach", "select", "query"}
Requests == [type : {"request"}, id : Ids, method : Methods, slot : Slots \cup {None}]
PageFrames ==
    Requests \cup [type : {"auth_challenge_ack", "ping"}] \cup [type : {"close"}, code : Nat]
    \cup [type : {"hello_ack"}, accepted : {TRUE, FALSE}]
BrokerFrames ==
    [type : {"auth_challenge"}] \cup [type : {"auth_response"}, page : Pages]
    \cup [type : {"close"}, code : Nat] \cup [type : {"response"}, id : Ids]
    \cup [type : {"event"}, name : {"bridge.pong", "session.attached", "trace.closing"}]

(* The state is typed, with what a call has of page and role. *)
StageInv == stage \in [Conns -> Stages]
ClientTypes == clients \in [Pages -> ClientRecords]
CallTypes ==
    /\ pending \subseteq PendingRecords
    /\ calls \in [Calls -> CallRecords]
    /\ mutex \in Calls \cup {None}
    /\ \A c \in Calls : /\ calls[c].kind \notin {"none", "remove"} => calls[c].page \in Pages
                        /\ calls[c].kind \notin {"none", "query"} => calls[c].slot \in Slots
StoreTypes ==
    /\ existing \subseteq born /\ born \subseteq Sessions
    /\ given \in [Slots -> Pages \cup {None}]
PluginTypes == plugin \in [Pages -> PluginRecords]
OtherTypes == unsynced \in BOOLEAN /\ faults \in 0..MaxFaults

(* A query is asked for a call, and an attach names a role. *)
Sound(f) ==
    f.type = "request" =>
        /\ f.method = "query" => f.id \in Calls
        /\ f.method = "attach" => f.slot \in Slots

FramesInv ==
    /\ toPage \in [Conns -> Seq(PageFrames)]
    /\ toBroker \in [Conns -> Seq(BrokerFrames)]
    /\ \A k \in Conns : \A n \in DOMAIN toPage[k] : Sound(toPage[k][n])

TypeInv ==
    StageInv /\ ClientTypes /\ CallTypes /\ StoreTypes /\ PluginTypes /\ OtherTypes /\ FramesInv

(* The limits on sockets, on clients and on requests. *)
LiveInv == IsFiniteSet(Live(Conns)) /\ Cardinality(Live(Conns)) <= 2 * MaxClients
RegisteredInv == IsFiniteSet(Registered) /\ Cardinality(Registered) <= MaxClients
PendingInv == IsFiniteSet(pending) /\ Cardinality(pending) <= MaxPending
BoundsInv == LiveInv /\ RegisteredInv /\ PendingInv

(* The call is to change the store and waits for a plugin or writes: it is *)
(* the one that holds the mutex, and its session exists.                   *)
Changing(c) == calls[c].step \in {"asked", "writing"} /\ calls[c].kind # "query"

CallsInv ==
    /\ \A c \in Calls : Changing(c) <=> mutex = c
    /\ \A c \in Calls : Changing(c) => calls[c].slot[1] \in existing
    /\ \A c \in Calls : calls[c].step = "queued" => calls[c].kind # "query"
    /\ \A q \in pending : q.id \in Calls => calls[q.id].step = "asked"
    /\ \A q, r \in pending : q.id = r.id /\ q.id \in Calls => q = r

(* A client has a socket of its own from the audit record on, and requests *)
(* wait for the socket of their client.                                    *)
ClientsInv ==
    /\ \A p \in Registered : clients[p].conn # None
    /\ \A p, q \in Registered : clients[p].conn = clients[q].conn => p = q
    /\ \A k \in Conns : stage[k] \in {"audit", "open"} => \E p \in Pages : clients[p].conn = k
    /\ \A k \in Conns : stage[k] \in {"challenge", "response"} =>
            \A p \in Pages : clients[p].conn # k
    /\ \A q \in pending : clients[q.page].conn = q.conn /\ stage[q.conn] # "closed"

(* A request of a call is the n-th frame on its way to socket k; the calls *)
(* that are answered on the way back; those whose query runs in a page;    *)
(* and the steps before a call asks.                                       *)
Asking(k, n) == n \in DOMAIN toPage[k] /\ toPage[k][n].type = "request" /\ toPage[k][n].id \in Calls
Answered(k, i) == \E n \in DOMAIN toBroker[k] : toBroker[k][n].type = "response" /\ toBroker[k][n].id = i
Told == {i \in Calls : \E k \in Conns : \E n \in DOMAIN toBroker[k] :
                            toBroker[k][n].type = "response" /\ toBroker[k][n].id = i}
Running == {i \in Calls : \E p \in Pages : i \in plugin[p].running}
Served == Running \cup Told
Early == {"idle", "approving", "queued"}

(* A request of a call is at one place at a time, and while a query is on  *)
(* its way to a socket the client of that socket is locked with it.        *)
QueriesInv ==
    /\ \A k, l \in Conns, n, m \in Nat :
        Asking(k, n) /\ Asking(l, m) /\ toPage[k][n].id = toPage[l][m].id => k = l /\ n = m
    /\ \A k \in Conns, n \in Nat : Asking(k, n) =>
        /\ toPage[k][n].id \notin Served
        /\ calls[toPage[k][n].id].step \notin Early
        /\ stage[k] \notin {"challenge", "response"}
        /\ toPage[k][n].method = "query" =>
            \A p \in Registered : clients[p].conn = k => clients[p].query = toPage[k][n].id
    /\ \A c \in Served : calls[c].step \notin Early

-----------------------------------------------------------------------------
(* Frames. *)

(* Requests, and the hello_ack that lets a plugin in: the frames that are  *)
(* followed on their way.                                                  *)
Ack(f) == f.type = "hello_ack" /\ f.accepted
Mark(f) == f.type = "request" \/ Ack(f)

LEMMA PageFrameTypes ==
    /\ Frame("ping") \in PageFrames /\ Frame("auth_challenge_ack") \in PageFrames
    /\ \A code \in Nat : Close(code) \in PageFrames /\ ~Mark(Close(code))
    /\ \A b \in {TRUE, FALSE} : [type |-> "hello_ack", accepted |-> b] \in PageFrames
    /\ \A id \in Ids, m \in Methods, s \in Slots \cup {None} : Request(id, m, s) \in Requests
    /\ \A f \in PageFrames : f.type = "request" => f \in Requests
  BY DEF PageFrames, Requests, Frame, Close, Request, Mark, Ack

LEMMA BrokerFrameTypes ==
    /\ Frame("auth_challenge") \in BrokerFrames
    /\ \A code \in Nat : Close(code) \in BrokerFrames
    /\ \A p \in Pages : [type |-> "auth_response", page |-> p] \in BrokerFrames
    /\ \A id \in Ids : ResponseFrame(id) \in BrokerFrames
    /\ \A n \in {"bridge.pong", "session.attached", "trace.closing"} : EventFrame(n) \in BrokerFrames
    /\ \A f \in BrokerFrames : f.type = "response" => f.id \in Ids
    /\ \A f \in BrokerFrames : f.type = "auth_response" => f.page \in Pages
  BY DEF BrokerFrames, Frame, Close, ResponseFrame, EventFrame

(* What is on its way to the pages after a step: requests and hello_acks   *)
(* that were on their way before it, at most further ahead, and those of N. *)
Forwards(x, N) ==
    /\ x \in [Conns -> Seq(PageFrames)]
    /\ \E d \in [Conns -> Nat] : \A k \in Conns : \A n \in DOMAIN x[k] :
        Mark(x[k][n]) =>
            \/ x[k][n] \in N
            \/ n + d[k] \in DOMAIN toPage[k] /\ toPage[k][n + d[k]] = x[k][n]

LEMMA SentForwards ==
    ASSUME FramesInv, NEW fs \in [Conns -> Seq(PageFrames)], NEW N,
           \A k \in Conns : \A n \in DOMAIN fs[k] : Mark(fs[k][n]) => fs[k][n] \in N
    PROVE  Forwards(Sent(fs), N)
<1> DEFINE x == Sent(fs)
           d == [k \in Conns |-> 0]
<1>1. ASSUME NEW k \in Conns
      PROVE  /\ x[k] \in Seq(PageFrames)
             /\ \A n \in DOMAIN x[k] : Mark(x[k][n]) =>
                    \/ x[k][n] \in N
                    \/ n \in DOMAIN toPage[k] /\ toPage[k][n] = x[k][n]
  <2>1. CASE ~Attached(k)
    BY <2>1, EmptySeq DEF Sent
  <2>2. CASE Attached(k)
    <3>1. x[k] = toPage[k] \o fs[k] /\ toPage[k] \in Seq(PageFrames) /\ fs[k] \in Seq(PageFrames)
      BY <2>2 DEF Sent, FramesInv
    <3>2. x[k] \in Seq(PageFrames) /\ Len(x[k]) = Len(toPage[k]) + Len(fs[k])
          /\ \A i \in 1..(Len(toPage[k]) + Len(fs[k])) :
                x[k][i] = IF i <= Len(toPage[k]) THEN toPage[k][i] ELSE fs[k][i - Len(toPage[k])]
      <4> HIDE DEF x
      <4>1. /\ toPage[k] \o fs[k] \in Seq(PageFrames)
            /\ Len(toPage[k] \o fs[k]) = Len(toPage[k]) + Len(fs[k])
            /\ \A i \in 1..(Len(toPage[k]) + Len(fs[k])) : (toPage[k] \o fs[k])[i] =
                    IF i <= Len(toPage[k]) THEN toPage[k][i] ELSE fs[k][i - Len(toPage[k])]
        BY <3>1, ConcatProperties
      <4> QED BY <3>1, <4>1, Zenon
    <3>3. ASSUME NEW n \in DOMAIN x[k], Mark(x[k][n])
          PROVE  x[k][n] \in N \/ (n \in DOMAIN toPage[k] /\ toPage[k][n] = x[k][n])
      <4>1. n \in Nat /\ n \in 1..(Len(toPage[k]) + Len(fs[k])) /\ Len(toPage[k]) \in Nat
            /\ DOMAIN toPage[k] = 1..Len(toPage[k]) /\ DOMAIN fs[k] = 1..Len(fs[k]) /\ Len(fs[k]) \in Nat
        BY <3>1, <3>2, <3>3
      <4>2. CASE n <= Len(toPage[k])
        BY <4>1, <4>2, <3>2
      <4>3. CASE n > Len(toPage[k])
        <5>1. n - Len(toPage[k]) \in DOMAIN fs[k] /\ x[k][n] = fs[k][n - Len(toPage[k])]
          BY <4>1, <4>3, <3>2
        <5> QED BY <5>1, <3>3
      <4> QED BY <4>1, <4>2, <4>3
    <3> QED BY <3>2, <3>3
  <2> QED BY <2>1, <2>2
<1>2. x \in [Conns -> Seq(PageFrames)]
  BY <1>1 DEF Sent
<1>3. d \in [Conns -> Nat] /\ \A k \in Conns : d[k] = 0
  OBVIOUS
<1>4. ASSUME NEW k \in Conns, NEW n \in DOMAIN x[k], Mark(x[k][n])
      PROVE  x[k][n] \in N \/ (n + d[k] \in DOMAIN toPage[k] /\ toPage[k][n + d[k]] = x[k][n])
  <2>1. n \in Nat
    BY <1>1, <1>4
  <2>2. n + d[k] = n
    BY <2>1, <1>3
  <2> HIDE DEF x, d
  <2> QED BY <1>1, <1>4, <2>2, Zenon
<1> HIDE DEF x, d
<1>5. Forwards(x, N)
  BY <1>2, <1>3, <1>4, Zenon DEF Forwards
<1> QED BY <1>5 DEF x

LEMMA OnFrames ==
    ASSUME NEW ks, NEW f \in PageFrames
    PROVE  /\ On(ks, f) \in [Conns -> Seq(PageFrames)]
           /\ \A k \in Conns : \A n \in DOMAIN On(ks, f)[k] : k \in ks /\ n = 1 /\ On(ks, f)[k][n] = f
  BY DEF On

LEMMA CloseForwards ==
    ASSUME FramesInv, NEW ks, NEW code \in Nat
    PROVE  Forwards(Sent(On(ks, Close(code))), {})
<1>1. Close(code) \in PageFrames /\ ~Mark(Close(code))
  BY PageFrameTypes
<1> QED BY <1>1, OnFrames, SentForwards

LEMMA SameForwards ==
    ASSUME FramesInv PROVE Forwards(toPage, {})
<1> DEFINE d == [k \in Conns |-> 0]
<1>1. d \in [Conns -> Nat] /\ \A k \in Conns : d[k] = 0
  OBVIOUS
<1>2. ASSUME NEW k \in Conns, NEW n \in DOMAIN toPage[k]
      PROVE  n + d[k] = n
  BY <1>1, <1>2 DEF FramesInv
<1> HIDE DEF d
<1> QED BY <1>1, <1>2, Zenon DEF Forwards, FramesInv

(* The frames of a socket are dropped or replaced by one that asks nothing. *)
LEMMA ResetForwards ==
    ASSUME FramesInv, NEW k, NEW s \in Seq(PageFrames),
           \A n \in DOMAIN s : ~Mark(s[n])
    PROVE  Forwards([toPage EXCEPT ![k] = s], {})
<1> DEFINE d == [l \in Conns |-> 0]
           x == [toPage EXCEPT ![k] = s]
<1>1. d \in [Conns -> Nat] /\ \A l \in Conns : d[l] = 0
  OBVIOUS
<1>2. x \in [Conns -> Seq(PageFrames)] /\ \A l \in Conns : x[l] = IF l = k THEN s ELSE toPage[l]
  BY DEF FramesInv
<1>3. ASSUME NEW l \in Conns, NEW n \in DOMAIN x[l], Mark(x[l][n])
      PROVE  n + d[l] \in DOMAIN toPage[l] /\ toPage[l][n + d[l]] = x[l][n]
  <2>1. n + d[l] = n
    BY <1>1, <1>2, <1>3
  <2>2. x[l] = toPage[l]
    BY <1>2, <1>3
  <2> HIDE DEF d, x
  <2> QED BY <1>3, <2>1, <2>2
<1> HIDE DEF d, x
<1>4. Forwards(x, {})
  BY <1>1, <1>2, <1>3, Zenon DEF Forwards
<1> QED BY <1>4 DEF x

LEMMA TailForwards ==
    ASSUME FramesInv, NEW k \in Conns, toPage[k] # <<>>
    PROVE  Forwards([toPage EXCEPT ![k] = Tail(@)], {})
<1> DEFINE d == [l \in Conns |-> IF l = k THEN 1 ELSE 0]
           x == [toPage EXCEPT ![k] = Tail(@)]
<1>1. d \in [Conns -> Nat] /\ d[k] = 1 /\ \A l \in Conns : l # k => d[l] = 0
  OBVIOUS
<1>2. \A l \in Conns : x[l] = IF l = k THEN Tail(toPage[k]) ELSE toPage[l]
  BY DEF FramesInv
<1>3. /\ Tail(toPage[k]) \in Seq(PageFrames) /\ Len(Tail(toPage[k])) = Len(toPage[k]) - 1
      /\ \A i \in 1..Len(Tail(toPage[k])) : Tail(toPage[k])[i] = toPage[k][i + 1]
  <2>1. toPage[k] \in Seq(PageFrames)
    BY DEF FramesInv
  <2> QED BY <2>1, HeadTailProperties
<1>4. x \in [Conns -> Seq(PageFrames)]
  BY <1>3 DEF FramesInv
<1>5. ASSUME NEW l \in Conns, NEW n \in DOMAIN x[l]
      PROVE  n + d[l] \in DOMAIN toPage[l] /\ toPage[l][n + d[l]] = x[l][n]
  <2>1. CASE l = k
    <3>1. x[l] = Tail(toPage[k]) /\ n \in 1..Len(Tail(toPage[k])) /\ toPage[k] \in Seq(PageFrames)
      BY <1>2, <1>3, <1>5, <2>1 DEF FramesInv
    <3>2. n + d[l] = n + 1 /\ n + 1 \in 1..Len(toPage[k])
      BY <1>1, <1>3, <3>1, <2>1
    <3> HIDE DEF d, x
    <3> QED BY <1>3, <3>1, <3>2, <2>1
  <2>2. CASE l # k
    <3>1. x[l] = toPage[l]
      BY <1>2, <2>2
    <3>2. n + d[l] = n
      BY <1>1, <1>4, <2>2, <1>5
    <3> HIDE DEF d, x
    <3> QED BY <3>1, <3>2, <1>5
  <2> QED BY <2>1, <2>2
<1> HIDE DEF d, x
<1>6. Forwards(x, {})
  BY <1>1, <1>4, <1>5, Zenon DEF Forwards
<1> QED BY <1>6 DEF x

(* What is on its way to the broker after a step: answers that were on     *)
(* their way before it, and those of the requests I.                       *)
Tells(x, I) ==
    /\ x \in [Conns -> Seq(BrokerFrames)]
    /\ \A k \in Conns : \A n \in DOMAIN x[k] :
        x[k][n].type = "response" /\ x[k][n].id \in Calls => x[k][n].id \in I \/ Answered(k, x[k][n].id)

LEMMA OldTells ==
    ASSUME FramesInv, NEW x \in [Conns -> Seq(BrokerFrames)], NEW I,
           \A k \in Conns : \A n \in DOMAIN x[k] :
                \/ x[k][n].type = "response" /\ x[k][n].id \in Calls => x[k][n].id \in I
                \/ \E m \in DOMAIN toBroker[k] : toBroker[k][m] = x[k][n]
    PROVE  Tells(x, I)
<1>1. ASSUME NEW k \in Conns, NEW n \in DOMAIN x[k], x[k][n].type = "response", x[k][n].id \in Calls
      PROVE  x[k][n].id \in I \/ Answered(k, x[k][n].id)
  <2>1. CASE \E m \in DOMAIN toBroker[k] : toBroker[k][m] = x[k][n]
    BY <1>1, <2>1 DEF Answered
  <2> QED BY <1>1, <2>1
<1> QED BY <1>1 DEF Tells

LEMMA KeptTells ==
    ASSUME FramesInv, NEW x \in [Conns -> Seq(BrokerFrames)],
           \A k \in Conns : \A n \in DOMAIN x[k] :
                \/ x[k][n].type # "response"
                \/ \E m \in DOMAIN toBroker[k] : toBroker[k][m] = x[k][n]
    PROVE  Tells(x, {})
<1>1. ASSUME NEW k \in Conns, NEW n \in DOMAIN x[k], x[k][n].type = "response", x[k][n].id \in Calls
      PROVE  Answered(k, x[k][n].id)
  BY <1>1 DEF Answered
<1> QED BY <1>1 DEF Tells

LEMMA SameTells ==
    ASSUME FramesInv PROVE Tells(toBroker, {})
<1>1. toBroker \in [Conns -> Seq(BrokerFrames)]
  BY DEF FramesInv
<1> QED BY <1>1, KeptTells

LEMMA ExceptTells ==
    ASSUME FramesInv, NEW k, NEW s \in Seq(BrokerFrames), NEW I,
           \A n \in DOMAIN s : s[n].type = "response" /\ s[n].id \in Calls => s[n].id \in I
    PROVE  Tells([toBroker EXCEPT ![k] = s], I)
<1> DEFINE x == [toBroker EXCEPT ![k] = s]
<1>1. x \in [Conns -> Seq(BrokerFrames)] /\ \A l \in Conns : x[l] = IF l = k THEN s ELSE toBroker[l]
  BY DEF FramesInv
<1> HIDE DEF x
<1>2. Tells(x, I)
  BY <1>1, OldTells
<1> QED BY <1>2 DEF x

LEMMA TailOfBroker ==
    ASSUME FramesInv, NEW k \in Conns, toBroker[k] # <<>>
    PROVE  /\ Tail(toBroker[k]) \in Seq(BrokerFrames)
           /\ \A n \in DOMAIN Tail(toBroker[k]) :
                \E m \in DOMAIN toBroker[k] : toBroker[k][m] = Tail(toBroker[k])[n]
           /\ Head(toBroker[k]) \in BrokerFrames
           /\ 1 \in DOMAIN toBroker[k] /\ Head(toBroker[k]) = toBroker[k][1]
<1>1. toBroker[k] \in Seq(BrokerFrames)
  BY DEF FramesInv
<1>2. /\ Tail(toBroker[k]) \in Seq(BrokerFrames) /\ Len(Tail(toBroker[k])) = Len(toBroker[k]) - 1
      /\ Head(toBroker[k]) \in BrokerFrames
      /\ \A i \in 1..Len(Tail(toBroker[k])) : Tail(toBroker[k])[i] = toBroker[k][i + 1]
  BY <1>1, HeadTailProperties
<1>3. ASSUME NEW n \in DOMAIN Tail(toBroker[k])
      PROVE  \E m \in DOMAIN toBroker[k] : toBroker[k][m] = Tail(toBroker[k])[n]
  <2>1. n \in 1..Len(Tail(toBroker[k])) /\ n + 1 \in DOMAIN toBroker[k]
    BY <1>1, <1>2, <1>3
  <2> QED BY <2>1, <1>2
<1>4. 1 \in DOMAIN toBroker[k] /\ Head(toBroker[k]) = toBroker[k][1]
  BY <1>1
<1> QED BY <1>2, <1>3, <1>4

LEMMA ReceivedTells ==
    ASSUME FramesInv, NEW k \in Conns, toBroker[k] # <<>>
    PROVE  Tells(Received(k), {})
<1> DEFINE x == Received(k)
<1>8. /\ Tail(toBroker[k]) \in Seq(BrokerFrames)
      /\ \A n \in DOMAIN Tail(toBroker[k]) :
            \E m \in DOMAIN toBroker[k] : toBroker[k][m] = Tail(toBroker[k])[n]
  BY TailOfBroker, Zenon
<1>1. x \in [Conns -> Seq(BrokerFrames)]
      /\ \A l \in Conns : x[l] = IF l = k THEN Tail(toBroker[k]) ELSE toBroker[l]
  BY <1>8 DEF FramesInv, Received
<1> HIDE DEF x
<1>9. \A l \in Conns : \A n \in DOMAIN x[l] :
        \/ x[l][n].type # "response"
        \/ \E m \in DOMAIN toBroker[l] : toBroker[l][m] = x[l][n]
  BY <1>1, <1>8
<1>2. Tells(x, {})
  BY <1>1, <1>9, KeptTells, Zenon
<1> QED BY <1>2 DEF x

LEMMA IgnoredTells ==
    ASSUME FramesInv, NEW ks
    PROVE  Tells(Ignored(ks), {})
<1> DEFINE x == Ignored(ks)
<1>1. x \in [Conns -> Seq(BrokerFrames)]
      /\ \A l \in Conns : x[l] = IF l \in ks THEN <<>> ELSE toBroker[l]
  BY EmptySeq DEF FramesInv, Ignored
<1> HIDE DEF x
<1>9. \A l \in Conns : \A n \in DOMAIN x[l] :
        \/ x[l][n].type # "response"
        \/ \E m \in DOMAIN toBroker[l] : toBroker[l][m] = x[l][n]
  BY <1>1
<1>2. Tells(x, {})
  BY <1>1, <1>9, KeptTells, Zenon
<1> QED BY <1>2 DEF x

LEMMA RegisterTells ==
    ASSUME FramesInv, NEW ks, NEW k \in Conns, toBroker[k] # <<>>
    PROVE  Tells([Ignored(ks) EXCEPT ![k] = Tail(toBroker[k])], {})
<1> DEFINE x == [Ignored(ks) EXCEPT ![k] = Tail(toBroker[k])]
<1>8. /\ Tail(toBroker[k]) \in Seq(BrokerFrames)
      /\ \A n \in DOMAIN Tail(toBroker[k]) :
            \E m \in DOMAIN toBroker[k] : toBroker[k][m] = Tail(toBroker[k])[n]
  BY TailOfBroker, Zenon
<1>1. Tail(toBroker[k]) \in Seq(BrokerFrames)
  BY TailOfBroker
<1>2. x \in [Conns -> Seq(BrokerFrames)]
      /\ \A l \in Conns : x[l] = IF l = k THEN Tail(toBroker[k])
                                 ELSE IF l \in ks THEN <<>> ELSE toBroker[l]
  BY <1>1, EmptySeq DEF FramesInv, Ignored
<1> HIDE DEF x
<1>9. \A l \in Conns : \A n \in DOMAIN x[l] :
        \/ x[l][n].type # "response"
        \/ \E m \in DOMAIN toBroker[l] : toBroker[l][m] = x[l][n]
  <2>1. ASSUME NEW l \in Conns, NEW n \in DOMAIN x[l]
        PROVE  \E m \in DOMAIN toBroker[l] : toBroker[l][m] = x[l][n]
    <3>1. CASE l = k
      BY <1>2, <1>8, <2>1, <3>1
    <3>2. CASE l # k /\ l \in ks
      <4>1. x[l] = <<>>
        BY <1>2, <3>2
      <4> QED BY <4>1, <2>1
    <3>3. CASE l # k /\ l \notin ks
      BY <1>2, <2>1, <3>3
    <3> QED BY <3>1, <3>2, <3>3
  <2> QED BY <2>1
<1>3. Tells(x, {})
  BY <1>2, <1>9, KeptTells, Zenon
<1> QED BY <1>3 DEF x

LEMMA ReplyTells ==
    ASSUME FramesInv, NEW p, NEW fs \in Seq(BrokerFrames), NEW I, Reply(p, fs),
           \A n \in DOMAIN fs : fs[n].type = "response" /\ fs[n].id \in Calls => fs[n].id \in I
    PROVE  Tells(toBroker', I)
<1> DEFINE k == plugin[p].socket
           s == IF stage[k] = "closed" THEN <<>> ELSE toBroker[k] \o fs
<1>1. toBroker' = [toBroker EXCEPT ![k] = IF stage[k] = "closed" THEN <<>> ELSE @ \o fs]
  BY DEF Reply
<1>2. toBroker' \in [Conns -> Seq(BrokerFrames)]
      /\ \A l \in Conns : toBroker'[l] = IF l = k THEN s ELSE toBroker[l]
  BY <1>1, EmptySeq, ConcatProperties DEF FramesInv
<1>3. ASSUME NEW l \in Conns, NEW n \in DOMAIN toBroker'[l]
      PROVE  \/ /\ toBroker'[l][n].type = "response" /\ toBroker'[l][n].id \in Calls
                => toBroker'[l][n].id \in I
             \/ \E m \in DOMAIN toBroker[l] : toBroker[l][m] = toBroker'[l][n]
  <2>1. CASE l # k
    BY <1>2, <1>3, <2>1
  <2>2. CASE l = k /\ stage[k] = "closed"
    <3>1. toBroker'[l] = <<>>
      BY <1>2, <2>2
    <3> QED BY <3>1, <1>3
  <2>3. CASE l = k /\ stage[k] # "closed"
    <3>1. toBroker'[l] = toBroker[l] \o fs /\ toBroker[l] \in Seq(BrokerFrames)
      BY <1>2, <2>3 DEF FramesInv
    <3>2. /\ Len(toBroker[l] \o fs) = Len(toBroker[l]) + Len(fs)
          /\ toBroker[l] \o fs \in Seq(BrokerFrames)
          /\ \A i \in 1..(Len(toBroker[l]) + Len(fs)) : (toBroker[l] \o fs)[i] =
                IF i <= Len(toBroker[l]) THEN toBroker[l][i] ELSE fs[i - Len(toBroker[l])]
      BY <3>1, ConcatProperties
    <3>3. n \in 1..(Len(toBroker[l]) + Len(fs)) /\ Len(toBroker[l]) \in Nat /\ Len(fs) \in Nat
          /\ DOMAIN toBroker[l] = 1..Len(toBroker[l]) /\ DOMAIN fs = 1..Len(fs)
      BY <1>3, <3>1, <3>2
    <3>4. CASE n <= Len(toBroker[l])
      BY <3>1, <3>2, <3>3, <3>4
    <3>5. CASE n > Len(toBroker[l])
      <4>1. n - Len(toBroker[l]) \in DOMAIN fs /\ toBroker'[l][n] = fs[n - Len(toBroker[l])]
        BY <3>1, <3>2, <3>3, <3>5
      <4> QED BY <4>1
    <3> QED BY <3>3, <3>4, <3>5
  <2> QED BY <2>1, <2>2, <2>3
<1> QED BY <1>2, <1>3, OldTells

-----------------------------------------------------------------------------
(* Clients and calls. *)

(* Clients that keep their sockets; those that keep their queries. *)
SameSockets(cl) ==
    /\ cl \in [Pages -> ClientRecords]
    /\ \A p \in Pages : /\ clients[p] = NoClient => cl[p] = NoClient
                        /\ cl[p].conn = clients[p].conn

SameQueries(cl) == \A p \in Pages : cl[p].query = clients[p].query

LEMMA NoneFacts ==
    /\ None \notin Pages /\ None \notin Calls /\ None \notin Conns /\ None \notin Slots
    /\ None \notin Ids
    /\ \A c \in Calls : c \notin Conns
    /\ \A c \in Calls : c \in Ids
    /\ \A k \in Conns : k \in Ids
    /\ MaxClients \in Nat /\ MaxPending \in Nat /\ MaxFaults \in Nat
  BY PerfettoBounds DEF PerfettoBounds, Ids

LEMMA NoClientFields ==
    /\ NoClient.conn = None /\ NoClient.at = None /\ NoClient.restore = None /\ NoClient.query = None
    /\ NoClient \in ClientRecords
  BY DEF NoClient, ClientRecords

LEMMA EndedFields ==
    /\ Ended.step = "done" /\ Ended.kind = "none" /\ Ended.page = None /\ Ended.slot = None
    /\ Ended.conn = None /\ Ended \in CallRecords
    /\ NoCall.step = "idle" /\ NoCall.kind = "none" /\ NoCall.page = None /\ NoCall.slot = None
    /\ NoCall.conn = None /\ NoCall \in CallRecords
  BY DEF Ended, NoCall, CallRecords

LEMMA AssignmentType ==
    ASSUME NEW g, NEW p
    PROVE  AssignmentIn(g, p) \in Slots \cup {None}
<1>1. CASE \E s \in Slots : g[s] = p
  <2>1. (CHOOSE s \in Slots : g[s] = p) \in Slots
    BY <1>1, Zenon
  <2> QED BY <1>1, <2>1 DEF AssignmentIn
<1> QED BY <1>1 DEF AssignmentIn

LEMMA SynchronizedSame ==
    ASSUME ClientTypes, NEW g
    PROVE  /\ SameSockets(Synchronized(g)) /\ SameQueries(Synchronized(g))
           /\ \A p \in Registered : Synchronized(g)[p].at = AssignmentIn(g, p)
<1>1. ASSUME NEW p \in Pages
      PROVE  /\ Synchronized(g)[p] \in ClientRecords
             /\ clients[p] = NoClient => Synchronized(g)[p] = NoClient
             /\ Synchronized(g)[p].conn = clients[p].conn /\ Synchronized(g)[p].query = clients[p].query
             /\ p \in Registered => Synchronized(g)[p].at = AssignmentIn(g, p)
  <2>1. clients[p] \in ClientRecords
    BY DEF ClientTypes
  <2>2. CASE p \in Registered
    <3>1. PICK a \in Slots \cup {None} : a = AssignmentIn(g, p)
      BY AssignmentType
    <3>2. Synchronized(g)[p] = [clients[p] EXCEPT !.at = a]
      BY <2>2, <3>1 DEF Synchronized
    <3>3. clients[p] # NoClient
      BY <2>2 DEF Registered
    <3> QED BY <2>1, <3>1, <3>2, <3>3 DEF ClientRecords
  <2>3. CASE p \notin Registered
    <3>1. clients[p] = NoClient /\ Synchronized(g)[p] = NoClient
      BY <2>3 DEF Registered, Synchronized
    <3> QED BY <2>3, <3>1, NoClientFields
  <2> QED BY <2>2, <2>3
<1>2. Synchronized(g) \in [Pages -> ClientRecords]
  BY <1>1 DEF Synchronized
<1> QED BY <1>1, <1>2 DEF SameSockets, SameQueries, Registered

LEMMA SameSame ==
    ASSUME ClientTypes PROVE SameSockets(clients) /\ SameQueries(clients)
  BY DEF ClientTypes, SameSockets, SameQueries

LEMMA DroppedTypes ==
    ASSUME NEW ks, NEW cl \in [Pages -> ClientRecords]
    PROVE  Dropped(cl, ks) \in [Pages -> ClientRecords]
  BY NoClientFields DEF Dropped

LEMMA ClosedTypes ==
    ASSUME StageInv, NEW ks PROVE Closed(ks) \in [Conns -> Stages]
  BY DEF StageInv, Closed, Stages

LEMMA EndCallsTypes ==
    ASSUME CallTypes, NEW cs, EndCalls(cs), pending' \subseteq pending
    PROVE  /\ CallTypes'
           /\ \A c \in Calls : calls'[c] = IF c \in cs THEN Ended ELSE calls[c]
           /\ mutex' = IF mutex \in cs THEN None ELSE mutex
<1>1. /\ \A c \in Calls : calls'[c] = IF c \in cs THEN Ended ELSE calls[c]
      /\ calls' \in [Calls -> CallRecords]
  BY EndedFields DEF CallTypes, EndCalls
<1>2. mutex' = IF mutex \in cs THEN None ELSE mutex
  BY DEF EndCalls
<1> QED BY <1>1, <1>2, EndedFields DEF CallTypes

-----------------------------------------------------------------------------
(* Type correctness, with what each step puts on its way. *)

(* A step that answers the requests I and sends those of N. *)
Sends(N, I) == TypeInv' /\ Forwards(toPage', N) /\ Tells(toBroker', I)

LEMMA MovedFrames ==
    ASSUME FramesInv, NEW N, NEW I, Forwards(toPage', N), Tells(toBroker', I), \A f \in N : Sound(f)
    PROVE  FramesInv'
<1>1. ASSUME NEW k \in Conns, NEW n \in DOMAIN toPage'[k]
      PROVE  Sound(toPage'[k][n])
  <2>1. toPage'[k][n].type = "request" =>
            toPage'[k][n] \in N \/ \E m \in DOMAIN toPage[k] : toPage[k][m] = toPage'[k][n]
    BY DEF Forwards, Mark
  <2>2. CASE \E m \in DOMAIN toPage[k] : toPage[k][m] = toPage'[k][n]
    BY <2>2 DEF FramesInv
  <2>3. CASE toPage'[k][n] \in N
    BY <2>3
  <2> QED BY <2>1, <2>2, <2>3 DEF Sound
<1> QED BY <1>1 DEF FramesInv, Forwards, Tells

(* For a step that sends no request it is enough that the state is typed.  *)
LEMMA QuietSends ==
    ASSUME TypeInv, NEW I, Forwards(toPage', {}), Tells(toBroker', I),
           StageInv', ClientTypes', CallTypes', StoreTypes', PluginTypes', OtherTypes'
    PROVE  Sends({}, I)
<1>1. FramesInv'
  <2>1. PICK N : N = {}
    OBVIOUS
  <2>2. \A f \in N : Sound(f)
    BY <2>1
  <2>3. FramesInv /\ Forwards(toPage', N)
    BY <2>1 DEF TypeInv
  <2> QED BY <2>2, <2>3, MovedFrames, Zenon
<1> QED BY <1>1 DEF Sends, TypeInv

LEMMA StillFrames ==
    ASSUME TypeInv, UNCHANGED netVars
    PROVE  Forwards(toPage', {}) /\ Tells(toBroker', {})
<1>1. FramesInv /\ toPage' = toPage /\ toBroker' = toBroker
  BY DEF TypeInv, netVars
<1> QED BY <1>1, SameForwards, SameTells

LEMMA FaultTypes ==
    ASSUME OtherTypes, Fault PROVE faults' \in 0..MaxFaults
  BY NoneFacts DEF OtherTypes, Fault

LEMMA HandleClosesTypes ==
    ASSUME TypeInv, NEW ks, NEW ended, HandleCloses(ks, ended)
    PROVE  CallTypes' /\ Tells(toBroker', {})
<1>1. pending' \subseteq pending /\ \E cs : EndCalls(cs)
  BY DEF HandleCloses
<1>2. CallTypes'
  BY <1>1, EndCallsTypes DEF TypeInv
<1>3. FramesInv /\ toBroker' = Ignored(ks)
  BY DEF HandleCloses, TypeInv
<1> QED BY <1>2, <1>3, IgnoredTells

LEMMA HangupTypes ==
    ASSUME TypeInv, NEW ks, NEW code \in Nat, NEW cl \in [Pages -> ClientRecords], NEW ended,
           Hangup(ks, code, cl, ended)
    PROVE  StageInv' /\ ClientTypes' /\ CallTypes' /\ Forwards(toPage', {}) /\ Tells(toBroker', {})
<1>1. stage' = Closed(ks) /\ clients' = Dropped(cl, ks) /\ HandleCloses(ks, ended)
      /\ toPage' = Sent(On(ks, Close(code)))
  BY DEF Hangup
<1>2. FramesInv /\ StageInv
  BY DEF TypeInv
<1>3. StageInv'
  BY <1>1, <1>2, ClosedTypes DEF StageInv
<1>4. ClientTypes'
  BY <1>1, DroppedTypes DEF ClientTypes
<1>5. Forwards(toPage', {})
  BY <1>1, <1>2, CloseForwards
<1> QED BY <1>1, <1>3, <1>4, <1>5, HandleClosesTypes

LEMMA AtHead ==
    ASSUME FramesInv, NEW k \in Conns, NEW s, NEW type, At(k, s, type)
    PROVE  /\ toBroker[k] # <<>> /\ Head(toBroker[k]) \in BrokerFrames
           /\ Head(toBroker[k]).type = type
           /\ 1 \in DOMAIN toBroker[k] /\ Head(toBroker[k]) = toBroker[k][1]
<1>1. toBroker[k] # <<>> /\ Head(toBroker[k]).type = type
  BY DEF At
<1> QED BY <1>1, TailOfBroker

LEMMA AuthChallengeTypes ==
    ASSUME TypeInv, NEW k \in Conns, AuthChallenge(k) PROVE Sends({}, {})
<1>1. FramesInv
  BY DEF TypeInv
<1>2. Forwards(toPage', {})
  <2>1. On({k}, Frame("auth_challenge_ack")) \in [Conns -> Seq(PageFrames)]
        /\ \A l \in Conns : \A n \in DOMAIN On({k}, Frame("auth_challenge_ack"))[l] :
                ~Mark(On({k}, Frame("auth_challenge_ack"))[l][n])
    <3>1. Frame("auth_challenge_ack") \in PageFrames /\ ~Mark(Frame("auth_challenge_ack"))
      BY PageFrameTypes DEF Frame, Mark, Ack
    <3> QED BY <3>1, OnFrames
  <2> QED BY <1>1, <2>1, SentForwards DEF AuthChallenge
<1>3. Tells(toBroker', {})
  BY <1>1, AtHead, ReceivedTells DEF AuthChallenge
<1>4. StageInv'
  BY DEF TypeInv, StageInv, AuthChallenge, Stages
<1> QED BY <1>2, <1>3, <1>4, QuietSends
        DEF AuthChallenge, TypeInv, ClientTypes, CallTypes, StoreTypes, PluginTypes, OtherTypes, storeVars

LEMMA RefuseTypes ==
    ASSUME TypeInv, NEW k \in Conns, Refuse(k)
    PROVE  StageInv' /\ ClientTypes' /\ CallTypes' /\ Forwards(toPage', {}) /\ Tells(toBroker', {})
<1>1. FramesInv /\ StageInv
  BY DEF TypeInv
<1>2. stage' = Closed({k}) /\ toBroker' = Ignored({k})
      /\ toPage' = Sent([On({k}, Close(1008)) EXCEPT ![k] = <<[type |-> "hello_ack", accepted |-> FALSE]>> \o @])
      /\ UNCHANGED <<clients, pending, calls, mutex>>
  BY DEF Refuse
<1>3. StageInv' /\ Tells(toBroker', {})
  BY <1>1, <1>2, ClosedTypes, IgnoredTells DEF StageInv
<1>4. Forwards(toPage', {})
  <2> DEFINE nack == [type |-> "hello_ack", accepted |-> FALSE]
             fs == [On({k}, Close(1008)) EXCEPT ![k] = <<nack>> \o @]
  <2>1. /\ nack \in PageFrames /\ Close(1008) \in PageFrames
        /\ ~Mark(nack) /\ ~Mark(Close(1008))
    BY PageFrameTypes DEF Mark, Ack
  <2> HIDE DEF nack
  <2>2. PICK g : g = On({k}, Close(1008))
    OBVIOUS
  <2>3. g \in [Conns -> Seq(PageFrames)]
        /\ \A l \in Conns : g[l] = IF l = k THEN <<Close(1008)>> ELSE <<>>
    BY <2>1, <2>2 DEF On
  <2>4. PICK s : s = <<nack>> \o g[k]
    OBVIOUS
  <2>5. s \in Seq(PageFrames) /\ \A n \in DOMAIN s : s[n] \in {nack, Close(1008)}
    BY <2>1, <2>3, <2>4
  <2>6. fs = [g EXCEPT ![k] = s]
    <3>1. fs = [g EXCEPT ![k] = <<nack>> \o g[k]]
      BY <2>2
    <3> HIDE DEF fs
    <3> QED BY <3>1, <2>4
  <2> HIDE DEF fs
  <2>9. fs \in [Conns -> Seq(PageFrames)] /\ \A l \in Conns : fs[l] = IF l = k THEN s ELSE <<>>
    BY <2>3, <2>5, <2>6
  <2>7. \A l \in Conns : \A n \in DOMAIN fs[l] : ~Mark(fs[l][n])
    BY <2>1, <2>5, <2>9
  <2>8. Forwards(Sent(fs), {})
    BY <1>1, <2>9, <2>7, SentForwards
  <2> QED BY <1>2, <2>8 DEF fs, nack
<1> QED BY <1>2, <1>3, <1>4 DEF TypeInv, ClientTypes, CallTypes

LEMMA JoiningTypes ==
    ASSUME NEW k \in Conns, NEW p
    PROVE  /\ Joining(k, p) \in ClientRecords
           /\ Joining(k, p).conn = k /\ Joining(k, p).query = None
           /\ Joining(k, p).at = AssignmentIn(given, p)
           /\ Joining(k, p) # NoClient
<1>1. PICK a \in Slots \cup {None} : a = AssignmentIn(given, p)
  BY AssignmentType
<1>2. Joining(k, p) = [conn |-> k, at |-> a, restore |-> a, query |-> None]
  BY <1>1 DEF Joining
<1>3. k # None
  BY NoneFacts
<1> QED BY <1>1, <1>2, <1>3, NoClientFields DEF ClientRecords

LEMMA RegisterTypes ==
    ASSUME TypeInv, NEW k \in Conns, NEW p \in Pages, toBroker[k] # <<>>, Register(k, p)
    PROVE  StageInv' /\ ClientTypes' /\ CallTypes' /\ Forwards(toPage', {}) /\ Tells(toBroker', {})
<1>1. FramesInv /\ StageInv
  BY DEF TypeInv
<1>2. /\ stage' = [Closed(ConnOf(p)) EXCEPT ![k] = "audit"]
      /\ clients' = [clients EXCEPT ![p] = Joining(k, p)]
      /\ pending' \subseteq pending /\ \E cs : EndCalls(cs)
      /\ toBroker' = [Ignored(ConnOf(p)) EXCEPT ![k] = Tail(toBroker[k])]
      /\ toPage' = Sent(On(ConnOf(p), Close(4001)))
  BY DEF Register
<1>3. StageInv'
  BY <1>1, <1>2, ClosedTypes DEF StageInv, Stages
<1>4. ClientTypes'
  BY <1>2, JoiningTypes DEF TypeInv, ClientTypes
<1>5. CallTypes'
  BY <1>2, EndCallsTypes DEF TypeInv
<1>6. Forwards(toPage', {}) /\ Tells(toBroker', {})
  <2>1. Forwards(Sent(On(ConnOf(p), Close(4001))), {})
    BY <1>1, CloseForwards
  <2>2. Tells([Ignored(ConnOf(p)) EXCEPT ![k] = Tail(toBroker[k])], {})
    BY <1>1, RegisterTells
  <2>3. Forwards(toPage', {})
    BY <1>2, <2>1
  <2>4. Tells(toBroker', {})
    BY <1>2, <2>2
  <2> QED BY <2>3, <2>4
<1> QED BY <1>3, <1>4, <1>5, <1>6

LEMMA AfterCloseTypes ==
    ASSUME TypeInv, NEW k \in Conns, AuthResponseAfterClose(k) PROVE Sends({}, {})
<1>1. FramesInv /\ StageInv
  BY DEF TypeInv
<1> DEFINE p == Head(toBroker[k]).page
<1>2. p \in Pages
  BY <1>1, AtHead, BrokerFrameTypes DEF AuthResponseAfterClose
<1>3. /\ stage' = Closed(ConnOf(p) \cup {k})
      /\ clients' = [clients EXCEPT ![p] = Joining(k, p)]
      /\ pending' \subseteq pending /\ \E cs : EndCalls(cs)
      /\ toBroker' = Ignored(ConnOf(p) \cup {k})
      /\ toPage' = Sent(On(ConnOf(p), Close(4001)))
      /\ UNCHANGED <<unsynced, storeVars, plugin, faults>>
  BY DEF AuthResponseAfterClose
<1> HIDE DEF p
<1>4. StageInv'
  BY <1>1, <1>3, ClosedTypes DEF StageInv
<1>5. ClientTypes'
  BY <1>2, <1>3, JoiningTypes DEF TypeInv, ClientTypes
<1>6. CallTypes'
  BY <1>3, EndCallsTypes DEF TypeInv
<1>7. Forwards(toPage', {}) /\ Tells(toBroker', {})
  BY <1>1, <1>3, CloseForwards, IgnoredTells
<1>8. StoreTypes' /\ PluginTypes' /\ OtherTypes'
  BY <1>3 DEF TypeInv, StoreTypes, PluginTypes, OtherTypes, storeVars
<1> QED BY <1>4, <1>5, <1>6, <1>7, <1>8, QuietSends

LEMMA AuthResponseTypes ==
    ASSUME TypeInv, NEW k \in Conns, AuthResponse(k) PROVE Sends({}, {})
<1> DEFINE p == Head(toBroker[k]).page
<1>1. FramesInv /\ toBroker[k] # <<>> /\ p \in Pages
  BY AtHead, BrokerFrameTypes DEF AuthResponse, TypeInv
<1>2. (Refuse(k) \/ Register(k, p)) /\ UNCHANGED <<unsynced, storeVars, plugin, faults>>
  BY DEF AuthResponse
<1> HIDE DEF p
<1>3. StageInv' /\ ClientTypes' /\ CallTypes' /\ Forwards(toPage', {}) /\ Tells(toBroker', {})
  BY <1>1, <1>2, RefuseTypes, RegisterTypes
<1> QED BY <1>2, <1>3, QuietSends DEF TypeInv, StoreTypes, PluginTypes, OtherTypes, storeVars

LEMMA RefuseMessageTypes ==
    ASSUME TypeInv, NEW k \in Conns, RefuseMessage(k) PROVE Sends({}, {})
<1>1. StageInv' /\ ClientTypes' /\ CallTypes' /\ Forwards(toPage', {}) /\ Tells(toBroker', {})
  BY RefuseTypes DEF RefuseMessage
<1> QED BY <1>1, QuietSends DEF RefuseMessage, TypeInv, StoreTypes, PluginTypes, OtherTypes, storeVars

LEMMA AuthFailsTypes ==
    ASSUME TypeInv, NEW k \in Conns, AuthFails(k) PROVE Sends({}, {})
<1>1. Hangup({k}, 1008, clients, {}) /\ clients \in [Pages -> ClientRecords]
  BY DEF AuthFails, TypeInv, ClientTypes
<1>2. StageInv' /\ ClientTypes' /\ CallTypes' /\ Forwards(toPage', {}) /\ Tells(toBroker', {})
  BY <1>1, HangupTypes
<1> QED BY <1>2, QuietSends, FaultTypes DEF AuthFails, TypeInv, StoreTypes, PluginTypes, OtherTypes, storeVars

LEMMA PeerClosedTypes ==
    ASSUME TypeInv, NEW k \in Conns, PeerClosed(k) PROVE Sends({}, {})
<1>1. stage' = Closed({k}) /\ clients' = Dropped(clients, {k}) /\ HandleCloses({k}, {})
      /\ UNCHANGED <<unsynced, storeVars, toPage, plugin, faults>>
  BY DEF PeerClosed
<1>2. StageInv' /\ ClientTypes'
  BY <1>1, ClosedTypes, DroppedTypes DEF TypeInv, StageInv, ClientTypes
<1>3. CallTypes' /\ Tells(toBroker', {}) /\ Forwards(toPage', {})
  BY <1>1, HandleClosesTypes, SameForwards DEF TypeInv
<1> QED BY <1>1, <1>2, <1>3, QuietSends DEF TypeInv, StoreTypes, PluginTypes, OtherTypes, storeVars

LEMMA UnlockedSame ==
    ASSUME ClientTypes, NEW id
    PROVE  /\ Unlocked(id) \in [Pages -> ClientRecords]
           /\ \A p \in Pages : /\ clients[p] = NoClient => Unlocked(id)[p] = NoClient
                               /\ Unlocked(id)[p].conn = clients[p].conn
                               /\ Unlocked(id)[p].at = clients[p].at
                               /\ Unlocked(id)[p].query = IF clients[p].query = id THEN None ELSE clients[p].query
<1>1. ASSUME NEW p \in Pages
      PROVE  /\ Unlocked(id)[p] \in ClientRecords
             /\ clients[p] = NoClient => Unlocked(id)[p] = NoClient
             /\ Unlocked(id)[p].conn = clients[p].conn
             /\ Unlocked(id)[p].at = clients[p].at
             /\ Unlocked(id)[p].query = IF clients[p].query = id THEN None ELSE clients[p].query
  <2>1. clients[p] \in ClientRecords
    BY DEF ClientTypes
  <2>2. Unlocked(id)[p] = IF clients[p].query = id THEN [clients[p] EXCEPT !.query = None] ELSE clients[p]
    BY DEF Unlocked
  <2>3. clients[p] = NoClient => Unlocked(id)[p] = NoClient
    BY <2>2 DEF NoClient
  <2> QED BY <2>1, <2>2, <2>3 DEF ClientRecords
<1> QED BY <1>1 DEF Unlocked

LEMMA ResponseTypes ==
    ASSUME TypeInv, NEW k \in Conns, Response(k) PROVE Sends({}, {})
<1> DEFINE id == Head(toBroker[k]).id
           mine == {q \in pending : q.id = id /\ q.conn = k}
           call == {q.id : q \in mine} \cap Calls
<1>1. /\ clients' = Unlocked(id) /\ pending' = pending \ mine
      /\ \/ calls' = [c \in Calls |-> IF c \in call THEN [calls[c] EXCEPT !.step = "writing"] ELSE calls[c]]
            /\ UNCHANGED mutex
         \/ EndCalls(call)
      /\ toBroker' = Received(k)
      /\ UNCHANGED <<stage, unsynced, storeVars, toPage, plugin, faults>>
  BY DEF Response
<1>2. FramesInv /\ toBroker[k] # <<>>
  BY AtHead DEF TypeInv, Response
<1>3. ClientTypes'
  BY <1>1, UnlockedSame DEF TypeInv, ClientTypes
<1>4. CallTypes'
  <2>1. pending' \subseteq pending
    BY <1>1
  <2> HIDE DEF id, mine, call
  <2>2. CASE EndCalls(call)
    BY <2>1, <2>2, EndCallsTypes DEF TypeInv
  <2>3. CASE calls' = [c \in Calls |-> IF c \in call THEN [calls[c] EXCEPT !.step = "writing"] ELSE calls[c]]
             /\ UNCHANGED mutex
    BY <2>1, <2>3 DEF TypeInv, CallTypes, CallRecords
  <2> QED BY <1>1, <2>2, <2>3
<1>5. Forwards(toPage', {}) /\ Tells(toBroker', {})
  <2> HIDE DEF id, mine, call
  <2>1. Forwards(toPage', {})
    BY <1>1, <1>2, SameForwards
  <2>2. Tells(toBroker', {})
    BY <1>1, <1>2, ReceivedTells
  <2> QED BY <2>1, <2>2
<1>6. StageInv' /\ StoreTypes' /\ PluginTypes' /\ OtherTypes'
  BY <1>1 DEF TypeInv, StageInv, StoreTypes, PluginTypes, OtherTypes, storeVars
<1> QED BY <1>3, <1>4, <1>5, <1>6, QuietSends

LEMMA EventTypes ==
    ASSUME TypeInv, NEW k \in Conns, Event(k) PROVE Sends({}, {})
<1>1. FramesInv /\ toBroker[k] # <<>> /\ clients \in [Pages -> ClientRecords]
  BY AtHead DEF TypeInv, Event, ClientTypes
<1>2. StageInv' /\ ClientTypes' /\ CallTypes' /\ Forwards(toPage', {}) /\ Tells(toBroker', {})
  <2>1. CASE Hangup({k}, 1008, clients, {})
    BY <1>1, <2>1, HangupTypes
  <2>2. CASE toBroker' = Received(k) /\ UNCHANGED <<stage, clients, pending, calls, mutex, toPage>>
    <3>1. Forwards(toPage', {})
      BY <1>1, <2>2, SameForwards
    <3>2. Tells(toBroker', {})
      BY <1>1, <2>2, ReceivedTells
    <3> QED BY <2>2, <3>1, <3>2 DEF TypeInv, StageInv, ClientTypes, CallTypes
  <2> QED BY <2>1, <2>2 DEF Event
<1>3. StoreTypes' /\ PluginTypes' /\ OtherTypes'
  BY DEF Event, TypeInv, StoreTypes, PluginTypes, OtherTypes, storeVars
<1> QED BY <1>2, <1>3, QuietSends

LEMMA LoseTypes ==
    ASSUME TypeInv, NEW k \in Conns, Lose(k) PROVE Sends({}, {})
<1>1. /\ toBroker' = [toBroker EXCEPT ![k] = <<Close(1006)>>]
      /\ toPage' = [toPage EXCEPT ![k] = <<Close(1006)>>]
      /\ UNCHANGED <<memVars, storeVars, plugin>> /\ Fault
  BY DEF Lose
<1>2. FramesInv
  BY DEF TypeInv
<1>3. Close(1006) \in PageFrames /\ ~Mark(Close(1006)) /\ Close(1006) \in BrokerFrames
      /\ Close(1006).type # "response"
  BY PageFrameTypes, BrokerFrameTypes DEF Close
<1>4. Forwards(toPage', {})
  <2>1. PICK s : s = <<Close(1006)>>
    OBVIOUS
  <2>2. s \in Seq(PageFrames) /\ \A n \in DOMAIN s : ~Mark(s[n])
    BY <1>3, <2>1
  <2>3. Forwards([toPage EXCEPT ![k] = s], {})
    BY <1>2, <2>2, ResetForwards
  <2>4. toPage' = [toPage EXCEPT ![k] = s]
    BY <1>1, <2>1
  <2> QED BY <2>3, <2>4
<1>5. Tells(toBroker', {})
  <2>1. PICK s : s = <<Close(1006)>>
    OBVIOUS
  <2>2. s \in Seq(BrokerFrames) /\ \A n \in DOMAIN s : s[n].type # "response"
    BY <1>3, <2>1
  <2>3. PICK N : N = {}
    OBVIOUS
  <2>4. Tells([toBroker EXCEPT ![k] = s], N)
    BY <1>2, <2>2, ExceptTells
  <2>5. toBroker' = [toBroker EXCEPT ![k] = s]
    BY <1>1, <2>1
  <2> QED BY <2>3, <2>4, <2>5
<1>6. StageInv' /\ ClientTypes' /\ CallTypes' /\ StoreTypes' /\ PluginTypes'
  BY <1>1 DEF TypeInv, StageInv, ClientTypes, CallTypes, StoreTypes, PluginTypes, storeVars, memVars
<1>7. OtherTypes'
  BY <1>1, FaultTypes DEF TypeInv, OtherTypes, memVars
<1> QED BY <1>4, <1>5, <1>6, <1>7, QuietSends

LEMMA TimeoutTypes ==
    ASSUME TypeInv, NEW q, Timeout(q) PROVE Sends({}, {})
<1>1. pending' \subseteq pending /\ EndCalls({q.id} \cap Calls)
      /\ UNCHANGED <<stage, clients, unsynced, storeVars, netVars, plugin, faults>>
  BY DEF Timeout
<1>2. CallTypes'
  BY <1>1, EndCallsTypes DEF TypeInv
<1>3. Forwards(toPage', {}) /\ Tells(toBroker', {})
  BY <1>1, StillFrames
<1>4. StageInv' /\ ClientTypes' /\ StoreTypes' /\ PluginTypes' /\ OtherTypes'
  BY <1>1 DEF TypeInv, StageInv, ClientTypes, StoreTypes, PluginTypes, OtherTypes, storeVars
<1> QED BY <1>2, <1>3, <1>4, QuietSends

LEMMA RestartedTypes ==
    ASSUME TypeInv, Restarted, faults' \in 0..MaxFaults PROVE Sends({}, {})
<1>1. /\ stage' = [k \in Conns |-> "closed"]
      /\ clients' = [p \in Pages |-> NoClient]
      /\ pending' = {} /\ calls' = [c \in Calls |-> IF calls[c] = NoCall THEN NoCall ELSE Ended]
      /\ mutex' = None
      /\ unsynced' = FALSE
      /\ toBroker' = [k \in Conns |-> <<>>]
      /\ toPage' = Sent(On(Live(Conns), Close(1001)))
      /\ UNCHANGED <<storeVars, plugin>>
  BY DEF Restarted
<1>2. FramesInv
  BY DEF TypeInv
<1>3. StageInv' /\ ClientTypes'
  BY <1>1, NoClientFields DEF StageInv, ClientTypes, Stages
<1>4. CallTypes'
  <2>1. \A c \in Calls : calls'[c] \in {NoCall, Ended}
    BY <1>1
  <2>2. calls' \in [Calls -> CallRecords]
    BY <1>1, EndedFields
  <2> QED BY <1>1, <2>1, <2>2, EndedFields DEF CallTypes
<1>5. Forwards(toPage', {})
  BY <1>1, <1>2, CloseForwards
<1>6. Tells(toBroker', {})
  <2>1. toBroker' = Ignored(Conns)
    BY <1>1 DEF Ignored
  <2> QED BY <1>2, <2>1, IgnoredTells
<1>7. StoreTypes' /\ PluginTypes' /\ OtherTypes'
  BY <1>1 DEF TypeInv, StoreTypes, PluginTypes, OtherTypes, storeVars
<1> QED BY <1>3, <1>4, <1>5, <1>6, <1>7, QuietSends

LEMMA PingTypes ==
    ASSUME TypeInv, Ping PROVE Sends({}, {})
<1>1. faults' \in 0..MaxFaults
  BY FaultTypes DEF Ping, TypeInv
<1>2. CASE Restarted
  BY <1>1, <1>2, RestartedTypes
<1>3. CASE ~Restarted
  <2>1. PICK silent :
            /\ stage' = Closed(silent)
            /\ clients' = Dropped(clients, silent)
            /\ HandleCloses(silent, {})
            /\ toPage' = Sent([k \in Conns |->
                    IF k \in silent THEN <<Close(4000)>>
                    ELSE IF \E p \in Registered : clients[p].conn = k THEN <<Frame("ping")>>
                    ELSE <<>>])
            /\ UNCHANGED <<unsynced, storeVars, plugin>>
    BY <1>3 DEF Ping
  <2>2. StageInv' /\ ClientTypes'
    BY <2>1, ClosedTypes, DroppedTypes DEF TypeInv, StageInv, ClientTypes
  <2>3. CallTypes' /\ Tells(toBroker', {})
    BY <2>1, HandleClosesTypes
  <2>4. Forwards(toPage', {})
    <3> DEFINE fs == [k \in Conns |->
                    IF k \in silent THEN <<Close(4000)>>
                    ELSE IF \E p \in Registered : clients[p].conn = k THEN <<Frame("ping")>>
                    ELSE <<>>]
    <3>1. /\ Close(4000) \in PageFrames /\ Frame("ping") \in PageFrames
          /\ ~Mark(Close(4000)) /\ ~Mark(Frame("ping"))
      BY PageFrameTypes DEF Frame, Mark, Ack
    <3>2. \A k \in Conns : fs[k] \in {<<Close(4000)>>, <<Frame("ping")>>, <<>>}
      OBVIOUS
    <3>3. \A k \in Conns : fs[k] \in Seq(PageFrames) /\ \A n \in DOMAIN fs[k] : ~Mark(fs[k][n])
      <4> HIDE DEF fs
      <4> TAKE k \in Conns
      <4>1. CASE fs[k] = <<Close(4000)>>
        BY <3>1, <4>1
      <4>2. CASE fs[k] = <<Frame("ping")>>
        BY <3>1, <4>2
      <4>3. CASE fs[k] = <<>>
        BY <4>3
      <4> QED BY <3>2, <4>1, <4>2, <4>3
    <3>4. fs \in [Conns -> Seq(PageFrames)]
      BY <3>3
    <3> HIDE DEF fs
    <3>5. Forwards(Sent(fs), {})
      BY <3>3, <3>4, SentForwards DEF TypeInv
    <3> QED BY <2>1, <3>5 DEF fs
  <2>5. StoreTypes' /\ PluginTypes' /\ OtherTypes'
    BY <1>1, <2>1 DEF TypeInv, StoreTypes, PluginTypes, OtherTypes, storeVars
  <2> QED BY <2>2, <2>3, <2>4, <2>5, QuietSends
<1> QED BY <1>2, <1>3

LEMMA RestartTypes ==
    ASSUME TypeInv, Restart PROVE Sends({}, {})
  BY RestartedTypes, FaultTypes DEF Restart, TypeInv

LEMMA CreateSessionTypes ==
    ASSUME TypeInv, NEW s \in Sessions, CreateSession(s) PROVE Sends({}, {})
<1>1. Forwards(toPage', {}) /\ Tells(toBroker', {})
  BY StillFrames DEF CreateSession
<1>2. StoreTypes'
  BY DEF CreateSession, TypeInv, StoreTypes
<1>3. StageInv' /\ ClientTypes' /\ CallTypes' /\ PluginTypes' /\ OtherTypes'
  BY DEF CreateSession, TypeInv, StageInv, ClientTypes, CallTypes, PluginTypes, OtherTypes, memVars
<1> QED BY <1>1, <1>2, <1>3, QuietSends

(* What StartCall records of a call. *)
LEMMA StartCallRecord ==
    ASSUME TypeInv, NEW c \in Calls, NEW p \in Pages, StartCall(c, p)
    PROVE  \E kind \in Kinds, page \in Pages \cup {None}, slot \in Slots \cup {None}, conn \in Conns \cup {None} :
            /\ calls[c] = NoCall
            /\ calls' = [calls EXCEPT ![c] =
                    [kind |-> kind, step |-> "approving", page |-> page, slot |-> slot, conn |-> conn]]
            /\ kind # "remove" => page \in Pages
            /\ kind # "query" => slot \in Slots
            /\ UNCHANGED <<stage, clients, pending, mutex, unsynced, storeVars, netVars, plugin, faults>>
<1>1. PICK kind \in {"attach", "detach", "remove", "select", "query"}, page \in {p, None},
           slot \in Slots \cup {None} :
        /\ Starts(c, kind, page, slot)
        /\ kind # "remove" => page \in Pages
        /\ kind # "query" => slot \in Slots
  BY DEF StartCall
<1>2. (IF page = None THEN None ELSE clients[page].conn) \in Conns \cup {None}
  BY <1>1 DEF TypeInv, ClientTypes, ClientRecords
<1>3. PICK conn \in Conns \cup {None} : conn = IF page = None THEN None ELSE clients[page].conn
  BY <1>2
<1>4. /\ calls[c] = NoCall /\ kind \in Kinds
      /\ calls' = [calls EXCEPT ![c] =
                [kind |-> kind, step |-> "approving", page |-> page, slot |-> slot, conn |-> conn]]
      /\ UNCHANGED <<stage, clients, pending, mutex, unsynced, storeVars, netVars, plugin, faults>>
  BY <1>1, <1>3 DEF Starts
<1> QED BY <1>1, <1>4

LEMMA StartCallTypes ==
    ASSUME TypeInv, NEW c \in Calls, NEW p \in Pages, StartCall(c, p) PROVE Sends({}, {})
<1>1. PICK kind \in Kinds, page \in Pages \cup {None}, slot \in Slots \cup {None}, conn \in Conns \cup {None} :
            /\ calls[c] = NoCall
            /\ calls' = [calls EXCEPT ![c] =
                    [kind |-> kind, step |-> "approving", page |-> page, slot |-> slot, conn |-> conn]]
            /\ kind # "remove" => page \in Pages
            /\ kind # "query" => slot \in Slots
            /\ UNCHANGED <<stage, clients, pending, mutex, unsynced, storeVars, netVars, plugin, faults>>
  BY StartCallRecord
<1>2. CallTypes'
  <2>1. [kind |-> kind, step |-> "approving", page |-> page, slot |-> slot, conn |-> conn] \in CallRecords
    BY DEF CallRecords
  <2>2. calls' \in [Calls -> CallRecords]
    BY <1>1, <2>1 DEF TypeInv, CallTypes
  <2> QED BY <1>1, <2>2 DEF TypeInv, CallTypes
<1>3. Forwards(toPage', {}) /\ Tells(toBroker', {})
  BY <1>1, StillFrames
<1>4. StageInv' /\ ClientTypes' /\ StoreTypes' /\ PluginTypes' /\ OtherTypes'
  BY <1>1 DEF TypeInv, StageInv, ClientTypes, StoreTypes, PluginTypes, OtherTypes, storeVars
<1> QED BY <1>2, <1>3, <1>4, QuietSends

LEMMA CanAskFacts ==
    ASSUME TypeInv, NEW p \in Pages, NEW method, CanAsk(p, method)
    PROVE  /\ clients[p].conn \in Conns /\ stage[clients[p].conn] # "closed"
           /\ ConnOf(p) = {clients[p].conn} /\ clients[p] # NoClient
           /\ method = "query" => clients[p].query = None
           /\ Cardinality(pending) < MaxPending
<1>1. ConnOf(p) # {} /\ (method = "query" => clients[p].query = None) /\ Cardinality(pending) < MaxPending
  BY DEF CanAsk
<1>2. PICK k : k \in ConnOf(p)
  BY <1>1
<1>3. k = clients[p].conn /\ k # None /\ stage[k] # "closed"
  BY <1>2 DEF ConnOf, Live
<1>4. k \in Conns /\ ConnOf(p) = {k}
  BY <1>3 DEF ConnOf, Live, TypeInv, ClientTypes, ClientRecords
<1> QED BY <1>1, <1>3, <1>4, NoClientFields

LEMMA AskTypes ==
    ASSUME TypeInv, NEW c \in Calls, NEW method \in Methods, calls[c].page \in Pages,
           method = "attach" => calls[c].slot \in Slots,
           CanAsk(calls[c].page, method), Ask(c, method)
    PROVE  /\ ClientTypes' /\ Forwards(toPage', {Request(c, method, calls[c].slot)})
           /\ Sound(Request(c, method, calls[c].slot))
           /\ pending' \subseteq PendingRecords
           /\ calls' = [calls EXCEPT ![c].step = "asked"]
           /\ calls' \in [Calls -> CallRecords]
           /\ \A d \in Calls : calls'[d].kind = calls[d].kind /\ calls'[d].page = calls[d].page
                               /\ calls'[d].slot = calls[d].slot
<1> DEFINE p == calls[c].page
<1>1. /\ pending' = pending \cup {[id |-> c, page |-> p, conn |-> clients[p].conn]}
      /\ calls' = [calls EXCEPT ![c].step = "asked"]
      /\ clients' = IF method = "query" THEN [clients EXCEPT ![p].query = c] ELSE clients
      /\ toPage' = Sent(On(ConnOf(p), Request(c, method, calls[c].slot)))
  BY DEF Ask, Asked
<1>2. p \in Pages /\ clients[p].conn \in Conns
  BY CanAskFacts
<1>3. ClientTypes'
  BY <1>1, <1>2 DEF TypeInv, ClientTypes, ClientRecords
<1>4. pending' \subseteq PendingRecords
  BY <1>1, <1>2, NoneFacts DEF TypeInv, CallTypes, PendingRecords
<1>5. calls' \in [Calls -> CallRecords]
      /\ \A d \in Calls : calls'[d].kind = calls[d].kind /\ calls'[d].page = calls[d].page
                          /\ calls'[d].slot = calls[d].slot
  BY <1>1 DEF TypeInv, CallTypes, CallRecords
<1>6. PICK f : f = Request(c, method, calls[c].slot)
  OBVIOUS
<1>7. f \in PageFrames /\ f.id = c /\ f.method = method /\ f.slot = calls[c].slot
  <2>1. calls[c].slot \in Slots \cup {None}
    BY DEF TypeInv, CallTypes, CallRecords
  <2>2. f \in Requests
    BY <1>6, <2>1, PageFrameTypes, NoneFacts
  <2> QED BY <1>6, <2>2 DEF PageFrames, Request
<1>8. Sound(f)
  BY <1>7 DEF Sound
<1>9. Forwards(toPage', {f})
  <2>1. FramesInv
    BY DEF TypeInv
  <2>2. /\ On(ConnOf(p), f) \in [Conns -> Seq(PageFrames)]
        /\ \A k \in Conns : \A n \in DOMAIN On(ConnOf(p), f)[k] : On(ConnOf(p), f)[k][n] \in {f}
    BY <1>7, OnFrames
  <2> HIDE DEF p
  <2>3. Forwards(Sent(On(ConnOf(p), f)), {f})
    BY <2>1, <2>2, SentForwards
  <2> QED BY <1>1, <1>6, <2>3
<1> QED BY <1>1, <1>3, <1>4, <1>5, <1>6, <1>8, <1>9

LEMMA AskSends ==
    ASSUME TypeInv, NEW c \in Calls, NEW method \in Methods, calls[c].page \in Pages,
           method = "attach" => calls[c].slot \in Slots,
           CanAsk(calls[c].page, method), Ask(c, method), mutex' \in Calls \cup {None},
           UNCHANGED <<stage, unsynced, storeVars, toBroker, plugin, faults>>
    PROVE  Sends({Request(c, method, calls[c].slot)}, {})
<1>1. PICK N : N = {Request(c, method, calls[c].slot)}
  OBVIOUS
<1>2. Forwards(toPage', N) /\ \A f \in N : Sound(f)
  BY <1>1, AskTypes
<1>3. FramesInv /\ Tells(toBroker', {})
  BY SameTells DEF TypeInv
<1>4. FramesInv'
  <2>1. PICK I : I = {}
    OBVIOUS
  <2>2. Tells(toBroker', I)
    BY <1>3, <2>1
  <2> QED BY <1>2, <1>3, <2>2, MovedFrames, Zenon
<1>5. ClientTypes' /\ CallTypes'
  BY AskTypes DEF TypeInv, CallTypes
<1>6. StageInv' /\ StoreTypes' /\ PluginTypes' /\ OtherTypes'
  BY DEF TypeInv, StageInv, StoreTypes, PluginTypes, OtherTypes, storeVars
<1> QED BY <1>1, <1>2, <1>3, <1>4, <1>5, <1>6 DEF Sends, TypeInv

LEMMA QueryPage ==
    ASSUME TypeInv, NEW c \in Calls
    PROVE  /\ calls[c].kind \in {"attach", "detach", "select", "query"} => calls[c].page \in Pages
           /\ calls[c].kind \in {"attach", "detach", "select", "remove"} => calls[c].slot \in Slots
           /\ calls[c] \in CallRecords
  BY DEF TypeInv, CallTypes

LEMMA ApprovedTypes ==
    ASSUME TypeInv, CallsInv, NEW c \in Calls, Approved(c)
    PROVE  \/ /\ Ask(c, "query") /\ CanAsk(calls[c].page, "query") /\ calls[c].page \in Pages
              /\ calls[c].kind = "query" /\ UNCHANGED mutex
              /\ Sends({Request(c, "query", calls[c].slot)}, {})
           \/ /\ Sends({}, {}) /\ UNCHANGED <<clients, pending, toPage>>
              /\ \/ EndCalls({c})
                 \/ /\ UNCHANGED mutex /\ calls' = [calls EXCEPT ![c].step = "queued"]
                    /\ calls[c].kind # "query"
<1>1. UNCHANGED <<stage, unsynced, storeVars, toBroker, plugin, faults>>
  BY DEF Approved
<1>2. CASE /\ calls[c].kind = "query" /\ CanAsk(calls[c].page, "query")
           /\ Ask(c, "query") /\ UNCHANGED mutex
  <2>1. calls[c].page \in Pages /\ mutex' \in Calls \cup {None}
    BY <1>2, QueryPage DEF TypeInv, CallTypes
  <2>2. "query" \in Methods
    BY DEF Methods
  <2> QED BY <1>1, <1>2, <2>1, <2>2, AskSends
<1>3. CASE EndCalls({c}) /\ UNCHANGED <<clients, pending, toPage>>
  <2>1. CallTypes'
    BY <1>3, EndCallsTypes DEF TypeInv
  <2>2. Forwards(toPage', {}) /\ Tells(toBroker', {})
    BY <1>1, <1>3, StillFrames DEF netVars
  <2>3. StageInv' /\ ClientTypes' /\ StoreTypes' /\ PluginTypes' /\ OtherTypes'
    BY <1>1, <1>3 DEF TypeInv, StageInv, ClientTypes, StoreTypes, PluginTypes, OtherTypes, storeVars
  <2> QED BY <1>3, <2>1, <2>2, <2>3, QuietSends
<1>4. CASE /\ calls' = [calls EXCEPT ![c].step = "queued"] /\ calls[c].kind # "query"
           /\ UNCHANGED <<clients, pending, mutex, toPage>>
  <2>1. CallTypes'
    BY <1>4 DEF TypeInv, CallTypes, CallRecords
  <2>2. Forwards(toPage', {}) /\ Tells(toBroker', {})
    BY <1>1, <1>4, StillFrames DEF netVars
  <2>3. StageInv' /\ ClientTypes' /\ StoreTypes' /\ PluginTypes' /\ OtherTypes'
    BY <1>1, <1>4 DEF TypeInv, StageInv, ClientTypes, StoreTypes, PluginTypes, OtherTypes, storeVars
  <2> QED BY <1>4, <2>1, <2>2, <2>3, QuietSends
<1>5. CASE /\ calls[c].kind # "query"
           /\ calls' = [calls EXCEPT ![c] = IF @.kind # "detach" \/ Holds(c)
                                            THEN [@ EXCEPT !.step = "queued"] ELSE Ended]
           /\ UNCHANGED <<clients, pending, mutex, toPage>>
           /\ calls[c].step = "approving"
  <2>1. CASE calls[c].kind # "detach" \/ Holds(c)
    <3>1. calls' = [calls EXCEPT ![c].step = "queued"]
      BY <1>5, <2>1 DEF TypeInv, CallTypes
    <3> QED BY <1>4, <1>5, <3>1
  <2>2. CASE ~(calls[c].kind # "detach" \/ Holds(c)) /\ mutex # c
    <3>1. calls' = [calls EXCEPT ![c] = Ended]
      BY <1>5, <2>2 DEF TypeInv, CallTypes
    <3>2. EndCalls({c})
      BY <1>5, <2>2, <3>1 DEF TypeInv, CallTypes, EndCalls
    <3> QED BY <1>3, <1>5, <3>2
  <2>3. mutex # c
    BY <1>5 DEF CallsInv, Changing
  <2> QED BY <2>1, <2>2, <2>3
<1> QED BY <1>2, <1>3, <1>5 DEF Approved

LEMMA EnterTypes ==
    ASSUME TypeInv, NEW c \in Calls, Enter(c)
    PROVE  /\ Turn(c)
           /\ \/ /\ MayEnter(c) /\ mutex' = c /\ calls[c].kind \in {"attach", "select"}
                 /\ Ask(c, calls[c].kind) /\ CanAsk(calls[c].page, calls[c].kind) /\ calls[c].page \in Pages
                 /\ Sends({Request(c, calls[c].kind, calls[c].slot)}, {})
              \/ /\ Sends({}, {}) /\ UNCHANGED <<clients, pending, toPage>>
                 /\ \/ EndCalls({c})
                    \/ /\ MayEnter(c) /\ mutex' = c /\ calls[c].kind \notin {"attach", "select"}
                       /\ calls' = [calls EXCEPT ![c].step = "writing"]
<1>1. UNCHANGED <<stage, unsynced, storeVars, toBroker, plugin, faults>> /\ Turn(c)
  BY DEF Enter
<1>2. CASE MayEnter(c) /\ mutex' = c /\ calls[c].kind \in {"attach", "select"} /\ Ask(c, calls[c].kind)
  <2>1. calls[c].page \in Pages /\ mutex' \in Calls \cup {None} /\ calls[c].slot \in Slots
    BY <1>2, QueryPage
  <2>2. CanAsk(calls[c].page, calls[c].kind)
    BY <1>2 DEF MayEnter
  <2>3. calls[c].kind \in Methods
    BY <1>2 DEF Methods
  <2> QED BY <1>1, <1>2, <2>1, <2>2, <2>3, AskSends
<1>3. CASE EndCalls({c}) /\ UNCHANGED <<clients, pending, toPage>>
  <2>1. CallTypes'
    BY <1>3, EndCallsTypes DEF TypeInv
  <2>2. Forwards(toPage', {}) /\ Tells(toBroker', {})
    BY <1>1, <1>3, StillFrames DEF netVars
  <2>3. StageInv' /\ ClientTypes' /\ StoreTypes' /\ PluginTypes' /\ OtherTypes'
    BY <1>1, <1>3 DEF TypeInv, StageInv, ClientTypes, StoreTypes, PluginTypes, OtherTypes, storeVars
  <2> QED BY <1>1, <1>3, <2>1, <2>2, <2>3, QuietSends
<1>4. CASE /\ MayEnter(c) /\ mutex' = c /\ calls[c].kind \notin {"attach", "select"}
           /\ calls' = [calls EXCEPT ![c].step = "writing"]
           /\ UNCHANGED <<clients, pending, toPage>>
  <2>1. CallTypes'
    BY <1>4 DEF TypeInv, CallTypes, CallRecords
  <2>2. Forwards(toPage', {}) /\ Tells(toBroker', {})
    BY <1>1, <1>4, StillFrames DEF netVars
  <2>3. StageInv' /\ ClientTypes' /\ StoreTypes' /\ PluginTypes' /\ OtherTypes'
    BY <1>1, <1>4 DEF TypeInv, StageInv, ClientTypes, StoreTypes, PluginTypes, OtherTypes, storeVars
  <2> QED BY <1>1, <1>4, <2>1, <2>2, <2>3, QuietSends
<1> QED BY <1>1, <1>2, <1>3, <1>4 DEF Enter

LEMMA EndedTypes ==
    ASSUME TypeInv, NEW c \in Calls, EndCalls({c}),
           UNCHANGED <<stage, clients, pending, unsynced, storeVars, netVars, plugin, faults>>
    PROVE  Sends({}, {})
<1>1. CallTypes'
  BY EndCallsTypes DEF TypeInv
<1>2. Forwards(toPage', {}) /\ Tells(toBroker', {})
  BY StillFrames
<1>3. StageInv' /\ ClientTypes' /\ StoreTypes' /\ PluginTypes' /\ OtherTypes'
  BY DEF TypeInv, StageInv, ClientTypes, StoreTypes, PluginTypes, OtherTypes, storeVars
<1> QED BY <1>1, <1>2, <1>3, QuietSends

LEMMA AttachedToTypes ==
    ASSUME StoreTypes, NEW slot, NEW p \in Pages \cup {None}
    PROVE  AttachedTo(slot, p) \in [Slots -> Pages \cup {None}]
  BY DEF StoreTypes, AttachedTo

LEMMA StoreAttachTypes ==
    ASSUME TypeInv, NEW c \in Calls, StoreAttach(c) PROVE Sends({}, {})
<1>1. given' = AttachedTo(calls[c].slot, calls[c].page) /\ UNCHANGED <<existing, born, plugin, faults>>
  BY DEF StoreAttach
<1>2. StoreTypes'
  <2>1. calls[c].page \in Pages \cup {None}
    BY QueryPage DEF CallRecords
  <2> QED BY <1>1, <2>1, AttachedToTypes DEF TypeInv, StoreTypes
<1>3. PluginTypes' /\ OtherTypes'
  <2>1. unsynced' = TRUE \/ unsynced' = FALSE
    BY DEF StoreAttach
  <2> QED BY <1>1, <2>1 DEF TypeInv, PluginTypes, OtherTypes
<1>4. StageInv' /\ ClientTypes' /\ CallTypes' /\ Forwards(toPage', {}) /\ Tells(toBroker', {})
  <2>1. CASE Holds(c)
    <3>1. PICK ks, g, cl : Hangup(ks, 4002, cl, {c}) /\ cl = Synchronized(g)
      BY <2>1 DEF StoreAttach
    <3>2. cl \in [Pages -> ClientRecords]
      BY <3>1, SynchronizedSame DEF TypeInv, SameSockets
    <3> QED BY <3>1, <3>2, HangupTypes
  <2>2. CASE ~Holds(c)
    <3>1. EndCalls({c}) /\ UNCHANGED <<stage, clients, pending, netVars>>
      BY <2>2 DEF StoreAttach
    <3>2. CallTypes'
      BY <3>1, EndCallsTypes DEF TypeInv
    <3> QED BY <3>1, <3>2, StillFrames DEF TypeInv, StageInv, ClientTypes
  <2> QED BY <2>1, <2>2
<1> QED BY <1>2, <1>3, <1>4, QuietSends

LEMMA StoreDetachTypes ==
    ASSUME TypeInv, NEW c \in Calls, StoreDetach(c) PROVE Sends({}, {})
<1> DEFINE g == [given EXCEPT ![calls[c].slot] = None]
<1>1. /\ given' = g
      /\ Hangup(Live({calls[c].conn}), 4002, Synchronized(g), {c})
      /\ unsynced' = FALSE
      /\ UNCHANGED <<existing, born, plugin, faults>>
  BY DEF StoreDetach
<1>2. Synchronized(g) \in [Pages -> ClientRecords]
  BY SynchronizedSame DEF TypeInv, SameSockets
<1>4. StoreTypes'
  <2>1. given \in [Slots -> Pages \cup {None}] /\ existing \subseteq born /\ born \subseteq Sessions
    BY DEF TypeInv, StoreTypes
  <2>2. g \in [Slots -> Pages \cup {None}]
    BY <2>1
  <2> HIDE DEF g
  <2> QED BY <1>1, <2>1, <2>2 DEF StoreTypes
<1> HIDE DEF g
<1>3. StageInv' /\ ClientTypes' /\ CallTypes' /\ Forwards(toPage', {}) /\ Tells(toBroker', {})
  BY <1>1, <1>2, HangupTypes
<1>5. PluginTypes' /\ OtherTypes'
  <2>1. unsynced' = TRUE \/ unsynced' = FALSE
    BY DEF StoreDetach
  <2>2. UNCHANGED <<plugin, faults>>
    BY <1>1
  <2> QED BY <2>1, <2>2 DEF TypeInv, PluginTypes, OtherTypes
<1> QED BY <1>3, <1>4, <1>5, QuietSends

LEMMA StoreRemoveTypes ==
    ASSUME TypeInv, NEW c \in Calls, StoreRemove(c) PROVE Sends({}, {})
<1>1. PICK g, ks : /\ g = [s \in Slots |-> IF s[1] = calls[c].slot[1] THEN None ELSE given[s]]
                   /\ given' = g /\ existing' = existing \ {calls[c].slot[1]}
                   /\ Hangup(ks, 4002, Synchronized(g), {c})
                   /\ unsynced' = FALSE
                   /\ UNCHANGED <<born, plugin, faults>>
  BY DEF StoreRemove
<1>2. Synchronized(g) \in [Pages -> ClientRecords]
  BY SynchronizedSame DEF TypeInv, SameSockets
<1>3. StageInv' /\ ClientTypes' /\ CallTypes' /\ Forwards(toPage', {}) /\ Tells(toBroker', {})
  BY <1>1, <1>2, HangupTypes
<1>4. StoreTypes'
  BY <1>1 DEF TypeInv, StoreTypes
<1>5. PluginTypes' /\ OtherTypes'
  <2>1. unsynced' = TRUE \/ unsynced' = FALSE
    BY DEF StoreRemove
  <2>2. UNCHANGED <<plugin, faults>>
    BY <1>1
  <2> QED BY <2>1, <2>2 DEF TypeInv, PluginTypes, OtherTypes
<1> QED BY <1>3, <1>4, <1>5, QuietSends

LEMMA StoreFailsTypes ==
    ASSUME TypeInv, NEW c \in Calls, StoreFails(c) PROVE Sends({}, {})
<1>1. PICK ks : Hangup(ks, 1011, clients, {c}) /\ UNCHANGED <<unsynced, storeVars, plugin>> /\ Fault
  BY DEF StoreFails
<1>2. clients \in [Pages -> ClientRecords]
  BY DEF TypeInv, ClientTypes
<1>3. StageInv' /\ ClientTypes' /\ CallTypes' /\ Forwards(toPage', {}) /\ Tells(toBroker', {})
  BY <1>1, <1>2, HangupTypes
<1>4. StoreTypes' /\ PluginTypes' /\ OtherTypes'
  BY <1>1, FaultTypes DEF TypeInv, StoreTypes, PluginTypes, OtherTypes, storeVars
<1> QED BY <1>3, <1>4, QuietSends

(* The plugin's steps.  They start no query unless a request asks for it.  *)
LEMMA SetPluginTypes ==
    ASSUME PluginTypes, NEW p \in Pages, NEW b \in PluginRecords, SetPlugin(p, b)
    PROVE  /\ PluginTypes'
           /\ b.running \subseteq plugin[p].running => Running' \subseteq Running
<1>1. \A r \in Pages : plugin'[r] = IF r = p THEN b ELSE plugin[r]
  BY DEF PluginTypes, SetPlugin
<1>2. PluginTypes'
  BY DEF PluginTypes, SetPlugin
<1> QED BY <1>1, <1>2 DEF Running

LEMMA PluginSends ==
    ASSUME TypeInv, NEW I, UNCHANGED <<memVars, storeVars, faults>>,
           PluginTypes', Forwards(toPage', {}), Tells(toBroker', I)
    PROVE  Sends({}, I)
<1>1. StageInv' /\ ClientTypes' /\ CallTypes' /\ StoreTypes' /\ OtherTypes'
  BY DEF TypeInv, StageInv, ClientTypes, CallTypes, StoreTypes, OtherTypes, memVars, storeVars
<1> QED BY <1>1, QuietSends

LEMMA WaitingFacts ==
    ASSUME TypeInv, NEW p \in Pages, NEW states, NEW types, Waiting(p, states, types)
    PROVE  /\ plugin[p] \in PluginRecords /\ plugin[p].state \in states
           /\ plugin[p].socket \in Conns /\ toPage[plugin[p].socket] # <<>>
           /\ toPage[plugin[p].socket] \in Seq(PageFrames)
           /\ Head(toPage[plugin[p].socket]) \in PageFrames
           /\ Head(toPage[plugin[p].socket]).type \in types
           /\ 1 \in DOMAIN toPage[plugin[p].socket]
           /\ Head(toPage[plugin[p].socket]) = toPage[plugin[p].socket][1]
<1>1. plugin[p] \in PluginRecords
  BY DEF TypeInv, PluginTypes
<1>2. plugin[p].socket \in Conns /\ toPage[plugin[p].socket] # <<>>
      /\ plugin[p].state \in states /\ Head(toPage[plugin[p].socket]).type \in types
  BY <1>1 DEF Waiting, PluginRecords
<1>3. toPage[plugin[p].socket] \in Seq(PageFrames)
  BY <1>2 DEF TypeInv, FramesInv
<1> QED BY <1>1, <1>2, <1>3

LEMMA ConsumeForwards ==
    ASSUME TypeInv, NEW p \in Pages, NEW states, NEW types, Waiting(p, states, types), Consume(p)
    PROVE  Forwards(toPage', {})
<1>1. PICK k \in Conns : k = plugin[p].socket /\ toPage[k] # <<>>
  BY WaitingFacts
<1>2. toPage' = [toPage EXCEPT ![k] = Tail(@)]
  BY <1>1 DEF Consume
<1>3. FramesInv
  BY DEF TypeInv
<1>4. Forwards([toPage EXCEPT ![k] = Tail(@)], {})
  BY <1>1, <1>3, TailForwards
<1> QED BY <1>2, <1>4

LEMMA QuietReply ==
    ASSUME FramesInv, NEW p, NEW fs \in Seq(BrokerFrames), Reply(p, fs),
           \A n \in DOMAIN fs : fs[n].type # "response"
    PROVE  Tells(toBroker', {})
<1>1. PICK I : I = {}
  OBVIOUS
<1>2. Tells(toBroker', I)
  BY ReplyTells
<1> QED BY <1>1, <1>2

LEMMA LeaveTypes ==
    ASSUME TypeInv, NEW p \in Pages, NEW b \in PluginRecords, NEW last \in Seq(BrokerFrames),
           b.running \subseteq plugin[p].running,
           \A n \in DOMAIN last : last[n].type # "response", Leave(p, b, last)
    PROVE  /\ PluginTypes' /\ Running' \subseteq Running
           /\ Forwards(toPage', {}) /\ Tells(toBroker', {})
<1>1. /\ SetPlugin(p, [b EXCEPT !.socket = None, !.attachment = None])
      /\ Reply(p, last \o <<Close(1000)>>)
      /\ toPage' = [toPage EXCEPT ![plugin[p].socket] = <<>>]
  BY DEF Leave
<1>2. FramesInv
  BY DEF TypeInv
<1>3. PluginTypes' /\ Running' \subseteq Running
  <2>1. PICK r : r = [b EXCEPT !.socket = None, !.attachment = None]
    OBVIOUS
  <2>2. r \in PluginRecords /\ r.running = b.running
    BY <2>1 DEF PluginRecords
  <2>3. SetPlugin(p, r) /\ PluginTypes
    BY <1>1, <2>1 DEF TypeInv
  <2> QED BY <2>2, <2>3, SetPluginTypes
<1>4. Forwards(toPage', {})
  <2>1. PICK s : s = <<>>
    OBVIOUS
  <2>2. s \in Seq(PageFrames) /\ \A n \in DOMAIN s : ~Mark(s[n])
    BY <2>1
  <2>3. Forwards([toPage EXCEPT ![plugin[p].socket] = s], {})
    BY <1>2, <2>2, ResetForwards
  <2> QED BY <1>1, <2>1, <2>3
<1>5. Tells(toBroker', {})
  <2>1. PICK f : f = Close(1000)
    OBVIOUS
  <2>2. f \in BrokerFrames /\ f.type # "response"
    BY <2>1, BrokerFrameTypes DEF Close
  <2>3. PICK s : s = last \o <<f>>
    OBVIOUS
  <2>4. s \in Seq(BrokerFrames) /\ \A n \in DOMAIN s : s[n].type # "response"
    BY <2>2, <2>3
  <2>5. Reply(p, s)
    BY <1>1, <2>1, <2>3
  <2> QED BY <1>2, <2>4, <2>5, QuietReply
<1> QED BY <1>3, <1>4, <1>5

LEMMA ConnectTypes ==
    ASSUME TypeInv, NEW p \in Pages, Connect(p)
    PROVE  Sends({}, {}) /\ Running' \subseteq Running
<1>1. PICK k \in Free :
            /\ SetPlugin(p, [plugin[p] EXCEPT !.state = "challenging", !.socket = k])
            /\ IF Cardinality(Live(Conns)) >= 2 * MaxClients
               THEN /\ toPage' = [toPage EXCEPT ![k] = <<Close(1013)>>]
                    /\ UNCHANGED <<stage, toBroker>>
               ELSE /\ stage' = [stage EXCEPT ![k] = "challenge"]
                    /\ toBroker' = [toBroker EXCEPT ![k] = <<Frame("auth_challenge")>>]
                    /\ UNCHANGED toPage
  BY Zenon DEF Connect
<1>2. UNCHANGED <<clients, pending, calls, mutex, unsynced, storeVars, faults>>
  BY DEF Connect
<1>3. k \in Conns /\ FramesInv
  BY DEF Free, TypeInv
<1>4. PluginTypes' /\ Running' \subseteq Running
  <2>1. PICK r : r = [plugin[p] EXCEPT !.state = "challenging", !.socket = k]
    OBVIOUS
  <2>2. r \in PluginRecords /\ r.running = plugin[p].running
    BY <1>3, <2>1 DEF PluginRecords, TypeInv, PluginTypes
  <2>3. SetPlugin(p, r) /\ PluginTypes
    BY <1>1, <2>1 DEF TypeInv
  <2> QED BY <2>2, <2>3, SetPluginTypes
<1>5. CASE toPage' = [toPage EXCEPT ![k] = <<Close(1013)>>] /\ UNCHANGED <<stage, toBroker>>
  <2>1. Forwards(toPage', {})
    <3>1. PICK s : s = <<Close(1013)>>
      OBVIOUS
    <3>2. Close(1013) \in PageFrames /\ ~Mark(Close(1013))
      BY PageFrameTypes
    <3>3. s \in Seq(PageFrames) /\ \A n \in DOMAIN s : ~Mark(s[n])
      BY <3>1, <3>2
    <3>4. Forwards([toPage EXCEPT ![k] = s], {})
      BY <1>3, <3>3, ResetForwards
    <3>5. toPage' = [toPage EXCEPT ![k] = s]
      BY <1>5, <3>1
    <3> QED BY <3>4, <3>5
  <2>2. Tells(toBroker', {})
    BY <1>3, <1>5, SameTells
  <2>3. StageInv' /\ ClientTypes' /\ CallTypes' /\ StoreTypes' /\ OtherTypes'
    BY <1>2, <1>5 DEF TypeInv, StageInv, ClientTypes, CallTypes, StoreTypes, OtherTypes, storeVars
  <2> QED BY <1>4, <2>1, <2>2, <2>3, QuietSends
<1>6. CASE /\ stage' = [stage EXCEPT ![k] = "challenge"]
           /\ toBroker' = [toBroker EXCEPT ![k] = <<Frame("auth_challenge")>>]
           /\ UNCHANGED toPage
  <2>1. Forwards(toPage', {})
    BY <1>3, <1>6, SameForwards
  <2>2. Tells(toBroker', {})
    <3>1. PICK s : s = <<Frame("auth_challenge")>>
      OBVIOUS
    <3>2. Frame("auth_challenge") \in BrokerFrames /\ Frame("auth_challenge").type # "response"
      BY BrokerFrameTypes DEF Frame
    <3>3. s \in Seq(BrokerFrames) /\ \A n \in DOMAIN s : s[n].type # "response"
      BY <3>1, <3>2
    <3>4. PICK I : I = {}
      OBVIOUS
    <3>5. Tells([toBroker EXCEPT ![k] = s], I)
      BY <1>3, <3>3, ExceptTells
    <3>6. toBroker' = [toBroker EXCEPT ![k] = s]
      BY <1>6, <3>1
    <3> QED BY <3>4, <3>5, <3>6
  <2>3. StageInv'
    BY <1>6 DEF TypeInv, StageInv, Stages
  <2>4. ClientTypes' /\ CallTypes' /\ StoreTypes' /\ OtherTypes'
    BY <1>2 DEF TypeInv, ClientTypes, CallTypes, StoreTypes, OtherTypes, storeVars
  <2> QED BY <1>4, <2>1, <2>2, <2>3, <2>4, QuietSends
<1>7. CASE Cardinality(Live(Conns)) >= 2 * MaxClients
  BY <1>1, <1>5, <1>7, ZenonT(60)
<1>8. CASE ~(Cardinality(Live(Conns)) >= 2 * MaxClients)
  BY <1>1, <1>6, <1>8, Zenon
<1> QED BY <1>7, <1>8

LEMMA HandleAuthChallengeAckTypes ==
    ASSUME TypeInv, NEW p \in Pages, HandleAuthChallengeAck(p)
    PROVE  Sends({}, {}) /\ Running' \subseteq Running
<1>1. Forwards(toPage', {})
  BY ConsumeForwards DEF HandleAuthChallengeAck
<1>2. PluginTypes' /\ Running' \subseteq Running
  <2>1. PICK r : r = [plugin[p] EXCEPT !.state = "await_ack"]
    OBVIOUS
  <2>2. r \in PluginRecords /\ r.running = plugin[p].running
    BY <2>1 DEF PluginRecords, TypeInv, PluginTypes
  <2>3. SetPlugin(p, r) /\ PluginTypes
    BY <2>1 DEF TypeInv, HandleAuthChallengeAck
  <2> QED BY <2>2, <2>3, SetPluginTypes
<1>3. Tells(toBroker', {})
  <2>1. PICK f : f = [type |-> "auth_response", page |-> p]
    OBVIOUS
  <2>2. f \in BrokerFrames /\ f.type # "response"
    BY <2>1, BrokerFrameTypes
  <2>3. PICK s : s = <<f>>
    OBVIOUS
  <2>4. s \in Seq(BrokerFrames) /\ \A n \in DOMAIN s : s[n].type # "response"
    BY <2>2, <2>3
  <2>5. Reply(p, s) /\ FramesInv
    BY <2>1, <2>3 DEF HandleAuthChallengeAck, TypeInv
  <2> QED BY <2>4, <2>5, QuietReply
<1> QED BY <1>1, <1>2, <1>3, PluginSends DEF HandleAuthChallengeAck

(* A plugin that leaves with an end, and what it says last. *)
LEMMA LeavingSends ==
    ASSUME TypeInv, NEW p \in Pages, NEW b, NEW last \in {<<>>, <<EventFrame("trace.closing")>>},
           b \in PluginRecords, b.running \subseteq plugin[p].running,
           Leave(p, b, last), UNCHANGED <<memVars, storeVars>>, faults' \in 0..MaxFaults
    PROVE  Sends({}, {}) /\ Running' \subseteq Running
<1>1. last \in Seq(BrokerFrames) /\ \A n \in DOMAIN last : last[n].type # "response"
  <2>1. EventFrame("trace.closing") \in BrokerFrames /\ EventFrame("trace.closing").type # "response"
    BY BrokerFrameTypes DEF EventFrame
  <2>2. CASE last = <<>>
    BY <2>2
  <2>3. CASE last = <<EventFrame("trace.closing")>>
    BY <2>1, <2>3
  <2> QED BY <2>2, <2>3
<1>2. PluginTypes' /\ Running' \subseteq Running /\ Forwards(toPage', {}) /\ Tells(toBroker', {})
  BY <1>1, LeaveTypes
<1>3. StageInv' /\ ClientTypes' /\ CallTypes' /\ StoreTypes' /\ OtherTypes'
  BY DEF TypeInv, StageInv, ClientTypes, CallTypes, StoreTypes, OtherTypes, memVars, storeVars
<1> QED BY <1>2, <1>3, QuietSends

LEMMA HandleHelloAckTypes ==
    ASSUME TypeInv, NEW p \in Pages, HandleHelloAck(p)
    PROVE  Sends({}, {}) /\ Running' \subseteq Running
<1>1. UNCHANGED <<memVars, storeVars, faults>> /\ Waiting(p, {"challenging", "await_ack"}, {"hello_ack"})
  BY DEF HandleHelloAck
<1>2. plugin[p] \in PluginRecords /\ PluginTypes /\ faults' \in 0..MaxFaults
  BY <1>1, WaitingFacts DEF TypeInv, OtherTypes
<1>3. CASE /\ SetPlugin(p, [plugin[p] EXCEPT !.state = "connected"])
           /\ Consume(p)
           /\ UNCHANGED toBroker
  <2>1. PICK r : r = [plugin[p] EXCEPT !.state = "connected"]
    OBVIOUS
  <2>2. r \in PluginRecords /\ r.running = plugin[p].running
    BY <1>2, <2>1 DEF PluginRecords
  <2>3. SetPlugin(p, r)
    BY <1>3, <2>1
  <2>4. PluginTypes' /\ Running' \subseteq Running
    BY <1>2, <2>2, <2>3, SetPluginTypes
  <2>5. Forwards(toPage', {})
    BY <1>1, <1>3, ConsumeForwards
  <2>6. Tells(toBroker', {})
    BY <1>3, SameTells DEF TypeInv
  <2> QED BY <1>1, <2>4, <2>5, <2>6, PluginSends
<1>4. CASE Leave(p, [plugin[p] EXCEPT !.state = "failed"], <<>>)
  <2>1. PICK r : r = [plugin[p] EXCEPT !.state = "failed"]
    OBVIOUS
  <2>2. r \in PluginRecords /\ r.running = plugin[p].running
    BY <1>2, <2>1 DEF PluginRecords
  <2>3. Leave(p, r, <<>>)
    BY <1>4, <2>1
  <2> QED BY <1>1, <1>2, <2>2, <2>3, LeavingSends
<1> QED BY <1>3, <1>4 DEF HandleHelloAck

LEMMA FailAuthenticationTypes ==
    ASSUME TypeInv, NEW p \in Pages, FailAuthentication(p)
    PROVE  Sends({}, {}) /\ Running' \subseteq Running
<1>1. PICK r : r = [plugin[p] EXCEPT !.state = "failed"]
  OBVIOUS
<1>2. r \in PluginRecords /\ r.running = plugin[p].running
  BY <1>1 DEF PluginRecords, TypeInv, PluginTypes
<1>3. Leave(p, r, <<>>) /\ UNCHANGED <<memVars, storeVars>> /\ faults' \in 0..MaxFaults
  BY <1>1 DEF FailAuthentication, TypeInv, OtherTypes
<1> QED BY <1>2, <1>3, LeavingSends

LEMMA HandshakeTimeoutTypes ==
    ASSUME TypeInv, NEW p \in Pages, HandshakeTimeout(p)
    PROVE  Sends({}, {}) /\ Running' \subseteq Running
<1>1. PICK r : r = [plugin[p] EXCEPT !.state = "failed"]
  OBVIOUS
<1>2. r \in PluginRecords /\ r.running = plugin[p].running
  BY <1>1 DEF PluginRecords, TypeInv, PluginTypes
<1>3. Leave(p, r, <<>>) /\ UNCHANGED <<memVars, storeVars>> /\ faults' \in 0..MaxFaults
  BY <1>1, FaultTypes DEF HandshakeTimeout, TypeInv
<1> QED BY <1>2, <1>3, LeavingSends

LEMMA DisposeTypes ==
    ASSUME TypeInv, NEW p \in Pages, Dispose(p)
    PROVE  Sends({}, {}) /\ Running' \subseteq Running
<1>1. PICK state \in {"gone", "idle"}, last \in {<<>>, <<EventFrame("trace.closing")>>} :
            Leave(p, [plugin[p] EXCEPT !.state = state, !.running = {}], last)
  BY DEF Dispose
<1>2. PICK r : r = [plugin[p] EXCEPT !.state = state, !.running = {}]
  OBVIOUS
<1>3. r \in PluginRecords /\ r.running \subseteq plugin[p].running
  BY <1>2 DEF PluginRecords, TypeInv, PluginTypes
<1>4. Leave(p, r, last) /\ UNCHANGED <<memVars, storeVars>> /\ faults' \in 0..MaxFaults
  BY <1>1, <1>2, FaultTypes DEF Dispose, TypeInv
<1> QED BY <1>3, <1>4, LeavingSends

LEMMA HandlePingTypes ==
    ASSUME TypeInv, NEW p \in Pages, HandlePing(p)
    PROVE  Sends({}, {}) /\ Running' \subseteq Running
<1>1. Forwards(toPage', {})
  BY ConsumeForwards DEF HandlePing
<1>2. Tells(toBroker', {})
  <2>1. PICK f : f = EventFrame("bridge.pong")
    OBVIOUS
  <2>2. f \in BrokerFrames /\ f.type # "response"
    BY <2>1, BrokerFrameTypes DEF EventFrame
  <2>3. PICK s : s = <<f>>
    OBVIOUS
  <2>4. s \in Seq(BrokerFrames) /\ \A n \in DOMAIN s : s[n].type # "response"
    BY <2>2, <2>3
  <2>5. Reply(p, s) /\ FramesInv
    BY <2>1, <2>3 DEF HandlePing, TypeInv
  <2> QED BY <2>4, <2>5, QuietReply
<1>3. PluginTypes' /\ Running' = Running
  BY DEF HandlePing, TypeInv, PluginTypes, Running
<1> QED BY <1>1, <1>2, <1>3, PluginSends DEF HandlePing

LEMMA HandleCloseTypes ==
    ASSUME TypeInv, NEW p \in Pages, HandleClose(p)
    PROVE  Sends({}, {}) /\ Running' \subseteq Running
<1>1. PICK state \in {plugin[p].state, "failed", "idle"} :
        SetPlugin(p, [plugin[p] EXCEPT !.socket = None, !.attachment = None, !.state = state])
  <2>1. PICK state : state = IF plugin[p].state # "connected" /\ Head(toPage[plugin[p].socket]).code = 1008
                             THEN "failed" ELSE "idle"
    OBVIOUS
  <2>2. PICK b : b = [plugin[p] EXCEPT !.socket = None, !.attachment = None,
                     !.state = IF @ # "connected" /\ Head(toPage[plugin[p].socket]).code = 1008
                               THEN "failed" ELSE "idle"]
    OBVIOUS
  <2>3. b = [plugin[p] EXCEPT !.socket = None, !.attachment = None, !.state = state]
    BY <2>1, <2>2 DEF TypeInv, PluginTypes, PluginRecords
  <2>4. SetPlugin(p, b)
    BY <2>2 DEF HandleClose
  <2>5. state \in {"failed", "idle"}
    BY <2>1
  <2> QED BY <2>3, <2>4, <2>5
<1>2. PICK r : r = [plugin[p] EXCEPT !.socket = None, !.attachment = None, !.state = state]
  OBVIOUS
<1>3. r \in PluginRecords /\ r.running = plugin[p].running
  BY <1>2 DEF PluginRecords, TypeInv, PluginTypes
<1>4. PluginTypes' /\ Running' \subseteq Running
  <2>1. SetPlugin(p, r) /\ PluginTypes
    BY <1>1, <1>2 DEF TypeInv
  <2> QED BY <1>3, <2>1, SetPluginTypes
<1>5. Forwards(toPage', {})
  <2>1. PICK s : s = <<>>
    OBVIOUS
  <2>2. s \in Seq(PageFrames) /\ \A n \in DOMAIN s : ~Mark(s[n])
    BY <2>1
  <2>3. Forwards([toPage EXCEPT ![plugin[p].socket] = s], {})
    BY <2>2, ResetForwards DEF TypeInv
  <2> QED BY <2>1, <2>3 DEF HandleClose
<1>6. Tells(toBroker', {})
  BY SameTells DEF TypeInv, HandleClose
<1>7. UNCHANGED <<memVars, storeVars, faults>>
  BY DEF HandleClose
<1> QED BY <1>4, <1>5, <1>6, <1>7, PluginSends

LEMMA MoreTells ==
    ASSUME NEW x, NEW I, Tells(x, {}) PROVE Tells(x, I)
  BY DEF Tells

LEMMA RequestAtHead ==
    ASSUME TypeInv, NEW p \in Pages, Waiting(p, {"connected"}, {"request"})
    PROVE  LET m == Head(toPage[plugin[p].socket])
           IN  /\ m \in Requests /\ m.type = "request" /\ Sound(m)
               /\ m = toPage[plugin[p].socket][1] /\ 1 \in DOMAIN toPage[plugin[p].socket]
<1> DEFINE m == Head(toPage[plugin[p].socket])
<1>1. /\ m \in PageFrames /\ m.type = "request" /\ plugin[p].socket \in Conns
      /\ m = toPage[plugin[p].socket][1] /\ 1 \in DOMAIN toPage[plugin[p].socket]
  BY WaitingFacts
<1>2. Sound(toPage[plugin[p].socket][1])
  BY <1>1 DEF TypeInv, FramesInv
<1>3. m \in Requests
  BY <1>1, PageFrameTypes
<1> QED BY <1>1, <1>2, <1>3

LEMMA HandleRequestTypes ==
    ASSUME TypeInv, NEW p \in Pages, HandleRequest(p)
    PROVE  LET m == Head(toPage[plugin[p].socket])
           IN  /\ Sends({}, {m.id})
               /\ Running' \subseteq Running \cup {m.id}
<1>1. PICK m : m = Head(toPage[plugin[p].socket])
  OBVIOUS
<1>2. m \in Requests /\ m.type = "request" /\ Sound(m)
  BY <1>1, RequestAtHead DEF HandleRequest
<1>3. m.id \in Ids /\ m.slot \in Slots \cup {None} /\ (m.method = "query" => m.id \in Calls)
  BY <1>2 DEF Requests, Sound
<1>4. Forwards(toPage', {})
  BY ConsumeForwards DEF HandleRequest
<1>5. FramesInv /\ PluginTypes /\ plugin[p] \in PluginRecords
  BY DEF TypeInv, PluginTypes
<1>6. CASE /\ m.method = "query"
           /\ SetPlugin(p, [plugin[p] EXCEPT !.running = @ \cup {m.id}])
           /\ UNCHANGED toBroker
  <2>1. PICK r : r = [plugin[p] EXCEPT !.running = @ \cup {m.id}]
    OBVIOUS
  <2>2. r \in PluginRecords /\ r.running = plugin[p].running \cup {m.id}
    BY <1>3, <1>5, <1>6, <2>1 DEF PluginRecords
  <2>3. SetPlugin(p, r)
    BY <1>6, <2>1
  <2>4. PluginTypes'
    BY <1>5, <2>2, <2>3, SetPluginTypes
  <2>5. \A q \in Pages : plugin'[q] = IF q = p THEN r ELSE plugin[q]
    BY <1>5, <2>3 DEF SetPlugin, PluginTypes
  <2>6. Running' \subseteq Running \cup {m.id}
    BY <2>2, <2>5 DEF Running
  <2>7. Tells(toBroker', {m.id})
    BY <1>5, <1>6, SameTells, MoreTells
  <2>8. Sends({}, {m.id})
    BY <1>4, <2>4, <2>7, PluginSends DEF HandleRequest
  <2> QED BY <1>1, <2>6, <2>8
<1>7. CASE m.method = "select" /\ Reply(p, <<ResponseFrame(m.id)>>) /\ UNCHANGED plugin
  <2>1. PICK f : f = ResponseFrame(m.id)
    OBVIOUS
  <2>2. f \in BrokerFrames /\ f.id = m.id
    BY <1>3, <2>1, BrokerFrameTypes DEF ResponseFrame
  <2>3. PICK s : s = <<f>>
    OBVIOUS
  <2>4. s \in Seq(BrokerFrames) /\ \A n \in DOMAIN s : s[n].id = m.id
    BY <2>2, <2>3
  <2>5. Reply(p, s)
    BY <1>7, <2>1, <2>3
  <2>6. Tells(toBroker', {m.id})
    BY <1>5, <2>4, <2>5, ReplyTells
  <2>7. PluginTypes' /\ Running' = Running
    BY <1>5, <1>7 DEF PluginTypes, Running
  <2>8. Sends({}, {m.id})
    BY <1>4, <2>6, <2>7, PluginSends DEF HandleRequest
  <2> QED BY <1>1, <2>7, <2>8
<1>8. CASE /\ m.method = "attach"
           /\ SetPlugin(p, [plugin[p] EXCEPT !.attachment = m.slot])
           /\ Reply(p, (IF Announces THEN <<EventFrame("session.attached")>> ELSE <<>>)
                            \o <<ResponseFrame(m.id)>>)
  <2>1. PICK f : f = ResponseFrame(m.id)
    OBVIOUS
  <2>2. f \in BrokerFrames /\ f.id = m.id
    BY <1>3, <2>1, BrokerFrameTypes DEF ResponseFrame
  <2>3. PICK e : e = EventFrame("session.attached")
    OBVIOUS
  <2>4. e \in BrokerFrames /\ e.type = "event"
    BY <2>3, BrokerFrameTypes DEF EventFrame
  <2>5. PICK t : t = IF Announces THEN <<e>> ELSE <<>>
    OBVIOUS
  <2>6. PICK s : s = t \o <<f>>
    OBVIOUS
  <2>7. s \in Seq(BrokerFrames) /\ \A n \in DOMAIN s : s[n] = e \/ s[n] = f
    BY <2>2, <2>4, <2>5, <2>6
  <2>8. Reply(p, s)
    BY <1>8, <2>1, <2>3, <2>5, <2>6
  <2>9. \A n \in DOMAIN s : s[n].type = "response" /\ s[n].id \in Calls => s[n].id \in {m.id}
    BY <2>2, <2>4, <2>7
  <2>10. Tells(toBroker', {m.id})
    BY <1>5, <2>7, <2>8, <2>9, ReplyTells
  <2>11. PICK r : r = [plugin[p] EXCEPT !.attachment = m.slot]
    OBVIOUS
  <2>12. r \in PluginRecords /\ r.running = plugin[p].running
    BY <1>3, <1>5, <2>11 DEF PluginRecords
  <2>13. SetPlugin(p, r)
    BY <1>8, <2>11
  <2>14. PluginTypes' /\ Running' \subseteq Running
    BY <1>5, <2>12, <2>13, SetPluginTypes
  <2>15. Sends({}, {m.id})
    BY <1>4, <2>10, <2>14, PluginSends DEF HandleRequest
  <2> QED BY <1>1, <2>14, <2>15
<1> QED BY <1>1, <1>6, <1>7, <1>8 DEF HandleRequest

LEMMA AnswerQueryTypes ==
    ASSUME TypeInv, NEW p \in Pages, NEW id \in Calls, AnswerQuery(p, id)
    PROVE  Sends({}, {id}) /\ Running' \subseteq Running /\ id \in Running
<1>1. PICK r : r = [plugin[p] EXCEPT !.running = @ \ {id}]
  OBVIOUS
<1>2. r \in PluginRecords /\ r.running \subseteq plugin[p].running /\ FramesInv /\ PluginTypes
  BY <1>1 DEF PluginRecords, TypeInv, PluginTypes
<1>3. SetPlugin(p, r) /\ UNCHANGED <<memVars, storeVars, toPage, faults>> /\ id \in Running
  BY <1>1 DEF AnswerQuery, Running
<1>4. PluginTypes' /\ Running' \subseteq Running
  BY <1>2, <1>3, SetPluginTypes
<1>5. Forwards(toPage', {})
  BY <1>2, <1>3, SameForwards
<1>6. Tells(toBroker', {id})
  <2>1. CASE UNCHANGED toBroker
    BY <1>2, <2>1, SameTells, MoreTells
  <2>2. CASE Reply(p, <<ResponseFrame(id)>>)
    <3>1. PICK f : f = ResponseFrame(id)
      OBVIOUS
    <3>2. f \in BrokerFrames /\ f.id = id
      BY <3>1, BrokerFrameTypes, NoneFacts DEF ResponseFrame
    <3>3. PICK s : s = <<f>>
      OBVIOUS
    <3>4. s \in Seq(BrokerFrames) /\ \A n \in DOMAIN s : s[n].id = id
      BY <3>2, <3>3
    <3>5. Reply(p, s)
      BY <2>2, <3>1, <3>3
    <3> QED BY <1>2, <3>4, <3>5, ReplyTells
  <2> QED BY <2>1, <2>2 DEF AnswerQuery
<1> QED BY <1>3, <1>4, <1>5, <1>6, PluginSends

LEMMA ClientOfFacts ==
    ASSUME ClientsInv, NEW k \in Conns, stage[k] \in {"audit", "open"}
    PROVE  ClientOf(k) \in Pages /\ clients[ClientOf(k)].conn = k
  BY Zenon DEF ClientsInv, ClientOf

LEMMA HelloAckTypes ==
    ASSUME TypeInv, ClientsInv, NEW k \in Conns, HelloAck(k)
    PROVE  /\ \E N : Sends(N, {}) /\ \A f \in N : Ack(f) \/ (f \in Requests /\ f.id = k)
           /\ \/ UNCHANGED pending
              \/ CanAsk(ClientOf(k), "attach") /\ pending' = Asked(k, ClientOf(k))
           /\ ClientOf(k) \in Pages /\ clients[ClientOf(k)].conn = k
           /\ SameSockets(clients') /\ SameQueries(clients')
           /\ \A p \in Pages : clients'[p].at = clients[p].at
<1>1. PICK p \in Pages : p = ClientOf(k) /\ clients[p].conn = k
  BY ClientOfFacts DEF HelloAck
<1>0. PICK a : a = [type |-> "hello_ack", accepted |-> TRUE]
  OBVIOUS
<1>2. PICK ack : ack = <<a>>
  OBVIOUS
<1>3. /\ a \in PageFrames /\ Ack(a) /\ Sound(a)
      /\ ack \in Seq(PageFrames) /\ \A n \in DOMAIN ack : ack[n] = a
  <2>1. a \in PageFrames /\ Ack(a) /\ Sound(a)
    BY <1>0, PageFrameTypes DEF Ack, Sound
  <2> QED BY <1>2, <2>1
<1>4. PICK slot : slot = clients[p].restore
  OBVIOUS
<1>5. clients[p] \in ClientRecords /\ slot \in Slots \cup {None} /\ FramesInv
  BY <1>4 DEF TypeInv, ClientTypes, ClientRecords
<1>6. clients' = [clients EXCEPT ![p].restore = None]
  BY <1>1 DEF HelloAck
<1>7. SameSockets(clients') /\ SameQueries(clients') /\ \A q \in Pages : clients'[q].at = clients[q].at
  <2>1. PICK r : r = [clients[p] EXCEPT !.restore = None]
    OBVIOUS
  <2>2. /\ r \in ClientRecords /\ r.conn = clients[p].conn /\ r.query = clients[p].query
        /\ r.at = clients[p].at
    BY <1>5, <2>1 DEF ClientRecords
  <2>3. clients[p] # NoClient
    BY <1>1, NoneFacts, NoClientFields
  <2>4. clients' = [clients EXCEPT ![p] = r]
    BY <1>5, <1>6, <2>1 DEF ClientRecords
  <2> QED BY <2>2, <2>3, <2>4 DEF SameSockets, SameQueries, TypeInv, ClientTypes
<1>8. ClientTypes'
  BY <1>7 DEF SameSockets, ClientTypes
<1>9. Tells(toBroker', {}) /\ UNCHANGED <<calls, mutex, unsynced, storeVars, toBroker, plugin, faults>>
  BY <1>5, SameTells DEF HelloAck
<1>10. stage' = [stage EXCEPT ![k] = "open"]
  BY DEF HelloAck
<1>11. StageInv' /\ StoreTypes' /\ PluginTypes' /\ OtherTypes'
  BY <1>9, <1>10 DEF TypeInv, StageInv, Stages, StoreTypes, PluginTypes, OtherTypes, storeVars
<1>14. PICK o : o = On({}, ack)
  OBVIOUS
<1>15. o \in [Conns -> Seq(PageFrames)] /\ \A l \in Conns : o[l] = <<>>
  BY <1>14, EmptySeq DEF On
<1>12. CASE /\ slot # None /\ CanAsk(p, "attach")
            /\ toPage' = Sent([On({}, ack) EXCEPT ![k] = ack \o <<Request(k, "attach", slot)>>])
            /\ pending' = Asked(k, p)
  <2>1. PICK f : f = Request(k, "attach", slot)
    OBVIOUS
  <2>2. f \in Requests /\ f.id = k /\ f.method = "attach" /\ f.slot = slot
    BY <1>5, <2>1, PageFrameTypes, NoneFacts DEF Methods, Request
  <2>3. f \in PageFrames /\ Sound(f)
    BY <1>5, <1>12, <2>2 DEF PageFrames, Sound
  <2>4. PICK s : s = ack \o <<f>>
    OBVIOUS
  <2>5. s \in Seq(PageFrames) /\ \A n \in DOMAIN s : s[n] \in {a, f}
    BY <1>3, <2>3, <2>4
  <2>6. PICK fs : fs = [o EXCEPT ![k] = s]
    OBVIOUS
  <2>7. fs \in [Conns -> Seq(PageFrames)] /\ \A l \in Conns : fs[l] = IF l = k THEN s ELSE <<>>
    BY <1>15, <2>5, <2>6
  <2>8. \A l \in Conns : \A n \in DOMAIN fs[l] : Mark(fs[l][n]) => fs[l][n] \in {a, f}
    BY <2>5, <2>7
  <2>9. Forwards(Sent(fs), {a, f})
    BY <1>5, <2>7, <2>8, SentForwards
  <2>10. toPage' = Sent(fs)
    BY <1>12, <1>14, <2>1, <2>4, <2>6
  <2>11. PICK N : N = {a, f}
    OBVIOUS
  <2>12. Forwards(toPage', N) /\ \A g \in N : Sound(g)
    BY <1>3, <2>3, <2>9, <2>10, <2>11
  <2>13. FramesInv'
    <3>1. PICK I : I = {}
      OBVIOUS
    <3>2. Tells(toBroker', I)
      BY <1>9, <3>1
    <3> QED BY <1>5, <2>12, <3>2, MovedFrames, Zenon
  <2>14. CallTypes'
    <3>1. pending' = pending \cup {[id |-> k, page |-> p, conn |-> k]}
      BY <1>1, <1>12 DEF Asked
    <3>2. pending' \subseteq PendingRecords
      BY <3>1, NoneFacts DEF TypeInv, CallTypes, PendingRecords
    <3> QED BY <1>9, <3>2 DEF TypeInv, CallTypes
  <2>15. Sends(N, {})
    BY <1>8, <1>9, <1>11, <2>11, <2>12, <2>13, <2>14 DEF Sends, TypeInv
  <2> QED BY <1>1, <1>3, <1>7, <1>12, <2>2, <2>11, <2>15
<1>13. CASE /\ toPage' = Sent([On({}, ack) EXCEPT ![k] = ack])
            /\ UNCHANGED pending
  <2>1. PICK fs : fs = [o EXCEPT ![k] = ack]
    OBVIOUS
  <2>2. fs \in [Conns -> Seq(PageFrames)] /\ \A l \in Conns : fs[l] = IF l = k THEN ack ELSE <<>>
    BY <1>3, <1>15, <2>1
  <2>3. \A l \in Conns : \A n \in DOMAIN fs[l] : Mark(fs[l][n]) => fs[l][n] \in {a}
    BY <1>3, <2>2
  <2>4. Forwards(toPage', {a})
    BY <1>5, <1>13, <1>14, <2>1, <2>2, <2>3, SentForwards
  <2>5. PICK N : N = {a}
    OBVIOUS
  <2>6. FramesInv'
    <3>1. PICK I : I = {}
      OBVIOUS
    <3>2. Tells(toBroker', I) /\ Forwards(toPage', N) /\ \A g \in N : Sound(g)
      BY <1>3, <1>9, <2>4, <2>5, <3>1
    <3> QED BY <1>5, <3>2, MovedFrames, Zenon
  <2>7. CallTypes'
    BY <1>9, <1>13 DEF TypeInv, CallTypes
  <2>8. Sends(N, {})
    BY <1>8, <1>9, <1>11, <2>4, <2>5, <2>6, <2>7 DEF Sends, TypeInv
  <2> QED BY <1>1, <1>3, <1>7, <1>13, <2>5, <2>8
<1> QED BY <1>0, <1>1, <1>2, <1>4, <1>12, <1>13 DEF HelloAck

-----------------------------------------------------------------------------
(* The calls: one is under assignmentMutex, and a request waits only for a *)
(* call that waits for it.                                                 *)

LEMMA CallFields ==
    ASSUME TypeInv, NEW q \in pending
    PROVE  q.id \in Ids /\ q.page \in Pages /\ q.conn \in Conns
  BY DEF TypeInv, CallTypes, PendingRecords

LEMMA EndsKeepCalls ==
    ASSUME TypeInv, CallsInv, NEW cs, EndCalls(cs), pending' \subseteq pending,
           \A q \in pending' : q.id \notin cs,
           existing \subseteq existing' \/ mutex \in cs
    PROVE  CallsInv'
<1>1. /\ \A c \in Calls : calls'[c] = IF c \in cs THEN Ended ELSE calls[c]
      /\ mutex' = IF mutex \in cs THEN None ELSE mutex
  BY EndCallsTypes DEF TypeInv
<1>2. ASSUME NEW c \in Calls
      PROVE  Changing(c)' <=> Changing(c) /\ c \notin cs
  BY <1>1, EndedFields DEF Changing
<1>3. ASSUME NEW c \in Calls
      PROVE  Changing(c)' <=> mutex' = c
  BY <1>1, <1>2, NoneFacts DEF CallsInv
<1>4. ASSUME NEW c \in Calls, Changing(c)'
      PROVE  calls'[c].slot[1] \in existing'
  BY <1>1, <1>2, <1>4 DEF CallsInv
<1>5. ASSUME NEW q \in pending', q.id \in Calls
      PROVE  calls'[q.id].step = "asked"
  BY <1>1, <1>5 DEF CallsInv
<1>6. \A q, r \in pending' : q.id = r.id /\ q.id \in Calls => q = r
  BY DEF CallsInv
<1>7. \A c \in Calls : calls'[c].step = "queued" => calls'[c].kind # "query"
  BY <1>1, EndedFields DEF CallsInv
<1> QED BY <1>3, <1>4, <1>5, <1>6, <1>7 DEF CallsInv

Lost(ks) == {q \in pending : q.conn \in ks /\ clients[q.page].conn = q.conn}

LEMMA LossKeepsCalls ==
    ASSUME TypeInv, CallsInv, NEW ks, NEW ended, pending' = pending \ Lost(ks),
           EndCalls(ended \cup ({q.id : q \in Lost(ks)} \cap Calls)),
           \A c \in ended : c \in Calls /\ calls[c].step # "asked",
           existing \subseteq existing' \/ mutex \in ended
    PROVE  CallsInv'
<1>1. PICK cs : cs = ended \cup ({q.id : q \in Lost(ks)} \cap Calls)
  OBVIOUS
<1>2. ASSUME NEW q \in pending', q.id \in cs PROVE FALSE
  <2>1. q \in pending /\ q \notin Lost(ks)
    OBVIOUS
  <2>2. CASE q.id \in ended
    BY <2>1, <2>2 DEF CallsInv
  <2>3. CASE q.id \notin ended
    <3>1. PICK r \in Lost(ks) : r.id = q.id /\ q.id \in Calls
      BY <1>1, <1>2, <2>3
    <3>2. r \in pending
      BY DEF Lost
    <3>3. q = r
      BY <2>1, <3>1, <3>2 DEF CallsInv
    <3> QED BY <2>1, <3>3
  <2> QED BY <2>2, <2>3
<1>3. EndCalls(cs) /\ pending' \subseteq pending /\ (existing \subseteq existing' \/ mutex \in cs)
  BY <1>1
<1> QED BY <1>2, <1>3, EndsKeepCalls

LEMMA HandleClosesCalls ==
    ASSUME TypeInv, CallsInv, NEW ks, NEW ended, HandleCloses(ks, ended),
           \A c \in ended : c \in Calls /\ calls[c].step # "asked",
           existing \subseteq existing' \/ mutex \in ended
    PROVE  CallsInv'
<1>1. /\ pending' = pending \ Lost(ks)
      /\ EndCalls(ended \cup ({q.id : q \in Lost(ks)} \cap Calls))
  BY DEF HandleCloses, Lost
<1> QED BY <1>1, LossKeepsCalls

LEMMA NoneEndCalls ==
    ASSUME TypeInv, CallsInv, NEW ks, pending' = pending \ Lost(ks),
           EndCalls({q.id : q \in Lost(ks)} \cap Calls), UNCHANGED existing
    PROVE  CallsInv'
<1>1. PICK ended : ended = {}
  OBVIOUS
<1>2. EndCalls(ended \cup ({q.id : q \in Lost(ks)} \cap Calls))
  <2>1. ended \cup ({q.id : q \in Lost(ks)} \cap Calls) = {q.id : q \in Lost(ks)} \cap Calls
    BY <1>1
  <2> QED BY <2>1
<1>3. (\A c \in ended : c \in Calls /\ calls[c].step # "asked") /\ existing \subseteq existing'
  BY <1>1
<1> QED BY <1>2, <1>3, LossKeepsCalls

LEMMA NothingEndsCalls ==
    ASSUME TypeInv, CallsInv, NEW ks, HandleCloses(ks, {}), UNCHANGED existing
    PROVE  CallsInv'
<1>1. PICK ended : ended = {}
  OBVIOUS
<1>2. HandleCloses(ks, ended) /\ (\A c \in ended : c \in Calls /\ calls[c].step # "asked")
      /\ existing \subseteq existing'
  BY <1>1
<1> QED BY <1>2, HandleClosesCalls

LEMMA RegisterCalls ==
    ASSUME TypeInv, CallsInv, NEW k, NEW p, Register(k, p), UNCHANGED existing
    PROVE  CallsInv'
<1>1. /\ pending' = pending \ Lost(ConnOf(p))
      /\ EndCalls({q.id : q \in Lost(ConnOf(p))} \cap Calls)
  BY DEF Register, Lost
<1> QED BY <1>1, NoneEndCalls

LEMMA AfterCloseCalls ==
    ASSUME TypeInv, CallsInv, NEW k, AuthResponseAfterClose(k)
    PROVE  CallsInv'
<1>1. PICK ks : /\ pending' = pending \ Lost(ks)
                /\ EndCalls({q.id : q \in Lost(ks)} \cap Calls)
  BY DEF AuthResponseAfterClose, Lost
<1>2. UNCHANGED existing
  BY DEF AuthResponseAfterClose, storeVars
<1> QED BY <1>1, <1>2, NoneEndCalls

LEMMA TimeoutCalls ==
    ASSUME TypeInv, CallsInv, NEW q, Timeout(q) PROVE CallsInv'
<1>1. /\ q \in pending /\ pending' = pending \ {q} /\ EndCalls({q.id} \cap Calls)
      /\ UNCHANGED existing
  BY DEF Timeout, storeVars
<1>2. PICK cs : cs = {q.id} \cap Calls
  OBVIOUS
<1>3. \A r \in pending' : r.id \notin cs
  BY <1>1, <1>2 DEF CallsInv
<1>4. EndCalls(cs) /\ pending' \subseteq pending /\ existing \subseteq existing'
  BY <1>1, <1>2
<1> QED BY <1>3, <1>4, EndsKeepCalls

(* A call ends that is neither asked for nor under the mutex, or that gives the mutex back. *)
LEMMA EndedCalls ==
    ASSUME TypeInv, CallsInv, NEW c \in Calls, EndCalls({c}), calls[c].step # "asked",
           UNCHANGED pending, UNCHANGED existing
    PROVE  CallsInv'
<1>1. \A q \in pending' : q.id \notin {c}
  BY DEF CallsInv
<1> QED BY <1>1, EndsKeepCalls

LEMMA SameCalls ==
    ASSUME CallsInv, UNCHANGED <<pending, calls, mutex>>, existing \subseteq existing' PROVE CallsInv'
  BY DEF CallsInv, Changing

(* A call that nobody is asked for takes a step that is none of the mutex. *)
LEMMA StepKeepsCalls ==
    ASSUME TypeInv, CallsInv, NEW c \in Calls, calls[c].step \notin {"asked", "writing"},
           UNCHANGED <<pending, mutex, existing>>, NEW r,
           calls' = [calls EXCEPT ![c] = r], r.step \notin {"asked", "writing"},
           r.step = "queued" => r.kind # "query"
    PROVE  CallsInv'
<1>1. \A d \in Calls : calls'[d] = IF d = c THEN r ELSE calls[d]
  BY DEF TypeInv, CallTypes
<1>2. \A d \in Calls : Changing(d)' <=> Changing(d)
  BY <1>1 DEF Changing
<1>3. \A q \in pending : q.id \in Calls => q.id # c
  BY DEF CallsInv
<1> QED BY <1>1, <1>2, <1>3 DEF CallsInv, Changing

LEMMA RestartedCalls ==
    ASSUME Restarted PROVE CallsInv'
<1>1. /\ pending' = {} /\ calls' = [c \in Calls |-> IF calls[c] = NoCall THEN NoCall ELSE Ended]
      /\ mutex' = None
  BY DEF Restarted
<1>2. \A c \in Calls : calls'[c] \in {NoCall, Ended}
  BY <1>1
<1>3. \A c \in Calls : ~Changing(c)'
  BY <1>2, EndedFields DEF Changing
<1>4. \A c \in Calls : calls'[c].step # "queued"
  BY <1>2, EndedFields
<1> QED BY <1>1, <1>3, <1>4, NoneFacts DEF CallsInv

LEMMA AskCalls ==
    ASSUME TypeInv, CallsInv, NEW c \in Calls, NEW method, Ask(c, method), UNCHANGED existing,
           calls[c].step \notin {"asked", "writing"},
           \/ calls[c].kind = "query" /\ UNCHANGED mutex
           \/ calls[c].kind # "query" /\ mutex = None /\ mutex' = c /\ calls[c].slot[1] \in existing
    PROVE  CallsInv'
<1>1. /\ pending' = pending \cup {[id |-> c, page |-> calls[c].page, conn |-> clients[calls[c].page].conn]}
      /\ calls' = [calls EXCEPT ![c].step = "asked"]
  BY DEF Ask, Asked
<1>2. PICK n : n = [id |-> c, page |-> calls[c].page, conn |-> clients[calls[c].page].conn]
  OBVIOUS
<1>3. pending' = pending \cup {n} /\ n.id = c
  BY <1>1, <1>2
<1>4. \A d \in Calls : /\ calls'[d].kind = calls[d].kind /\ calls'[d].slot = calls[d].slot
                       /\ calls'[d].step = IF d = c THEN "asked" ELSE calls[d].step
  BY <1>1 DEF TypeInv, CallTypes, CallRecords
<1>5. \A q \in pending : q.id \in Calls => q.id # c
  BY DEF CallsInv
<1>6. \A d \in Calls : Changing(d)' <=> IF d = c THEN calls[c].kind # "query" ELSE Changing(d)
  BY <1>4 DEF Changing
<1>7. \A d \in Calls : Changing(d)' <=> mutex' = d
  BY <1>6, NoneFacts DEF CallsInv, Changing
<1>8. \A d \in Calls : Changing(d)' => calls'[d].slot[1] \in existing'
  BY <1>4, <1>6 DEF CallsInv
<1>9. \A q \in pending' : q.id \in Calls => calls'[q.id].step = "asked"
  BY <1>3, <1>4 DEF CallsInv
<1>10. \A q, r \in pending' : q.id = r.id /\ q.id \in Calls => q = r
  BY <1>3, <1>5 DEF CallsInv
<1>11. \A d \in Calls : calls'[d].step = "queued" => calls'[d].kind # "query"
  BY <1>4 DEF CallsInv
<1> QED BY <1>7, <1>8, <1>9, <1>10, <1>11 DEF CallsInv

LEMMA ResponseCalls ==
    ASSUME TypeInv, CallsInv, NEW k \in Conns, Response(k) PROVE CallsInv'
<1> DEFINE id == Head(toBroker[k]).id
           mine == {q \in pending : q.id = id /\ q.conn = k}
           call == {q.id : q \in mine} \cap Calls
<1>1. /\ pending' = pending \ mine
      /\ \/ /\ \A c \in call : calls[c].kind # "query"
            /\ calls' = [c \in Calls |-> IF c \in call THEN [calls[c] EXCEPT !.step = "writing"] ELSE calls[c]]
            /\ UNCHANGED mutex
         \/ EndCalls(call)
      /\ UNCHANGED existing
  BY DEF Response, storeVars
<1>2. \A c \in call : c \in Calls /\ \E q \in mine : q \in pending /\ q.id = c
  OBVIOUS
<1>3. \A q \in pending' : q.id \notin call
  BY <1>1, <1>2 DEF CallsInv
<1>4. pending' \subseteq pending
  BY <1>1
<1> HIDE DEF id, mine, call
<1>5. CASE EndCalls(call)
  BY <1>1, <1>3, <1>4, <1>5, EndsKeepCalls
<1>6. CASE /\ \A c \in call : calls[c].kind # "query"
           /\ calls' = [c \in Calls |-> IF c \in call THEN [calls[c] EXCEPT !.step = "writing"] ELSE calls[c]]
           /\ UNCHANGED mutex
  <2>1. \A c \in Calls : /\ calls'[c].kind = calls[c].kind /\ calls'[c].slot = calls[c].slot
                         /\ calls'[c].step = IF c \in call THEN "writing" ELSE calls[c].step
    BY <1>6 DEF TypeInv, CallTypes, CallRecords
  <2>2. \A c \in call : c \in Calls /\ calls[c].step = "asked"
    BY <1>2 DEF CallsInv
  <2>3. \A c \in Calls : Changing(c)' <=> Changing(c)
    BY <1>6, <2>1, <2>2 DEF Changing
  <2>4. \A q \in pending' : q.id \in Calls => calls'[q.id].step = "asked"
    BY <1>3, <1>4, <2>1 DEF CallsInv
  <2>5. \A c \in Calls : Changing(c)' => calls'[c].slot[1] \in existing'
    BY <1>1, <2>1, <2>3 DEF CallsInv
  <2>6. \A c \in Calls : calls'[c].step = "queued" => calls'[c].kind # "query"
    BY <2>1 DEF CallsInv
  <2> QED BY <1>1, <1>4, <1>6, <2>3, <2>4, <2>5, <2>6 DEF CallsInv
<1> QED BY <1>1, <1>5, <1>6

LEMMA HelloAckCalls ==
    ASSUME TypeInv, CallsInv, ClientsInv, NEW k \in Conns, HelloAck(k) PROVE CallsInv'
<1>1. UNCHANGED <<calls, mutex, existing>>
  BY DEF HelloAck, storeVars
<1>2. CASE UNCHANGED pending
  BY <1>1, <1>2, SameCalls
<1>3. CASE pending' = Asked(k, ClientOf(k))
  <2>1. PICK n : n = [id |-> k, page |-> ClientOf(k), conn |-> clients[ClientOf(k)].conn]
    OBVIOUS
  <2>3. pending' = pending \cup {n} /\ n.id = k
    BY <1>3, <2>1 DEF Asked
  <2>2. k \notin Calls
    BY NoneFacts
  <2> QED BY <1>1, <2>3, <2>2 DEF CallsInv, Changing
<1> QED BY <1>2, <1>3, HelloAckTypes

LEMMA ApprovedCalls ==
    ASSUME TypeInv, CallsInv, NEW c \in Calls, Approved(c) PROVE CallsInv'
<1>1. calls[c].step = "approving" /\ UNCHANGED existing
  BY DEF Approved, storeVars
<1>2. CASE Ask(c, "query") /\ calls[c].kind = "query" /\ UNCHANGED mutex
  BY <1>1, <1>2, AskCalls
<1>3. CASE EndCalls({c}) /\ UNCHANGED pending
  BY <1>1, <1>3, EndedCalls
<1>4. CASE calls' = [calls EXCEPT ![c].step = "queued"] /\ calls[c].kind # "query" /\ UNCHANGED <<pending, mutex>>
  <2>1. PICK r : r = [calls[c] EXCEPT !.step = "queued"]
    OBVIOUS
  <2>2. calls' = [calls EXCEPT ![c] = r] /\ r.step = "queued" /\ r.kind # "query"
    BY <1>4, <2>1 DEF TypeInv, CallTypes, CallRecords
  <2> QED BY <1>1, <1>4, <2>2, StepKeepsCalls
<1> QED BY <1>2, <1>3, <1>4, ApprovedTypes

LEMMA EnterCalls ==
    ASSUME TypeInv, CallsInv, NEW c \in Calls, Enter(c) PROVE CallsInv'
<1>1. calls[c].step = "queued" /\ mutex = None /\ UNCHANGED existing
  BY DEF Enter, Turn, storeVars
<1>2. CASE MayEnter(c) /\ mutex' = c /\ calls[c].kind \in {"attach", "select"} /\ Ask(c, calls[c].kind)
  <2>1. calls[c].slot[1] \in existing /\ calls[c].kind # "query"
    BY <1>2 DEF MayEnter
  <2> QED BY <1>1, <1>2, <2>1, AskCalls
<1>3. CASE EndCalls({c}) /\ UNCHANGED pending
  BY <1>1, <1>3, EndedCalls
<1>4. CASE /\ MayEnter(c) /\ mutex' = c
           /\ calls' = [calls EXCEPT ![c].step = "writing"] /\ UNCHANGED pending
  <2>1. calls[c].slot[1] \in existing
    BY <1>4 DEF MayEnter
  <2>2. calls[c].kind # "query"
    BY <1>1 DEF CallsInv
  <2>3. \A d \in Calls : /\ calls'[d].kind = calls[d].kind /\ calls'[d].slot = calls[d].slot
                         /\ calls'[d].step = IF d = c THEN "writing" ELSE calls[d].step
    BY <1>4 DEF TypeInv, CallTypes, CallRecords
  <2>4. \A d \in Calls : Changing(d)' <=> d = c
    BY <1>1, <2>2, <2>3, NoneFacts DEF Changing, CallsInv
  <2>5. \A q \in pending : q.id \in Calls => q.id # c
    BY <1>1 DEF CallsInv
  <2>6. \A d \in Calls : Changing(d)' => calls'[d].slot[1] \in existing'
    BY <1>1, <2>1, <2>3, <2>4
  <2>7. \A q \in pending' : q.id \in Calls => calls'[q.id].step = "asked"
    BY <1>4, <2>3, <2>5 DEF CallsInv
  <2>8. \A d \in Calls : calls'[d].step = "queued" => calls'[d].kind # "query"
    BY <2>3 DEF CallsInv
  <2> QED BY <1>4, <2>4, <2>6, <2>7, <2>8 DEF CallsInv
<1> QED BY <1>2, <1>3, <1>4, EnterTypes

LEMMA StartCallCalls ==
    ASSUME TypeInv, CallsInv, NEW c \in Calls, NEW p \in Pages, StartCall(c, p) PROVE CallsInv'
<1>1. PICK r : /\ calls' = [calls EXCEPT ![c] = r] /\ r.step = "approving"
               /\ calls[c] = NoCall /\ UNCHANGED <<pending, mutex, existing>>
  <2>1. PICK kind \in Kinds, page \in Pages \cup {None}, slot \in Slots \cup {None}, conn \in Conns \cup {None} :
            /\ calls[c] = NoCall
            /\ calls' = [calls EXCEPT ![c] =
                    [kind |-> kind, step |-> "approving", page |-> page, slot |-> slot, conn |-> conn]]
            /\ UNCHANGED <<stage, clients, pending, mutex, unsynced, storeVars, netVars, plugin, faults>>
    BY StartCallRecord
  <2>2. PICK r : r = [kind |-> kind, step |-> "approving", page |-> page, slot |-> slot, conn |-> conn]
    OBVIOUS
  <2> QED BY <2>1, <2>2 DEF storeVars
<1>2. calls[c].step = "idle"
  BY <1>1, EndedFields
<1> QED BY <1>1, <1>2, StepKeepsCalls

LEMMA WritingEnds ==
    ASSUME TypeInv, CallsInv, NEW c \in Calls, calls[c].step = "writing", NEW ks,
           HandleCloses(ks, {c}), existing \subseteq existing' \/ calls[c].kind # "query"
    PROVE  CallsInv'
<1>1. calls[c].kind # "query" => mutex \in {c}
  BY DEF CallsInv, Changing
<1>2. \A d \in {c} : d \in Calls /\ calls[d].step # "asked"
  OBVIOUS
<1> QED BY <1>1, <1>2, HandleClosesCalls

LEMMA StoreCalls ==
    ASSUME TypeInv, CallsInv, NEW c \in Calls, StoreStep(c) \/ StoreFails(c)
    PROVE  CallsInv'
<1>1. CASE StoreAttach(c)
  <2>1. calls[c].step = "writing" /\ UNCHANGED existing
    BY <1>1 DEF StoreAttach
  <2>2. CASE EndCalls({c}) /\ UNCHANGED pending
    BY <2>1, <2>2, EndedCalls
  <2>3. CASE \E ks : HandleCloses(ks, {c})
    BY <2>1, <2>3, WritingEnds
  <2> QED BY <1>1, <2>2, <2>3 DEF StoreAttach, Hangup
<1>2. CASE StoreDetach(c)
  <2>1. calls[c].step = "writing" /\ UNCHANGED existing /\ \E ks : HandleCloses(ks, {c})
    BY <1>2 DEF StoreDetach, Hangup
  <2> QED BY <2>1, WritingEnds
<1>3. CASE StoreRemove(c)
  <2>1. calls[c].step = "writing" /\ calls[c].kind = "remove" /\ \E ks : HandleCloses(ks, {c})
    BY <1>3 DEF StoreRemove, Hangup
  <2> QED BY <2>1, WritingEnds
<1>4. CASE StoreAlignment(c)
  <2>1. calls[c].step = "writing" /\ EndCalls({c}) /\ UNCHANGED pending /\ UNCHANGED existing
    BY <1>4 DEF StoreAlignment, storeVars
  <2> QED BY <2>1, EndedCalls
<1>5. CASE StoreFails(c)
  <2>1. calls[c].step = "writing" /\ UNCHANGED existing /\ \E ks : HandleCloses(ks, {c})
    BY <1>5 DEF StoreFails, Hangup, storeVars
  <2> QED BY <2>1, WritingEnds
<1> QED BY <1>1, <1>2, <1>3, <1>4, <1>5 DEF StoreStep

-----------------------------------------------------------------------------
(* The clients: each has a socket of its own, and requests wait on it.     *)

LEMMA RegisteredConn ==
    ASSUME TypeInv, ClientsInv, NEW p \in Pages
    PROVE  /\ clients[p] # NoClient <=> clients[p].conn \in Conns
           /\ clients[p].conn \in Conns \cup {None}
           /\ p \in Registered <=> clients[p] # NoClient
  BY NoClientFields, NoneFacts DEF TypeInv, ClientTypes, ClientRecords, ClientsInv, Registered

LEMMA LossKeepsClients ==
    ASSUME TypeInv, ClientsInv, NEW ks, NEW cl, SameSockets(cl),
           stage' = Closed(ks), clients' = Dropped(cl, ks), pending' = pending \ Lost(ks)
    PROVE  ClientsInv'
<1>1. ASSUME NEW p \in Pages
      PROVE  /\ clients[p].conn \in ks => clients'[p] = NoClient /\ clients'[p].conn = None
             /\ clients[p].conn \notin ks => clients'[p].conn = clients[p].conn
             /\ clients'[p] # NoClient => clients[p] # NoClient /\ clients'[p].conn = clients[p].conn
  BY NoClientFields DEF SameSockets, Dropped
<1>2. \A k \in Conns : stage'[k] = IF k \in ks THEN "closed" ELSE stage[k]
  BY DEF Closed
<1>3. \A p \in Registered' : clients'[p].conn # None /\ p \in Registered
  BY <1>1 DEF ClientsInv, Registered
<1>4. \A p, q \in Registered' : clients'[p].conn = clients'[q].conn => p = q
  BY <1>1 DEF ClientsInv, Registered
<1>5. ASSUME NEW k \in Conns, stage'[k] \in {"audit", "open"}
      PROVE  \E p \in Pages : clients'[p].conn = k
  <2>1. k \notin ks /\ stage[k] \in {"audit", "open"}
    BY <1>2, <1>5
  <2>2. PICK p \in Pages : clients[p].conn = k
    BY <2>1 DEF ClientsInv
  <2> QED BY <1>1, <2>1, <2>2
<1>6. ASSUME NEW k \in Conns, stage'[k] \in {"challenge", "response"}, NEW p \in Pages
      PROVE  clients'[p].conn # k
  <2>1. clients[p].conn # k
    BY <1>2, <1>6 DEF ClientsInv
  <2> QED BY <1>1, <2>1, NoneFacts
<1>7. ASSUME NEW q \in pending'
      PROVE  clients'[q.page].conn = q.conn /\ stage'[q.conn] # "closed"
  <2>1. q \in pending /\ q \notin Lost(ks) /\ q.page \in Pages /\ q.conn \in Conns
    BY CallFields
  <2>2. clients[q.page].conn = q.conn /\ stage[q.conn] # "closed"
    BY <2>1 DEF ClientsInv
  <2>3. q.conn \notin ks
    BY <2>1, <2>2 DEF Lost
  <2> QED BY <1>1, <1>2, <2>1, <2>2, <2>3
<1> QED BY <1>3, <1>4, <1>5, <1>6, <1>7 DEF ClientsInv

(* The socket k takes the trace p over, and those in ks are closed; k too  *)
(* when its end is already known.                                          *)
LEMMA TakesOver ==
    ASSUME TypeInv, ClientsInv, NEW k \in Conns, NEW p \in Pages, NEW s \in {"audit", "closed"},
           stage[k] = "response",
           \A l \in Conns : stage'[l] = IF l = k THEN s ELSE IF l \in ConnOf(p) THEN "closed" ELSE stage[l],
           clients' = [clients EXCEPT ![p] = Joining(k, p)],
           pending' = pending \ Lost(ConnOf(p))
    PROVE  ClientsInv'
<1>1. \A q \in Pages : clients'[q] = IF q = p THEN Joining(k, p) ELSE clients[q]
  BY DEF TypeInv, ClientTypes
<1>2. Joining(k, p).conn = k /\ Joining(k, p) # NoClient /\ k # None
  BY JoiningTypes, NoneFacts
<1>3. \A q \in Pages : clients[q].conn # k
  BY DEF ClientsInv
<1>4. \A q \in Registered' : clients'[q].conn # None
  BY <1>1, <1>2 DEF ClientsInv, Registered
<1>5. \A q, r \in Registered' : clients'[q].conn = clients'[r].conn => q = r
  BY <1>1, <1>2, <1>3 DEF ClientsInv, Registered
<1>6. ASSUME NEW l \in Conns, stage'[l] \in {"audit", "open"}
      PROVE  \E q \in Pages : clients'[q].conn = l
  <2>1. CASE l = k
    BY <1>1, <1>2, <2>1
  <2>2. CASE l # k
    <3>1. l \notin ConnOf(p) /\ stage[l] \in {"audit", "open"}
      BY <1>6, <2>2
    <3>2. PICK q \in Pages : clients[q].conn = l
      BY <3>1 DEF ClientsInv
    <3>3. q # p
      BY <3>1, <3>2, NoneFacts DEF ConnOf, Live
    <3> QED BY <1>1, <3>2, <3>3
  <2> QED BY <2>1, <2>2
<1>7. ASSUME NEW l \in Conns, stage'[l] \in {"challenge", "response"}, NEW q \in Pages
      PROVE  clients'[q].conn # l
  <2>1. l # k /\ stage[l] \in {"challenge", "response"}
    BY <1>7
  <2> QED BY <1>1, <1>2, <2>1 DEF ClientsInv
<1>8. ASSUME NEW q \in pending'
      PROVE  clients'[q.page].conn = q.conn /\ stage'[q.conn] # "closed"
  <2>1. q \in pending /\ q \notin Lost(ConnOf(p)) /\ q.page \in Pages /\ q.conn \in Conns
    BY CallFields
  <2>2. clients[q.page].conn = q.conn /\ stage[q.conn] # "closed"
    BY <2>1 DEF ClientsInv
  <2>3. q.conn \notin ConnOf(p)
    BY <2>1, <2>2 DEF Lost
  <2>4. q.page # p
    BY <2>1, <2>2, <2>3, NoneFacts DEF ConnOf, Live
  <2>5. q.conn # k
    BY <1>3, <2>1, <2>2
  <2> QED BY <1>1, <2>1, <2>2, <2>3, <2>4, <2>5
<1> QED BY <1>4, <1>5, <1>6, <1>7, <1>8 DEF ClientsInv

(* No client gets or loses a socket.                                       *)
LEMMA SameKeepsClients ==
    ASSUME TypeInv, ClientsInv, SameSockets(clients'),
           \A k \in Conns :
                \/ stage'[k] = stage[k]
                \/ stage[k] \in {"challenge", "response"} /\ stage'[k] \in {"closed", "response"}
                \/ stage[k] = "audit" /\ stage'[k] = "open"
                \/ /\ stage[k] = "closed" /\ stage'[k] = "challenge"
                   /\ \A p \in Pages : clients[p].conn # k,
           \A q \in pending' :
                \/ q \in pending
                \/ q.page \in Pages /\ q.conn \in Conns /\ clients[q.page].conn = q.conn /\ stage[q.conn] # "closed"
    PROVE  ClientsInv'
<1>1. \A p \in Pages : /\ clients'[p].conn = clients[p].conn
                       /\ clients'[p] # NoClient => clients[p] # NoClient
  BY DEF SameSockets
<1>2. \A p \in Registered' : clients'[p].conn # None
  BY <1>1 DEF ClientsInv, Registered
<1>3. \A p, q \in Registered' : clients'[p].conn = clients'[q].conn => p = q
  BY <1>1 DEF ClientsInv, Registered
<1>4. ASSUME NEW k \in Conns, stage'[k] \in {"audit", "open"}
      PROVE  \E p \in Pages : clients'[p].conn = k
  <2>1. stage[k] \in {"audit", "open"}
    BY <1>4
  <2> QED BY <1>1, <2>1 DEF ClientsInv
<1>5. ASSUME NEW k \in Conns, stage'[k] \in {"challenge", "response"}, NEW p \in Pages
      PROVE  clients'[p].conn # k
  <2>1. stage[k] \in {"challenge", "response"} \/ \A r \in Pages : clients[r].conn # k
    BY <1>5
  <2> QED BY <1>1, <2>1 DEF ClientsInv
<1>6. ASSUME NEW q \in pending'
      PROVE  clients'[q.page].conn = q.conn /\ stage'[q.conn] # "closed"
  <2>1. q.page \in Pages /\ q.conn \in Conns /\ clients[q.page].conn = q.conn /\ stage[q.conn] # "closed"
    BY CallFields DEF ClientsInv
  <2>2. stage[q.conn] \notin {"challenge", "response"}
    BY <2>1 DEF ClientsInv
  <2> QED BY <1>1, <2>1, <2>2
<1> QED BY <1>2, <1>3, <1>4, <1>5, <1>6 DEF ClientsInv

LEMMA StillClients ==
    ASSUME TypeInv, ClientsInv, UNCHANGED <<stage, clients>>, pending' \subseteq pending PROVE ClientsInv'
<1>1. SameSockets(clients')
  BY SameSame DEF TypeInv
<1> QED BY <1>1, SameKeepsClients

LEMMA HangupClients ==
    ASSUME TypeInv, ClientsInv, NEW ks, NEW code, NEW cl, NEW ended, SameSockets(cl),
           Hangup(ks, code, cl, ended)
    PROVE  ClientsInv'
<1>1. stage' = Closed(ks) /\ clients' = Dropped(cl, ks) /\ pending' = pending \ Lost(ks)
  BY DEF Hangup, HandleCloses, Lost
<1> QED BY <1>1, LossKeepsClients

LEMMA RestartedClients ==
    ASSUME Restarted PROVE ClientsInv'
<1>1. stage' = [k \in Conns |-> "closed"] /\ clients' = [p \in Pages |-> NoClient] /\ pending' = {}
  BY DEF Restarted
<1> QED BY <1>1 DEF ClientsInv, Registered

LEMMA RefuseClients ==
    ASSUME TypeInv, ClientsInv, NEW k \in Conns, stage[k] \in {"challenge", "response"}, Refuse(k)
    PROVE  ClientsInv'
<1>1. /\ \A l \in Conns : stage'[l] = IF l = k THEN "closed" ELSE stage[l]
      /\ UNCHANGED <<clients, pending>>
  BY DEF Refuse, Closed
<1>2. SameSockets(clients')
  BY <1>1, SameSame DEF TypeInv
<1> QED BY <1>1, <1>2, SameKeepsClients

LEMMA RegisterClients ==
    ASSUME TypeInv, ClientsInv, NEW k \in Conns, NEW p \in Pages, stage[k] = "response", Register(k, p)
    PROVE  ClientsInv'
<1>1. /\ stage' = [Closed(ConnOf(p)) EXCEPT ![k] = "audit"]
      /\ clients' = [clients EXCEPT ![p] = Joining(k, p)]
      /\ pending' = pending \ Lost(ConnOf(p))
  BY DEF Register, Lost
<1>2. \A l \in Conns : stage'[l] = IF l = k THEN "audit" ELSE IF l \in ConnOf(p) THEN "closed" ELSE stage[l]
  BY <1>1 DEF Closed
<1> QED BY <1>1, <1>2, TakesOver

LEMMA AuthResponseClients ==
    ASSUME TypeInv, ClientsInv, NEW k \in Conns, AuthResponse(k) \/ AuthResponseAfterClose(k) PROVE ClientsInv'
<1> DEFINE p == Head(toBroker[k]).page
<1>1. FramesInv /\ p \in Pages /\ stage[k] = "response"
  <2>1. At(k, {"response"}, "auth_response") /\ FramesInv
    BY DEF AuthResponse, AuthResponseAfterClose, TypeInv
  <2> QED BY <2>1, AtHead, BrokerFrameTypes DEF At
<1>2. CASE AuthResponse(k)
  BY <1>1, <1>2, RefuseClients, RegisterClients DEF AuthResponse
<1>3. CASE AuthResponseAfterClose(k)
  <2>1. /\ stage' = Closed(ConnOf(p) \cup {k})
        /\ clients' = [clients EXCEPT ![p] = Joining(k, p)]
        /\ pending' = pending \ Lost(ConnOf(p))
    BY <1>3 DEF AuthResponseAfterClose, Lost
  <2> HIDE DEF p
  <2>2. \A l \in Conns : stage'[l] = IF l = k THEN "closed" ELSE IF l \in ConnOf(p) THEN "closed" ELSE stage[l]
    BY <2>1 DEF Closed
  <2> QED BY <1>1, <2>1, <2>2, TakesOver
<1> QED BY <1>2, <1>3

LEMMA BrokerClients ==
    ASSUME TypeInv, ClientsInv, NEW k \in Conns,
           \/ AuthChallenge(k) \/ RefuseMessage(k) \/ AuthFails(k) \/ PeerClosed(k) \/ Response(k)
           \/ Event(k) \/ HelloAck(k) \/ Lose(k)
    PROVE  ClientsInv'
<1>1. SameSockets(clients)
  BY SameSame DEF TypeInv
<1>2. CASE AuthChallenge(k)
  <2>1. /\ \A l \in Conns : stage'[l] = IF l = k THEN "response" ELSE stage[l]
        /\ stage[k] = "challenge" /\ UNCHANGED <<clients, pending>>
    BY <1>2 DEF AuthChallenge, At, TypeInv, StageInv
  <2> QED BY <1>1, <2>1, SameKeepsClients
<1>3. CASE RefuseMessage(k)
  BY <1>3, RefuseClients DEF RefuseMessage, At
<1>4. CASE AuthFails(k)
  BY <1>1, <1>4, HangupClients DEF AuthFails
<1>5. CASE PeerClosed(k)
  <2>1. stage' = Closed({k}) /\ clients' = Dropped(clients, {k}) /\ pending' = pending \ Lost({k})
    BY <1>5 DEF PeerClosed, HandleCloses, Lost
  <2> QED BY <1>1, <2>1, LossKeepsClients
<1>6. CASE Response(k)
  <2>1. PICK id : clients' = Unlocked(id) /\ pending' \subseteq pending /\ UNCHANGED stage
    BY <1>6 DEF Response
  <2>2. SameSockets(clients')
    BY <2>1, UnlockedSame DEF TypeInv, SameSockets
  <2> QED BY <2>1, <2>2, SameKeepsClients
<1>7. CASE Event(k)
  <2>1. CASE Hangup({k}, 1008, clients, {})
    BY <1>1, <2>1, HangupClients
  <2>2. CASE UNCHANGED <<stage, clients, pending>>
    BY <2>2, StillClients
  <2> QED BY <1>7, <2>1, <2>2 DEF Event
<1>8. CASE HelloAck(k)
  <2>1. /\ stage[k] = "audit" /\ \A l \in Conns : stage'[l] = IF l = k THEN "open" ELSE stage[l]
    BY <1>8 DEF HelloAck, TypeInv, StageInv
  <2>2. /\ SameSockets(clients') /\ ClientOf(k) \in Pages /\ clients[ClientOf(k)].conn = k
        /\ UNCHANGED pending \/ pending' = Asked(k, ClientOf(k))
    BY <1>8, HelloAckTypes
  <2>3. ASSUME NEW q \in pending', q \notin pending
        PROVE  q.page \in Pages /\ q.conn \in Conns /\ clients[q.page].conn = q.conn /\ stage[q.conn] # "closed"
    <3>1. q = [id |-> k, page |-> ClientOf(k), conn |-> clients[ClientOf(k)].conn]
      BY <2>2, <2>3 DEF Asked
    <3>2. q.page = ClientOf(k) /\ q.conn = k
      BY <2>2, <3>1
    <3> QED BY <2>1, <2>2, <3>2
  <2> QED BY <2>1, <2>2, <2>3, SameKeepsClients
<1>9. CASE Lose(k)
  BY <1>9, StillClients DEF Lose, memVars
<1> QED BY <1>2, <1>3, <1>4, <1>5, <1>6, <1>7, <1>8, <1>9

LEMMA AskClients ==
    ASSUME TypeInv, ClientsInv, NEW c \in Calls, NEW method, calls[c].page \in Pages,
           CanAsk(calls[c].page, method), Ask(c, method), UNCHANGED stage
    PROVE  /\ ClientsInv'
           /\ \A p \in Pages : /\ clients'[p].conn = clients[p].conn /\ clients'[p].at = clients[p].at
                               /\ clients[p] = NoClient => clients'[p] = NoClient
                               /\ clients'[p].query = IF method = "query" /\ p = calls[c].page
                                                      THEN c ELSE clients[p].query
<1> DEFINE p == calls[c].page
<1>1. /\ pending' = pending \cup {[id |-> c, page |-> p, conn |-> clients[p].conn]}
      /\ clients' = IF method = "query" THEN [clients EXCEPT ![p].query = c] ELSE clients
  BY DEF Ask, Asked
<1>2. clients[p].conn \in Conns /\ stage[clients[p].conn] # "closed" /\ clients[p] # NoClient
  BY CanAskFacts
<1>3. /\ clients' \in [Pages -> ClientRecords]
      /\ \A q \in Pages : /\ clients'[q].conn = clients[q].conn /\ clients'[q].at = clients[q].at
                          /\ clients[q] = NoClient => clients'[q] = NoClient
                          /\ clients'[q].query = IF method = "query" /\ q = p THEN c ELSE clients[q].query
  BY <1>1, <1>2 DEF TypeInv, ClientTypes, ClientRecords
<1>4. SameSockets(clients')
  BY <1>3 DEF SameSockets
<1>5. ASSUME NEW q \in pending', q \notin pending
      PROVE  q.page \in Pages /\ q.conn \in Conns /\ clients[q.page].conn = q.conn /\ stage[q.conn] # "closed"
  <2>1. q = [id |-> c, page |-> p, conn |-> clients[p].conn]
    BY <1>1, <1>5
  <2>2. q.page = p /\ q.conn = clients[p].conn
    BY <2>1
  <2> QED BY <1>2, <2>2
<1>6. ClientsInv'
  BY <1>4, <1>5, SameKeepsClients
<1> QED BY <1>3, <1>6

LEMMA CallClients ==
    ASSUME TypeInv, CallsInv, ClientsInv, NEW c \in Calls,
           \/ Approved(c) \/ Denied(c) \/ Enter(c) \/ StoreStep(c) \/ StoreFails(c)
           \/ \E p \in Pages : StartCall(c, p)
    PROVE  ClientsInv'
<1>1. CASE Approved(c)
  BY <1>1, ApprovedTypes, AskClients, StillClients DEF Approved
<1>2. CASE Denied(c)
  BY <1>2, StillClients DEF Denied
<1>3. CASE Enter(c)
  <2>1. UNCHANGED stage
    BY <1>3 DEF Enter
  <2>2. CASE UNCHANGED <<clients, pending>>
    BY <2>1, <2>2, StillClients
  <2>3. CASE Ask(c, calls[c].kind) /\ CanAsk(calls[c].page, calls[c].kind) /\ calls[c].page \in Pages
    BY <2>1, <2>3, AskClients
  <2> QED BY <1>3, <2>2, <2>3, EnterTypes
<1>4. CASE StoreAttach(c)
  <2>1. CASE UNCHANGED <<stage, clients, pending>>
    BY <2>1, StillClients
  <2>2. CASE \E ks, g : Hangup(ks, 4002, Synchronized(g), {c})
    BY <2>2, SynchronizedSame, HangupClients DEF TypeInv
  <2> QED BY <1>4, <2>1, <2>2 DEF StoreAttach
<1>5. CASE StoreDetach(c)
  <2>1. \E ks, g : Hangup(ks, 4002, Synchronized(g), {c})
    BY <1>5 DEF StoreDetach
  <2> QED BY <2>1, SynchronizedSame, HangupClients DEF TypeInv
<1>6. CASE StoreRemove(c)
  <2>1. \E ks, g : Hangup(ks, 4002, Synchronized(g), {c})
    BY <1>6 DEF StoreRemove
  <2> QED BY <2>1, SynchronizedSame, HangupClients DEF TypeInv
<1>7. CASE StoreAlignment(c)
  BY <1>7, StillClients DEF StoreAlignment
<1>8. CASE StoreFails(c)
  <2>1. \E ks : Hangup(ks, 1011, clients, {c})
    BY <1>8 DEF StoreFails
  <2> QED BY <2>1, SameSame, HangupClients DEF TypeInv
<1>9. CASE \E p \in Pages : StartCall(c, p)
  <2>1. UNCHANGED <<stage, clients, pending>>
    BY <1>9, StartCallRecord
  <2> QED BY <2>1, StillClients
<1> QED BY <1>1, <1>2, <1>3, <1>4, <1>5, <1>6, <1>7, <1>8, <1>9 DEF StoreStep

LEMMA PingClients ==
    ASSUME TypeInv, ClientsInv, Ping PROVE ClientsInv'
<1>1. CASE Restarted
  BY <1>1, RestartedClients
<1>2. CASE ~Restarted
  <2>1. PICK silent :
            /\ stage' = Closed(silent)
            /\ clients' = Dropped(clients, silent)
            /\ pending' = pending \ Lost(silent)
    BY <1>2 DEF Ping, HandleCloses, Lost
  <2> QED BY <2>1, SameSame, LossKeepsClients DEF TypeInv
<1> QED BY <1>1, <1>2

LEMMA ConnectsFree ==
    ASSUME NEW p \in Pages, Connect(p)
    PROVE  \E k \in Free :
            \/ UNCHANGED stage
            \/ stage' = [stage EXCEPT ![k] = "challenge"] /\ ~(Cardinality(Live(Conns)) >= 2 * MaxClients)
  BY ZenonT(60) DEF Connect

LEMMA ConnectClients ==
    ASSUME TypeInv, ClientsInv, NEW p \in Pages, Connect(p) PROVE ClientsInv'
<1>1. PICK k \in Free : stage' = stage \/ stage' = [stage EXCEPT ![k] = "challenge"]
  BY ConnectsFree
<1>2. k \in Conns /\ stage[k] = "closed" /\ \A q \in Pages : clients[q].conn # k
  BY DEF Free
<1>3. \A l \in Conns : stage'[l] = stage[l] \/ (l = k /\ stage'[l] = "challenge")
  BY <1>1, <1>2 DEF TypeInv, StageInv
<1>4. SameSockets(clients') /\ UNCHANGED pending
  BY SameSame DEF Connect, TypeInv
<1> QED BY <1>2, <1>3, <1>4, SameKeepsClients

-----------------------------------------------------------------------------
(* The queries: each is on its way, runs or is answered, and a client that *)
(* is owed an answer is locked.                                            *)

(* How the broker and the store change when no call asks for anything:     *)
(* calls only advance; a client keeps its query unless it is answered, is    *)
(* gone, or is new on the socket of a handshake; and a socket starts its   *)
(* handshake with nothing on its way.                                      *)
CallsAdvance == \A c \in Calls : calls[c].step \notin Early => calls'[c].step \notin Early

ClientsStay ==
    \A p \in Pages : clients'[p] # NoClient =>
        \/ /\ clients[p] # NoClient /\ clients'[p].conn = clients[p].conn
           /\ clients'[p].query = clients[p].query \/ clients[p].query \in Served
        \/ clients'[p].conn \in Conns /\ stage[clients'[p].conn] \in {"challenge", "response"}

HandshakesStay ==
    \A k \in Conns : stage'[k] \in {"challenge", "response"} =>
        stage[k] \in {"challenge", "response"} \/ toPage[k] = <<>>

(* Of the requests that are on their way after a step, those of calls were *)
(* on their way before it.                                                 *)
AsksNothing(d) ==
    /\ d \in [Conns -> Nat]
    /\ \A k \in Conns, n \in Nat : Asking(k, n)' =>
        n + d[k] \in Nat /\ Asking(k, n + d[k]) /\ toPage[k][n + d[k]] = toPage'[k][n]

LEMMA ForwardsAsks ==
    ASSUME TypeInv, NEW N, Forwards(toPage', N), \A f \in N : f.type = "request" => f.id \notin Calls
    PROVE  \E d : AsksNothing(d)
<1>1. PICK d \in [Conns -> Nat] : \A k \in Conns : \A n \in DOMAIN toPage'[k] :
        Mark(toPage'[k][n]) =>
            \/ toPage'[k][n] \in N
            \/ n + d[k] \in DOMAIN toPage[k] /\ toPage[k][n + d[k]] = toPage'[k][n]
  BY DEF Forwards
<1>2. ASSUME NEW k \in Conns, NEW n \in Nat, Asking(k, n)'
      PROVE  n + d[k] \in Nat /\ Asking(k, n + d[k]) /\ toPage[k][n + d[k]] = toPage'[k][n]
  <2>1. n \in DOMAIN toPage'[k] /\ toPage'[k][n].type = "request" /\ toPage'[k][n].id \in Calls
    BY <1>2 DEF Asking
  <2>2. toPage'[k][n] \notin N
    BY <2>1
  <2>3. n + d[k] \in DOMAIN toPage[k] /\ toPage[k][n + d[k]] = toPage'[k][n]
    BY <1>1, <2>1, <2>2 DEF Mark
  <2> QED BY <2>1, <2>3 DEF Asking
<1> QED BY <1>1, <1>2 DEF AsksNothing

LEMMA ToldType == Told' \subseteq Calls /\ Told \subseteq Calls /\ Running \subseteq Calls /\ Running' \subseteq Calls
  BY DEF Told, Running

LEMMA TellsServed ==
    ASSUME NEW I, Tells(toBroker', I), Running' \subseteq Running \cup I
    PROVE  Served' \subseteq Served \cup I
<1>1. Told' \subseteq Told \cup I
  BY DEF Told, Tells, Answered
<1> QED BY <1>1 DEF Served

(* The first and the last part of the invariant, and what concerns the     *)
(* calls in the second, for any step that answers requests no longer on    *)
(* their way.                                                              *)
QueryOnce ==
    /\ \A k, l \in Conns, n, m \in Nat :
        Asking(k, n) /\ Asking(l, m) /\ toPage[k][n].id = toPage[l][m].id => k = l /\ n = m
    /\ \A k \in Conns, n \in Nat : Asking(k, n) =>
        toPage[k][n].id \notin Served /\ calls[toPage[k][n].id].step \notin Early
    /\ \A c \in Served : calls[c].step \notin Early

QueryLocks ==
    \A k \in Conns, n \in Nat : Asking(k, n) =>
        /\ stage[k] \notin {"challenge", "response"}
        /\ toPage[k][n].method = "query" =>
            \A p \in Registered : clients[p].conn = k => clients[p].query = toPage[k][n].id

LEMMA QueryParts == QueriesInv <=> QueryOnce /\ QueryLocks
  BY DEF QueriesInv, QueryOnce, QueryLocks

LEMMA OnceKept ==
    ASSUME QueryOnce, NEW d, AsksNothing(d), CallsAdvance, NEW I, Served' \subseteq Served \cup I,
           \A k \in Conns, n \in Nat : Asking(k, n)' => toPage'[k][n].id \notin I,
           \A i \in I : i \in Calls => calls[i].step \notin Early
    PROVE  QueryOnce'
<1>1. ASSUME NEW k \in Conns, NEW l \in Conns, NEW n \in Nat, NEW m \in Nat,
             Asking(k, n)', Asking(l, m)', toPage'[k][n].id = toPage'[l][m].id
      PROVE  k = l /\ n = m
  <2>1. /\ Asking(k, n + d[k]) /\ toPage[k][n + d[k]] = toPage'[k][n] /\ n + d[k] \in Nat
        /\ Asking(l, m + d[l]) /\ toPage[l][m + d[l]] = toPage'[l][m] /\ m + d[l] \in Nat
    BY <1>1 DEF AsksNothing
  <2>2. k = l /\ n + d[k] = m + d[l]
    BY <1>1, <2>1 DEF QueryOnce
  <2>3. d[k] \in Nat
    BY DEF AsksNothing
  <2> QED BY <2>2, <2>3
<1>2. ASSUME NEW k \in Conns, NEW n \in Nat, Asking(k, n)'
      PROVE  toPage'[k][n].id \notin Served' /\ calls'[toPage'[k][n].id].step \notin Early
  <2>1. Asking(k, n + d[k]) /\ toPage[k][n + d[k]] = toPage'[k][n] /\ n + d[k] \in Nat
    BY <1>2 DEF AsksNothing
  <2>2. toPage'[k][n].id \notin Served /\ calls[toPage'[k][n].id].step \notin Early
    BY <2>1 DEF QueryOnce
  <2>3. toPage'[k][n].id \in Calls
    BY <1>2 DEF Asking
  <2> QED BY <1>2, <2>2, <2>3 DEF CallsAdvance
<1>3. ASSUME NEW c \in Served'
      PROVE  calls'[c].step \notin Early
  <2>1. c \in Calls
    BY ToldType DEF Served
  <2>2. calls[c].step \notin Early
    BY <2>1 DEF QueryOnce
  <2> QED BY <2>1, <2>2 DEF CallsAdvance
<1> QED BY <1>1, <1>2, <1>3 DEF QueryOnce

LEMMA LocksKept ==
    ASSUME TypeInv, QueriesInv, NEW d, AsksNothing(d), ClientsStay, HandshakesStay
    PROVE  QueryLocks'
<1>1. ASSUME NEW k \in Conns, NEW n \in Nat, Asking(k, n)'
      PROVE  /\ stage'[k] \notin {"challenge", "response"}
             /\ toPage'[k][n].method = "query" =>
                    \A p \in Registered' : clients'[p].conn = k => clients'[p].query = toPage'[k][n].id
  <2>1. Asking(k, n + d[k]) /\ toPage[k][n + d[k]] = toPage'[k][n] /\ n + d[k] \in Nat
    BY <1>1 DEF AsksNothing
  <2>2. /\ stage[k] \notin {"challenge", "response"}
        /\ toPage'[k][n].id \notin Served
        /\ toPage'[k][n].method = "query" =>
            \A p \in Registered : clients[p].conn = k => clients[p].query = toPage'[k][n].id
    BY <2>1 DEF QueriesInv
  <2>3. toPage[k] # <<>>
    BY <2>1 DEF Asking
  <2>4. stage'[k] \notin {"challenge", "response"}
    BY <2>2, <2>3 DEF HandshakesStay
  <2>5. ASSUME NEW p \in Registered', clients'[p].conn = k, toPage'[k][n].method = "query"
        PROVE  clients'[p].query = toPage'[k][n].id
    <3>1. /\ p \in Pages /\ clients[p] # NoClient /\ clients[p].conn = k
          /\ clients'[p].query = clients[p].query \/ clients[p].query \in Served
      BY <2>2, <2>5 DEF ClientsStay, Registered
    <3>2. clients[p].query = toPage'[k][n].id
      BY <2>2, <2>5, <3>1 DEF Registered
    <3> QED BY <2>2, <3>1, <3>2
  <2> QED BY <2>4, <2>5
<1> QED BY <1>1 DEF QueryLocks

LEMMA QuietQueries ==
    ASSUME TypeInv, QueriesInv, NEW N, Forwards(toPage', N), \A f \in N : f.type = "request" => f.id \notin Calls,
           Served' \subseteq Served, CallsAdvance, ClientsStay, HandshakesStay
    PROVE  QueriesInv'
<1>1. PICK d : AsksNothing(d)
  BY ForwardsAsks
<1>2. QueryLocks'
  BY <1>1, LocksKept
<1>3. PICK I : I = {}
  OBVIOUS
<1>4. Served' \subseteq Served \cup I
  BY <1>3
<1>5. /\ \A k \in Conns, n \in Nat : Asking(k, n)' => toPage'[k][n].id \notin I
      /\ \A i \in I : i \in Calls => calls[i].step \notin Early
  BY <1>3
<1>6. QueryOnce
  BY QueryParts
<1>7. QueryOnce'
  BY <1>1, <1>4, <1>5, <1>6, OnceKept
<1>8. QueriesInv' <=> QueryOnce' /\ QueryLocks'
  BY DEF QueriesInv, QueryOnce, QueryLocks
<1> QED BY <1>2, <1>7, <1>8

LEMMA QuietSendsServed ==
    ASSUME NEW N, Sends(N, {}), Running' \subseteq Running
    PROVE  Served' \subseteq Served /\ Forwards(toPage', N)
<1>1. PICK I : I = {}
  OBVIOUS
<1>2. Tells(toBroker', I) /\ Running' \subseteq Running \cup I
  BY <1>1 DEF Sends
<1>3. Served' \subseteq Served \cup I
  BY <1>2, TellsServed
<1> QED BY <1>1, <1>3 DEF Sends

LEMMA SilentQueries ==
    ASSUME TypeInv, QueriesInv, Sends({}, {}), Running' \subseteq Running,
           CallsAdvance, ClientsStay, HandshakesStay
    PROVE  QueriesInv'
<1>1. PICK N : N = {}
  OBVIOUS
<1>2. Sends(N, {})
  BY <1>1
<1>3. Served' \subseteq Served /\ Forwards(toPage', N)
  BY <1>2, QuietSendsServed
<1>4. \A f \in N : f.id \notin Calls
  BY <1>1
<1> QED BY <1>3, <1>4, QuietQueries

LEMMA SameRunning == ASSUME UNCHANGED plugin PROVE Running' \subseteq Running
  BY DEF Running

LEMMA EndsAdvance ==
    ASSUME NEW cs, EndCalls(cs) PROVE CallsAdvance
  BY EndedFields DEF EndCalls, CallsAdvance, Early

LEMMA StillAdvance ==
    /\ UNCHANGED calls => CallsAdvance
    /\ UNCHANGED clients => ClientsStay
    /\ UNCHANGED stage => HandshakesStay
  BY DEF CallsAdvance, ClientsStay, HandshakesStay

LEMMA ClosedStay ==
    ASSUME TypeInv, NEW ks, stage' = Closed(ks) PROVE HandshakesStay
  BY DEF Closed, HandshakesStay

LEMMA DroppedStay ==
    ASSUME NEW ks, NEW cl, SameSockets(cl), SameQueries(cl), clients' = Dropped(cl, ks)
    PROVE  ClientsStay
<1>1. ASSUME NEW p \in Pages, clients'[p] # NoClient
      PROVE  /\ clients[p] # NoClient /\ clients'[p].conn = clients[p].conn
             /\ clients'[p].query = clients[p].query
  <2>1. clients'[p] = cl[p]
    BY <1>1 DEF Dropped
  <2> QED BY <1>1, <2>1 DEF SameSockets, SameQueries
<1> QED BY <1>1 DEF ClientsStay

LEMMA HangupStay ==
    ASSUME TypeInv, NEW ks, NEW code, NEW cl, NEW ended, SameSockets(cl), SameQueries(cl),
           Hangup(ks, code, cl, ended)
    PROVE  CallsAdvance /\ ClientsStay /\ HandshakesStay
<1>1. stage' = Closed(ks) /\ clients' = Dropped(cl, ks)
  BY DEF Hangup
<1>2. \E cs : EndCalls(cs)
  BY DEF Hangup, HandleCloses
<1> QED BY <1>1, <1>2, EndsAdvance, ClosedStay, DroppedStay

LEMMA TakesOverStays ==
    ASSUME TypeInv, NEW k \in Conns, NEW p \in Pages, NEW ks, stage[k] = "response",
           clients' = [clients EXCEPT ![p] = Joining(k, p)],
           \A l \in Conns : stage'[l] = stage[l] \/ stage'[l] \in {"audit", "closed"}
    PROVE  ClientsStay /\ HandshakesStay
<1>1. \A q \in Pages : clients'[q] = IF q = p THEN Joining(k, p) ELSE clients[q]
  BY DEF TypeInv, ClientTypes
<1>2. ClientsStay
  <2>1. Joining(k, p).conn = k
    BY JoiningTypes
  <2> QED BY <1>1, <2>1 DEF ClientsStay
<1>3. HandshakesStay
  BY DEF HandshakesStay
<1> QED BY <1>2, <1>3

LEMMA RegisteringQueries ==
    ASSUME TypeInv, QueriesInv, NEW k \in Conns, AuthResponse(k) \/ AuthResponseAfterClose(k)
    PROVE  QueriesInv'
<1> DEFINE p == Head(toBroker[k]).page
<1>1. At(k, {"response"}, "auth_response") /\ UNCHANGED plugin
  BY DEF AuthResponse, AuthResponseAfterClose
<1>2. stage[k] = "response" /\ p \in Pages
  BY <1>1, AtHead, BrokerFrameTypes DEF At, TypeInv
<1>3. Sends({}, {}) /\ Running' \subseteq Running
  BY <1>1, AuthResponseTypes, AfterCloseTypes, SameRunning
<1>4. CallsAdvance /\ ClientsStay /\ HandshakesStay
  <2>1. CASE Refuse(k)
    BY <2>1, StillAdvance, ClosedStay DEF Refuse
  <2>2. CASE Register(k, p)
    <3>1. /\ \E cs : EndCalls(cs)
          /\ clients' = [clients EXCEPT ![p] = Joining(k, p)]
          /\ stage' = [Closed(ConnOf(p)) EXCEPT ![k] = "audit"]
      BY <2>2 DEF Register
    <3>2. \A l \in Conns : stage'[l] = stage[l] \/ stage'[l] \in {"audit", "closed"}
      BY <3>1 DEF Closed
    <3> QED BY <1>2, <3>1, <3>2, EndsAdvance, TakesOverStays
  <2>3. CASE AuthResponseAfterClose(k)
    <3>1. /\ \E cs : EndCalls(cs)
          /\ clients' = [clients EXCEPT ![p] = Joining(k, p)]
          /\ stage' = Closed(ConnOf(p) \cup {k})
      BY <2>3 DEF AuthResponseAfterClose
    <3>2. \A l \in Conns : stage'[l] = stage[l] \/ stage'[l] \in {"audit", "closed"}
      BY <3>1 DEF Closed
    <3> QED BY <1>2, <3>1, <3>2, EndsAdvance, TakesOverStays
  <2> QED BY <2>1, <2>2, <2>3 DEF AuthResponse
<1> QED BY <1>3, <1>4, SilentQueries

LEMMA ResponseQueries ==
    ASSUME TypeInv, QueriesInv, NEW k \in Conns, Response(k) PROVE QueriesInv'
<1> DEFINE id == Head(toBroker[k]).id
<1>1. At(k, {"open"}, "response") /\ clients' = Unlocked(id) /\ UNCHANGED <<stage, plugin>>
  BY DEF Response
<1>2. Sends({}, {}) /\ Running' \subseteq Running
  BY <1>1, ResponseTypes, SameRunning
<1>3. id \in Calls => id \in Served
  BY <1>1, AtHead DEF TypeInv, Told, Served
<1>4. ClientsStay
  <2>1. ASSUME NEW p \in Pages, clients'[p] # NoClient
        PROVE  /\ clients[p] # NoClient /\ clients'[p].conn = clients[p].conn
               /\ clients'[p].query = clients[p].query \/ clients[p].query \in Served
    <3>1. /\ clients[p] = NoClient => Unlocked(id)[p] = NoClient
          /\ Unlocked(id)[p].conn = clients[p].conn
          /\ Unlocked(id)[p].query = IF clients[p].query = id THEN None ELSE clients[p].query
      BY UnlockedSame DEF TypeInv
    <3>2. clients[p].query \in Calls \cup {None}
      BY DEF TypeInv, ClientTypes, ClientRecords
    <3>3. id \in Ids
      BY <1>1, AtHead, BrokerFrameTypes DEF TypeInv
    <3> QED BY <1>1, <1>3, <2>1, <3>1, <3>2, <3>3, NoneFacts
  <2> QED BY <2>1 DEF ClientsStay
<1>5. CallsAdvance
  <2>1. CASE \E cs : EndCalls(cs)
    BY <2>1, EndsAdvance
  <2>2. CASE \E cs : calls' = [c \in Calls |-> IF c \in cs THEN [calls[c] EXCEPT !.step = "writing"]
                                               ELSE calls[c]]
    <3>1. \A c \in Calls : calls[c] \in CallRecords
      BY DEF TypeInv, CallTypes
    <3>2. \A c \in Calls : calls'[c] = calls[c] \/ calls'[c].step = "writing"
      BY <2>2, <3>1 DEF CallRecords
    <3> QED BY <3>2 DEF CallsAdvance, Early
  <2> QED BY <2>1, <2>2 DEF Response
<1> QED BY <1>1, <1>2, <1>4, <1>5, StillAdvance, SilentQueries

LEMMA BrokerQueries ==
    ASSUME TypeInv, ClientsInv, QueriesInv, NEW k \in Conns,
           \/ AuthChallenge(k) \/ RefuseMessage(k) \/ AuthFails(k) \/ PeerClosed(k) \/ Event(k) \/ Lose(k)
    PROVE  QueriesInv'
<1>0. SameSockets(clients) /\ SameQueries(clients)
  BY SameSame DEF TypeInv
<1>1. CASE AuthChallenge(k)
  <2>1. UNCHANGED <<clients, calls, plugin>> /\ stage[k] = "challenge" /\ stage' = [stage EXCEPT ![k] = "response"]
    BY <1>1 DEF AuthChallenge, At
  <2>2. HandshakesStay
    BY <2>1 DEF HandshakesStay, TypeInv, StageInv
  <2> QED BY <1>1, <2>1, <2>2, AuthChallengeTypes, SameRunning, StillAdvance, SilentQueries
<1>2. CASE RefuseMessage(k)
  <2>1. UNCHANGED <<clients, calls, plugin>> /\ stage' = Closed({k})
    BY <1>2 DEF RefuseMessage, Refuse
  <2>2. HandshakesStay
    BY <2>1, ClosedStay
  <2> QED BY <1>2, <2>1, <2>2, RefuseMessageTypes, SameRunning, StillAdvance, SilentQueries
<1>3. CASE AuthFails(k)
  <2>1. Hangup({k}, 1008, clients, {}) /\ UNCHANGED plugin
    BY <1>3 DEF AuthFails
  <2>2. CallsAdvance /\ ClientsStay /\ HandshakesStay
    BY <1>0, <2>1, HangupStay
  <2> QED BY <1>3, <2>1, <2>2, AuthFailsTypes, SameRunning, SilentQueries
<1>4. CASE PeerClosed(k)
  <2>1. /\ stage' = Closed({k}) /\ clients' = Dropped(clients, {k}) /\ UNCHANGED plugin
        /\ \E cs : EndCalls(cs)
    BY <1>4 DEF PeerClosed, HandleCloses
  <2>2. CallsAdvance /\ ClientsStay /\ HandshakesStay
    BY <1>0, <2>1, EndsAdvance, ClosedStay, DroppedStay
  <2> QED BY <1>4, <2>1, <2>2, PeerClosedTypes, SameRunning, SilentQueries
<1>5. CASE Event(k)
  <2>1. UNCHANGED plugin
    BY <1>5 DEF Event
  <2>2. UNCHANGED <<stage, clients, calls>> \/ Hangup({k}, 1008, clients, {})
    BY <1>5 DEF Event
  <2>3. CallsAdvance /\ ClientsStay /\ HandshakesStay
    BY <1>0, <2>2, StillAdvance, HangupStay
  <2> QED BY <1>5, <2>1, <2>3, EventTypes, SameRunning, SilentQueries
<1>6. CASE Lose(k)
  <2>1. UNCHANGED <<stage, clients, calls, plugin>>
    BY <1>6 DEF Lose, memVars
  <2> QED BY <1>6, <2>1, LoseTypes, SameRunning, StillAdvance, SilentQueries
<1> QED BY <1>1, <1>2, <1>3, <1>4, <1>5, <1>6

LEMMA HelloAckQueries ==
    ASSUME TypeInv, ClientsInv, QueriesInv, NEW k \in Conns, HelloAck(k) PROVE QueriesInv'
<1>1. UNCHANGED <<calls, plugin>> /\ stage' = [stage EXCEPT ![k] = "open"]
  BY DEF HelloAck
<1>2. SameSockets(clients') /\ SameQueries(clients')
  BY HelloAckTypes
<1>3. ClientsStay
  <2>1. \A p \in Pages : clients'[p] # NoClient =>
            /\ clients[p] # NoClient /\ clients'[p].conn = clients[p].conn
            /\ clients'[p].query = clients[p].query
    BY <1>2 DEF SameSockets, SameQueries
  <2> QED BY <2>1 DEF ClientsStay
<1>4. HandshakesStay
  BY <1>1 DEF HandshakesStay, TypeInv, StageInv
<1>5. CallsAdvance
  BY <1>1, StillAdvance
<1>6. Running' \subseteq Running
  BY <1>1, SameRunning
<1>7. PICK N : Sends(N, {}) /\ \A f \in N : Ack(f) \/ (f \in Requests /\ f.id = k)
  BY HelloAckTypes
<1>8. \A f \in N : f.type = "request" => f.id \notin Calls
  BY <1>7, NoneFacts DEF Ack
<1>9. Served' \subseteq Served /\ Forwards(toPage', N)
  BY <1>6, <1>7, QuietSendsServed
<1> QED BY <1>3, <1>4, <1>5, <1>8, <1>9, QuietQueries

LEMMA RestartedStay ==
    ASSUME TypeInv, Restarted
    PROVE  CallsAdvance /\ ClientsStay /\ HandshakesStay /\ Running' \subseteq Running
<1>1. \A c \in Calls : calls'[c] = calls[c] \/ calls'[c] = Ended
  BY DEF Restarted
<1>2. CallsAdvance
  BY <1>1, EndedFields DEF CallsAdvance, Early
<1>3. ClientsStay /\ HandshakesStay /\ UNCHANGED plugin
  BY DEF Restarted, ClientsStay, HandshakesStay
<1> QED BY <1>2, <1>3, SameRunning

LEMMA DaemonQueries ==
    ASSUME TypeInv, QueriesInv,
           \/ Ping \/ Restart \/ \E q \in pending : Timeout(q)
           \/ \E s \in Sessions : CreateSession(s)
    PROVE  QueriesInv'
<1>1. CASE Restart
  BY <1>1, RestartTypes, RestartedStay, SilentQueries DEF Restart
<1>2. CASE Ping
  <2>1. CASE Restarted
    BY <1>2, <2>1, PingTypes, RestartedStay, SilentQueries
  <2>2. CASE ~Restarted
    <3>1. PICK silent : /\ stage' = Closed(silent) /\ clients' = Dropped(clients, silent)
                        /\ HandleCloses(silent, {})
      BY <1>2, <2>2 DEF Ping
    <3>2. \E cs : EndCalls(cs)
      BY <3>1 DEF HandleCloses
    <3>3. UNCHANGED plugin
      BY <1>2 DEF Ping, Restarted
    <3>4. CallsAdvance /\ ClientsStay /\ HandshakesStay
      BY <3>1, <3>2, SameSame, EndsAdvance, ClosedStay, DroppedStay DEF TypeInv
    <3> QED BY <1>2, <3>3, <3>4, PingTypes, SameRunning, SilentQueries
  <2> QED BY <2>1, <2>2
<1>3. ASSUME NEW q \in pending, Timeout(q) PROVE QueriesInv'
  <2>1. UNCHANGED <<stage, clients, plugin>> /\ \E cs : EndCalls(cs)
    BY <1>3 DEF Timeout
  <2> QED BY <1>3, <2>1, TimeoutTypes, SameRunning, StillAdvance, EndsAdvance, SilentQueries
<1>4. ASSUME NEW s \in Sessions, CreateSession(s) PROVE QueriesInv'
  <2>1. UNCHANGED <<stage, clients, calls, plugin>>
    BY <1>4 DEF CreateSession, memVars
  <2> QED BY <1>4, <2>1, CreateSessionTypes, SameRunning, StillAdvance, SilentQueries
<1> QED BY <1>1, <1>2, <1>3, <1>4

LEMMA EarlyFacts == "asked" \notin Early /\ "writing" \notin Early /\ "done" \notin Early
  BY DEF Early

(* A call asks: its request is the only one of its id, and a query goes to *)
(* a client that is owed no answer.                                        *)
LEMMA AskQueries ==
    ASSUME TypeInv, ClientsInv, QueriesInv, NEW c \in Calls, NEW method \in Methods,
           calls[c].page \in Pages, calls[c].step \in Early,
           method = "attach" => calls[c].slot \in Slots,
           CanAsk(calls[c].page, method), Ask(c, method), UNCHANGED <<stage, plugin>>,
           Sends({Request(c, method, calls[c].slot)}, {})
    PROVE  QueriesInv'
<1> DEFINE p == calls[c].page
           conn == clients[p].conn
           r == Request(c, method, calls[c].slot)
           End == Len(toPage[conn]) + 1
<1>1. /\ conn \in Conns /\ ConnOf(p) = {conn} /\ clients[p] # NoClient
      /\ method = "query" => clients[p].query = None
  BY CanAskFacts
<1>2. r \in Requests /\ r.id = c /\ r.method = method
  <2>1. r \in Requests
    BY PageFrameTypes, NoneFacts DEF TypeInv, CallTypes, CallRecords
  <2> QED BY <2>1 DEF Request
<1>3. toPage' = Sent(On({conn}, r))
  BY <1>1 DEF Ask
<1>4. ASSUME NEW k \in Conns, NEW n \in Nat, Asking(k, n)'
      PROVE  \/ Asking(k, n) /\ toPage'[k][n] = toPage[k][n]
             \/ k = conn /\ n = End /\ toPage'[k][n] = r
  <2>1. n \in DOMAIN toPage'[k] /\ toPage'[k][n].type = "request" /\ toPage'[k][n].id \in Calls
    BY <1>4 DEF Asking
  <2>2. Attached(k) /\ toPage'[k] = toPage[k] \o On({conn}, r)[k]
    <3>1. toPage'[k] = IF Attached(k) THEN toPage[k] \o On({conn}, r)[k] ELSE <<>>
      BY <1>3 DEF Sent
    <3>2. CASE ~Attached(k)
      <4>1. toPage'[k] = <<>> /\ DOMAIN toPage'[k] = {}
        BY <3>1, <3>2
      <4> QED BY <2>1, <4>1
    <3> QED BY <3>1, <3>2, Zenon
  <2>3. toPage[k] \in Seq(PageFrames)
    BY DEF TypeInv, FramesInv
  <2>4. CASE k = conn
    <3>1. On({conn}, r)[k] = <<r>>
      BY <2>4 DEF On
    <3>2. toPage'[k] = Append(toPage[k], r)
      <4>1. r \in PageFrames
        BY <1>2 DEF PageFrames
      <4>2. \A s \in Seq(PageFrames), f \in PageFrames : s \o <<f>> = Append(s, f)
        OBVIOUS
      <4> QED BY <2>2, <2>3, <3>1, <4>1, <4>2
    <3>3. Len(toPage'[k]) = Len(toPage[k]) + 1 /\ toPage'[k][Len(toPage[k]) + 1] = r
          /\ \A i \in 1..Len(toPage[k]) : toPage'[k][i] = toPage[k][i]
          /\ toPage'[k] \in Seq(PageFrames)
      <4>1. r \in PageFrames
        BY <1>2 DEF PageFrames
      <4> QED BY <2>3, <3>2, <4>1, AppendProperties
    <3>4. DOMAIN toPage'[k] = 1..(Len(toPage[k]) + 1) /\ DOMAIN toPage[k] = 1..Len(toPage[k])
          /\ Len(toPage[k]) \in Nat
      BY <2>3, <3>3, LenProperties
    <3>5. CASE n = Len(toPage[k]) + 1
      BY <2>4, <3>3, <3>5
    <3>6. CASE n # Len(toPage[k]) + 1
      <4>1. n \in 1..Len(toPage[k])
        BY <2>1, <3>4, <3>6
      <4> QED BY <2>1, <3>3, <3>4, <4>1 DEF Asking
    <3> QED BY <3>5, <3>6
  <2>5. CASE k # conn
    <3>1. On({conn}, r)[k] = <<>>
      BY <2>5 DEF On
    <3>2. toPage'[k] = toPage[k]
      <4>1. \A s \in Seq(PageFrames) : s \o <<>> = s
        BY ConcatEmptySeq
      <4>2. toPage'[k] = toPage[k] \o <<>>
        BY <2>2, <3>1, Zenon
      <4> QED BY <2>3, <4>1, <4>2, Zenon
    <3> QED BY <1>4, <3>2 DEF Asking
  <2> QED BY <2>4, <2>5
<1> HIDE DEF End, conn, p, r
<1>5. /\ UNCHANGED stage /\ Served' \subseteq Served
  BY SameRunning, QuietSendsServed DEF r
<1>6. calls'[c].step = "asked" /\ \A d \in Calls \ {c} : calls'[d] = calls[d]
  BY DEF TypeInv, CallTypes, CallRecords, Ask
<1>7. /\ ClientsInv'
      /\ \A q \in Pages : /\ clients'[q].conn = clients[q].conn
                          /\ clients[q] = NoClient => clients'[q] = NoClient
                          /\ clients'[q].query = IF method = "query" /\ q = p THEN c ELSE clients[q].query
  BY AskClients DEF p
<1>8. \A k \in Conns, n \in Nat : Asking(k, n) => toPage[k][n].id # c /\ toPage[k][n].id \in Calls
  BY DEF QueriesInv, Asking
<1>9. c \notin Served
  BY DEF QueriesInv
<1>10. ASSUME NEW k \in Conns, NEW l \in Conns, NEW n \in Nat, NEW m \in Nat,
              Asking(k, n)', Asking(l, m)', toPage'[k][n].id = toPage'[l][m].id
       PROVE  k = l /\ n = m
  <2>1. \/ Asking(k, n) /\ toPage'[k][n] = toPage[k][n]
        \/ k = conn /\ n = End /\ toPage'[k][n] = r
    BY <1>4, <1>10
  <2>2. \/ Asking(l, m) /\ toPage'[l][m] = toPage[l][m]
        \/ l = conn /\ m = End /\ toPage'[l][m] = r
    BY <1>4, <1>10
  <2>3. CASE Asking(k, n) /\ toPage'[k][n] = toPage[k][n]
    <3>1. toPage'[l][m] # r
      BY <1>2, <1>8, <1>10, <2>3
    <3>2. Asking(l, m) /\ toPage'[l][m] = toPage[l][m]
      BY <2>2, <3>1
    <3> QED BY <1>10, <2>3, <3>2 DEF QueriesInv
  <2>4. CASE k = conn /\ n = End /\ toPage'[k][n] = r
    <3>1. ~(Asking(l, m) /\ toPage'[l][m] = toPage[l][m])
      BY <1>2, <1>8, <1>10, <2>4
    <3> QED BY <2>2, <2>4, <3>1
  <2> QED BY <2>1, <2>3, <2>4
<1>11. ASSUME NEW k \in Conns, NEW n \in Nat, Asking(k, n)'
       PROVE  /\ toPage'[k][n].id \notin Served'
              /\ calls'[toPage'[k][n].id].step \notin Early
              /\ stage'[k] \notin {"challenge", "response"}
              /\ toPage'[k][n].method = "query" =>
                    \A q \in Registered' : clients'[q].conn = k => clients'[q].query = toPage'[k][n].id
  <2>1. CASE Asking(k, n) /\ toPage'[k][n] = toPage[k][n]
    <3>1. /\ toPage[k][n].id \notin Served /\ calls[toPage[k][n].id].step \notin Early
          /\ stage[k] \notin {"challenge", "response"}
          /\ toPage[k][n].id # c /\ toPage[k][n].id \in Calls
          /\ toPage[k][n].method = "query" =>
                \A q \in Registered : clients[q].conn = k => clients[q].query = toPage[k][n].id
      BY <1>8, <2>1 DEF QueriesInv
    <3>2. ASSUME NEW q \in Registered', clients'[q].conn = k, toPage[k][n].method = "query"
          PROVE  clients'[q].query = toPage[k][n].id
      <4>1. q \in Registered /\ clients[q].conn = k /\ clients[q].query = toPage[k][n].id
        BY <1>7, <3>1, <3>2 DEF Registered
      <4>2. ~(method = "query" /\ q = p)
        BY <1>1, <3>1, <4>1, NoneFacts DEF p
      <4> QED BY <1>7, <4>1, <4>2 DEF Registered
    <3>3. calls'[toPage[k][n].id] = calls[toPage[k][n].id]
      BY <1>6, <3>1
    <3> QED BY <1>5, <2>1, <3>1, <3>2, <3>3
  <2>2. CASE k = conn /\ n = End /\ toPage'[k][n] = r
    <3>1. toPage'[k][n].id = c /\ toPage'[k][n].method = method
      BY <1>2, <2>2
    <3>2. stage[k] \notin {"challenge", "response"}
      BY <1>1, <2>2 DEF ClientsInv, conn, p
    <3>3. ASSUME NEW q \in Registered', clients'[q].conn = k, method = "query"
          PROVE  clients'[q].query = c
      <4>1. q \in Registered /\ clients[q].conn = k /\ q \in Pages
        BY <1>7, <3>3 DEF Registered
      <4>2. p \in Registered /\ clients[p].conn = k
        BY <1>1, <2>2 DEF Registered, p, conn
      <4>3. q = p
        BY <4>1, <4>2 DEF ClientsInv
      <4> QED BY <1>7, <3>3, <4>1, <4>3
    <3> QED BY <1>5, <1>6, <1>9, <3>1, <3>2, <3>3, EarlyFacts
  <2> QED BY <1>4, <1>11, <2>1, <2>2
<1>12. ASSUME NEW d \in Served' PROVE calls'[d].step \notin Early
  <2>1. d \in Served /\ d \in Calls /\ d # c
    BY <1>5, <1>9, <1>12, ToldType DEF Served
  <2> QED BY <1>6, <2>1 DEF QueriesInv
<1> QED BY <1>10, <1>11, <1>12 DEF QueriesInv

LEMMA StepAdvances ==
    ASSUME TypeInv, NEW c \in Calls, calls[c].step \in Early, NEW r, calls' = [calls EXCEPT ![c] = r]
    PROVE  CallsAdvance
<1>1. \A d \in Calls : d # c => calls'[d] = calls[d]
  BY DEF TypeInv, CallTypes
<1> QED BY <1>1 DEF CallsAdvance

LEMMA CallQueries ==
    ASSUME TypeInv, CallsInv, ClientsInv, QueriesInv, NEW c \in Calls,
           \/ Approved(c) \/ Denied(c) \/ Enter(c)
           \/ \E p \in Pages : StartCall(c, p)
    PROVE  QueriesInv'
<1>1. CASE Approved(c)
  <2>1. UNCHANGED <<stage, plugin>> /\ calls[c].step \in Early
    BY <1>1 DEF Approved, Early
  <2>2. CASE Ask(c, "query") /\ CanAsk(calls[c].page, "query") /\ calls[c].page \in Pages
             /\ Sends({Request(c, "query", calls[c].slot)}, {})
    <3>1. PICK method \in Methods : method = "query"
      BY DEF Methods
    <3>2. Ask(c, method) /\ CanAsk(calls[c].page, method) /\ Sends({Request(c, method, calls[c].slot)}, {})
          /\ (method = "attach" => calls[c].slot \in Slots)
      BY <2>2, <3>1
    <3> QED BY <2>1, <2>2, <3>2, AskQueries
  <2>3. CASE /\ Sends({}, {}) /\ UNCHANGED <<clients, pending, toPage>>
             /\ EndCalls({c}) \/ calls' = [calls EXCEPT ![c].step = "queued"]
    <3>1. CallsAdvance
      <4>1. CASE EndCalls({c})
        BY <4>1, EndsAdvance
      <4>2. CASE calls' = [calls EXCEPT ![c].step = "queued"]
        BY <2>1, <4>2, StepAdvances
      <4> QED BY <2>3, <4>1, <4>2
    <3> QED BY <2>1, <2>3, <3>1, StillAdvance, SameRunning, SilentQueries
  <2>4. \/ /\ Ask(c, "query") /\ CanAsk(calls[c].page, "query") /\ calls[c].page \in Pages
           /\ Sends({Request(c, "query", calls[c].slot)}, {})
        \/ /\ Sends({}, {}) /\ UNCHANGED <<clients, pending, toPage>>
           /\ EndCalls({c}) \/ calls' = [calls EXCEPT ![c].step = "queued"]
    BY <1>1, ApprovedTypes
  <2> QED BY <2>2, <2>3, <2>4, Zenon
<1>2. CASE Denied(c)
  <2>1. UNCHANGED <<stage, clients, pending, unsynced, storeVars, netVars, plugin, faults>> /\ EndCalls({c})
    BY <1>2 DEF Denied
  <2>2. Sends({}, {})
    BY <2>1, EndedTypes
  <2> QED BY <2>1, <2>2, EndsAdvance, StillAdvance, SameRunning, SilentQueries
<1>3. CASE Enter(c)
  <2>1. UNCHANGED <<stage, plugin>> /\ calls[c].step \in Early
    BY <1>3 DEF Enter, Turn, Early
  <2>2. CASE /\ Ask(c, calls[c].kind) /\ CanAsk(calls[c].page, calls[c].kind) /\ calls[c].page \in Pages
             /\ calls[c].kind \in {"attach", "select"}
             /\ Sends({Request(c, calls[c].kind, calls[c].slot)}, {})
    <3>1. PICK method \in Methods : method = calls[c].kind
      BY <2>2 DEF Methods
    <3>2. Ask(c, method) /\ CanAsk(calls[c].page, method) /\ Sends({Request(c, method, calls[c].slot)}, {})
      BY <2>2, <3>1
    <3>3. method = "attach" => calls[c].slot \in Slots
      BY <3>1, QueryPage
    <3> QED BY <2>1, <2>2, <3>2, <3>3, AskQueries
  <2>3. CASE /\ Sends({}, {}) /\ UNCHANGED <<clients, pending, toPage>>
             /\ EndCalls({c}) \/ calls' = [calls EXCEPT ![c].step = "writing"]
    <3>1. CallsAdvance
      <4>1. CASE EndCalls({c})
        BY <4>1, EndsAdvance
      <4>2. CASE calls' = [calls EXCEPT ![c].step = "writing"]
        BY <2>1, <4>2, StepAdvances
      <4> QED BY <2>3, <4>1, <4>2
    <3> QED BY <2>1, <2>3, <3>1, StillAdvance, SameRunning, SilentQueries
  <2>4. \/ /\ Ask(c, calls[c].kind) /\ CanAsk(calls[c].page, calls[c].kind) /\ calls[c].page \in Pages
           /\ calls[c].kind \in {"attach", "select"}
           /\ Sends({Request(c, calls[c].kind, calls[c].slot)}, {})
        \/ /\ Sends({}, {}) /\ UNCHANGED <<clients, pending, toPage>>
           /\ EndCalls({c}) \/ calls' = [calls EXCEPT ![c].step = "writing"]
    BY <1>3, EnterTypes
  <2> QED BY <2>2, <2>3, <2>4, Zenon
<1>4. ASSUME NEW p \in Pages, StartCall(c, p) PROVE QueriesInv'
  <2>1. PICK kind, page, slot, conn :
            /\ calls[c] = NoCall
            /\ calls' = [calls EXCEPT ![c] =
                    [kind |-> kind, step |-> "approving", page |-> page, slot |-> slot, conn |-> conn]]
            /\ UNCHANGED <<stage, clients, plugin>>
    BY <1>4, StartCallRecord
  <2>2. calls[c].step \in Early
    BY <2>1, EndedFields DEF Early
  <2>3. CallsAdvance
    BY <2>1, <2>2, StepAdvances
  <2> QED BY <1>4, <2>1, <2>3, StartCallTypes, StillAdvance, SameRunning, SilentQueries
<1> QED BY <1>1, <1>2, <1>3, <1>4

LEMMA StoreQueries ==
    ASSUME TypeInv, QueriesInv, NEW c \in Calls, StoreStep(c) \/ StoreFails(c)
    PROVE  QueriesInv'
<1>1. CASE StoreAttach(c)
  <2>1. UNCHANGED plugin
    BY <1>1 DEF StoreAttach
  <2>2. CASE UNCHANGED <<stage, clients>> /\ EndCalls({c})
    BY <1>1, <2>1, <2>2, StoreAttachTypes, EndsAdvance, StillAdvance, SameRunning, SilentQueries
  <2>3. CASE \E ks, g : Hangup(ks, 4002, Synchronized(g), {c})
    <3>1. CallsAdvance /\ ClientsStay /\ HandshakesStay
      BY <2>3, SynchronizedSame, HangupStay DEF TypeInv
    <3> QED BY <1>1, <2>1, <3>1, StoreAttachTypes, SameRunning, SilentQueries
  <2> QED BY <1>1, <2>2, <2>3 DEF StoreAttach
<1>2. CASE StoreDetach(c)
  <2>1. (\E ks, g : Hangup(ks, 4002, Synchronized(g), {c})) /\ UNCHANGED plugin
    BY <1>2 DEF StoreDetach
  <2>2. CallsAdvance /\ ClientsStay /\ HandshakesStay
    BY <2>1, SynchronizedSame, HangupStay DEF TypeInv
  <2> QED BY <1>2, <2>1, <2>2, StoreDetachTypes, SameRunning, SilentQueries
<1>3. CASE StoreRemove(c)
  <2>1. (\E ks, g : Hangup(ks, 4002, Synchronized(g), {c})) /\ UNCHANGED plugin
    BY <1>3 DEF StoreRemove
  <2>2. CallsAdvance /\ ClientsStay /\ HandshakesStay
    BY <2>1, SynchronizedSame, HangupStay DEF TypeInv
  <2> QED BY <1>3, <2>1, <2>2, StoreRemoveTypes, SameRunning, SilentQueries
<1>4. CASE StoreAlignment(c)
  <2>1. UNCHANGED <<stage, clients, pending, unsynced, storeVars, netVars, plugin, faults>> /\ EndCalls({c})
    BY <1>4 DEF StoreAlignment
  <2>2. Sends({}, {})
    BY <2>1, EndedTypes
  <2> QED BY <2>1, <2>2, EndsAdvance, StillAdvance, SameRunning, SilentQueries
<1>5. CASE StoreFails(c)
  <2>1. (\E ks : Hangup(ks, 1011, clients, {c})) /\ UNCHANGED plugin
    BY <1>5 DEF StoreFails
  <2>2. CallsAdvance /\ ClientsStay /\ HandshakesStay
    BY <2>1, SameSame, HangupStay DEF TypeInv
  <2> QED BY <1>5, <2>1, <2>2, StoreFailsTypes, SameRunning, SilentQueries
<1> QED BY <1>1, <1>2, <1>3, <1>4, <1>5 DEF StoreStep

(* The page takes a request: of its id nothing else is on its way.         *)
LEMMA HandleRequestQueries ==
    ASSUME TypeInv, QueriesInv, NEW p \in Pages, HandleRequest(p) PROVE QueriesInv'
<1> DEFINE s == plugin[p].socket
           m == Head(toPage[s])
<1>1. Waiting(p, {"connected"}, {"request"}) /\ Consume(p) /\ UNCHANGED memVars
  BY DEF HandleRequest
<1>2. s \in Conns /\ toPage[s] # <<>> /\ toPage[s] \in Seq(PageFrames)
  BY <1>1, WaitingFacts
<1>3. m.type = "request" /\ m = toPage[s][1] /\ 1 \in DOMAIN toPage[s]
  BY <1>1, RequestAtHead
<1>4. Sends({}, {m.id}) /\ Running' \subseteq Running \cup {m.id}
  BY HandleRequestTypes
<1>5. PICK i : i = m.id
  OBVIOUS
<1>6. PICK I : I = {i}
  OBVIOUS
<1>7. Served' \subseteq Served \cup I
  <2>1. Tells(toBroker', I) /\ Running' \subseteq Running \cup I
    BY <1>4, <1>5, <1>6 DEF Sends
  <2> QED BY <2>1, TellsServed
<1>8. i \in Calls => Asking(s, 1) /\ toPage[s][1].id = i
  BY <1>3, <1>5 DEF Asking
<1> DEFINE d == [k \in Conns |-> IF k = s THEN 1 ELSE 0]
<1>9. \A k \in Conns : toPage'[k] = IF k = s THEN Tail(toPage[s]) ELSE toPage[k]
  BY <1>1 DEF Consume, TypeInv, FramesInv
<1>10. /\ Len(Tail(toPage[s])) = Len(toPage[s]) - 1 /\ Tail(toPage[s]) \in Seq(PageFrames)
       /\ \A n \in 1..Len(Tail(toPage[s])) : Tail(toPage[s])[n] = toPage[s][n + 1]
  BY <1>2, HeadTailProperties
<1> HIDE DEF s, m
<1>11. ASSUME NEW k \in Conns, NEW n \in Nat, Asking(k, n)'
       PROVE  /\ n + d[k] \in Nat /\ Asking(k, n + d[k]) /\ toPage[k][n + d[k]] = toPage'[k][n]
              /\ k = s => n + d[k] # 1
  <2>1. n \in DOMAIN toPage'[k] /\ toPage'[k][n].type = "request" /\ toPage'[k][n].id \in Calls
    BY <1>11 DEF Asking
  <2>2. CASE k = s
    <3>1. toPage'[k] = Tail(toPage[s]) /\ d[k] = 1
      BY <1>9, <2>2
    <3>2. n \in 1..Len(Tail(toPage[s]))
      BY <1>10, <2>1, <3>1, LenProperties
    <3>3. n + 1 \in 1..Len(toPage[s]) /\ n + 1 # 1 /\ n + 1 \in Nat
      BY <1>2, <1>10, <3>2, LenProperties
    <3>4. n + 1 \in DOMAIN toPage[s]
      BY <1>2, <3>3, LenProperties
    <3>5. toPage'[k][n] = toPage[s][n + 1]
      BY <1>10, <3>1, <3>2
    <3> QED BY <2>1, <2>2, <3>1, <3>3, <3>4, <3>5 DEF Asking
  <2>3. CASE k # s
    <3>1. toPage'[k] = toPage[k] /\ d[k] = 0 /\ n + d[k] = n
      BY <1>9, <2>3
    <3> QED BY <2>1, <2>3, <3>1 DEF Asking
  <2> QED BY <2>2, <2>3
<1>12. AsksNothing(d)
  <2>1. d \in [Conns -> Nat]
    OBVIOUS
  <2> HIDE DEF d
  <2> QED BY <1>11, <2>1 DEF AsksNothing
<1> HIDE DEF d
<1>13. ASSUME NEW k \in Conns, NEW n \in Nat, Asking(k, n)'
       PROVE  toPage'[k][n].id \notin I
  <2>1. SUFFICES ASSUME toPage'[k][n].id = i PROVE FALSE
    BY <1>6
  <2>2. /\ n + d[k] \in Nat /\ Asking(k, n + d[k]) /\ toPage[k][n + d[k]].id = i
        /\ k = s => n + d[k] # 1
    BY <1>11, <1>13, <2>1
  <2>3. i \in Calls
    BY <1>13, <2>1 DEF Asking
  <2>4. k = s /\ n + d[k] = 1
    BY <1>2, <1>8, <2>2, <2>3 DEF QueriesInv
  <2> QED BY <2>2, <2>4
<1>14. \A j \in I : j \in Calls => calls[j].step \notin Early
  BY <1>2, <1>6, <1>8 DEF QueriesInv
<1>15. CallsAdvance /\ ClientsStay /\ HandshakesStay
  BY <1>1, StillAdvance DEF memVars
<1>16. QueryOnce /\ QueryOnce'
  BY <1>7, <1>12, <1>13, <1>14, <1>15, OnceKept, QueryParts
<1>17. QueryLocks'
  BY <1>12, <1>15, LocksKept
<1> QED BY <1>16, <1>17 DEF QueriesInv, QueryOnce, QueryLocks

LEMMA AnswerQueryQueries ==
    ASSUME TypeInv, QueriesInv, NEW p \in Pages, NEW id \in Calls, AnswerQuery(p, id)
    PROVE  QueriesInv'
<1>1. Sends({}, {id}) /\ Running' \subseteq Running /\ id \in Running
  BY AnswerQueryTypes
<1>2. UNCHANGED <<stage, clients, calls>>
  BY DEF AnswerQuery, memVars
<1>3. Tells(toBroker', {id}) /\ Running' \subseteq Running \cup {id}
  BY <1>1 DEF Sends
<1>4. Served' \subseteq Served \cup {id}
  BY <1>3, TellsServed
<1>5. Served' \subseteq Served
  BY <1>1, <1>4 DEF Served
<1>6. PICK N : N = {}
  OBVIOUS
<1>7. Forwards(toPage', N) /\ \A f \in N : f.id \notin Calls
  BY <1>1, <1>6 DEF Sends
<1> QED BY <1>2, <1>5, <1>7, StillAdvance, QuietQueries

LEMMA ConnectQueries ==
    ASSUME TypeInv, QueriesInv, NEW p \in Pages, Connect(p) PROVE QueriesInv'
<1>1. PICK k \in Free : stage' = stage \/ stage' = [stage EXCEPT ![k] = "challenge"]
  BY ConnectsFree
<1>2. HandshakesStay
  BY <1>1 DEF HandshakesStay, Free, TypeInv, StageInv
<1>3. UNCHANGED <<clients, calls>>
  BY DEF Connect
<1> QED BY <1>2, <1>3, ConnectTypes, StillAdvance, SilentQueries

LEMMA PageQueries ==
    ASSUME TypeInv, QueriesInv, NEW p \in Pages,
           PageStep(p) \/ HandshakeTimeout(p) \/ Dispose(p)
    PROVE  QueriesInv'
<1>1. CASE Connect(p)
  BY <1>1, ConnectQueries
<1>2. CASE HandleRequest(p)
  BY <1>2, HandleRequestQueries
<1>3. CASE \/ HandleAuthChallengeAck(p) \/ HandleHelloAck(p) \/ FailAuthentication(p)
           \/ HandlePing(p) \/ HandleClose(p) \/ HandshakeTimeout(p) \/ Dispose(p)
  <2>1. UNCHANGED <<stage, clients, calls>>
    BY <1>3 DEF HandleAuthChallengeAck, HandleHelloAck, FailAuthentication, HandlePing, HandleClose,
                HandshakeTimeout, Dispose, memVars
  <2>2. Sends({}, {}) /\ Running' \subseteq Running
    BY <1>3, HandleAuthChallengeAckTypes, HandleHelloAckTypes, FailAuthenticationTypes, HandlePingTypes,
       HandleCloseTypes, HandshakeTimeoutTypes, DisposeTypes
  <2> QED BY <2>1, <2>2, StillAdvance, SilentQueries
<1> QED BY <1>1, <1>2, <1>3 DEF PageStep

-----------------------------------------------------------------------------
(* The limits. *)

LEMMA LiveIs == Live(Conns) = {k \in Conns : stage[k] # "closed"}
                /\ Live(Conns)' = {k \in Conns : stage'[k] # "closed"}
  BY DEF Live

LEMMA FewerLive ==
    ASSUME LiveInv, \A k \in Conns : stage'[k] = "closed" \/ stage[k] # "closed"
    PROVE  LiveInv'
<1>1. PICK S : S = Live(Conns)
  OBVIOUS
<1>2. PICK T : T = Live(Conns)'
  OBVIOUS
<1>3. T \subseteq S
  BY <1>1, <1>2, LiveIs
<1>4. IsFiniteSet(S) /\ Cardinality(S) <= 2 * MaxClients
  BY <1>1 DEF LiveInv
<1>5. IsFiniteSet(T) /\ Cardinality(T) <= Cardinality(S)
  BY <1>3, <1>4, FS_Subset
<1>6. Cardinality(S) \in Nat /\ Cardinality(T) \in Nat
  BY <1>4, <1>5, FS_CardinalityType
<1>7. Cardinality(T) <= 2 * MaxClients
  BY <1>4, <1>5, <1>6, NoneFacts
<1> QED BY <1>2, <1>5, <1>7 DEF LiveInv

LEMMA FewerRegistered ==
    ASSUME RegisteredInv, \A p \in Pages : clients[p] = NoClient => clients'[p] = NoClient
    PROVE  RegisteredInv'
<1>1. PICK S : S = Registered
  OBVIOUS
<1>2. PICK T : T = Registered'
  OBVIOUS
<1>3. T \subseteq S
  BY <1>1, <1>2 DEF Registered
<1>4. IsFiniteSet(S) /\ Cardinality(S) <= MaxClients
  BY <1>1 DEF RegisteredInv
<1>5. IsFiniteSet(T) /\ Cardinality(T) <= Cardinality(S)
  BY <1>3, <1>4, FS_Subset
<1>6. Cardinality(S) \in Nat /\ Cardinality(T) \in Nat
  BY <1>4, <1>5, FS_CardinalityType
<1>7. Cardinality(T) <= MaxClients
  BY <1>4, <1>5, <1>6, NoneFacts
<1> QED BY <1>2, <1>5, <1>7 DEF RegisteredInv

LEMMA FewerPending ==
    ASSUME PendingInv, pending' \subseteq pending PROVE PendingInv'
<1>1. IsFiniteSet(pending) /\ Cardinality(pending) <= MaxPending
  BY DEF PendingInv
<1>2. IsFiniteSet(pending') /\ Cardinality(pending') <= Cardinality(pending)
  BY <1>1, FS_Subset
<1>3. Cardinality(pending) \in Nat /\ Cardinality(pending') \in Nat
  BY <1>1, <1>2, FS_CardinalityType
<1>4. Cardinality(pending') <= MaxPending
  BY <1>1, <1>2, <1>3, NoneFacts
<1> QED BY <1>2, <1>4 DEF PendingInv

LEMMA OneMorePending ==
    ASSUME PendingInv, NEW q, pending' = pending \cup {q}, Cardinality(pending) < MaxPending
    PROVE  PendingInv'
<1>1. IsFiniteSet(pending)
  BY DEF PendingInv
<1>2. /\ IsFiniteSet(pending \cup {q})
      /\ Cardinality(pending \cup {q}) = Cardinality(pending) \/ Cardinality(pending \cup {q}) = Cardinality(pending) + 1
  BY <1>1, FS_AddElement
<1>3. Cardinality(pending) \in Nat
  BY <1>1, FS_CardinalityType
<1>4. Cardinality(pending \cup {q}) <= MaxPending
  BY <1>2, <1>3, NoneFacts
<1> QED BY <1>2, <1>4 DEF PendingInv

NoMore ==
    /\ \A k \in Conns : stage'[k] = "closed" \/ stage[k] # "closed"
    /\ \A p \in Pages : clients[p] = NoClient => clients'[p] = NoClient
    /\ pending' \subseteq pending

LEMMA NoMoreBounds == ASSUME BoundsInv, NoMore PROVE BoundsInv'
  BY FewerLive, FewerRegistered, FewerPending DEF BoundsInv, NoMore

LEMMA HangupNoMore ==
    ASSUME NEW ks, NEW code, NEW cl, NEW ended, SameSockets(cl), Hangup(ks, code, cl, ended)
    PROVE  NoMore
<1>1. stage' = Closed(ks) /\ clients' = Dropped(cl, ks) /\ pending' \subseteq pending
  BY DEF Hangup, HandleCloses
<1> QED BY <1>1 DEF NoMore, Closed, Dropped, SameSockets

LEMMA RestartedNoMore == ASSUME Restarted PROVE NoMore
  BY DEF Restarted, NoMore

LEMMA AskBounds ==
    ASSUME TypeInv, BoundsInv, NEW c \in Calls, NEW method, calls[c].page \in Pages,
           CanAsk(calls[c].page, method), Ask(c, method), UNCHANGED stage
    PROVE  BoundsInv'
<1> DEFINE p == calls[c].page
           q == [id |-> c, page |-> p, conn |-> clients[p].conn]
<1>1. pending' = pending \cup {q}
  BY DEF Ask, Asked
<1>2. Cardinality(pending) < MaxPending /\ clients[p] # NoClient
  BY CanAskFacts
<1>3. \A r \in Pages : clients[r] = NoClient => clients'[r] = NoClient
  BY <1>2 DEF Ask, TypeInv, ClientTypes
<1> HIDE DEF q
<1>4. PendingInv'
  BY <1>1, <1>2, OneMorePending DEF BoundsInv
<1>5. LiveInv'
  BY FewerLive DEF BoundsInv
<1>6. RegisteredInv'
  BY <1>3, FewerRegistered DEF BoundsInv
<1> QED BY <1>4, <1>5, <1>6 DEF BoundsInv

LEMMA CallBounds ==
    ASSUME TypeInv, CallsInv, BoundsInv, NEW c \in Calls,
           \/ Approved(c) \/ Denied(c) \/ Enter(c) \/ StoreStep(c) \/ StoreFails(c)
           \/ \E p \in Pages : StartCall(c, p)
    PROVE  BoundsInv'
<1>0. \A ks, g, code, ended : Hangup(ks, code, Synchronized(g), ended) => NoMore
  BY SynchronizedSame, HangupNoMore DEF TypeInv
<1>1. CASE Approved(c)
  <2>1. UNCHANGED stage
    BY <1>1 DEF Approved
  <2>2. CASE UNCHANGED <<clients, pending>>
    BY <2>1, <2>2, NoMoreBounds DEF NoMore
  <2>3. CASE Ask(c, "query") /\ CanAsk(calls[c].page, "query") /\ calls[c].page \in Pages
    BY <2>1, <2>3, AskBounds
  <2> QED BY <1>1, <2>2, <2>3, ApprovedTypes
<1>2. CASE Denied(c)
  BY <1>2, NoMoreBounds DEF Denied, NoMore
<1>3. CASE Enter(c)
  <2>1. UNCHANGED stage
    BY <1>3 DEF Enter
  <2>2. CASE UNCHANGED <<clients, pending>>
    BY <2>1, <2>2, NoMoreBounds DEF NoMore
  <2>3. CASE Ask(c, calls[c].kind) /\ CanAsk(calls[c].page, calls[c].kind) /\ calls[c].page \in Pages
    BY <2>1, <2>3, AskBounds
  <2> QED BY <1>3, <2>2, <2>3, EnterTypes
<1>4. CASE StoreAttach(c)
  <2>1. UNCHANGED <<stage, clients, pending>> \/ \E ks, g : Hangup(ks, 4002, Synchronized(g), {c})
    BY <1>4 DEF StoreAttach
  <2>2. CASE UNCHANGED <<stage, clients, pending>>
    BY <2>2, NoMoreBounds DEF NoMore
  <2> QED BY <1>0, <2>1, <2>2, NoMoreBounds
<1>5. CASE StoreDetach(c)
  BY <1>0, <1>5, NoMoreBounds DEF StoreDetach
<1>6. CASE StoreRemove(c)
  BY <1>0, <1>6, NoMoreBounds DEF StoreRemove
<1>7. CASE StoreAlignment(c)
  BY <1>7, NoMoreBounds DEF StoreAlignment, NoMore
<1>8. CASE StoreFails(c)
  <2>1. \E ks : Hangup(ks, 1011, clients, {c})
    BY <1>8 DEF StoreFails
  <2> QED BY <2>1, SameSame, HangupNoMore, NoMoreBounds DEF TypeInv
<1>9. CASE \E p \in Pages : StartCall(c, p)
  <2>1. UNCHANGED <<stage, clients, pending>>
    BY <1>9, StartCallRecord
  <2> QED BY <2>1, NoMoreBounds DEF NoMore
<1> QED BY <1>1, <1>2, <1>3, <1>4, <1>5, <1>6, <1>7, <1>8, <1>9 DEF StoreStep

LEMMA RegisteringBounds ==
    ASSUME TypeInv, BoundsInv, NEW k \in Conns, AuthResponse(k) \/ AuthResponseAfterClose(k)
    PROVE  BoundsInv'
<1> DEFINE p == Head(toBroker[k]).page
<1>1. CASE Refuse(k)
  BY <1>1, NoMoreBounds DEF Refuse, Closed, NoMore
<1>2. ASSUME ~NoRoom(p), clients' = [clients EXCEPT ![p] = Joining(k, p)], pending' \subseteq pending,
             stage' = [Closed(ConnOf(p)) EXCEPT ![k] = "audit"] \/ stage' = Closed(ConnOf(p) \cup {k})
      PROVE  BoundsInv'
  <2>1. stage[k] = "response"
    BY DEF AuthResponse, AuthResponseAfterClose, At
  <2>2. \A l \in Conns : stage'[l] = "closed" \/ stage[l] # "closed"
    BY <1>2, <2>1 DEF Closed
  <2>3. LiveInv' /\ PendingInv'
    BY <1>2, <2>2, FewerLive, FewerPending DEF BoundsInv
  <2>4. IsFiniteSet(Registered) /\ Cardinality(Registered) <= MaxClients /\ Cardinality(Registered) \in Nat
    BY FS_CardinalityType DEF BoundsInv, RegisteredInv
  <2>5. Registered' \subseteq Registered \cup {p}
    BY <1>2 DEF TypeInv, ClientTypes, Registered
  <2>6. IsFiniteSet(Registered') /\ Cardinality(Registered') <= MaxClients
    <3>1. CASE p \in Registered
      <4>1. Registered' \subseteq Registered
        BY <2>5, <3>1
      <4>2. IsFiniteSet(Registered') /\ Cardinality(Registered') <= Cardinality(Registered)
        BY <2>4, <4>1, FS_Subset
      <4>3. Cardinality(Registered') \in Nat
        BY <4>2, FS_CardinalityType
      <4> QED BY <2>4, <4>2, <4>3, NoneFacts
    <3>2. CASE p \notin Registered
      <4>1. Cardinality(Registered) < MaxClients
        BY <1>2, <2>4, <3>2, NoneFacts DEF NoRoom
      <4>2. /\ IsFiniteSet(Registered \cup {p})
            /\ \/ Cardinality(Registered \cup {p}) = Cardinality(Registered)
               \/ Cardinality(Registered \cup {p}) = Cardinality(Registered) + 1
        BY <2>4, FS_AddElement
      <4>3. IsFiniteSet(Registered') /\ Cardinality(Registered') <= Cardinality(Registered \cup {p})
        BY <2>5, <4>2, FS_Subset
      <4>4. Cardinality(Registered') \in Nat
        BY <4>3, FS_CardinalityType
      <4>5. Cardinality(Registered') <= MaxClients
        BY <2>4, <4>1, <4>2, <4>3, <4>4, NoneFacts
      <4> QED BY <4>3, <4>5
    <3> QED BY <3>1, <3>2
  <2>7. RegisteredInv'
    BY <2>6 DEF RegisteredInv
  <2> QED BY <2>3, <2>7 DEF BoundsInv
<1>3. CASE AuthResponse(k)
  <2>1. CASE ~NoRoom(p) /\ Register(k, p)
    BY <1>2, <2>1 DEF Register
  <2> QED BY <1>1, <1>3, <2>1 DEF AuthResponse
<1>4. CASE AuthResponseAfterClose(k)
  BY <1>2, <1>4 DEF AuthResponseAfterClose
<1> QED BY <1>3, <1>4

LEMMA BrokerBounds ==
    ASSUME TypeInv, ClientsInv, BoundsInv, NEW k \in Conns,
           \/ AuthChallenge(k) \/ RefuseMessage(k) \/ AuthFails(k) \/ PeerClosed(k) \/ Response(k)
           \/ Event(k) \/ HelloAck(k) \/ Lose(k)
    PROVE  BoundsInv'
<1>0. SameSockets(clients)
  BY SameSame DEF TypeInv
<1>1. CASE AuthChallenge(k)
  <2>1. \A l \in Conns : stage'[l] = "closed" \/ stage[l] # "closed"
    BY <1>1 DEF AuthChallenge, At, TypeInv, StageInv
  <2> QED BY <1>1, <2>1, NoMoreBounds DEF AuthChallenge, NoMore
<1>2. CASE RefuseMessage(k)
  BY <1>2, NoMoreBounds DEF RefuseMessage, Refuse, Closed, NoMore
<1>3. CASE AuthFails(k)
  BY <1>0, <1>3, HangupNoMore, NoMoreBounds DEF AuthFails
<1>4. CASE PeerClosed(k)
  BY <1>0, <1>4, NoMoreBounds DEF PeerClosed, HandleCloses, Closed, Dropped, NoMore
<1>5. CASE Response(k)
  <2>1. UNCHANGED stage /\ pending' \subseteq pending /\ \E id : clients' = Unlocked(id)
    BY <1>5 DEF Response
  <2>2. \A p \in Pages : clients[p] = NoClient => clients'[p] = NoClient
    BY <2>1, UnlockedSame DEF TypeInv
  <2> QED BY <2>1, <2>2, NoMoreBounds DEF NoMore
<1>6. CASE Event(k)
  <2>1. UNCHANGED <<stage, clients, pending>> \/ Hangup({k}, 1008, clients, {})
    BY <1>6 DEF Event
  <2>2. CASE UNCHANGED <<stage, clients, pending>>
    BY <2>2, NoMoreBounds DEF NoMore
  <2> QED BY <1>0, <2>1, <2>2, HangupNoMore, NoMoreBounds
<1>7. CASE HelloAck(k)
  <2>1. \A l \in Conns : stage'[l] = "closed" \/ stage[l] # "closed"
    BY <1>7 DEF HelloAck, TypeInv, StageInv
  <2>2. \A p \in Pages : clients[p] = NoClient => clients'[p] = NoClient
    BY <1>7, HelloAckTypes DEF SameSockets
  <2>3. LiveInv' /\ RegisteredInv'
    BY <2>1, <2>2, FewerLive, FewerRegistered DEF BoundsInv
  <2>4. PendingInv'
    <3>1. CASE UNCHANGED pending
      BY <3>1, FewerPending DEF BoundsInv
    <3>2. CASE CanAsk(ClientOf(k), "attach") /\ pending' = Asked(k, ClientOf(k))
      <4>1. Cardinality(pending) < MaxPending
        BY <3>2 DEF CanAsk
      <4>2. \E q : pending' = pending \cup {q}
        BY <3>2 DEF Asked
      <4> QED BY <4>1, <4>2, OneMorePending DEF BoundsInv
    <3> QED BY <1>7, <3>1, <3>2, HelloAckTypes
  <2> QED BY <2>3, <2>4 DEF BoundsInv
<1>8. CASE Lose(k)
  BY <1>8, NoMoreBounds DEF Lose, memVars, NoMore
<1> QED BY <1>1, <1>2, <1>3, <1>4, <1>5, <1>6, <1>7, <1>8

LEMMA DaemonBounds ==
    ASSUME TypeInv, BoundsInv,
           \/ Ping \/ Restart \/ \E q \in pending : Timeout(q)
           \/ \E s \in Sessions : CreateSession(s)
    PROVE  BoundsInv'
<1>1. CASE Restarted
  BY <1>1, RestartedNoMore, NoMoreBounds
<1>2. CASE Ping /\ ~Restarted
  <2>1. PICK silent : /\ stage' = Closed(silent) /\ clients' = Dropped(clients, silent)
                      /\ pending' \subseteq pending
    BY <1>2 DEF Ping, HandleCloses
  <2>2. NoMore
    BY <2>1 DEF NoMore, Closed, Dropped
  <2> QED BY <2>2, NoMoreBounds
<1>3. CASE \E q \in pending : Timeout(q)
  BY <1>3, NoMoreBounds DEF Timeout, NoMore
<1>4. CASE \E s \in Sessions : CreateSession(s)
  BY <1>4, NoMoreBounds DEF CreateSession, memVars, NoMore
<1> QED BY <1>1, <1>2, <1>3, <1>4 DEF Restart

LEMMA PageBounds ==
    ASSUME TypeInv, BoundsInv, NEW p \in Pages,
           \/ PageStep(p) \/ HandshakeTimeout(p) \/ Dispose(p) \/ \E c \in Calls : AnswerQuery(p, c)
    PROVE  BoundsInv'
<1>1. CASE Connect(p)
  <2>1. PICK k \in Free :
            \/ UNCHANGED stage
            \/ stage' = [stage EXCEPT ![k] = "challenge"] /\ ~(Cardinality(Live(Conns)) >= 2 * MaxClients)
    BY <1>1, ConnectsFree
  <2>2. UNCHANGED <<clients, pending>>
    BY <1>1 DEF Connect
  <2>3. RegisteredInv' /\ PendingInv'
    BY <2>2, FewerRegistered, FewerPending DEF BoundsInv
  <2>4. LiveInv'
    <3>1. CASE UNCHANGED stage
      BY <3>1, FewerLive DEF BoundsInv
    <3>2. CASE stage' = [stage EXCEPT ![k] = "challenge"] /\ ~(Cardinality(Live(Conns)) >= 2 * MaxClients)
      <4>1. PICK S : S = Live(Conns)
        OBVIOUS
      <4>2. PICK T : T = Live(Conns)'
        OBVIOUS
      <4>3. T = S \cup {k}
        BY <3>2, <4>1, <4>2, LiveIs DEF Free, TypeInv, StageInv
      <4>4. IsFiniteSet(S) /\ ~(Cardinality(S) >= 2 * MaxClients)
        BY <3>2, <4>1 DEF BoundsInv, LiveInv
      <4>5. IsFiniteSet(T) /\ (Cardinality(T) = Cardinality(S) \/ Cardinality(T) = Cardinality(S) + 1)
        BY <4>3, <4>4, FS_AddElement
      <4>6. Cardinality(S) \in Nat
        BY <4>4, FS_CardinalityType
      <4>7. Cardinality(T) <= 2 * MaxClients
        BY <4>4, <4>5, <4>6, NoneFacts
      <4> QED BY <4>2, <4>5, <4>7 DEF LiveInv
    <3> QED BY <2>1, <3>1, <3>2
  <2> QED BY <2>3, <2>4 DEF BoundsInv
<1>2. CASE ~Connect(p)
  <2>1. UNCHANGED <<stage, clients, pending>>
    BY <1>2 DEF PageStep, HandleAuthChallengeAck, HandleHelloAck, FailAuthentication, HandlePing,
                HandleRequest, HandleClose, HandshakeTimeout, Dispose, AnswerQuery, memVars
  <2> QED BY <2>1, NoMoreBounds DEF NoMore
<1> QED BY <1>1, <1>2

-----------------------------------------------------------------------------
(* The roles. *)

OneRole == \A s, t \in Slots : given[s] = given[t] /\ given[s] # None => s = t
RolesExist == \A s \in Slots : given[s] # None => s[1] \in existing
Listed == \A p \in Registered : clients[p].at = AssignmentIn(given, p)

LEMMA RoleParts == RolesMatchStore <=> OneRole /\ RolesExist /\ (unsynced \/ Listed)
  BY DEF RolesMatchStore, OneRole, RolesExist, Listed

LEMMA KeepsRoles ==
    ASSUME RolesMatchStore, UNCHANGED given, existing \subseteq existing',
           \/ UNCHANGED unsynced
           \/ \A p \in Pages : clients'[p] = NoClient,
           \A p \in Pages : clients'[p] # NoClient =>
                \/ clients'[p].at = AssignmentIn(given, p)
                \/ clients[p] # NoClient /\ clients'[p].at = clients[p].at
    PROVE  RolesMatchStore'
<1>1. OneRole /\ RolesExist /\ (unsynced \/ Listed)
  BY RoleParts
<1>2. OneRole' /\ RolesExist'
  BY <1>1 DEF OneRole, RolesExist
<1>3. Listed => Listed'
  <2>1. SUFFICES ASSUME Listed, NEW p \in Registered'
                 PROVE  clients'[p].at = AssignmentIn(given', p)
    BY DEF Listed
  <2>2. \/ clients'[p].at = AssignmentIn(given, p)
        \/ p \in Registered /\ clients'[p].at = clients[p].at
    BY DEF Registered
  <2>3. AssignmentIn(given', p) = AssignmentIn(given, p)
    OBVIOUS
  <2> QED BY <2>1, <2>2, <2>3 DEF Listed
<1>4. (\A p \in Pages : clients'[p] = NoClient) => Listed'
  BY DEF Listed, Registered
<1>5. unsynced' \/ Listed'
  BY <1>1, <1>3, <1>4, Zenon
<1> QED BY <1>2, <1>5 DEF RolesMatchStore, OneRole, RolesExist, Listed

LEMMA DroppedRoles ==
    ASSUME TypeInv, RolesMatchStore, UNCHANGED given, existing \subseteq existing', UNCHANGED unsynced,
           NEW ks, clients' = Dropped(clients, ks)
    PROVE  RolesMatchStore'
<1>1. \A p \in Pages : clients'[p] # NoClient => clients[p] # NoClient /\ clients'[p].at = clients[p].at
  BY DEF Dropped
<1> QED BY <1>1, KeepsRoles

LEMMA StillRoles ==
    ASSUME RolesMatchStore, UNCHANGED <<given, existing, unsynced, clients>>
    PROVE  RolesMatchStore'
  BY KeepsRoles

LEMMA BrokerRoles ==
    ASSUME TypeInv, ClientsInv, RolesMatchStore, NEW k \in Conns,
           \/ BrokerStep(k) \/ AuthResponseAfterClose(k) \/ AuthFails(k) \/ Lose(k)
    PROVE  RolesMatchStore'
<1>0. UNCHANGED storeVars /\ UNCHANGED unsynced
  BY DEF BrokerStep, AuthChallenge, RefuseMessage, AuthResponse, HelloAck, PeerClosed, Response, Event,
         AuthResponseAfterClose, AuthFails, Lose, memVars
<1>1. CASE UNCHANGED clients
  BY <1>0, <1>1, StillRoles DEF storeVars
<1>2. CASE \E ks : clients' = Dropped(clients, ks)
  BY <1>0, <1>2, DroppedRoles DEF storeVars
<1>3. ASSUME NEW p, clients' = [clients EXCEPT ![p] = Joining(k, p)] PROVE RolesMatchStore'
  <2>1. \A q \in Pages : clients'[q] = clients[q] \/ (q = p /\ clients'[q] = Joining(k, p))
    BY <1>3 DEF TypeInv, ClientTypes
  <2>2. Joining(k, p).at = AssignmentIn(given, p)
    BY JoiningTypes
  <2>3. \A q \in Pages : clients'[q] # NoClient =>
            \/ clients'[q].at = AssignmentIn(given, q)
            \/ clients[q] # NoClient /\ clients'[q].at = clients[q].at
    BY <2>1, <2>2
  <2> QED BY <1>0, <2>3, KeepsRoles DEF storeVars
<1>4. CASE Response(k)
  <2>1. PICK id : clients' = Unlocked(id)
    BY <1>4 DEF Response
  <2>2. \A p \in Pages : /\ clients[p] = NoClient => Unlocked(id)[p] = NoClient
                         /\ Unlocked(id)[p].at = clients[p].at
    BY UnlockedSame DEF TypeInv
  <2> QED BY <1>0, <2>1, <2>2, KeepsRoles DEF storeVars
<1>5. CASE HelloAck(k)
  <2>1. \A p \in Pages : /\ clients[p] = NoClient => clients'[p] = NoClient
                         /\ clients'[p].at = clients[p].at
    BY <1>5, HelloAckTypes DEF SameSockets
  <2> QED BY <1>0, <2>1, KeepsRoles DEF storeVars
<1>6. CASE AuthChallenge(k)
  BY <1>1, <1>6 DEF AuthChallenge
<1>7. CASE RefuseMessage(k)
  BY <1>1, <1>7 DEF RefuseMessage, Refuse
<1>8. CASE AuthResponse(k)
  <2>1. CASE \E p : Register(k, p)
    <3>1. PICK p : Register(k, p)
      BY <2>1
    <3>2. clients' = [clients EXCEPT ![p] = Joining(k, p)]
      BY <3>1 DEF Register
    <3> QED BY <1>3, <3>2
  <2>2. CASE UNCHANGED clients
    BY <1>1, <2>2
  <2> QED BY <1>8, <2>1, <2>2 DEF AuthResponse, Refuse
<1>9. CASE AuthResponseAfterClose(k)
  <2>1. PICK p : p = Head(toBroker[k]).page
    OBVIOUS
  <2>2. clients' = [clients EXCEPT ![p] = Joining(k, p)]
    BY <1>9, <2>1 DEF AuthResponseAfterClose
  <2> QED BY <1>3, <2>2
<1>10. CASE AuthFails(k)
  BY <1>2, <1>10 DEF AuthFails, Hangup
<1>11. CASE PeerClosed(k)
  BY <1>2, <1>11 DEF PeerClosed
<1>12. CASE Event(k)
  BY <1>1, <1>2, <1>12 DEF Event, Hangup
<1>13. CASE Lose(k)
  BY <1>1, <1>13 DEF Lose, memVars
<1> QED BY <1>4, <1>5, <1>6, <1>7, <1>8, <1>9, <1>10, <1>11, <1>12, <1>13 DEF BrokerStep

LEMMA DaemonRoles ==
    ASSUME TypeInv, RolesMatchStore,
           \/ Ping \/ Restart \/ \E q \in pending : Timeout(q)
           \/ \E s \in Sessions : CreateSession(s)
           \/ \E p \in Pages : PageStep(p) \/ HandshakeTimeout(p) \/ Dispose(p)
           \/ \E p \in Pages, c \in Calls : AnswerQuery(p, c)
    PROVE  RolesMatchStore'
<1>1. CASE Restarted
  <2>1. \A p \in Pages : clients'[p] = NoClient
    BY <1>1 DEF Restarted
  <2>2. UNCHANGED storeVars
    BY <1>1 DEF Restarted
  <2> QED BY <2>1, <2>2, KeepsRoles DEF storeVars
<1>2. CASE Ping /\ ~Restarted
  <2>1. (\E ks : clients' = Dropped(clients, ks)) /\ UNCHANGED <<unsynced, storeVars>>
    BY <1>2 DEF Ping
  <2> QED BY <2>1, DroppedRoles DEF storeVars
<1>3. CASE \E q \in pending : Timeout(q)
  BY <1>3, StillRoles DEF Timeout, storeVars
<1>4. CASE \E s \in Sessions : CreateSession(s)
  <2>1. existing \subseteq existing' /\ UNCHANGED <<given, unsynced, clients>>
    BY <1>4 DEF CreateSession, memVars
  <2> QED BY <2>1, KeepsRoles
<1>5. CASE \/ \E p \in Pages : PageStep(p) \/ HandshakeTimeout(p) \/ Dispose(p)
           \/ \E p \in Pages, c \in Calls : AnswerQuery(p, c)
  <2>1. UNCHANGED <<given, existing, unsynced, clients>>
    BY <1>5 DEF PageStep, Connect, HandleAuthChallengeAck, HandleHelloAck, FailAuthentication, HandlePing,
                HandleRequest, HandleClose, HandshakeTimeout, Dispose, AnswerQuery, memVars, storeVars
  <2> QED BY <2>1, StillRoles
<1> QED BY <1>1, <1>2, <1>3, <1>4, <1>5 DEF Restart

LEMMA CallRoles ==
    ASSUME TypeInv, CallsInv, RolesMatchStore, NEW c \in Calls,
           \/ Approved(c) \/ Denied(c) \/ Enter(c) \/ StoreAlignment(c) \/ StoreFails(c)
           \/ \E p \in Pages : StartCall(c, p)
    PROVE  RolesMatchStore'
<1>1. CASE Denied(c) \/ StoreAlignment(c)
  BY <1>1, StillRoles DEF Denied, StoreAlignment, storeVars
<1>2. CASE StoreFails(c)
  <2>1. (\E ks : clients' = Dropped(clients, ks)) /\ UNCHANGED <<unsynced, storeVars>>
    BY <1>2 DEF StoreFails, Hangup
  <2> QED BY <2>1, DroppedRoles DEF storeVars
<1>3. CASE \E p \in Pages : StartCall(c, p)
  <2>1. UNCHANGED <<clients, unsynced, storeVars>>
    BY <1>3, StartCallRecord
  <2> QED BY <2>1, StillRoles DEF storeVars
<1>4. ASSUME NEW method, calls[c].page \in Pages, CanAsk(calls[c].page, method), Ask(c, method)
      PROVE  \A p \in Pages : /\ clients[p] = NoClient => clients'[p] = NoClient
                              /\ clients'[p].at = clients[p].at
  <2>1. clients[calls[c].page] # NoClient
    BY <1>4, CanAskFacts
  <2> QED BY <1>4, <2>1 DEF Ask, TypeInv, ClientTypes, ClientRecords
<1>5. CASE Approved(c)
  <2>1. UNCHANGED <<unsynced, storeVars>>
    BY <1>5 DEF Approved
  <2>2. CASE UNCHANGED clients
    BY <2>1, <2>2, StillRoles DEF storeVars
  <2>3. CASE Ask(c, "query") /\ CanAsk(calls[c].page, "query") /\ calls[c].page \in Pages
    BY <1>4, <2>1, <2>3, KeepsRoles DEF storeVars
  <2> QED BY <1>5, <2>2, <2>3, ApprovedTypes
<1>6. CASE Enter(c)
  <2>1. UNCHANGED <<unsynced, storeVars>>
    BY <1>6 DEF Enter
  <2>2. CASE UNCHANGED clients
    BY <2>1, <2>2, StillRoles DEF storeVars
  <2>3. CASE Ask(c, calls[c].kind) /\ CanAsk(calls[c].page, calls[c].kind) /\ calls[c].page \in Pages
    BY <1>4, <2>1, <2>3, KeepsRoles DEF storeVars
  <2> QED BY <1>6, <2>2, <2>3, EnterTypes
<1> QED BY <1>1, <1>2, <1>3, <1>5, <1>6

(* A write that synchronises the clients lists them with the roles stored. *)
LEMMA SynchronizedRoles ==
    ASSUME TypeInv, NEW g, NEW ks, NEW code, NEW ended, Hangup(ks, code, Synchronized(g), ended), given' = g
    PROVE  Listed'
<1>1. clients' = Dropped(Synchronized(g), ks)
  BY DEF Hangup
<1>2. SUFFICES ASSUME NEW p \in Registered'
               PROVE  clients'[p].at = AssignmentIn(given', p)
  BY DEF Listed
<1>3. p \in Pages /\ clients'[p] # NoClient
  BY DEF Registered
<1>4. clients'[p] = Synchronized(g)[p]
  BY <1>1, <1>3 DEF Dropped
<1>5. p \in Registered
  BY <1>3, <1>4, SynchronizedSame DEF TypeInv, SameSockets, Registered
<1>6. Synchronized(g)[p].at = AssignmentIn(g, p)
  BY <1>5, SynchronizedSame DEF TypeInv
<1> QED BY <1>4, <1>6

LEMMA StoreRoles ==
    ASSUME TypeInv, CallsInv, RolesMatchStore, NEW c \in Calls,
           StoreAttach(c) \/ StoreDetach(c) \/ StoreRemove(c)
    PROVE  RolesMatchStore'
<1>1. OneRole /\ RolesExist
  BY RoleParts
<1>2. calls[c].slot \in Slots /\ calls[c].slot[1] \in existing
  <2>1. calls[c].step = "writing" /\ calls[c].kind \in {"attach", "detach", "remove"}
    BY DEF StoreAttach, StoreDetach, StoreRemove
  <2> QED BY <2>1, QueryPage DEF CallsInv, Changing
<1>3. given \in [Slots -> Pages \cup {None}]
  BY DEF TypeInv, StoreTypes
<1>4. CASE StoreAttach(c)
  <2>1. given' = AttachedTo(calls[c].slot, calls[c].page) /\ UNCHANGED existing
    BY <1>4 DEF StoreAttach
  <2>2. OneRole' /\ RolesExist'
    <3>1. \A s \in Slots : given'[s] = IF s = calls[c].slot THEN calls[c].page
                                       ELSE IF given[s] = calls[c].page THEN None ELSE given[s]
      BY <2>1 DEF AttachedTo
    <3> QED BY <1>1, <1>2, <2>1, <3>1 DEF OneRole, RolesExist
  <2>3. unsynced' = TRUE \/ Listed'
    <3>1. \/ unsynced' = TRUE
          \/ \E ks : Hangup(ks, 4002, Synchronized(AttachedTo(calls[c].slot, calls[c].page)), {c})
      BY <1>4 DEF StoreAttach
    <3> QED BY <2>1, <3>1, SynchronizedRoles
  <2> QED BY <2>2, <2>3 DEF RolesMatchStore, OneRole, RolesExist, Listed
<1>5. CASE StoreDetach(c)
  <2>1. PICK g : g = [given EXCEPT ![calls[c].slot] = None]
    OBVIOUS
  <2>2. given' = g /\ UNCHANGED existing /\ \E ks : Hangup(ks, 4002, Synchronized(g), {c})
    BY <1>5, <2>1 DEF StoreDetach
  <2>3. OneRole' /\ RolesExist'
    <3>1. \A s \in Slots : given'[s] = given[s] \/ given'[s] = None
      BY <1>3, <2>1, <2>2
    <3> QED BY <1>1, <2>2, <3>1 DEF OneRole, RolesExist
  <2>4. Listed'
    BY <2>2, SynchronizedRoles
  <2> QED BY <2>3, <2>4 DEF RolesMatchStore, OneRole, RolesExist, Listed
<1>6. CASE StoreRemove(c)
  <2>1. PICK g : g = [s \in Slots |-> IF s[1] = calls[c].slot[1] THEN None ELSE given[s]]
    OBVIOUS
  <2>2. given' = g /\ existing' = existing \ {calls[c].slot[1]} /\ \E ks : Hangup(ks, 4002, Synchronized(g), {c})
    BY <1>6, <2>1 DEF StoreRemove
  <2>3. OneRole' /\ RolesExist'
    <3>1. \A s \in Slots : given'[s] # None => given'[s] = given[s] /\ s[1] # calls[c].slot[1]
      BY <2>1, <2>2
    <3> QED BY <1>1, <2>2, <3>1 DEF OneRole, RolesExist
  <2>4. Listed'
    BY <2>2, SynchronizedRoles
  <2> QED BY <2>3, <2>4 DEF RolesMatchStore, OneRole, RolesExist, Listed
<1> QED BY <1>4, <1>5, <1>6

-----------------------------------------------------------------------------
(* The whole invariant. *)

PerfettoInv ==
    TypeInv /\ BoundsInv /\ CallsInv /\ ClientsInv /\ QueriesInv /\ RolesMatchStore

(* What the daemon starts with. *)
StartsWith(socket, e, g) ==
    /\ \A p, q \in Joined : socket[p] = socket[q] => p = q
    /\ \A s, t \in Slots : g[s] # None => s[1] \in e /\ (g[s] = g[t] => s = t)
    /\ existing = e /\ born = e /\ given = g
    /\ stage = [k \in Conns |-> IF \E p \in Joined : socket[p] = k THEN "open" ELSE "closed"]
    /\ clients = [p \in Pages |-> IF p \in Joined
                    THEN [NoClient EXCEPT !.conn = socket[p], !.at = AssignmentIn(g, p)] ELSE NoClient]
    /\ pending = {} /\ calls = [c \in Calls |-> NoCall] /\ mutex = None
    /\ toBroker = [k \in Conns |-> <<>>] /\ toPage = [k \in Conns |-> <<>>]
    /\ plugin = [p \in Pages |-> IF p \in Joined
            THEN [state |-> "connected", socket |-> socket[p], attachment |-> AssignmentIn(g, p), running |-> {}]
            ELSE [state |-> "idle", socket |-> None, attachment |-> None, running |-> {}]]
    /\ unsynced = FALSE /\ faults = 0

LEMMA InitIs ==
    Init => \E socket \in [Joined -> Conns], e \in SUBSET Sessions, g \in [Slots -> Joined \cup {None}] :
                StartsWith(socket, e, g)
  BY DEF Init, StartsWith, AssignmentIn

LEMMA InitHolds == ASSUME Init PROVE PerfettoInv
<1>1. PICK socket \in [Joined -> Conns], e \in SUBSET Sessions, g \in [Slots -> Joined \cup {None}] :
            StartsWith(socket, e, g)
  BY InitIs
<1>2. /\ Joined \subseteq Pages /\ IsFiniteSet(Joined) /\ Cardinality(Joined) <= MaxClients
      /\ Cardinality(Joined) \in Nat
  BY PerfettoBounds, FS_CardinalityType DEF PerfettoBounds
<1>3. /\ \A k \in Conns : stage[k] = IF \E p \in Joined : socket[p] = k THEN "open" ELSE "closed"
      /\ stage \in [Conns -> Stages]
  BY <1>1 DEF StartsWith, Stages
<1>4. /\ \A p \in Pages : p \in Joined =>
            /\ clients[p].conn = socket[p] /\ clients[p].at = AssignmentIn(g, p)
            /\ clients[p].restore = None /\ clients[p].query = None
            /\ clients[p] \in ClientRecords
      /\ \A p \in Pages : p \notin Joined => clients[p] = NoClient
      /\ clients \in [Pages -> ClientRecords]
  <2>1. \A p \in Pages : clients[p] = IF p \in Joined
                THEN [NoClient EXCEPT !.conn = socket[p], !.at = AssignmentIn(g, p)] ELSE NoClient
    BY <1>1 DEF StartsWith
  <2>2. ASSUME NEW p \in Joined
        PROVE  /\ clients[p].conn = socket[p] /\ clients[p].at = AssignmentIn(g, p)
               /\ clients[p].restore = None /\ clients[p].query = None
               /\ clients[p] \in ClientRecords
    <3>1. socket[p] \in Conns /\ AssignmentIn(g, p) \in Slots \cup {None}
      BY AssignmentType
    <3>2. PICK a : a = AssignmentIn(g, p)
      OBVIOUS
    <3>3. clients[p] = [NoClient EXCEPT !.conn = socket[p], !.at = a]
      BY <1>2, <2>1, <3>2
    <3> QED BY <3>1, <3>2, <3>3 DEF NoClient, ClientRecords
  <2>3. \A p \in Pages : clients[p] \in ClientRecords
    BY <2>1, <2>2, NoClientFields
  <2> QED BY <1>1, <2>1, <2>2, <2>3 DEF StartsWith
<1>5. Registered = Joined
  BY <1>2, <1>4, NoClientFields, NoneFacts DEF Registered
<1>6. \A k \in Conns : toPage[k] = <<>> /\ toBroker[k] = <<>>
  BY <1>1 DEF StartsWith
<1>7. \A c \in Calls : calls[c] = NoCall
  BY <1>1 DEF StartsWith
<1>8. pending = {} /\ mutex = None /\ given = g /\ existing = e /\ born = e
  BY <1>1 DEF StartsWith
<1>9. TypeInv
  <2>1. CallTypes
    <3>1. calls \in [Calls -> CallRecords]
      BY <1>1, EndedFields DEF StartsWith
    <3> QED BY <1>7, <1>8, <3>1, EndedFields DEF CallTypes
  <2>2. StoreTypes
    BY <1>2, <1>8 DEF StoreTypes
  <2>3. PluginTypes
    <3>1. ASSUME NEW p \in Pages PROVE plugin[p] \in PluginRecords
      <4>1. AssignmentIn(g, p) \in Slots \cup {None}
        BY AssignmentType
      <4>2. PICK a : a = AssignmentIn(g, p)
        OBVIOUS
      <4>3. plugin[p] = IF p \in Joined
                THEN [state |-> "connected", socket |-> socket[p], attachment |-> a, running |-> {}]
                ELSE [state |-> "idle", socket |-> None, attachment |-> None, running |-> {}]
        BY <1>1, <4>2 DEF StartsWith
      <4> QED BY <4>1, <4>2, <4>3 DEF PluginRecords
    <3>2. plugin = [p \in Pages |-> plugin[p]]
      BY <1>1 DEF StartsWith
    <3> QED BY <3>1, <3>2 DEF PluginTypes
  <2>4. OtherTypes
    <3>1. unsynced \in BOOLEAN
      BY <1>1, Zenon DEF StartsWith
    <3>2. faults = 0
      BY <1>1 DEF StartsWith
    <3> QED BY <3>1, <3>2, NoneFacts DEF OtherTypes
  <2>5. FramesInv
    <3>1. toPage \in [Conns -> Seq(PageFrames)] /\ toBroker \in [Conns -> Seq(BrokerFrames)]
      <4>1. <<>> \in Seq(PageFrames) /\ <<>> \in Seq(BrokerFrames)
        BY EmptySeq
      <4> QED BY <1>1, <4>1 DEF StartsWith
    <3>2. \A k \in Conns : DOMAIN toPage[k] = {}
      BY <1>6
    <3> QED BY <3>1, <3>2 DEF FramesInv
  <2> QED BY <1>3, <1>4, <2>1, <2>2, <2>3, <2>4, <2>5 DEF TypeInv, StageInv, ClientTypes
<1>10. BoundsInv
  <2>1. LiveInv
    <3>1. PICK T : T = Live(Conns)
      OBVIOUS
    <3>2. T = {k \in Conns : \E p \in Joined : socket[p] = k}
      BY <1>3, <3>1 DEF Live
    <3>3. socket \in Surjection(Joined, T)
      BY <3>2 DEF Surjection
    <3>4. IsFiniteSet(T) /\ Cardinality(T) <= Cardinality(Joined)
      BY <1>2, <3>3, FS_Surjection
    <3>5. Cardinality(T) \in Nat
      BY <3>4, FS_CardinalityType
    <3>6. Cardinality(T) <= 2 * MaxClients
      BY <1>2, <3>4, <3>5, NoneFacts
    <3> QED BY <3>1, <3>4, <3>6 DEF LiveInv
  <2>2. RegisteredInv
    BY <1>2, <1>5 DEF RegisteredInv
  <2>3. PendingInv
    <3>1. IsFiniteSet({}) /\ Cardinality({}) = 0
      BY FS_EmptySet
    <3> QED BY <1>8, <3>1, NoneFacts DEF PendingInv
  <2> QED BY <2>1, <2>2, <2>3 DEF BoundsInv
<1>11. CallsInv
  <2>1. \A c \in Calls : ~Changing(c) /\ calls[c].step # "queued" /\ mutex # c
    BY <1>7, <1>8, EndedFields, NoneFacts DEF Changing
  <2> QED BY <1>8, <2>1 DEF CallsInv
<1>12. ClientsInv
  <2>1. \A p, q \in Joined : socket[p] = socket[q] => p = q
    BY <1>1 DEF StartsWith
  <2>2. \A p \in Pages : p \notin Joined => clients[p].conn = None
    BY <1>4, NoClientFields
  <2>3. \A p \in Registered : clients[p].conn # None
    BY <1>2, <1>4, <1>5, NoneFacts
  <2>4. \A p, q \in Registered : clients[p].conn = clients[q].conn => p = q
    BY <1>2, <1>4, <1>5, <2>1
  <2>5. \A k \in Conns : stage[k] \in {"audit", "open"} => \E p \in Pages : clients[p].conn = k
    BY <1>2, <1>3, <1>4
  <2>6. \A k \in Conns : stage[k] \notin {"challenge", "response"}
    BY <1>3
  <2> QED BY <1>8, <2>3, <2>4, <2>5, <2>6 DEF ClientsInv
<1>13. QueriesInv
  <2>1. \A k \in Conns, n \in Nat : ~Asking(k, n)
    BY <1>6 DEF Asking
  <2>2. \A i \in Calls : i \notin Served
    <3>1. \A p \in Pages : plugin[p].running = {}
      BY <1>1 DEF StartsWith
    <3>2. \A k \in Conns : DOMAIN toBroker[k] = {}
      BY <1>6
    <3> QED BY <3>1, <3>2 DEF Served, Running, Told
  <2>3. Served \subseteq Calls
    BY ToldType DEF Served
  <2> QED BY <2>1, <2>2, <2>3 DEF QueriesInv
<1>14. RolesMatchStore
  <2>1. OneRole /\ RolesExist
    BY <1>1, <1>8 DEF StartsWith, OneRole, RolesExist
  <2>2. Listed
    BY <1>2, <1>4, <1>5, <1>8 DEF Listed
  <2> QED BY <2>1, <2>2, RoleParts
<1> QED BY <1>9, <1>10, <1>11, <1>12, <1>13, <1>14 DEF PerfettoInv

LEMMA BrokerHolds ==
    ASSUME PerfettoInv, NEW k \in Conns,
           BrokerStep(k) \/ AuthResponseAfterClose(k) \/ AuthFails(k) \/ Lose(k)
    PROVE  PerfettoInv'
<1>1. TypeInv /\ BoundsInv /\ CallsInv /\ ClientsInv /\ QueriesInv /\ RolesMatchStore
  BY DEF PerfettoInv
<1>2. TypeInv'
  <2>1. CASE HelloAck(k)
    BY <1>1, <2>1, HelloAckTypes DEF Sends
  <2>2. CASE ~HelloAck(k)
    <3>1. Sends({}, {})
      BY <1>1, <2>2, AuthChallengeTypes, RefuseMessageTypes, AuthResponseTypes, PeerClosedTypes,
         ResponseTypes, EventTypes, AfterCloseTypes, AuthFailsTypes, LoseTypes DEF BrokerStep
    <3> QED BY <3>1 DEF Sends
  <2> QED BY <2>1, <2>2
<1>3. BoundsInv'
  BY <1>1, BrokerBounds, RegisteringBounds DEF BrokerStep
<1>4. CallsInv'
  <2>1. CASE AuthChallenge(k)
    BY <1>1, <2>1, SameCalls DEF AuthChallenge, storeVars
  <2>2. CASE RefuseMessage(k)
    BY <1>1, <2>2, SameCalls DEF RefuseMessage, Refuse, storeVars
  <2>3. CASE AuthResponse(k)
    <3>1. UNCHANGED existing
      BY <2>3 DEF AuthResponse, storeVars
    <3>2. CASE Refuse(k)
      BY <1>1, <3>1, <3>2, SameCalls DEF Refuse
    <3>3. CASE \E p : Register(k, p)
      BY <1>1, <3>1, <3>3, RegisterCalls
    <3> QED BY <2>3, <3>2, <3>3 DEF AuthResponse
  <2>4. CASE HelloAck(k)
    BY <1>1, <2>4, HelloAckCalls
  <2>5. CASE PeerClosed(k)
    <3>1. HandleCloses({k}, {}) /\ UNCHANGED existing
      BY <2>5 DEF PeerClosed, storeVars
    <3> QED BY <1>1, <3>1, NothingEndsCalls
  <2>6. CASE Response(k)
    BY <1>1, <2>6, ResponseCalls
  <2>7. CASE Event(k)
    <3>1. UNCHANGED existing
      BY <2>7 DEF Event, storeVars
    <3>2. CASE UNCHANGED <<pending, calls, mutex>>
      BY <1>1, <3>1, <3>2, SameCalls
    <3>3. CASE HandleCloses({k}, {})
      BY <1>1, <3>1, <3>3, NothingEndsCalls
    <3> QED BY <2>7, <3>2, <3>3 DEF Event, Hangup
  <2>8. CASE AuthResponseAfterClose(k)
    BY <1>1, <2>8, AfterCloseCalls
  <2>9. CASE AuthFails(k)
    <3>1. HandleCloses({k}, {}) /\ UNCHANGED existing
      BY <2>9 DEF AuthFails, Hangup, storeVars
    <3> QED BY <1>1, <3>1, NothingEndsCalls
  <2>10. CASE Lose(k)
    BY <1>1, <2>10, SameCalls DEF Lose, memVars, storeVars
  <2> QED BY <2>1, <2>2, <2>3, <2>4, <2>5, <2>6, <2>7, <2>8, <2>9, <2>10 DEF BrokerStep
<1>5. ClientsInv'
  BY <1>1, BrokerClients, AuthResponseClients DEF BrokerStep
<1>6. QueriesInv'
  BY <1>1, BrokerQueries, HelloAckQueries, RegisteringQueries, ResponseQueries DEF BrokerStep
<1>7. RolesMatchStore'
  BY <1>1, BrokerRoles
<1> QED BY <1>2, <1>3, <1>4, <1>5, <1>6, <1>7 DEF PerfettoInv

LEMMA PageHolds ==
    ASSUME PerfettoInv, NEW p \in Pages,
           \/ PageStep(p) \/ HandshakeTimeout(p) \/ Dispose(p) \/ \E c \in Calls : AnswerQuery(p, c)
    PROVE  PerfettoInv'
<1>1. TypeInv /\ BoundsInv /\ CallsInv /\ ClientsInv /\ QueriesInv /\ RolesMatchStore
  BY DEF PerfettoInv
<1>2. TypeInv'
  BY <1>1, ConnectTypes, HandleAuthChallengeAckTypes, HandleHelloAckTypes, FailAuthenticationTypes,
     HandlePingTypes, HandleRequestTypes, HandleCloseTypes, HandshakeTimeoutTypes, DisposeTypes,
     AnswerQueryTypes DEF PageStep, Sends
<1>3. BoundsInv'
  BY <1>1, PageBounds
<1>4. UNCHANGED <<clients, pending, calls, mutex, existing>>
  BY DEF PageStep, Connect, HandleAuthChallengeAck, HandleHelloAck, FailAuthentication, HandlePing,
         HandleRequest, HandleClose, HandshakeTimeout, Dispose, AnswerQuery, memVars, storeVars
<1>5. CallsInv'
  BY <1>1, <1>4, SameCalls
<1>6. ClientsInv'
  <2>1. CASE Connect(p)
    BY <1>1, <2>1, ConnectClients
  <2>2. CASE ~Connect(p)
    <3>1. UNCHANGED stage
      BY <2>2 DEF PageStep, HandleAuthChallengeAck, HandleHelloAck, FailAuthentication, HandlePing,
                  HandleRequest, HandleClose, HandshakeTimeout, Dispose, AnswerQuery, memVars
    <3> QED BY <1>1, <1>4, <3>1, StillClients
  <2> QED BY <2>1, <2>2
<1>7. QueriesInv'
  BY <1>1, PageQueries, AnswerQueryQueries
<1>8. RolesMatchStore'
  BY <1>1, DaemonRoles
<1> QED BY <1>2, <1>3, <1>5, <1>6, <1>7, <1>8 DEF PerfettoInv

LEMMA CallHolds ==
    ASSUME PerfettoInv, NEW c \in Calls,
           \/ Approved(c) \/ Denied(c) \/ Enter(c) \/ StoreStep(c) \/ StoreFails(c)
           \/ \E p \in Pages : StartCall(c, p)
    PROVE  PerfettoInv'
<1>1. TypeInv /\ BoundsInv /\ CallsInv /\ ClientsInv /\ QueriesInv /\ RolesMatchStore
  BY DEF PerfettoInv
<1>2. TypeInv'
  <2>1. CASE Approved(c)
    BY <1>1, <2>1, ApprovedTypes DEF Sends
  <2>2. CASE Enter(c)
    BY <1>1, <2>2, EnterTypes DEF Sends
  <2>3. CASE Denied(c) \/ StoreAlignment(c)
    <3>1. EndCalls({c}) /\ UNCHANGED <<stage, clients, pending, unsynced, storeVars, netVars, plugin, faults>>
      BY <2>3 DEF Denied, StoreAlignment
    <3> QED BY <1>1, <3>1, EndedTypes DEF Sends
  <2>4. CASE StoreAttach(c) \/ StoreDetach(c) \/ StoreRemove(c) \/ StoreFails(c)
    <3>1. Sends({}, {})
      BY <1>1, <2>4, StoreAttachTypes, StoreDetachTypes, StoreRemoveTypes, StoreFailsTypes
    <3> QED BY <3>1 DEF Sends
  <2>5. CASE \E p \in Pages : StartCall(c, p)
    BY <1>1, <2>5, StartCallTypes DEF Sends
  <2> QED BY <2>1, <2>2, <2>3, <2>4, <2>5 DEF StoreStep
<1>3. BoundsInv'
  BY <1>1, CallBounds
<1>4. CallsInv'
  <2>1. CASE Denied(c)
    <3>1. EndCalls({c}) /\ calls[c].step # "asked" /\ UNCHANGED pending /\ UNCHANGED existing
      BY <2>1 DEF Denied, storeVars
    <3> QED BY <1>1, <3>1, EndedCalls
  <2> QED BY <1>1, <2>1, ApprovedCalls, EnterCalls, StartCallCalls, StoreCalls
<1>5. ClientsInv'
  BY <1>1, CallClients
<1>6. QueriesInv'
  BY <1>1, CallQueries, StoreQueries
<1>7. RolesMatchStore'
  BY <1>1, CallRoles, StoreRoles DEF StoreStep
<1> QED BY <1>2, <1>3, <1>4, <1>5, <1>6, <1>7 DEF PerfettoInv

LEMMA DaemonHolds ==
    ASSUME PerfettoInv,
           \/ Ping \/ Restart \/ \E q \in pending : Timeout(q)
           \/ \E s \in Sessions : CreateSession(s)
    PROVE  PerfettoInv'
<1>1. TypeInv /\ BoundsInv /\ CallsInv /\ ClientsInv /\ QueriesInv /\ RolesMatchStore
  BY DEF PerfettoInv
<1>2. TypeInv'
  BY <1>1, PingTypes, RestartTypes, TimeoutTypes, CreateSessionTypes DEF Sends
<1>3. BoundsInv'
  BY <1>1, DaemonBounds
<1>4. CallsInv'
  <2>1. CASE Restarted
    BY <2>1, RestartedCalls
  <2>2. CASE Ping /\ ~Restarted
    <3>1. (\E ks : HandleCloses(ks, {})) /\ UNCHANGED existing
      BY <2>2 DEF Ping, storeVars
    <3> QED BY <1>1, <3>1, NothingEndsCalls
  <2>3. CASE \E q \in pending : Timeout(q)
    BY <1>1, <2>3, TimeoutCalls
  <2>4. CASE \E s \in Sessions : CreateSession(s)
    <3>1. UNCHANGED <<pending, calls, mutex>> /\ existing \subseteq existing'
      BY <2>4 DEF CreateSession, memVars
    <3> QED BY <1>1, <3>1, SameCalls
  <2> QED BY <2>1, <2>2, <2>3, <2>4 DEF Restart
<1>5. ClientsInv'
  <2>1. CASE Ping
    BY <1>1, <2>1, PingClients
  <2>2. CASE Restart
    BY <2>2, RestartedClients DEF Restart
  <2>3. CASE (\E q \in pending : Timeout(q)) \/ \E s \in Sessions : CreateSession(s)
    <3>1. UNCHANGED <<stage, clients>> /\ pending' \subseteq pending
      BY <2>3 DEF Timeout, CreateSession, memVars
    <3> QED BY <1>1, <3>1, StillClients
  <2> QED BY <2>1, <2>2, <2>3
<1>6. QueriesInv'
  BY <1>1, DaemonQueries
<1>7. RolesMatchStore'
  BY <1>1, DaemonRoles
<1> QED BY <1>2, <1>3, <1>4, <1>5, <1>6, <1>7 DEF PerfettoInv

LEMMA StepHolds == ASSUME PerfettoInv, Next PROVE PerfettoInv'
<1>1. ASSUME NEW k \in Conns, BrokerStep(k) \/ AuthResponseAfterClose(k) \/ AuthFails(k) \/ Lose(k)
      PROVE  PerfettoInv'
  BY <1>1, BrokerHolds
<1>2. ASSUME NEW p \in Pages, PageStep(p) \/ HandshakeTimeout(p) \/ Dispose(p) PROVE PerfettoInv'
  BY <1>2, PageHolds
<1>3. ASSUME NEW p \in Pages, NEW c \in Calls, AnswerQuery(p, c) PROVE PerfettoInv'
  BY <1>3, PageHolds
<1>4. ASSUME NEW c \in Calls, Approved(c) \/ Denied(c) \/ Enter(c) \/ StoreStep(c) \/ StoreFails(c)
      PROVE  PerfettoInv'
  BY <1>4, CallHolds
<1>5. ASSUME NEW c \in Calls, NEW p \in Pages, StartCall(c, p) PROVE PerfettoInv'
  BY <1>5, CallHolds
<1>6. ASSUME NEW q \in pending, Timeout(q) PROVE PerfettoInv'
  BY <1>6, DaemonHolds
<1>7. ASSUME NEW s \in Sessions, CreateSession(s) PROVE PerfettoInv'
  BY <1>7, DaemonHolds
<1>8. CASE Ping \/ Restart
  BY <1>8, DaemonHolds
<1> QED BY <1>1, <1>2, <1>3, <1>4, <1>5, <1>6, <1>7, <1>8 DEF Next

LEMMA StutterHolds == ASSUME PerfettoInv, UNCHANGED vars PROVE PerfettoInv'
<1>1. /\ UNCHANGED <<stage, clients, pending, calls, mutex, unsynced>>
      /\ UNCHANGED <<existing, born, given, toBroker, toPage, plugin, faults>>
  BY DEF vars, memVars, storeVars, netVars
<1>2. TypeInv' /\ BoundsInv'
  BY <1>1 DEF PerfettoInv, TypeInv, StageInv, ClientTypes, CallTypes, StoreTypes, PluginTypes, OtherTypes,
              FramesInv, BoundsInv, LiveInv, RegisteredInv, PendingInv, Live, Registered, Sound
<1>3. CallsInv' /\ ClientsInv'
  BY <1>1 DEF PerfettoInv, CallsInv, ClientsInv, Changing, Registered
<1>4. QueriesInv'
  BY <1>1 DEF PerfettoInv, QueriesInv, Asking, Served, Told, Running, Registered
<1>5. RolesMatchStore'
  BY <1>1, StillRoles DEF PerfettoInv
<1> QED BY <1>2, <1>3, <1>4, <1>5 DEF PerfettoInv

LEMMA PerfettoInvariant == Spec => []PerfettoInv
<1>1. Init => PerfettoInv
  BY InitHolds
<1>2. PerfettoInv /\ [Next]_vars => PerfettoInv'
  BY StepHolds, StutterHolds
<1> QED BY <1>1, <1>2, PTL DEF Spec

-----------------------------------------------------------------------------
(* The state is well formed, and the broker keeps its limits: sockets that *)
(* are accepted, clients and requests are never more than maxClients and   *)
(* maxConcurrentRequests allow, whatever order frames and calls come in.   *)
THEOREM PerfettoTypeCorrect == Spec => []TypeOK
<1>1. PerfettoInv => TypeOK
  <2> SUFFICES ASSUME PerfettoInv PROVE TypeOK
    OBVIOUS
  <2>1. Cardinality({k \in Conns : stage[k] # "closed"}) <= 2 * MaxClients
    BY DEF PerfettoInv, BoundsInv, LiveInv, Live
  <2>2. Cardinality({p \in Pages : clients[p] # NoClient}) <= MaxClients
    BY DEF PerfettoInv, BoundsInv, RegisteredInv, Registered
  <2>3. Cardinality(pending) <= MaxPending
    BY DEF PerfettoInv, BoundsInv, PendingInv
  <2>4. TypeInv
    BY DEF PerfettoInv
  <2> QED BY <2>1, <2>2, <2>3, <2>4 DEF TypeOK, TypeInv, StageInv, Stages, ClientTypes, ClientRecords,
             CallTypes, CallRecords, PendingRecords, StoreTypes, PluginTypes, PluginRecords, OtherTypes
<1> QED BY <1>1, PerfettoInvariant, PTL

(* A trace has at most one role, roles belong to sessions that exist, and  *)
(* clients are listed with the roles the store has, unless an attach was   *)
(* stored whose target had changed: however the tool calls interleave with *)
(* replaced sockets, removals and restarts (synchronizeAssignments, and    *)
(* PerfettoSessionStore.attach, detach and remove).                        *)
THEOREM RolesAreTheStores == Spec => []RolesMatchStore
<1>1. PerfettoInv => RolesMatchStore
  BY DEF PerfettoInv
<1> QED BY <1>1, PerfettoInvariant, PTL

(* assignmentMutex: of the calls that wait for a plugin or write to the    *)
(* store, at most one is to change a role or a record, it holds the mutex, *)
(* and the session it is about still exists.                               *)
OneChangeAtATime ==
    /\ \A c, d \in Calls : Changing(c) /\ Changing(d) => c = d
    /\ \A c \in Calls : Changing(c) => mutex = c /\ calls[c].slot[1] \in existing

(* The calls change the store one at a time, and never a session that was  *)
(* removed after the call was approved (requestAttach, detach,             *)
(* removeSession and withSessionInstance, which look again under the       *)
(* mutex).                                                                 *)
THEOREM ChangesAreSerial == Spec => []OneChangeAtATime
<1>1. PerfettoInv => OneChangeAtATime
  BY DEF PerfettoInv, CallsInv, OneChangeAtATime
<1> QED BY <1>1, PerfettoInvariant, PTL

(* What a socket's page owes its client is the query the client is locked  *)
(* with.                                                                   *)
LEMMA OwedIsLocked ==
    ASSUME PerfettoInv, NEW p \in Registered
    PROVE  OwedTo(clients[p].conn) \subseteq {clients[p].query}
<1> DEFINE k == clients[p].conn
<1>1. TypeInv /\ ClientsInv /\ QueriesInv /\ p \in Pages
  BY DEF PerfettoInv, Registered
<1>2. k \in Conns
  BY <1>1, RegisteredConn DEF Registered
<1>3. SUFFICES ASSUME NEW i \in OwedTo(k) PROVE i = clients[p].query
  OBVIOUS
<1>4. CASE \E n \in DOMAIN toPage[k] : toPage[k][n].type = "request"
                /\ toPage[k][n].id = i /\ toPage[k][n].method = "query"
  <2>1. PICK n \in DOMAIN toPage[k] : toPage[k][n].type = "request"
                /\ toPage[k][n].id = i /\ toPage[k][n].method = "query"
    BY <1>4
  <2>2. toPage[k] \in Seq(PageFrames)
    BY <1>1, <1>2 DEF TypeInv, FramesInv
  <2>3. n \in Nat
    BY <2>2, LenProperties
  <2>4. i \in Calls
    BY <1>3 DEF OwedTo
  <2>5. Asking(k, n)
    BY <2>1, <2>4 DEF Asking
  <2> QED BY <1>1, <1>2, <2>1, <2>3, <2>5 DEF QueriesInv
<1>5. CASE \E q \in Registered : clients[q].conn = k /\ clients[q].query = i
  BY <1>1, <1>5 DEF ClientsInv
<1> QED BY <1>3, <1>4, <1>5 DEF OwedTo

(* A request waits for an answer of the socket its client has now, and on  *)
(* that socket a trace is owed at most one query: a query that timed out   *)
(* keeps its client locked until the plugin answers or the socket ends     *)
(* (request, handleResponse, the close handler and the 4001 replacement).  *)
THEOREM RequestsFollow == Spec => []RequestsFollowClients
<1>1. PerfettoInv => RequestsFollowClients
  <2> SUFFICES ASSUME PerfettoInv PROVE RequestsFollowClients
    OBVIOUS
  <2>1. \A q \in pending : clients[q.page].conn = q.conn /\ stage[q.conn] # "closed"
    BY DEF PerfettoInv, ClientsInv
  <2>2. ASSUME NEW p \in Registered PROVE Cardinality(OwedTo(clients[p].conn)) <= 1
    <3>1. PICK S : S = OwedTo(clients[p].conn)
      OBVIOUS
    <3>2. PICK x : x = clients[p].query
      OBVIOUS
    <3>3. S \subseteq {x}
      BY <3>1, <3>2, OwedIsLocked
    <3>4. IsFiniteSet({x}) /\ Cardinality({x}) = 1
      BY FS_Singleton
    <3>5. IsFiniteSet(S) /\ Cardinality(S) <= Cardinality({x})
      BY <3>3, <3>4, FS_Subset
    <3>6. Cardinality(S) <= 1
      BY <3>4, <3>5
    <3> QED BY <3>1, <3>6
  <2> QED BY <2>1, <2>2 DEF RequestsFollowClients
<1> QED BY <1>1, PerfettoInvariant, PTL

-----------------------------------------------------------------------------
(***************************************************************************)
(* A role is stored only when the plugin of the trace has taken it.        *)
(*                                                                         *)
(* The invariant follows an attach from its request to the write: one is   *)
(* under way at a time, its request is the last attach of its socket, and  *)
(* after its answer the plugin has the role.  Only a request that          *)
(* overtakes hello_ack may have another behind it, and it ends the socket. *)
(* Most steps are calm: they bring no hello_ack and no attach, and move no *)
(* attach that is under way but to its write or its end.  The four others  *)
(* have a lemma each: hello_ack when it is sent and when it arrives, and   *)
(* the attach request when it is sent and when it is handled.              *)
(***************************************************************************)

Attach(f) == f.type = "request" /\ f.method = "attach"

(* The attach waits for the plugin or writes; the plugin is still on the   *)
(* socket it was approved for.                                             *)
Attaching(c) == calls[c].kind = "attach" /\ calls[c].step \in {"asked", "writing"}
Hears(c) == calls[c].conn \in Conns /\ plugin[calls[c].page].socket = calls[c].conn

(* Plugins have sockets of their own, and are connected from hello_ack on. *)
Apart == \A p, q \in Pages : plugin[p].socket = plugin[q].socket /\ plugin[p].socket # None => p = q
Welcome ==
    /\ \A p \in Pages : plugin[p].state = "connected" =>
            plugin[p].socket \in Conns /\ stage[plugin[p].socket] \in {"open", "closed"}
    /\ \A k \in Conns : \A n \in DOMAIN toPage[k] : Ack(toPage[k][n]) => stage[k] \in {"open", "closed"}

(* What is asked, awaited and run agrees with the call.                    *)
Agrees(f) ==
    f.type = "request" /\ f.id \in Calls /\ Attaching(f.id) =>
        f.method = "attach" /\ f.slot = calls[f.id].slot
Matching ==
    /\ \A k \in Conns : \A n \in DOMAIN toPage[k] : Agrees(toPage[k][n])
    /\ \A c \in Running : ~Attaching(c)
    /\ \A q \in pending : q.id \in Calls /\ Attaching(q.id) => q.page = calls[q.id].page

(* A request of the call is the last attach, or is met before hello_ack.   *)
Unheard(p, k, n) ==
    plugin[p].state # "connected" /\ \A m \in DOMAIN toPage[k] : m < n => ~Ack(toPage[k][m])
Last(k, n) == \A m \in DOMAIN toPage[k] : m > n => ~Attach(toPage[k][m])
Asks(k, n, c) == n \in DOMAIN toPage[k] /\ Attach(toPage[k][n]) /\ toPage[k][n].id = c

InOrder(c) ==
    \A n \in Nat : Asks(calls[c].conn, n, c) =>
        Unheard(calls[c].page, calls[c].conn, n) \/ Last(calls[c].conn, n)

Taken(c) ==
    /\ plugin[calls[c].page].state = "connected"
    /\ plugin[calls[c].page].attachment = calls[c].slot
    /\ \A m \in DOMAIN toPage[calls[c].conn] : ~Attach(toPage[calls[c].conn][m])

AttachInv ==
    \A c \in Calls : Attaching(c) /\ Hears(c) =>
        /\ InOrder(c)
        /\ calls[c].step = "writing" \/ Answered(calls[c].conn, c) => Taken(c)

ConfirmInv == Apart /\ Welcome /\ Matching /\ AttachInv

(* A step that brings no hello_ack and no attach, and moves no attach that *)
(* is under way but to its write or its end.                               *)
PluginStays(p) ==
    \/ plugin'[p].socket = None /\ plugin'[p].state # "connected"
    \/ /\ plugin'[p].socket = plugin[p].socket /\ plugin'[p].attachment = plugin[p].attachment
       /\ plugin'[p].state = "connected" <=> plugin[p].state = "connected"
Joins(p) == plugin'[p].socket \in Free /\ plugin'[p].state # "connected"
PluginsStay ==
    /\ \A p \in Pages : PluginStays(p) \/ Joins(p)
    /\ \A p, q \in Pages : Joins(p) /\ Joins(q) => p = q

OpensStay ==
    \A k \in Conns : stage[k] \in {"open", "closed"} => stage'[k] \in {"open", "closed"} \/ k \in Free

SameAttach(c) ==
    /\ Attaching(c)
    /\ calls'[c].page = calls[c].page /\ calls'[c].slot = calls[c].slot /\ calls'[c].conn = calls[c].conn

Onward(c) ==
    /\ SameAttach(c)
    /\ calls'[c].step = "writing" => calls[c].step = "writing" \/ Answered(calls[c].conn, c)

AttachStays(c, N) ==
    Attaching(c)' =>
        /\ Onward(c)
        /\ \A k \in Conns : Answered(k, c)' => Answered(k, c)
        /\ c \in Running' => c \in Running
        /\ \A q \in pending' : q.id = c => q \in pending
        /\ \A f \in N : f.id # c

Calm(N) ==
    /\ Forwards(toPage', N) /\ \A f \in N : ~Ack(f) /\ ~Attach(f)
    /\ PluginsStay /\ OpensStay
    /\ \A c \in Calls : AttachStays(c, N)

LEMMA ApartKept ==
    ASSUME Apart, PluginsStay PROVE Apart'
<1> SUFFICES ASSUME NEW p \in Pages, NEW q \in Pages,
                    plugin'[p].socket = plugin'[q].socket, plugin'[p].socket # None
             PROVE  p = q
  BY DEF Apart
<1>1. CASE Joins(p) /\ Joins(q)
  BY <1>1 DEF PluginsStay
<1>2. CASE plugin'[p].socket = plugin[p].socket /\ plugin'[q].socket = plugin[q].socket
  BY <1>2 DEF Apart
<1>3. \A x, y \in Pages : Joins(x) => plugin[y].socket # plugin'[x].socket
  BY DEF Joins, Free, Attached
<1> QED BY <1>1, <1>2, <1>3 DEF PluginsStay, PluginStays

LEMMA WelcomeKept ==
    ASSUME PerfettoInv, NEW N, Forwards(toPage', N), \A f \in N : ~Ack(f),
           PluginsStay, OpensStay, Welcome
    PROVE  Welcome'
<1>1. FramesInv
  BY DEF PerfettoInv, TypeInv
<1>2. ASSUME NEW p \in Pages, plugin'[p].state = "connected"
      PROVE  plugin'[p].socket \in Conns /\ stage'[plugin'[p].socket] \in {"open", "closed"}
  <2>1. plugin'[p].socket = plugin[p].socket /\ plugin[p].state = "connected"
    BY <1>2 DEF PluginsStay, PluginStays, Joins
  <2>2. plugin[p].socket \notin Free
    BY DEF Free, Attached
  <2> QED BY <2>1, <2>2 DEF Welcome, OpensStay
<1>3. ASSUME NEW k \in Conns, NEW n \in DOMAIN toPage'[k], Ack(toPage'[k][n])
      PROVE  stage'[k] \in {"open", "closed"}
  <2>1. PICK d \in Nat : Mark(toPage'[k][n]) =>
            toPage'[k][n] \in N \/ (n + d \in DOMAIN toPage[k] /\ toPage[k][n + d] = toPage'[k][n])
    BY DEF Forwards
  <2>2. n + d \in DOMAIN toPage[k] /\ toPage[k][n + d] = toPage'[k][n]
    BY <1>3, <2>1 DEF Mark
  <2>3. toPage[k] # <<>>
    BY <2>2
  <2> QED BY <1>3, <2>2, <2>3 DEF Welcome, OpensStay, Free
<1> QED BY <1>2, <1>3 DEF Welcome

LEMMA MatchingKept ==
    ASSUME PerfettoInv, NEW N, Calm(N), Matching
    PROVE  Matching'
<1>1. ASSUME NEW k \in Conns, NEW n \in DOMAIN toPage'[k], NEW f, f = toPage'[k][n]
      PROVE  Agrees(f)'
  <2> SUFFICES ASSUME f.type = "request", f.id \in Calls, Attaching(f.id)'
               PROVE  f.method = "attach" /\ f.slot = calls'[f.id].slot
    BY DEF Agrees
  <2>1. PICK d \in Nat :
            Mark(f) => f \in N \/ (n + d \in DOMAIN toPage[k] /\ toPage[k][n + d] = f)
    BY <1>1 DEF Calm, Forwards
  <2>2. f \notin N /\ SameAttach(f.id)
    BY DEF Calm, AttachStays, Onward
  <2>3. n + d \in DOMAIN toPage[k] /\ toPage[k][n + d] = f
    BY <2>1, <2>2 DEF Mark
  <2> QED BY <2>2, <2>3 DEF Matching, Agrees, SameAttach
<1>2. \A c \in Running' : ~Attaching(c)'
  BY ToldType DEF Matching, Calm, AttachStays, Onward, SameAttach
<1>3. \A q \in pending' : q.id \in Calls /\ Attaching(q.id)' => q.page = calls'[q.id].page
  BY DEF Matching, Calm, AttachStays, Onward, SameAttach
<1> QED BY <1>1, <1>2, <1>3 DEF Matching

(* Frames that stay in order keep the order of the attaches. *)
LEMMA OrderMoves ==
    ASSUME PerfettoInv, NEW N, Forwards(toPage', N), \A f \in N : ~Ack(f), NEW c \in Calls,
           calls[c].conn \in Conns, InOrder(c), SameAttach(c),
           \A f \in N : ~Attach(f),
           plugin'[calls[c].page].state = "connected" => plugin[calls[c].page].state = "connected"
    PROVE  InOrder(c)'
<1>0. PICK k, p : k = calls[c].conn /\ p = calls[c].page
  OBVIOUS
<1>1. PICK d \in Nat : \A n \in DOMAIN toPage'[k] : Mark(toPage'[k][n]) =>
        toPage'[k][n] \in N \/ (n + d \in DOMAIN toPage[k] /\ toPage[k][n + d] = toPage'[k][n])
  BY <1>0 DEF Forwards
<1>2. \A n \in DOMAIN toPage'[k] : Ack(toPage'[k][n]) \/ Attach(toPage'[k][n]) =>
        n + d \in DOMAIN toPage[k] /\ toPage[k][n + d] = toPage'[k][n]
  BY <1>1 DEF Mark, Attach
<1>3. /\ calls'[c].conn = k /\ calls'[c].page = p
      /\ \A n \in DOMAIN toPage'[k] : n \in Nat
      /\ \A n \in DOMAIN toPage[k] : n \in Nat
  <2>1. toPage'[k] \in Seq(PageFrames) /\ toPage[k] \in Seq(PageFrames)
    BY <1>0 DEF Forwards, PerfettoInv, TypeInv, FramesInv
  <2> QED BY <1>0, <2>1 DEF SameAttach
<1>4. SUFFICES ASSUME NEW n \in Nat, Asks(k, n, c)'
               PROVE  Unheard(p, k, n)' \/ Last(k, n)'
  BY <1>3 DEF InOrder
<1>5. n \in DOMAIN toPage'[k] /\ Asks(k, n + d, c)
  BY <1>2, <1>4 DEF Asks
<1>6. CASE Unheard(p, k, n + d)
  <2>1. ASSUME NEW m \in DOMAIN toPage'[k], m < n, Ack(toPage'[k][m]) PROVE FALSE
    <3>1. m + d \in DOMAIN toPage[k] /\ Ack(toPage[k][m + d])
      BY <1>2, <2>1
    <3>2. m + d < n + d
      BY <1>3, <2>1
    <3> QED BY <3>1, <3>2, <1>6 DEF Unheard
  <2> QED BY <1>0, <1>6, <2>1 DEF Unheard
<1>7. CASE Last(k, n + d)
  <2>1. ASSUME NEW m \in DOMAIN toPage'[k], m > n, Attach(toPage'[k][m]) PROVE FALSE
    <3>1. m + d \in DOMAIN toPage[k] /\ Attach(toPage[k][m + d])
      BY <1>2, <2>1
    <3>2. m + d > n + d
      BY <1>3, <2>1
    <3> QED BY <3>1, <3>2, <1>7 DEF Last
  <2> QED BY <2>1 DEF Last
<1> QED BY <1>0, <1>5, <1>6, <1>7 DEF InOrder

LEMMA AttachPage ==
    ASSUME PerfettoInv, NEW c \in Calls, Attaching(c)
    PROVE  calls[c].page \in Pages /\ calls[c].slot \in Slots
  BY DEF PerfettoInv, TypeInv, CallTypes, Attaching

LEMMA AttachKept ==
    ASSUME PerfettoInv, NEW N, Calm(N), AttachInv
    PROVE  AttachInv'
<1> SUFFICES ASSUME NEW c \in Calls, Attaching(c)', Hears(c)'
             PROVE  /\ InOrder(c)'
                    /\ calls'[c].step = "writing" \/ Answered(calls[c].conn, c)' => Taken(c)'
  BY DEF AttachInv
<1>0. PICK k, p : k = calls[c].conn /\ p = calls[c].page
  OBVIOUS
<1>1. /\ SameAttach(c) /\ Attaching(c) /\ p \in Pages
      /\ calls'[c].step = "writing" => calls[c].step = "writing" \/ Answered(k, c)
      /\ Answered(k, c)' => Answered(k, c)
      /\ k \in Conns /\ plugin'[p].socket = k
  <2>1. SameAttach(c) /\ Attaching(c)
    BY DEF Calm, AttachStays, Onward, SameAttach
  <2>2. k \in Conns /\ plugin'[p].socket = k
    BY <1>0, <2>1 DEF Hears, SameAttach
  <2> QED BY <1>0, <2>1, <2>2, AttachPage DEF Calm, AttachStays, Onward
<1>2. /\ plugin[p].socket = k /\ plugin'[p].attachment = plugin[p].attachment
      /\ plugin'[p].state = "connected" <=> plugin[p].state = "connected"
  <2>1. ~Joins(p)
    BY <1>0, <1>1 DEF Joins, Free
  <2>2. k # None
    BY <1>1, NoneFacts
  <2> QED BY <1>1, <2>1, <2>2 DEF Calm, PluginsStay, PluginStays
<1>3. Hears(c)
  BY <1>0, <1>1, <1>2 DEF Hears
<1>4. InOrder(c)'
  BY <1>0, <1>1, <1>2, <1>3, OrderMoves DEF AttachInv, Calm
<1>5. ASSUME calls'[c].step = "writing" \/ Answered(k, c)' PROVE Taken(c)'
  <2>1. Taken(c)
    BY <1>0, <1>1, <1>3, <1>5 DEF AttachInv
  <2>2. ASSUME NEW m \in DOMAIN toPage'[k], Attach(toPage'[k][m]) PROVE FALSE
    <3>1. PICK d \in Nat : Mark(toPage'[k][m]) =>
            toPage'[k][m] \in N \/ (m + d \in DOMAIN toPage[k] /\ toPage[k][m + d] = toPage'[k][m])
      BY <1>1 DEF Calm, Forwards
    <3>2. m + d \in DOMAIN toPage[k] /\ Attach(toPage[k][m + d])
      BY <2>2, <3>1 DEF Mark, Attach, Calm
    <3> QED BY <1>0, <2>1, <3>2 DEF Taken
  <2> QED BY <1>0, <1>1, <1>2, <2>1, <2>2 DEF Taken, SameAttach
<1>6. calls'[c].conn = k
  BY <1>0, <1>1 DEF SameAttach
<1> QED BY <1>4, <1>5, <1>6

LEMMA CalmKeeps ==
    ASSUME PerfettoInv, ConfirmInv, NEW N, Calm(N) PROVE ConfirmInv'
  BY ApartKept, WelcomeKept, MatchingKept, AttachKept DEF ConfirmInv, Calm

(* What answers or asks nothing of an attach is calm. *)
LEMMA StepCalm ==
    ASSUME NEW N, NEW I, Sends(N, I), Running' \subseteq Running \cup I,
           \A q \in pending' : q \in pending \/ q.id \in I,
           \A f \in N : ~Ack(f) /\ ~Attach(f) /\ f.id \in I,
           \A c \in Calls : Attaching(c)' => c \notin I /\ Onward(c),
           PluginsStay, OpensStay
    PROVE  Calm(N)
<1>1. Forwards(toPage', N) /\ \A f \in N : ~Ack(f) /\ ~Attach(f)
  BY DEF Sends
<1>2. ASSUME NEW c \in Calls, Attaching(c)' PROVE AttachStays(c, N)
  <2>1. c \notin I /\ Onward(c)
    BY <1>2
  <2>2. ASSUME NEW k \in Conns, Answered(k, c)' PROVE Answered(k, c)
    BY <2>1, <2>2 DEF Sends, Tells, Answered
  <2> QED BY <2>1, <2>2 DEF AttachStays
<1> QED BY <1>1, <1>2 DEF Calm, AttachStays

LEMMA QuietCalm ==
    ASSUME Sends({}, {}), Running' \subseteq Running, pending' \subseteq pending,
           \A c \in Calls : Attaching(c)' => Onward(c),
           PluginsStay, OpensStay
    PROVE  Calm({})
<1>1. PICK N : N = {}
  OBVIOUS
<1>2. Calm(N)
  BY <1>1, StepCalm
<1> QED BY <1>1, <1>2

LEMMA SamePlugins == ASSUME UNCHANGED plugin PROVE PluginsStay /\ Running' \subseteq Running
<1>1. ASSUME NEW p \in Pages PROVE PluginStays(p) /\ ~Joins(p)
  BY DEF PluginStays, Joins, Free, Attached
<1> QED BY <1>1, SameRunning DEF PluginsStay

LEMMA ClosedOpens == ASSUME StageInv, NEW ks, stage' = Closed(ks) \/ UNCHANGED stage PROVE OpensStay
  BY DEF OpensStay, Closed

LEMMA SameOnward == ASSUME NEW c, calls'[c] = calls[c], Attaching(c)' PROVE Onward(c)
  BY DEF Onward, SameAttach, Attaching

LEMMA EndedOnward ==
    ASSUME NEW cs, EndCalls(cs), NEW c \in Calls, Attaching(c)' PROVE Onward(c)
<1>1. calls'[c] = Ended \/ calls'[c] = calls[c]
  BY DEF EndCalls
<1>2. calls'[c] # Ended
  BY EndedFields DEF Attaching
<1> QED BY <1>1, <1>2, SameOnward

LEMMA ClosesOnward ==
    ASSUME NEW ks, NEW ended, HandleCloses(ks, ended)
    PROVE  pending' \subseteq pending /\ \A c \in Calls : Attaching(c)' => Onward(c)
<1>1. PICK cs : EndCalls(cs)
  BY DEF HandleCloses
<1> QED BY <1>1, EndedOnward DEF HandleCloses

LEMMA RestartedCalm ==
    ASSUME PerfettoInv, Restarted, Sends({}, {}) PROVE Calm({})
<1>1. ASSUME NEW c \in Calls, Attaching(c)' PROVE FALSE
  <2>1. calls'[c] = NoCall \/ calls'[c] = Ended
    BY DEF Restarted
  <2> QED BY <1>1, <2>1, EndedFields DEF Attaching
<1>2. OpensStay
  BY DEF OpensStay, Restarted
<1>3. PluginsStay /\ Running' \subseteq Running
  BY SamePlugins DEF Restarted
<1>4. pending' \subseteq pending
  BY DEF Restarted
<1> QED BY <1>1, <1>2, <1>3, <1>4, QuietCalm

LEMMA DaemonCalm ==
    ASSUME PerfettoInv,
           \/ Ping \/ Restart \/ \E q \in pending : Timeout(q)
           \/ \E s \in Sessions : CreateSession(s)
    PROVE  Calm({})
<1>1. TypeInv /\ StageInv
  BY DEF PerfettoInv, TypeInv
<1>2. Sends({}, {})
  BY <1>1, PingTypes, RestartTypes, TimeoutTypes, CreateSessionTypes
<1>3. CASE Restarted
  BY <1>2, <1>3, RestartedCalm
<1>4. CASE Ping /\ ~Restarted
  <2>1. PICK ks : stage' = Closed(ks) /\ HandleCloses(ks, {}) /\ UNCHANGED plugin
    BY <1>4 DEF Ping
  <2>2. OpensStay
    BY <1>1, <2>1, ClosedOpens
  <2> QED BY <1>2, <2>1, <2>2, ClosesOnward, SamePlugins, QuietCalm
<1>5. CASE \E q \in pending : Timeout(q)
  <2>1. PICK q \in pending : Timeout(q)
    BY <1>5
  <2>2. /\ EndCalls({q.id} \cap Calls) /\ pending' \subseteq pending
        /\ UNCHANGED plugin /\ UNCHANGED stage
    BY <2>1 DEF Timeout
  <2>3. \A c \in Calls : Attaching(c)' => Onward(c)
    BY <2>2, EndedOnward
  <2>4. OpensStay
    BY <1>1, <2>2, ClosedOpens
  <2> QED BY <1>2, <2>2, <2>3, <2>4, SamePlugins, QuietCalm
<1>6. CASE \E s \in Sessions : CreateSession(s)
  <2>1. UNCHANGED <<stage, pending, calls, plugin>>
    BY <1>6 DEF CreateSession, memVars
  <2>2. \A c \in Calls : Attaching(c)' => Onward(c)
    BY <2>1, SameOnward
  <2>3. OpensStay
    BY <1>1, <2>1, ClosedOpens
  <2> QED BY <1>2, <2>1, <2>2, <2>3, SamePlugins, QuietCalm
<1> QED BY <1>3, <1>4, <1>5, <1>6 DEF Restart

(* The steps of the broker but hello_ack. *)
LEMMA RegisterCalm ==
    ASSUME PerfettoInv, NEW k \in Conns, NEW p, Sends({}, {}), UNCHANGED plugin, stage[k] = "response",
           \A l \in Conns : l # k => stage'[l] = stage[l] \/ stage'[l] = "closed",
           pending' \subseteq pending, NEW cs, EndCalls(cs)
    PROVE  Calm({})
<1>1. OpensStay
  BY DEF OpensStay
<1> QED BY <1>1, EndedOnward, SamePlugins, QuietCalm

LEMMA BrokerCalm ==
    ASSUME PerfettoInv, NEW k \in Conns,
           \/ AuthChallenge(k) \/ RefuseMessage(k) \/ AuthResponse(k) \/ PeerClosed(k) \/ Event(k)
           \/ AuthResponseAfterClose(k) \/ AuthFails(k) \/ Lose(k)
    PROVE  Calm({})
<1>1. TypeInv /\ StageInv
  BY DEF PerfettoInv, TypeInv
<1>2. Sends({}, {})
  BY <1>1, AuthChallengeTypes, RefuseMessageTypes, AuthResponseTypes, PeerClosedTypes,
     EventTypes, AfterCloseTypes, AuthFailsTypes, LoseTypes
<1>3. PluginsStay /\ Running' \subseteq Running
  BY SamePlugins DEF AuthChallenge, RefuseMessage, AuthResponse, PeerClosed, Event,
                     AuthResponseAfterClose, AuthFails, Lose
<1>4. CASE UNCHANGED <<calls, pending>> /\ OpensStay
  BY <1>2, <1>3, <1>4, SameOnward, QuietCalm
<1>5. CASE (\E ks, ended : HandleCloses(ks, ended)) /\ \E ks : stage' = Closed(ks)
  BY <1>1, <1>2, <1>3, <1>5, ClosesOnward, ClosedOpens, QuietCalm
<1>6. CASE AuthChallenge(k)
  <2>1. OpensStay /\ UNCHANGED <<calls, pending>>
    BY <1>1, <1>6 DEF AuthChallenge, At, OpensStay, StageInv
  <2> QED BY <2>1, <1>4
<1>7. CASE Refuse(k)
  <2>1. OpensStay /\ UNCHANGED <<calls, pending>>
    BY <1>1, <1>7, ClosedOpens DEF Refuse
  <2> QED BY <2>1, <1>4
<1>8. CASE AuthResponse(k) /\ \E p : Register(k, p)
  <2>1. PICK p : Register(k, p)
    BY <1>8
  <2>2. stage[k] = "response"
    BY <1>8 DEF AuthResponse, At
  <2>3. \A l \in Conns : l # k => stage'[l] = stage[l] \/ stage'[l] = "closed"
    BY <2>1 DEF Register, Closed
  <2>4. pending' \subseteq pending /\ \E cs : EndCalls(cs)
    BY <2>1 DEF Register
  <2>5. UNCHANGED plugin
    BY <1>8 DEF AuthResponse
  <2> QED BY <1>2, <2>2, <2>3, <2>4, <2>5, RegisterCalm
<1>9. CASE AuthResponseAfterClose(k)
  <2>1. PICK p : p = Head(toBroker[k]).page
    OBVIOUS
  <2>2. stage[k] = "response" /\ UNCHANGED plugin
    BY <1>9 DEF AuthResponseAfterClose, At
  <2>3. \A l \in Conns : l # k => stage'[l] = stage[l] \/ stage'[l] = "closed"
    BY <1>9 DEF AuthResponseAfterClose, Closed
  <2>4. pending' \subseteq pending /\ \E cs : EndCalls(cs)
    BY <1>9 DEF AuthResponseAfterClose
  <2> QED BY <1>2, <2>2, <2>3, <2>4, RegisterCalm
<1>10. CASE PeerClosed(k) \/ AuthFails(k)
  BY <1>5, <1>10 DEF PeerClosed, AuthFails, Hangup
<1>11. CASE Event(k)
  <2>1. CASE UNCHANGED <<stage, pending, calls>>
    BY <1>1, <1>4, <2>1, ClosedOpens
  <2> QED BY <1>5, <1>11, <2>1 DEF Event, Hangup
<1>12. CASE Lose(k)
  <2>1. UNCHANGED <<stage, pending, calls>>
    BY <1>12 DEF Lose, memVars
  <2> QED BY <1>1, <1>4, <2>1, ClosedOpens
<1> QED BY <1>6, <1>7, <1>8, <1>9, <1>10, <1>11, <1>12 DEF RefuseMessage, AuthResponse

LEMMA ResponseCalm ==
    ASSUME PerfettoInv, Matching, NEW k \in Conns, Response(k) PROVE Calm({})
<1>1. TypeInv /\ FramesInv /\ StageInv /\ CallsInv /\ ClientsInv
  BY DEF PerfettoInv, TypeInv
<1>2. PICK id, mine, call :
        /\ id = Head(toBroker[k]).id /\ mine = {q \in pending : q.id = id /\ q.conn = k}
        /\ call = {q.id : q \in mine} \cap Calls
  OBVIOUS
<1>3. Sends({}, {}) /\ UNCHANGED <<stage, plugin>> /\ pending' \subseteq pending
  BY <1>1, ResponseTypes DEF Response
<1>4. OpensStay
  BY <1>1, <1>3, ClosedOpens
<1>5. ASSUME /\ \A c \in call : calls[c].kind # "query" /\ Holds(c)
             /\ calls' = [c \in Calls |-> IF c \in call THEN [calls[c] EXCEPT !.step = "writing"] ELSE calls[c]],
             NEW c \in Calls, Attaching(c)'
      PROVE  Onward(c)
  <2>1. CASE c \notin call
    BY <1>5, <2>1, SameOnward
  <2>2. CASE c \in call
    <3>1. PICK q \in pending : q.id = c /\ q.conn = k
      BY <1>2, <2>2
    <3>2. calls'[c] = [calls[c] EXCEPT !.step = "writing"] /\ calls[c] \in CallRecords /\ Holds(c)
      BY <1>1, <1>5, <2>2 DEF TypeInv, CallTypes
    <3>3. /\ calls'[c].kind = calls[c].kind /\ calls'[c].page = calls[c].page
          /\ calls'[c].slot = calls[c].slot /\ calls'[c].conn = calls[c].conn
      BY <3>2 DEF CallRecords
    <3>4. calls[c].step = "asked"
      BY <1>1, <3>1 DEF CallsInv
    <3>5. SameAttach(c)
      BY <1>5, <3>3, <3>4 DEF SameAttach, Attaching
    <3>6. q.page = calls[c].page
      BY <3>1, <3>5 DEF Matching, SameAttach
    <3>7. calls[c].conn = k
      BY <1>1, <3>1, <3>2, <3>6 DEF ClientsInv, Holds
    <3>8. Answered(k, c)
      <4>1. At(k, {"open"}, "response")
        BY DEF Response
      <4>2. Head(toBroker[k]).type = "response" /\ 1 \in DOMAIN toBroker[k] /\ Head(toBroker[k]) = toBroker[k][1]
        BY <1>1, <4>1, AtHead
      <4>3. Head(toBroker[k]).id = c
        BY <1>2, <2>2
      <4> QED BY <4>2, <4>3 DEF Answered
    <3> QED BY <3>5, <3>7, <3>8 DEF Onward
  <2> QED BY <2>1, <2>2
<1>6. ASSUME EndCalls(call), NEW c \in Calls, Attaching(c)' PROVE Onward(c)
  BY <1>6, EndedOnward
<1>7. \A c \in Calls : Attaching(c)' => Onward(c)
  BY <1>2, <1>5, <1>6 DEF Response
<1> QED BY <1>3, <1>4, <1>7, SamePlugins, QuietCalm

(* The steps of the calls but the one that asks for an attach. *)
LEMMA AskCalm ==
    ASSUME PerfettoInv, NEW c \in Calls, NEW method \in {"select", "query"}, Ask(c, method),
           calls[c].kind # "attach", UNCHANGED <<stage, plugin>>,
           Sends({Request(c, method, calls[c].slot)}, {})
    PROVE  \E N : Calm(N)
<1>1. TypeInv /\ StageInv
  BY DEF PerfettoInv, TypeInv
<1>2. PICK N, I : N = {Request(c, method, calls[c].slot)} /\ I = {c}
  OBVIOUS
<1>3. Sends(N, I)
  <2>1. PICK E : E = {}
    OBVIOUS
  <2>2. Sends(N, E)
    BY <1>2, <2>1
  <2>3. Tells(toBroker', I)
    BY <2>1, <2>2, MoreTells DEF Sends
  <2> QED BY <2>2, <2>3 DEF Sends
<1>4. \A f \in N : ~Ack(f) /\ ~Attach(f) /\ f.id \in I
  BY <1>2 DEF Request, Ack, Attach
<1>5. \A q \in pending' : q \in pending \/ q.id \in I
  BY <1>2 DEF Ask, Asked
<1>6. ASSUME NEW d \in Calls, Attaching(d)' PROVE d \notin I /\ Onward(d)
  <2>1. calls' = [calls EXCEPT ![c].step = "asked"]
    BY DEF Ask
  <2>2. d # c
    BY <1>1, <1>6, <2>1 DEF Attaching, TypeInv, CallTypes, CallRecords
  <2>3. calls'[d] = calls[d]
    BY <1>1, <2>1, <2>2 DEF TypeInv, CallTypes
  <2> QED BY <1>2, <1>6, <2>2, <2>3, SameOnward
<1>7. OpensStay /\ PluginsStay /\ Running' \subseteq Running \cup I
  BY <1>1, ClosedOpens, SamePlugins
<1> QED BY <1>3, <1>4, <1>5, <1>6, <1>7, StepCalm

(* A call whose record is replaced by one that attaches nothing. *)
LEMMA ReplacedCalm ==
    ASSUME PerfettoInv, NEW c \in Calls, NEW r, calls' = [calls EXCEPT ![c] = r],
           r.kind # "attach" \/ r.step \notin {"asked", "writing"},
           UNCHANGED <<stage, pending, plugin>>, Sends({}, {})
    PROVE  Calm({})
<1>1. ASSUME NEW d \in Calls, Attaching(d)' PROVE Onward(d)
  <2>1. calls'[c] = r /\ \A x \in Calls : x # c => calls'[x] = calls[x]
    BY DEF PerfettoInv, TypeInv, CallTypes
  <2>2. d # c
    BY <1>1, <2>1 DEF Attaching
  <2> QED BY <1>1, <2>1, <2>2, SameOnward
<1>2. OpensStay
  BY ClosedOpens DEF PerfettoInv, TypeInv
<1> QED BY <1>1, <1>2, SamePlugins, QuietCalm

LEMMA EndsCalm ==
    ASSUME PerfettoInv, NEW cs, EndCalls(cs), UNCHANGED <<stage, pending, plugin>>, Sends({}, {})
    PROVE  Calm({})
<1>1. OpensStay
  BY ClosedOpens DEF PerfettoInv, TypeInv
<1> QED BY <1>1, EndedOnward, SamePlugins, QuietCalm

LEMMA CallCalm ==
    ASSUME PerfettoInv, NEW c \in Calls,
           \/ Approved(c) \/ Denied(c) \/ StoreStep(c) \/ StoreFails(c)
           \/ Enter(c) /\ ~(calls[c].kind = "attach" /\ Ask(c, "attach"))
           \/ \E p \in Pages : StartCall(c, p)
    PROVE  \E N : Calm(N)
<1>1. TypeInv /\ StageInv /\ CallsInv
  BY DEF PerfettoInv, TypeInv
<1>2. CASE Approved(c)
  <2>1. UNCHANGED <<stage, plugin>>
    BY <1>2 DEF Approved
  <2>2. CASE Ask(c, "query") /\ calls[c].kind = "query" /\ Sends({Request(c, "query", calls[c].slot)}, {})
    BY <2>1, <2>2, AskCalm
  <2>3. CASE Sends({}, {}) /\ UNCHANGED pending /\ EndCalls({c})
    BY <2>1, <2>3, EndsCalm
  <2>4. CASE /\ Sends({}, {}) /\ UNCHANGED pending
             /\ calls' = [calls EXCEPT ![c].step = "queued"]
    <3>1. PICK r : r = [calls[c] EXCEPT !.step = "queued"]
      OBVIOUS
    <3>2. calls[c] \in CallRecords
      BY <1>1 DEF TypeInv, CallTypes
    <3>3. r.step = "queued"
      BY <3>1, <3>2 DEF CallRecords
    <3>4. calls' = [calls EXCEPT ![c] = r]
      BY <1>1, <2>4, <3>1 DEF TypeInv, CallTypes
    <3> QED BY <2>1, <2>4, <3>3, <3>4, ReplacedCalm
  <2> QED BY <1>1, <1>2, <2>2, <2>3, <2>4, ApprovedTypes
<1>3. CASE Enter(c) /\ ~(calls[c].kind = "attach" /\ Ask(c, "attach"))
  <2>1. UNCHANGED <<stage, plugin>>
    BY <1>3 DEF Enter
  <2>2. CASE Ask(c, calls[c].kind) /\ calls[c].kind \in {"attach", "select"}
             /\ Sends({Request(c, calls[c].kind, calls[c].slot)}, {})
    <3>1. calls[c].kind = "select"
      BY <1>3, <2>2
    <3> QED BY <2>1, <2>2, <3>1, AskCalm
  <2>3. CASE Sends({}, {}) /\ UNCHANGED pending /\ EndCalls({c})
    BY <2>1, <2>3, EndsCalm
  <2>4. CASE /\ Sends({}, {}) /\ UNCHANGED pending /\ calls[c].kind \notin {"attach", "select"}
             /\ calls' = [calls EXCEPT ![c].step = "writing"]
    <3>1. PICK r : r = [calls[c] EXCEPT !.step = "writing"]
      OBVIOUS
    <3>2. calls[c] \in CallRecords
      BY <1>1 DEF TypeInv, CallTypes
    <3>3. r.kind # "attach"
      BY <2>4, <3>1, <3>2 DEF CallRecords
    <3>4. calls' = [calls EXCEPT ![c] = r]
      BY <1>1, <2>4, <3>1 DEF TypeInv, CallTypes
    <3> QED BY <2>1, <2>4, <3>3, <3>4, ReplacedCalm
  <2> QED BY <1>1, <1>3, <2>2, <2>3, <2>4, EnterTypes
<1>4. CASE Denied(c) \/ StoreAlignment(c)
  <2>1. EndCalls({c}) /\ UNCHANGED <<stage, clients, pending, unsynced, storeVars, netVars, plugin, faults>>
    BY <1>4 DEF Denied, StoreAlignment
  <2> QED BY <1>1, <2>1, EndedTypes, EndsCalm
<1>5. CASE StoreAttach(c) \/ StoreDetach(c) \/ StoreRemove(c) \/ StoreFails(c)
  <2>1. Sends({}, {})
    BY <1>1, <1>5, StoreAttachTypes, StoreDetachTypes, StoreRemoveTypes, StoreFailsTypes
  <2>2. UNCHANGED plugin
    BY <1>5 DEF StoreAttach, StoreDetach, StoreRemove, StoreFails
  <2>3. CASE \E ks, code, cl : Hangup(ks, code, cl, {c})
    <3>1. PICK ks, code, cl : Hangup(ks, code, cl, {c})
      BY <2>3
    <3>2. stage' = Closed(ks) /\ HandleCloses(ks, {c})
      BY <3>1 DEF Hangup
    <3>3. OpensStay
      BY <1>1, <3>2, ClosedOpens
    <3> QED BY <2>1, <2>2, <3>2, <3>3, ClosesOnward, SamePlugins, QuietCalm
  <2>4. CASE EndCalls({c}) /\ UNCHANGED <<stage, pending>>
    BY <2>1, <2>2, <2>4, EndsCalm
  <2>5. CASE StoreAttach(c)
    <3>1. CASE Holds(c)
      BY <2>3, <2>5, <3>1 DEF StoreAttach
    <3>2. CASE ~Holds(c)
      BY <2>4, <2>5, <3>2 DEF StoreAttach
    <3> QED BY <3>1, <3>2
  <2>6. CASE StoreDetach(c)
    BY <2>3, <2>6 DEF StoreDetach
  <2>7. CASE StoreRemove(c)
    BY <2>3, <2>7 DEF StoreRemove
  <2>8. CASE StoreFails(c)
    BY <2>3, <2>8 DEF StoreFails
  <2> QED BY <1>5, <2>5, <2>6, <2>7, <2>8
<1>6. CASE \E p \in Pages : StartCall(c, p)
  <2>1. PICK p \in Pages : StartCall(c, p)
    BY <1>6
  <2>2. PICK r : r.step = "approving" /\ calls' = [calls EXCEPT ![c] = r]
    BY <1>1, <2>1, StartCallRecord
  <2>3. UNCHANGED <<stage, pending, plugin>>
    BY <1>1, <2>1, StartCallRecord
  <2>4. Sends({}, {})
    BY <1>1, <2>1, StartCallTypes
  <2> QED BY <2>2, <2>3, <2>4, ReplacedCalm
<1> QED BY <1>2, <1>3, <1>4, <1>5, <1>6 DEF StoreStep

(* The steps of the plugins but hello_ack and the request of an attach. *)
LEMMA PluginChange ==
    ASSUME PluginTypes, NEW p \in Pages, NEW b, SetPlugin(p, b),
           \/ b.socket = None /\ b.state # "connected"
           \/ /\ b.socket = plugin[p].socket /\ b.attachment = plugin[p].attachment
              /\ b.state = "connected" <=> plugin[p].state = "connected"
           \/ b.socket \in Free /\ b.state # "connected"
    PROVE  PluginsStay
<1>1. plugin'[p] = b /\ \A q \in Pages : q # p => plugin'[q] = plugin[q]
  BY DEF PluginTypes, SetPlugin
<1>2. \A q \in Pages : plugin[q].socket \notin Free
  BY DEF Free, Attached
<1>3. PluginStays(p) \/ Joins(p)
  BY <1>1 DEF PluginStays, Joins
<1>4. \A q \in Pages : q # p => PluginStays(q) /\ ~Joins(q)
  BY <1>1, <1>2 DEF PluginStays, Joins
<1> QED BY <1>3, <1>4 DEF PluginsStay

LEMMA PluginCalm ==
    ASSUME PerfettoInv, UNCHANGED <<pending, calls>>, OpensStay,
           Sends({}, {}), Running' \subseteq Running, PluginsStay
    PROVE  Calm({})
  BY SameOnward, QuietCalm

LEMMA LeaveStays ==
    ASSUME TypeInv, NEW p \in Pages, NEW b \in PluginRecords, b.state # "connected", NEW last, Leave(p, b, last)
    PROVE  PluginsStay
<1>1. PICK r : r = [b EXCEPT !.socket = None, !.attachment = None]
  OBVIOUS
<1>2. SetPlugin(p, r) /\ r.socket = None /\ r.state # "connected"
  BY <1>1 DEF Leave, PluginRecords
<1> QED BY <1>2, PluginChange DEF TypeInv

LEMMA PageCalm ==
    ASSUME PerfettoInv, NEW p \in Pages,
           \/ Connect(p) \/ HandleAuthChallengeAck(p) \/ FailAuthentication(p) \/ HandlePing(p)
           \/ HandleClose(p) \/ HandshakeTimeout(p) \/ Dispose(p)
           \/ HandleHelloAck(p) /\ plugin'[p].state # "connected"
    PROVE  Calm({})
<1>1. TypeInv /\ StageInv /\ PluginTypes /\ plugin[p] \in PluginRecords
  BY DEF PerfettoInv, TypeInv, PluginTypes
<1>2. Sends({}, {}) /\ Running' \subseteq Running
  BY <1>1, ConnectTypes, HandleAuthChallengeAckTypes, HandleHelloAckTypes, FailAuthenticationTypes,
     HandlePingTypes, HandleCloseTypes, HandshakeTimeoutTypes, DisposeTypes
<1>3. UNCHANGED <<pending, calls>>
  BY DEF Connect, HandleAuthChallengeAck, HandleHelloAck, FailAuthentication, HandlePing,
         HandleClose, HandshakeTimeout, Dispose, memVars
<1>4. OpensStay
  <2>1. CASE Connect(p)
    BY <1>1, <2>1 DEF Connect, OpensStay, StageInv
  <2>2. CASE ~Connect(p)
    <3>1. UNCHANGED stage
      BY <2>2 DEF HandleAuthChallengeAck, HandleHelloAck, FailAuthentication, HandlePing,
                  HandleClose, HandshakeTimeout, Dispose, memVars
    <3> QED BY <1>1, <3>1, ClosedOpens
  <2> QED BY <2>1, <2>2
<1>5. PluginsStay
  <2>1. CASE Connect(p)
    <3>1. PICK k \in Free : SetPlugin(p, [plugin[p] EXCEPT !.state = "challenging", !.socket = k])
      BY <2>1 DEF Connect
    <3>2. PICK b : b = [plugin[p] EXCEPT !.state = "challenging", !.socket = k]
      OBVIOUS
    <3>3. b.socket = k /\ b.state = "challenging"
      BY <1>1, <3>2 DEF PluginRecords
    <3> QED BY <1>1, <3>1, <3>2, <3>3, PluginChange
  <2>2. CASE HandleAuthChallengeAck(p)
    <3>1. PICK b : b = [plugin[p] EXCEPT !.state = "await_ack"]
      OBVIOUS
    <3>2. /\ b.socket = plugin[p].socket /\ b.attachment = plugin[p].attachment
          /\ b.state = "await_ack" /\ SetPlugin(p, b)
      BY <1>1, <2>2, <3>1 DEF PluginRecords, HandleAuthChallengeAck
    <3>3. plugin[p].state \in {"challenging"}
      BY <2>2 DEF HandleAuthChallengeAck, Waiting
    <3> QED BY <1>1, <3>2, <3>3, PluginChange
  <2>3. CASE HandlePing(p)
    BY <2>3, SamePlugins DEF HandlePing
  <2>4. CASE HandleClose(p)
    <3>1. PICK b : b = [plugin[p] EXCEPT !.socket = None, !.attachment = None,
                     !.state = IF @ # "connected" /\ Head(toPage[plugin[p].socket]).code = 1008
                               THEN "failed" ELSE "idle"]
      OBVIOUS
    <3>2. b.socket = None /\ b.state # "connected" /\ SetPlugin(p, b)
      BY <1>1, <2>4, <3>1 DEF PluginRecords, HandleClose
    <3> QED BY <1>1, <3>2, PluginChange
  <2>5. CASE FailAuthentication(p) \/ HandshakeTimeout(p)
    <3>1. PICK b : b = [plugin[p] EXCEPT !.state = "failed"]
      OBVIOUS
    <3>2. b \in PluginRecords /\ b.state = "failed"
      BY <1>1, <3>1 DEF PluginRecords
    <3>3. Leave(p, b, <<>>)
      BY <2>5, <3>1 DEF FailAuthentication, HandshakeTimeout
    <3> QED BY <1>1, <3>2, <3>3, LeaveStays
  <2>6. CASE HandleHelloAck(p) /\ plugin'[p].state # "connected"
    <3>1. PICK b, r : b = [plugin[p] EXCEPT !.state = "failed"] /\ r = [plugin[p] EXCEPT !.state = "connected"]
      OBVIOUS
    <3>2. b \in PluginRecords /\ b.state = "failed" /\ r.state = "connected"
      BY <1>1, <3>1 DEF PluginRecords
    <3>3. ~SetPlugin(p, r)
      BY <1>1, <2>6, <3>2 DEF SetPlugin, PluginTypes
    <3>4. Leave(p, b, <<>>)
      BY <2>6, <3>1, <3>3 DEF HandleHelloAck
    <3> QED BY <1>1, <3>2, <3>4, LeaveStays
  <2>7. CASE Dispose(p)
    <3>1. PICK state \in {"gone", "idle"} :
            Leave(p, [plugin[p] EXCEPT !.state = state, !.running = {}],
              IF plugin[p].state = "connected" THEN <<EventFrame("trace.closing")>> ELSE <<>>)
      BY <2>7 DEF Dispose
    <3>2. PICK b : b = [plugin[p] EXCEPT !.state = state, !.running = {}]
      OBVIOUS
    <3>3. b \in PluginRecords /\ b.state # "connected"
      BY <1>1, <3>2 DEF PluginRecords
    <3> QED BY <1>1, <3>1, <3>2, <3>3, LeaveStays
  <2> QED BY <2>1, <2>2, <2>3, <2>4, <2>5, <2>6, <2>7
<1> QED BY <1>2, <1>3, <1>4, <1>5, PluginCalm

(* A query that the plugin starts or ends, a selection: never an attach. *)
LEMMA AnswerCalm ==
    ASSUME PerfettoInv, Matching, NEW p \in Pages,
           \/ HandleRequest(p) /\ Head(toPage[plugin[p].socket]).method # "attach"
           \/ \E id \in Calls : AnswerQuery(p, id)
    PROVE  Calm({})
<1>1. TypeInv /\ StageInv /\ PluginTypes /\ plugin[p] \in PluginRecords
  BY DEF PerfettoInv, TypeInv, PluginTypes
<1>2. UNCHANGED <<stage, pending, calls>>
  BY DEF HandleRequest, AnswerQuery, memVars
<1>3. OpensStay
  BY <1>1, <1>2, ClosedOpens
<1>4. PluginsStay
  <2>1. ASSUME NEW S \in SUBSET Calls, SetPlugin(p, [plugin[p] EXCEPT !.running = S]) PROVE PluginsStay
    <3>1. PICK b : b = [plugin[p] EXCEPT !.running = S]
      OBVIOUS
    <3>2. b.socket = plugin[p].socket /\ b.attachment = plugin[p].attachment /\ b.state = plugin[p].state
      BY <1>1, <3>1 DEF PluginRecords
    <3> QED BY <1>1, <2>1, <3>1, <3>2, PluginChange
  <2>2. CASE HandleRequest(p) /\ Head(toPage[plugin[p].socket]).method # "attach"
    <3>1. PICK m : m = Head(toPage[plugin[p].socket]) /\ (m.method = "query" => m.id \in Calls)
      BY <1>1, <2>2, RequestAtHead DEF HandleRequest, Sound
    <3>2. CASE m.method = "query" /\ SetPlugin(p, [plugin[p] EXCEPT !.running = @ \cup {m.id}])
      <4>1. PICK S : S = plugin[p].running \cup {m.id}
        OBVIOUS
      <4>2. S \in SUBSET Calls
        BY <1>1, <3>1, <3>2, <4>1 DEF PluginRecords
      <4>3. SetPlugin(p, [plugin[p] EXCEPT !.running = S])
        BY <1>1, <3>2, <4>1 DEF SetPlugin, PluginRecords
      <4> QED BY <2>1, <4>2, <4>3
    <3>3. CASE UNCHANGED plugin
      BY <3>3, SamePlugins
    <3>4. m.method # "attach"
      BY <2>2, <3>1
    <3> QED BY <2>2, <3>1, <3>2, <3>3, <3>4 DEF HandleRequest
  <2>3. CASE \E id \in Calls : AnswerQuery(p, id)
    <3>1. PICK id \in Calls : SetPlugin(p, [plugin[p] EXCEPT !.running = @ \ {id}])
      BY <2>3 DEF AnswerQuery
    <3>2. PICK S : S = plugin[p].running \ {id}
      OBVIOUS
    <3>3. S \in SUBSET Calls
      BY <1>1, <3>2 DEF PluginRecords
    <3>4. SetPlugin(p, [plugin[p] EXCEPT !.running = S])
      BY <1>1, <3>1, <3>2 DEF SetPlugin, PluginRecords
    <3> QED BY <2>1, <3>3, <3>4
  <2> QED BY <2>2, <2>3
<1>5. PICK N, i : N = {} /\ Sends(N, {i}) /\ Running' \subseteq Running \cup {i}
                  /\ \A c \in Calls : Attaching(c) => c # i
  <2>1. CASE \E id \in Calls : AnswerQuery(p, id)
    BY <1>1, <2>1, AnswerQueryTypes DEF Matching
  <2>2. CASE HandleRequest(p) /\ Head(toPage[plugin[p].socket]).method # "attach"
    <3>1. PICK k, m : k = plugin[p].socket /\ m = Head(toPage[plugin[p].socket])
      OBVIOUS
    <3>2. Waiting(p, {"connected"}, {"request"})
      BY <2>2 DEF HandleRequest
    <3>3. /\ k \in Conns /\ 1 \in DOMAIN toPage[k] /\ toPage[k][1] = m
          /\ m.type = "request" /\ m.method # "attach"
      BY <1>1, <2>2, <3>1, <3>2, RequestAtHead, WaitingFacts
    <3>4. \A c \in Calls : Attaching(c) => c # m.id
      BY <3>3 DEF Matching, Agrees
    <3> QED BY <1>1, <2>2, <3>1, <3>4, HandleRequestTypes
  <2> QED BY <2>1, <2>2
<1>6. \A c \in Calls : Attaching(c)' => c \notin {i} /\ Onward(c)
  BY <1>2, <1>5, SameOnward DEF Attaching
<1>7. PICK I : I = {i}
  OBVIOUS
<1>8. Calm(N)
  BY <1>2, <1>3, <1>4, <1>5, <1>6, <1>7, StepCalm
<1> QED BY <1>5, <1>8

(* Frames at the end of a queue. *)
LEMMA AddedFrames ==
    ASSUME FramesInv, NEW k \in Conns, NEW s \in Seq(PageFrames)
    PROVE  LET q == toPage[k]
               r == toPage[k] \o s
           IN  /\ r \in Seq(PageFrames) /\ q \in Seq(PageFrames)
               /\ DOMAIN q = 1..Len(q) /\ DOMAIN s = 1..Len(s) /\ DOMAIN r = 1..(Len(q) + Len(s))
               /\ Len(q) \in Nat /\ Len(s) \in Nat
               /\ \A n \in DOMAIN q : n \in DOMAIN r /\ r[n] = q[n]
               /\ \A n \in DOMAIN r : n \in DOMAIN q \/ (n > Len(q) /\ n - Len(q) \in DOMAIN s /\ r[n] = s[n - Len(q)])
<1>1. toPage[k] \in Seq(PageFrames)
  BY DEF FramesInv
<1>2. /\ toPage[k] \o s \in Seq(PageFrames) /\ Len(toPage[k] \o s) = Len(toPage[k]) + Len(s)
      /\ \A i \in 1..(Len(toPage[k]) + Len(s)) : (toPage[k] \o s)[i] =
            IF i <= Len(toPage[k]) THEN toPage[k][i] ELSE s[i - Len(toPage[k])]
  BY <1>1, ConcatProperties
<1>3. /\ DOMAIN toPage[k] = 1..Len(toPage[k]) /\ DOMAIN s = 1..Len(s)
      /\ DOMAIN (toPage[k] \o s) = 1..(Len(toPage[k]) + Len(s))
      /\ Len(toPage[k]) \in Nat /\ Len(s) \in Nat
  BY <1>1, <1>2
<1>4. \A n \in DOMAIN toPage[k] : n \in DOMAIN (toPage[k] \o s) /\ (toPage[k] \o s)[n] = toPage[k][n]
  BY <1>2, <1>3
<1>5. \A n \in DOMAIN (toPage[k] \o s) : n \in DOMAIN toPage[k]
        \/ (n > Len(toPage[k]) /\ n - Len(toPage[k]) \in DOMAIN s /\ (toPage[k] \o s)[n] = s[n - Len(toPage[k])])
  BY <1>2, <1>3
<1> QED BY <1>1, <1>2, <1>3, <1>4, <1>5

(* The frames behind the first. *)
LEMMA TailFrames ==
    ASSUME FramesInv, NEW k \in Conns, toPage[k] # <<>>, NEW r, r = Tail(toPage[k])
    PROVE  \A n \in DOMAIN r : n \in Nat /\ n >= 1 /\ n + 1 \in DOMAIN toPage[k] /\ toPage[k][n + 1] = r[n]
<1>1. toPage[k] \in Seq(PageFrames)
  BY DEF FramesInv
<1>2. /\ r \in Seq(PageFrames) /\ Len(r) = Len(toPage[k]) - 1
      /\ \A i \in 1..Len(r) : r[i] = toPage[k][i + 1]
  BY <1>1, HeadTailProperties
<1>3. DOMAIN r = 1..Len(r) /\ DOMAIN toPage[k] = 1..Len(toPage[k]) /\ Len(toPage[k]) \in Nat
  BY <1>1, <1>2
<1> QED BY <1>2, <1>3

(* What AttachInv says of a call, and a step that does not touch it. *)
AttachSafe(c) ==
    /\ InOrder(c)
    /\ calls[c].step = "writing" \/ Answered(calls[c].conn, c) => Taken(c)

LEMMA UntouchedSafe ==
    ASSUME NEW c \in Calls, AttachSafe(c), UNCHANGED calls,
           toPage'[calls[c].conn] = toPage[calls[c].conn],
           plugin'[calls[c].page] = plugin[calls[c].page],
           Answered(calls[c].conn, c)' => Answered(calls[c].conn, c)
    PROVE  AttachSafe(c)'
<1>1. PICK k, p : k = calls[c].conn /\ p = calls[c].page
  OBVIOUS
<1>2. \A n \in Nat : Asks(k, n, c)' <=> Asks(k, n, c)
  BY <1>1 DEF Asks
<1>3. \A n \in Nat : Unheard(p, k, n) => Unheard(p, k, n)'
  BY <1>1 DEF Unheard
<1>4. \A n \in Nat : Last(k, n) => Last(k, n)'
  BY <1>1 DEF Last
<1>5. InOrder(c)'
  BY <1>1, <1>2, <1>3, <1>4 DEF InOrder, AttachSafe
<1>6. Taken(c) => Taken(c)'
  BY <1>1 DEF Taken
<1> QED BY <1>1, <1>5, <1>6 DEF AttachSafe

(* hello_ack, sent: the plugin is not connected, and what was on its way   *)
(* to it is before the ack.                                                *)
LEMMA HelloAckShape ==
    ASSUME PerfettoInv, NEW k \in Conns, HelloAck(k)
    PROVE  \E s \in Seq(PageFrames) :
            /\ \A n \in DOMAIN s : Ack(s[n]) \/ s[n].id = k
            /\ \A l \in Conns : Attached(l) =>
                    toPage'[l] = IF l = k THEN toPage[k] \o s ELSE toPage[l]
<1>1. TypeInv /\ FramesInv /\ ClientsInv
  BY DEF PerfettoInv, TypeInv
<1>2. PICK p, slot : p \in Pages /\ p = ClientOf(k) /\ slot = clients[p].restore
  BY <1>1, ClientOfFacts DEF HelloAck
<1>3. PICK a, f : a = [type |-> "hello_ack", accepted |-> TRUE] /\ f = Request(k, "attach", slot)
  OBVIOUS
<1>4. PICK ack : ack = <<a>>
  OBVIOUS
<1>5. a \in PageFrames /\ Ack(a)
  BY <1>3, PageFrameTypes DEF Ack
<1>6. ack \in Seq(PageFrames) /\ \A n \in DOMAIN ack : ack[n] = a
  BY <1>5, <1>4
<1>7. PICK o : o = On({}, ack)
  OBVIOUS
<1>8. o \in [Conns -> Seq(PageFrames)] /\ \A l \in Conns : o[l] = <<>>
  BY <1>7, EmptySeq DEF On
<1>9. slot # None => f \in PageFrames /\ f.id = k
  <2>1. slot \in Slots \cup {None}
    BY <1>1, <1>2 DEF TypeInv, ClientTypes, ClientRecords
  <2> QED BY <1>3, <2>1, PageFrameTypes, NoneFacts DEF Methods, PageFrames, Request
<1>10. PICK s \in Seq(PageFrames) :
        /\ \A n \in DOMAIN s : Ack(s[n]) \/ s[n].id = k
        /\ toPage' = Sent([o EXCEPT ![k] = s])
  <2>1. CASE slot # None /\ toPage' = Sent([On({}, ack) EXCEPT ![k] = ack \o <<f>>])
    <3>1. PICK s : s = ack \o <<f>>
      OBVIOUS
    <3>2. s \in Seq(PageFrames) /\ \A n \in DOMAIN s : s[n] \in {a, f}
      BY <1>9, <1>6, <2>1, <3>1
    <3> QED BY <1>5, <1>9, <1>7, <2>1, <3>1, <3>2
  <2>2. CASE toPage' = Sent([On({}, ack) EXCEPT ![k] = ack])
    BY <1>5, <1>6, <1>7, <2>2
  <2> QED BY <1>2, <1>3, <1>4, <2>1, <2>2 DEF HelloAck
<1>11. ASSUME NEW l \in Conns, Attached(l)
      PROVE  toPage'[l] = IF l = k THEN toPage[k] \o s ELSE toPage[l]
  <2>1. toPage'[l] = toPage[l] \o [o EXCEPT ![k] = s][l]
    BY <1>10, <1>11 DEF Sent
  <2>2. [o EXCEPT ![k] = s][l] = IF l = k THEN s ELSE <<>>
    BY <1>8
  <2>3. toPage[l] \o <<>> = toPage[l]
    BY <1>1 DEF FramesInv
  <2> QED BY <2>1, <2>2, <2>3
<1> QED BY <1>10, <1>11

LEMMA HelloAckConfirm ==
    ASSUME PerfettoInv, ConfirmInv, NEW k \in Conns, HelloAck(k)
    PROVE  ConfirmInv'
<1>1. TypeInv /\ StageInv /\ FramesInv /\ ClientsInv
  BY DEF PerfettoInv, TypeInv
<1>2. stage' = [stage EXCEPT ![k] = "open"] /\ stage[k] = "audit"
      /\ UNCHANGED <<calls, plugin, toBroker>>
  BY DEF HelloAck
<1>3. PICK N : Sends(N, {}) /\ \A f \in N : Ack(f) \/ (f \in Requests /\ f.id = k)
  BY <1>1, HelloAckTypes
<1>4. k \notin Calls
  BY NoneFacts
<1>5. PICK s \in Seq(PageFrames) :
            /\ \A n \in DOMAIN s : Ack(s[n]) \/ s[n].id = k
            /\ \A l \in Conns : Attached(l) =>
                    toPage'[l] = IF l = k THEN toPage[k] \o s ELSE toPage[l]
  BY HelloAckShape
<1>6. Apart'
  BY <1>2 DEF ConfirmInv, Apart
<1>7. Welcome'
  <2>1. ASSUME NEW p \in Pages, plugin'[p].state = "connected"
        PROVE  plugin'[p].socket \in Conns /\ stage'[plugin'[p].socket] \in {"open", "closed"}
    BY <1>1, <1>2, <2>1 DEF ConfirmInv, Welcome, StageInv
  <2>2. ASSUME NEW l \in Conns, NEW n \in DOMAIN toPage'[l], Ack(toPage'[l][n])
        PROVE  stage'[l] \in {"open", "closed"}
    <3>1. CASE l = k
      BY <1>1, <1>2, <3>1 DEF StageInv
    <3>2. CASE l # k
      <4>1. toPage'[l] = toPage[l] \/ toPage'[l] = <<>>
        BY <1>5, <3>2 DEF HelloAck, Sent
      <4>2. n \in DOMAIN toPage[l] /\ Ack(toPage[l][n])
        BY <2>2, <4>1
      <4>3. stage'[l] = stage[l]
        BY <1>1, <1>2, <3>2 DEF StageInv
      <4> QED BY <4>2, <4>3 DEF ConfirmInv, Welcome
    <3> QED BY <3>1, <3>2
  <2> QED BY <2>1, <2>2 DEF Welcome
<1>8. Matching'
  <2>1. ASSUME NEW l \in Conns, NEW n \in DOMAIN toPage'[l], NEW f, f = toPage'[l][n]
        PROVE  Agrees(f)'
    <3> SUFFICES ASSUME f.type = "request", f.id \in Calls, Attaching(f.id)'
                 PROVE  f.method = "attach" /\ f.slot = calls'[f.id].slot
      BY DEF Agrees
    <3>1. PICK d \in Nat :
              Mark(f) => f \in N \/ (n + d \in DOMAIN toPage[l] /\ toPage[l][n + d] = f)
      BY <1>3, <2>1 DEF Sends, Forwards
    <3>2. f \notin N /\ Attaching(f.id)
      BY <1>2, <1>3, <1>4 DEF Ack, Attaching
    <3>3. n + d \in DOMAIN toPage[l] /\ toPage[l][n + d] = f
      BY <3>1, <3>2 DEF Mark
    <3> QED BY <1>2, <3>2, <3>3 DEF ConfirmInv, Matching, Agrees
  <2>2. \A c \in Running' : ~Attaching(c)'
    BY <1>2 DEF ConfirmInv, Matching, Running, Attaching
  <2>3. \A q \in pending' : q.id \in Calls => q \in pending
    BY <1>4 DEF HelloAck, Asked
  <2>4. \A q \in pending' : q.id \in Calls /\ Attaching(q.id)' => q.page = calls'[q.id].page
    BY <1>2, <2>3 DEF ConfirmInv, Matching, Attaching
  <2> QED BY <2>1, <2>2, <2>4 DEF Matching
<1>9. ASSUME NEW c \in Calls, Attaching(c)', Hears(c)' PROVE AttachSafe(c)'
  <2>1. Attaching(c) /\ Hears(c) /\ AttachSafe(c)
    BY <1>2, <1>9 DEF ConfirmInv, AttachInv, AttachSafe, Attaching, Hears
  <2>2. PICK l, p : l = calls[c].conn /\ p = calls[c].page
    OBVIOUS
  <2>3. l \in Conns /\ p \in Pages /\ plugin[p].socket = l /\ Attached(l)
    BY <2>1, <2>2, AttachPage DEF Hears, Attached
  <2>4. Answered(l, c)' <=> Answered(l, c)
    BY <1>2 DEF Answered
  <2>5. CASE l # k
    BY <1>2, <1>5, <2>1, <2>2, <2>3, <2>4, <2>5, UntouchedSafe
  <2>6. CASE l = k
    <3>1. plugin[p].state # "connected" /\ \A n \in DOMAIN toPage[k] : ~Ack(toPage[k][n])
      BY <1>2, <2>3, <2>6 DEF ConfirmInv, Welcome
    <3>2. calls[c].step # "writing" /\ ~Answered(l, c)
      BY <2>1, <2>2, <3>1 DEF AttachSafe, Taken
    <3>3. PICK r : r = toPage'[k] /\ r = toPage[k] \o s
      BY <1>5, <2>3, <2>6
    <3>4. /\ DOMAIN toPage[k] = 1..Len(toPage[k]) /\ Len(toPage[k]) \in Nat
          /\ DOMAIN r = 1..(Len(toPage[k]) + Len(s)) /\ Len(s) \in Nat
          /\ \A n \in DOMAIN toPage[k] : r[n] = toPage[k][n]
          /\ \A n \in DOMAIN r : n \in DOMAIN toPage[k] \/ \E m \in DOMAIN s : r[n] = s[m]
      BY <1>1, <3>3, AddedFrames
    <3>5. ASSUME NEW n \in Nat, Asks(k, n, c)' PROVE Unheard(p, k, n)'
      <4>1. n \in DOMAIN r /\ Attach(r[n]) /\ r[n].id = c
        BY <3>3, <3>5 DEF Asks
      <4>2. n \in DOMAIN toPage[k]
        BY <1>4, <1>5, <3>4, <4>1 DEF Attach, Ack
      <4>3. \A m \in DOMAIN r : m < n => m \in DOMAIN toPage[k] /\ ~Ack(r[m])
        BY <3>1, <3>4, <4>2
      <4> QED BY <1>2, <3>1, <3>3, <4>3 DEF Unheard
    <3>6. InOrder(c)'
      BY <1>2, <2>2, <2>6, <3>5 DEF InOrder
    <3> QED BY <1>2, <2>2, <2>4, <3>2, <3>6 DEF AttachSafe
  <2> QED BY <2>5, <2>6
<1> QED BY <1>6, <1>7, <1>8, <1>9 DEF ConfirmInv, AttachInv, AttachSafe

(* A plugin that is connected then, or by this frame, takes the first of   *)
(* its frames: the requests behind it stay in order.                       *)
Takes(p, k) ==
    /\ k = plugin[p].socket /\ k \in Conns /\ toPage[k] # <<>>
    /\ toPage' = [toPage EXCEPT ![k] = Tail(@)]
    /\ UNCHANGED <<stage, calls, pending>>
    /\ \A l \in Conns : l # k => toBroker'[l] = toBroker[l]
    /\ \A q \in Pages : q # p => plugin'[q] = plugin[q]
    /\ plugin'[p].socket = k /\ plugin'[p].state = "connected" /\ plugin'[p].running = plugin[p].running
    /\ plugin[p].state = "connected" \/ Ack(toPage[k][1])

LEMMA TakesOthers ==
    ASSUME PerfettoInv, ConfirmInv, NEW p \in Pages, NEW k, Takes(p, k)
    PROVE  Apart' /\ Welcome' /\ Matching'
<1>1. FramesInv /\ \A n \in DOMAIN Tail(toPage[k]) :
            n + 1 \in DOMAIN toPage[k] /\ toPage[k][n + 1] = Tail(toPage[k])[n]
  <2>1. FramesInv /\ k \in Conns /\ toPage[k] # <<>>
    BY DEF PerfettoInv, TypeInv, Takes
  <2> QED BY <2>1, TailFrames
<1>2. ASSUME NEW l \in Conns, NEW n \in DOMAIN toPage'[l]
      PROVE  \E m \in DOMAIN toPage[l] : toPage[l][m] = toPage'[l][n]
  <2>1. CASE l = k
    <3>1. toPage'[l] = Tail(toPage[k])
      BY <1>1, <2>1 DEF Takes, FramesInv
    <3> QED BY <1>1, <1>2, <2>1, <3>1
  <2>2. CASE l # k
    <3>1. toPage'[l] = toPage[l]
      BY <1>1, <2>2 DEF Takes, FramesInv
    <3> QED BY <1>2, <3>1
  <2> QED BY <2>1, <2>2
<1>3. \A q \in Pages : plugin'[q].socket = plugin[q].socket
  BY DEF Takes
<1>4. Apart'
  BY <1>3 DEF ConfirmInv, Apart
<1>5. Welcome'
  <2>1. stage[k] \in {"open", "closed"}
    <3>1. 1 \in DOMAIN toPage[k]
      BY <1>1 DEF Takes, FramesInv
    <3> QED BY <3>1 DEF ConfirmInv, Welcome, Takes
  <2>2. \A q \in Pages : plugin'[q].state = "connected" =>
            plugin'[q].socket \in Conns /\ stage'[plugin'[q].socket] \in {"open", "closed"}
    BY <2>1 DEF ConfirmInv, Welcome, Takes
  <2>3. \A l \in Conns : \A n \in DOMAIN toPage'[l] : Ack(toPage'[l][n]) => stage'[l] \in {"open", "closed"}
    BY <1>2 DEF ConfirmInv, Welcome, Takes
  <2> QED BY <2>2, <2>3 DEF Welcome
<1>6. Matching'
  <2>1. \A f : Agrees(f)' <=> Agrees(f)
    BY DEF Agrees, Attaching, Takes
  <2>2. \A l \in Conns : \A n \in DOMAIN toPage'[l] : Agrees(toPage'[l][n])
    BY <1>2 DEF ConfirmInv, Matching
  <2>3. Running' = Running
    BY DEF Running, Takes
  <2>4. \A c \in Calls : Attaching(c)' <=> Attaching(c)
    BY DEF Attaching, Takes
  <2>5. \A c \in Running' : ~Attaching(c)'
    BY <2>3, <2>4, ToldType DEF ConfirmInv, Matching
  <2>6. \A q \in pending' : q.id \in Calls /\ Attaching(q.id)' => q.page = calls'[q.id].page
    BY <2>4 DEF ConfirmInv, Matching, Takes
  <2>7. ASSUME NEW l \in Conns, NEW n \in DOMAIN toPage'[l] PROVE Agrees(toPage[l][n])'
    <3>1. PICK f : f = toPage'[l][n]
      OBVIOUS
    <3>2. Agrees(f)'
      BY <2>1, <2>2, <2>7, <3>1
    <3> QED BY <3>1, <3>2
  <2> QED BY <2>5, <2>6, <2>7 DEF Matching
<1> QED BY <1>4, <1>5, <1>6

LEMMA TakesSafe ==
    ASSUME PerfettoInv, ConfirmInv, NEW p \in Pages, NEW k, Takes(p, k),
           NEW c \in Calls, Attaching(c)', Hears(c)'
    PROVE  /\ Attaching(c) /\ Hears(c) /\ AttachSafe(c)
           /\ \/ calls[c].page # p /\ AttachSafe(c)'
              \/ calls[c].page = p /\ calls[c].conn = k /\ InOrder(c)'
<1>1. Attaching(c) /\ Hears(c) /\ AttachSafe(c)
  <2>1. Attaching(c)
    BY DEF Attaching, Takes
  <2>2. calls[c].page \in Pages
    BY <2>1, AttachPage
  <2>3. Hears(c)
    BY <2>2 DEF Hears, Takes
  <2> QED BY <2>1, <2>3 DEF ConfirmInv, AttachInv, AttachSafe
<1>2. FramesInv /\ calls[c].page \in Pages /\ calls[c].conn \in Conns
      /\ plugin[calls[c].page].socket = calls[c].conn
  BY <1>1, AttachPage DEF PerfettoInv, TypeInv, Hears
<1>3. CASE calls[c].page # p
  <2>1. calls[c].conn # k
    BY <1>2, <1>3, NoneFacts DEF ConfirmInv, Apart, Takes
  <2>2. toPage'[calls[c].conn] = toPage[calls[c].conn]
    BY <1>2, <2>1 DEF Takes, FramesInv
  <2>3. PICK l : l = calls[c].conn
    OBVIOUS
  <2>4. Answered(l, c)' => Answered(l, c)
    BY <1>2, <2>1, <2>3 DEF Answered, Takes
  <2>5. plugin'[calls[c].page] = plugin[calls[c].page] /\ UNCHANGED calls
    BY <1>2, <1>3 DEF Takes
  <2>6. AttachSafe(c)'
    BY <1>1, <2>2, <2>3, <2>4, <2>5, UntouchedSafe
  <2> QED BY <1>1, <1>3, <2>6
<1>4. CASE calls[c].page = p
  <2>1. calls[c].conn = k /\ k \in Conns /\ UNCHANGED calls
    BY <1>2, <1>4 DEF Takes
  <2>2. PICK r : r = toPage'[k] /\ r = Tail(toPage[k])
    BY <1>2, <2>1 DEF Takes, FramesInv
  <2>3. \A n \in DOMAIN r : n \in Nat /\ n >= 1 /\ n + 1 \in DOMAIN toPage[k] /\ toPage[k][n + 1] = r[n]
    BY <1>2, <2>1, <2>2, TailFrames DEF Takes
  <2>4. ASSUME NEW n \in Nat, Asks(k, n, c)' PROVE Last(k, n)'
    <3>1. n \in DOMAIN r /\ Asks(k, n + 1, c)
      BY <2>2, <2>3, <2>4 DEF Asks
    <3>2. ~Unheard(p, k, n + 1)
      <4>1. CASE plugin[p].state = "connected"
        BY <4>1 DEF Unheard
      <4>2. CASE Ack(toPage[k][1])
        <5>1. 1 \in DOMAIN toPage[k]
          BY <1>2, <2>1 DEF Takes, FramesInv
        <5>2. 1 < n + 1
          BY <2>3, <3>1
        <5> QED BY <4>2, <5>1, <5>2 DEF Unheard
      <4> QED BY <4>1, <4>2 DEF Takes
    <3>3. Last(k, n + 1)
      BY <1>1, <1>4, <2>1, <3>1, <3>2 DEF AttachSafe, InOrder
    <3>4. \A m \in DOMAIN r : m > n => ~Attach(r[m])
      <4>1. \A m \in DOMAIN r : m > n => m + 1 > n + 1
        BY <2>3
      <4> QED BY <2>3, <3>3, <4>1 DEF Last
    <3> QED BY <2>2, <3>4 DEF Last
  <2>5. InOrder(c)'
    BY <2>1, <2>4 DEF InOrder
  <2> QED BY <1>1, <1>4, <2>1, <2>5
<1> QED BY <1>3, <1>4

LEMMA WelcomedConfirm ==
    ASSUME PerfettoInv, ConfirmInv, NEW p \in Pages, HandleHelloAck(p), plugin'[p].state = "connected"
    PROVE  ConfirmInv'
<1>1. TypeInv /\ FramesInv /\ PluginTypes /\ plugin[p] \in PluginRecords
  BY DEF PerfettoInv, TypeInv, PluginTypes
<1>2. PICK k : k = plugin[p].socket
  OBVIOUS
<1>3. Waiting(p, {"challenging", "await_ack"}, {"hello_ack"}) /\ UNCHANGED <<memVars, storeVars, faults>>
  BY DEF HandleHelloAck
<1>4. /\ k \in Conns /\ toPage[k] # <<>> /\ Head(toPage[k]).type = "hello_ack"
      /\ Head(toPage[k]) = toPage[k][1] /\ plugin[p].state # "connected"
  BY <1>1, <1>2, <1>3, WaitingFacts
<1>5. /\ SetPlugin(p, [plugin[p] EXCEPT !.state = "connected"]) /\ Consume(p) /\ UNCHANGED toBroker
      /\ Head(toPage[k]).accepted
  <2>1. PICK b : b = [plugin[p] EXCEPT !.state = "failed"]
    OBVIOUS
  <2>2. b.state = "failed" /\ b \in PluginRecords
    BY <1>1, <2>1 DEF PluginRecords
  <2>3. ~Leave(p, b, <<>>)
    <3>1. PICK r : r = [b EXCEPT !.socket = None, !.attachment = None]
      OBVIOUS
    <3>2. r.state = "failed"
      BY <2>2, <3>1 DEF PluginRecords
    <3> QED BY <1>1, <3>1, <3>2 DEF Leave, SetPlugin, PluginTypes
  <2> QED BY <1>2, <2>1, <2>3 DEF HandleHelloAck
<1>6. Takes(p, k)
  <2>1. plugin'[p] = [plugin[p] EXCEPT !.state = "connected"]
        /\ \A q \in Pages : q # p => plugin'[q] = plugin[q]
    BY <1>1, <1>5 DEF SetPlugin, PluginTypes
  <2>2. plugin'[p].socket = k /\ plugin'[p].running = plugin[p].running
    BY <1>1, <1>2, <2>1 DEF PluginRecords
  <2>3. Ack(toPage[k][1])
    BY <1>4, <1>5 DEF Ack
  <2> QED BY <1>2, <1>3, <1>4, <1>5, <2>1, <2>2, <2>3 DEF Takes, Consume, memVars
<1>7. ASSUME NEW c \in Calls, Attaching(c)', Hears(c)' PROVE AttachSafe(c)'
  <2>1. CASE calls[c].page = p /\ calls[c].conn = k /\ InOrder(c)' /\ AttachSafe(c)
    <3>1. calls[c].step # "writing" /\ ~Answered(k, c)
      BY <1>4, <2>1 DEF AttachSafe, Taken
    <3>2. UNCHANGED calls /\ ~Answered(k, c)'
      BY <1>3, <1>5, <3>1 DEF memVars, Answered
    <3> QED BY <2>1, <3>1, <3>2 DEF AttachSafe
  <2> QED BY <1>6, <1>7, <2>1, TakesSafe
<1> QED BY <1>6, <1>7, TakesOthers DEF ConfirmInv, AttachInv, AttachSafe

LEMMA RequestConfirm ==
    ASSUME PerfettoInv, ConfirmInv, NEW p \in Pages, HandleRequest(p),
           Head(toPage[plugin[p].socket]).method = "attach"
    PROVE  ConfirmInv'
<1>1. TypeInv /\ FramesInv /\ PluginTypes /\ plugin[p] \in PluginRecords
  BY DEF PerfettoInv, TypeInv, PluginTypes
<1>2. PICK k, m : k = plugin[p].socket /\ m = Head(toPage[k])
  OBVIOUS
<1>3. Waiting(p, {"connected"}, {"request"}) /\ UNCHANGED <<memVars, storeVars, faults>>
  BY DEF HandleRequest
<1>4. /\ k \in Conns /\ toPage[k] # <<>> /\ m.type = "request" /\ m.method = "attach"
      /\ 1 \in DOMAIN toPage[k] /\ m = toPage[k][1] /\ plugin[p].state = "connected"
  BY <1>1, <1>2, <1>3, WaitingFacts
<1>5. PICK fs :
        /\ fs = (IF Announces THEN <<EventFrame("session.attached")>> ELSE <<>>) \o <<ResponseFrame(m.id)>>
        /\ Reply(p, fs) /\ Consume(p)
        /\ SetPlugin(p, [plugin[p] EXCEPT !.attachment = m.slot])
  BY <1>2, <1>4 DEF HandleRequest
<1>6. /\ plugin'[p].socket = k /\ plugin'[p].running = plugin[p].running
      /\ plugin'[p].state = "connected" /\ plugin'[p].attachment = m.slot
      /\ \A q \in Pages : q # p => plugin'[q] = plugin[q]
  <2>1. plugin'[p] = [plugin[p] EXCEPT !.attachment = m.slot]
        /\ \A q \in Pages : q # p => plugin'[q] = plugin[q]
    BY <1>1, <1>5 DEF SetPlugin, PluginTypes
  <2> QED BY <1>1, <1>2, <1>4, <2>1 DEF PluginRecords
<1>7. Takes(p, k)
  <2>1. \A l \in Conns : l # k => toBroker'[l] = toBroker[l]
    BY <1>1, <1>2, <1>5 DEF Reply, FramesInv
  <2> QED BY <1>2, <1>3, <1>4, <1>5, <1>6, <2>1 DEF Takes, Consume, memVars
<1>8. \A c \in Calls : Answered(k, c)' => Answered(k, c) \/ c = m.id
  <2>1. Sends({}, {m.id})
    BY <1>1, <1>2, HandleRequestTypes
  <2> QED BY <1>4, <2>1 DEF Sends, Tells, Answered
<1>9. ASSUME NEW c \in Calls, Attaching(c)', Hears(c)' PROVE AttachSafe(c)'
  <2>1. Attaching(c) /\ AttachSafe(c) /\ UNCHANGED calls
    BY <1>7, <1>9, TakesSafe DEF Takes
  <2>2. CASE calls[c].page = p /\ calls[c].conn = k /\ InOrder(c)'
    <3>1. ASSUME calls[c].step = "writing" \/ Answered(k, c) PROVE FALSE
      <4>1. Taken(c)
        BY <2>1, <2>2, <3>1 DEF AttachSafe
      <4> QED BY <1>4, <2>2, <4>1 DEF Taken, Attach
    <3>2. ASSUME c = m.id PROVE Taken(c)'
      <4>1. Asks(k, 1, c)
        BY <1>4, <3>2 DEF Asks, Attach
      <4>2. Last(k, 1)
        BY <1>4, <2>1, <2>2, <4>1 DEF AttachSafe, InOrder, Unheard
      <4>3. m.slot = calls[c].slot
        BY <1>4, <2>1, <3>2 DEF ConfirmInv, Matching, Agrees
      <4>4. PICK r : r = toPage'[k] /\ r = Tail(toPage[k])
        BY <1>1, <1>4, <1>7 DEF Takes, FramesInv
      <4>5. \A n \in DOMAIN r : n \in Nat /\ n >= 1 /\ n + 1 \in DOMAIN toPage[k] /\ toPage[k][n + 1] = r[n]
        BY <1>1, <1>4, <4>4, TailFrames
      <4>6. \A n \in DOMAIN r : n + 1 > 1
        BY <4>5
      <4>7. \A n \in DOMAIN r : ~Attach(r[n])
        BY <4>2, <4>5, <4>6 DEF Last
      <4> QED BY <1>6, <2>1, <2>2, <4>3, <4>4, <4>7 DEF Taken
    <3> QED BY <1>8, <2>1, <2>2, <3>1, <3>2 DEF AttachSafe
  <2> QED BY <1>7, <1>9, <2>2, TakesSafe
<1> QED BY <1>7, <1>9, TakesOthers DEF ConfirmInv, AttachInv, AttachSafe

(* The call that asks is the only one under the mutex, its request the     *)
(* last on its way.                                                        *)
LEMMA AskConfirm ==
    ASSUME PerfettoInv, ConfirmInv, NEW c \in Calls, Enter(c), Ask(c, "attach"), calls[c].kind = "attach"
    PROVE  ConfirmInv'
<1>1. TypeInv /\ FramesInv /\ StageInv /\ CallsInv /\ QueriesInv
  BY DEF PerfettoInv, TypeInv
<1>2. Turn(c) /\ calls[c].step = "queued" /\ mutex = None
  BY DEF Enter, Turn
<1>3. /\ calls' = [calls EXCEPT ![c].step = "asked"] /\ UNCHANGED <<stage, toBroker, plugin>>
      /\ pending' = Asked(c, calls[c].page)
  BY DEF Ask, Enter
<1>4. PICK f, p : f = Request(c, "attach", calls[c].slot) /\ p = calls[c].page
  OBVIOUS
<1>5. \A k \in Conns : \A n \in Nat : Asking(k, n) => toPage[k][n].id # c
  BY <1>2 DEF PerfettoInv, QueriesInv, Early
<1>6. c \notin Served
  BY <1>1, <1>2 DEF QueriesInv, Early
<1>7. \A d \in Calls : ~Attaching(d)
  BY <1>1, <1>2, NoneFacts DEF CallsInv, Changing, Attaching
<1>8. /\ \A d \in Calls : d # c => calls'[d] = calls[d]
      /\ calls'[c].page = p /\ calls'[c].slot = calls[c].slot /\ calls'[c].conn = calls[c].conn
      /\ calls'[c].step = "asked" /\ calls'[c].kind = calls[c].kind
  BY <1>1, <1>3, <1>4 DEF TypeInv, CallTypes, CallRecords
<1>9. \A d \in Calls : Attaching(d)' => d = c
  BY <1>7, <1>8 DEF Attaching
<1>10. PICK N : N = {f} /\ Sends(N, {})
  <2>1. ~EndCalls({c})
    BY <1>1, <1>8, EndedFields DEF EndCalls, TypeInv, CallTypes
  <2>2. Sends({Request(c, "attach", calls[c].slot)}, {})
    BY <1>1, <2>1, EnterTypes
  <2> QED BY <1>4, <2>2
<1>11. f.id = c /\ f.type = "request" /\ f.method = "attach" /\ f.slot = calls[c].slot /\ ~Ack(f)
  BY <1>4 DEF Request, Ack
<1>12. ASSUME NEW k \in Conns, NEW n \in DOMAIN toPage'[k], NEW g, g = toPage'[k][n],
              g.type = "request", g.id = c
       PROVE  g = f
  <2>1. PICK d \in Nat : Mark(g) => g \in N \/ (n + d \in DOMAIN toPage[k] /\ toPage[k][n + d] = g)
    BY <1>10, <1>12 DEF Sends, Forwards
  <2>2. n + d \in DOMAIN toPage[k] => n + d \in Nat
    BY <1>1 DEF FramesInv
  <2> QED BY <1>5, <1>10, <1>12, <2>1, <2>2 DEF Mark, Asking
<1>13. Apart'
  BY <1>3 DEF ConfirmInv, Apart
<1>14. Welcome'
  <2>1. PluginsStay /\ OpensStay
    BY <1>1, <1>3, SamePlugins, ClosedOpens
  <2>2. Forwards(toPage', N) /\ \A g \in N : ~Ack(g)
    BY <1>10, <1>11 DEF Sends
  <2> QED BY <2>1, <2>2, WelcomeKept DEF ConfirmInv
<1>15. Matching'
  <2>1. ASSUME NEW k \in Conns, NEW n \in DOMAIN toPage'[k], NEW g, g = toPage'[k][n]
        PROVE  Agrees(g)'
    <3> SUFFICES ASSUME g.type = "request", g.id \in Calls, Attaching(g.id)'
                 PROVE  g.method = "attach" /\ g.slot = calls'[g.id].slot
      BY DEF Agrees
    <3>1. g.id = c
      BY <1>9
    <3>2. g = f
      BY <1>12, <2>1, <3>1
    <3> QED BY <1>8, <1>11, <3>1, <3>2
  <2>2. \A d \in Running' : ~Attaching(d)'
    <3>1. Running' = Running
      BY <1>3 DEF Running
    <3> QED BY <1>6, <1>9, <3>1, ToldType DEF Served
  <2>3. ASSUME NEW q \in pending', q.id \in Calls, Attaching(q.id)' PROVE q.page = calls'[q.id].page
    <3>1. q.id = c
      BY <1>9, <2>3
    <3>2. q \notin pending
      BY <1>1, <1>2, <3>1 DEF CallsInv
    <3>3. q.page = p
      BY <1>3, <1>4, <2>3, <3>2 DEF Asked
    <3> QED BY <1>8, <3>1, <3>3
  <2> QED BY <2>1, <2>2, <2>3 DEF Matching
<1>16. ASSUME Attaching(c)', Hears(c)' PROVE AttachSafe(c)'
  <2>1. PICK k : k = calls[c].conn
    OBVIOUS
  <2>2. k \in Conns /\ p \in Pages /\ plugin[p].socket = k
    <3>1. TypeInv'
      BY <1>10 DEF Sends
    <3>2. calls'[c].page \in Pages
      BY <1>16, <3>1 DEF TypeInv, CallTypes, Attaching
    <3> QED BY <1>3, <1>8, <1>16, <2>1, <3>2 DEF Hears
  <2>3. PICK s : (s = <<f>> \/ s = <<>>) /\ toPage'[k] = toPage[k] \o s
    <3>1. Attached(k)
      BY <2>2 DEF Attached
    <3>2. PICK ks : toPage' = Sent(On(ks, f))
      BY <1>4 DEF Ask
    <3> QED BY <2>2, <3>1, <3>2 DEF Sent, On
  <2>4. f \in PageFrames
    <3>1. calls[c].slot \in Slots /\ c \in Ids
      BY <1>1, <1>16, <1>8, NoneFacts DEF TypeInv, CallTypes
    <3> QED BY <1>4, <3>1, PageFrameTypes DEF Methods, PageFrames
  <2>5. s \in Seq(PageFrames) /\ (Len(s) = 1 \/ DOMAIN s = {})
    <3>1. CASE s = <<f>>
      BY <2>4, <3>1
    <3>2. CASE s = <<>>
      BY <3>2, EmptySeq
    <3> QED BY <2>3, <3>1, <3>2
  <2>6. PICK r : r = toPage'[k] /\ r = toPage[k] \o s
    BY <2>3
  <2>7. /\ DOMAIN toPage[k] = 1..Len(toPage[k]) /\ Len(toPage[k]) \in Nat
        /\ DOMAIN s = 1..Len(s) /\ Len(s) \in Nat /\ DOMAIN r = 1..(Len(toPage[k]) + Len(s))
        /\ \A n \in DOMAIN toPage[k] : r[n] = toPage[k][n]
        /\ \A n \in DOMAIN r : n \in DOMAIN toPage[k]
              \/ (n > Len(toPage[k]) /\ n - Len(toPage[k]) \in DOMAIN s)
    BY <1>1, <2>2, <2>5, <2>6, AddedFrames
  <2>8. ASSUME NEW n \in Nat, Asks(k, n, c)' PROVE Last(k, n)'
    <3>1. n \in DOMAIN r /\ r[n].type = "request" /\ r[n].id = c
      BY <2>6, <2>8 DEF Asks, Attach
    <3>2. n \notin DOMAIN toPage[k]
      BY <1>5, <2>2, <2>7, <3>1 DEF Asking
    <3>3. n - Len(toPage[k]) \in DOMAIN s /\ n > Len(toPage[k])
      BY <2>7, <3>1, <3>2
    <3>4. Len(s) = 1
      BY <2>5, <3>3
    <3>5. \A m \in DOMAIN r : ~(m > n)
      BY <2>7, <3>3, <3>4
    <3> QED BY <2>6, <3>5 DEF Last
  <2>9. InOrder(c)'
    BY <1>8, <2>1, <2>8 DEF InOrder
  <2>10. ~Answered(k, c)'
    <3>1. ~Answered(k, c)
      BY <1>6, <2>2 DEF Served, Told, Answered
    <3> QED BY <1>3, <3>1 DEF Answered
  <2> QED BY <1>8, <2>1, <2>9, <2>10 DEF AttachSafe
<1>17. AttachInv'
  BY <1>9, <1>16 DEF AttachInv, AttachSafe
<1> QED BY <1>13, <1>14, <1>15, <1>17 DEF ConfirmInv

LEMMA InitConfirm == ASSUME Init PROVE ConfirmInv
<1>1. PICK socket \in [Joined -> Conns], e \in SUBSET Sessions, g \in [Slots -> Joined \cup {None}] :
            StartsWith(socket, e, g)
  BY InitIs
<1>2. Joined \subseteq Pages
  BY PerfettoBounds DEF PerfettoBounds
<1>3. /\ \A p \in Joined : plugin[p].socket = socket[p] /\ socket[p] \in Conns /\ stage[socket[p]] = "open"
      /\ \A p \in Pages : p \notin Joined => plugin[p].socket = None /\ plugin[p].state = "idle"
  BY <1>1, <1>2 DEF StartsWith
<1>4. /\ \A k \in Conns : DOMAIN toPage[k] = {}
      /\ \A p \in Pages : plugin[p].running = {}
      /\ \A c \in Calls : calls[c] = NoCall
      /\ pending = {}
  <2>1. \A k \in Conns : toPage[k] = <<>>
    BY <1>1 DEF StartsWith
  <2>2. (\A p \in Pages : plugin[p].running = {}) /\ (\A c \in Calls : calls[c] = NoCall) /\ pending = {}
    BY <1>1 DEF StartsWith
  <2> QED BY <2>1, <2>2
<1>5. \A c \in Calls : ~Attaching(c)
  BY <1>4, EndedFields DEF Attaching
<1>6. Apart
  <2>1. \A p, q \in Joined : socket[p] = socket[q] => p = q
    BY <1>1 DEF StartsWith
  <2> QED BY <1>3, <2>1 DEF Apart
<1>7. Welcome
  BY <1>2, <1>3, <1>4 DEF Welcome
<1>8. Matching
  BY <1>4, <1>5, ToldType DEF Matching
<1> QED BY <1>5, <1>6, <1>7, <1>8 DEF ConfirmInv, AttachInv

LEMMA StepConfirm == ASSUME PerfettoInv, ConfirmInv, Next PROVE ConfirmInv'
<1>1. Matching
  BY DEF ConfirmInv
<1>2. ASSUME NEW k \in Conns, BrokerStep(k) \/ AuthResponseAfterClose(k) \/ AuthFails(k) \/ Lose(k)
      PROVE  ConfirmInv'
  <2>1. CASE HelloAck(k)
    BY <2>1, HelloAckConfirm
  <2>2. CASE Response(k)
    BY <1>1, <2>2, ResponseCalm, CalmKeeps
  <2>3. CASE ~HelloAck(k) /\ ~Response(k)
    BY <1>2, <2>3, BrokerCalm, CalmKeeps DEF BrokerStep
  <2> QED BY <2>1, <2>2, <2>3
<1>3. ASSUME NEW p \in Pages, PageStep(p) \/ HandshakeTimeout(p) \/ Dispose(p) PROVE ConfirmInv'
  <2>1. CASE HandleHelloAck(p)
    BY <2>1, WelcomedConfirm, PageCalm, CalmKeeps
  <2>2. CASE HandleRequest(p)
    BY <1>1, <2>2, RequestConfirm, AnswerCalm, CalmKeeps
  <2>3. CASE ~HandleHelloAck(p) /\ ~HandleRequest(p)
    BY <1>3, <2>3, PageCalm, CalmKeeps DEF PageStep
  <2> QED BY <2>1, <2>2, <2>3
<1>4. ASSUME NEW p \in Pages, NEW c \in Calls, AnswerQuery(p, c) PROVE ConfirmInv'
  BY <1>1, <1>4, AnswerCalm, CalmKeeps
<1>5. ASSUME NEW c \in Calls, Approved(c) \/ Denied(c) \/ Enter(c) \/ StoreStep(c) \/ StoreFails(c)
      PROVE  ConfirmInv'
  <2>1. CASE Enter(c) /\ calls[c].kind = "attach" /\ Ask(c, "attach")
    BY <2>1, AskConfirm
  <2>2. CASE ~(Enter(c) /\ calls[c].kind = "attach" /\ Ask(c, "attach"))
    <3>1. \E N : Calm(N)
      BY <1>5, <2>2, CallCalm
    <3> QED BY <3>1, CalmKeeps
  <2> QED BY <2>1, <2>2
<1>6. ASSUME NEW c \in Calls, NEW p \in Pages, StartCall(c, p) PROVE ConfirmInv'
  <2>1. \E N : Calm(N)
    BY <1>6, CallCalm
  <2> QED BY <2>1, CalmKeeps
<1>7. ASSUME NEW q \in pending, Timeout(q) PROVE ConfirmInv'
  BY <1>7, DaemonCalm, CalmKeeps
<1>8. ASSUME NEW s \in Sessions, CreateSession(s) PROVE ConfirmInv'
  BY <1>8, DaemonCalm, CalmKeeps
<1>9. CASE Ping \/ Restart
  BY <1>9, DaemonCalm, CalmKeeps
<1> QED BY <1>2, <1>3, <1>4, <1>5, <1>6, <1>7, <1>8, <1>9 DEF Next

LEMMA StutterConfirm == ASSUME ConfirmInv, UNCHANGED vars PROVE ConfirmInv'
<1>1. UNCHANGED <<stage, pending, calls, toBroker, toPage, plugin>>
  BY DEF vars, memVars, storeVars, netVars
<1>2. Apart'
  BY <1>1 DEF ConfirmInv, Apart
<1>3. Welcome'
  BY <1>1 DEF ConfirmInv, Welcome
<1>4. Matching'
  BY <1>1 DEF ConfirmInv, Matching, Agrees, Attaching, Running
<1>5. ASSUME NEW c \in Calls, Attaching(c)', Hears(c)' PROVE AttachSafe(c)'
  <2>1. AttachSafe(c)
    BY <1>1, <1>5 DEF ConfirmInv, AttachInv, AttachSafe, Attaching, Hears
  <2>2. UNCHANGED calls /\ toPage'[calls[c].conn] = toPage[calls[c].conn]
        /\ plugin'[calls[c].page] = plugin[calls[c].page]
    BY <1>1
  <2>3. PICK k : k = calls[c].conn
    OBVIOUS
  <2>4. Answered(k, c)' => Answered(k, c)
    BY <1>1 DEF Answered
  <2> QED BY <2>1, <2>2, <2>3, <2>4, UntouchedSafe
<1> QED BY <1>2, <1>3, <1>4, <1>5 DEF ConfirmInv, AttachInv, AttachSafe

(* What a step that gives a role has before it. *)
GivesTaken ==
    \A s \in Slots, p \in Pages :
        given'[s] = p /\ given[s] # p /\ p \in Registered /\ ~unsynced'
            /\ plugin[p].socket = clients[p].conn
        => plugin[p].attachment = s

LEMMA StepGivesTaken == ASSUME PerfettoInv, ConfirmInv, [Next]_vars PROVE GivesTaken
<1> SUFFICES ASSUME NEW s \in Slots, NEW p \in Pages,
                    given'[s] = p, given[s] # p, p \in Registered, ~unsynced',
                    plugin[p].socket = clients[p].conn
             PROVE  plugin[p].attachment = s
  BY DEF GivesTaken
<1>1. TypeInv /\ StoreTypes /\ CallTypes /\ ClientsInv /\ p # None
  BY NoneFacts DEF PerfettoInv, TypeInv
<1>2. PICK c \in Calls : StoreAttach(c)
  <2>1. CASE UNCHANGED given
    BY <2>1
  <2>2. ASSUME NEW c \in Calls, StoreDetach(c) PROVE FALSE
    <3>1. given' = [given EXCEPT ![calls[c].slot] = None]
      BY <2>2 DEF StoreDetach
    <3> QED BY <1>1, <3>1 DEF StoreTypes
  <2>3. ASSUME NEW c \in Calls, StoreRemove(c) PROVE FALSE
    <3>1. given'[s] = None \/ given'[s] = given[s]
      BY <2>3 DEF StoreRemove
    <3> QED BY <1>1, <3>1
  <2>4. (\E c \in Calls : StoreAttach(c) \/ StoreDetach(c) \/ StoreRemove(c)) \/ UNCHANGED given
    <3>1. CASE UNCHANGED vars
      BY <3>1 DEF vars, storeVars
    <3>2. ASSUME NEW k \in Conns, BrokerStep(k) \/ AuthResponseAfterClose(k) \/ AuthFails(k) \/ Lose(k)
          PROVE  UNCHANGED given
      BY <3>2 DEF BrokerStep, AuthChallenge, RefuseMessage, AuthResponse, HelloAck, PeerClosed, Response,
                  Event, AuthResponseAfterClose, AuthFails, Lose, storeVars
    <3>3. ASSUME NEW q \in Pages, PageStep(q) \/ HandshakeTimeout(q) \/ Dispose(q)
                                  \/ \E c \in Calls : AnswerQuery(q, c)
          PROVE  UNCHANGED given
      BY <3>3 DEF PageStep, Connect, HandleAuthChallengeAck, HandleHelloAck, FailAuthentication,
                  HandlePing, HandleRequest, HandleClose, HandshakeTimeout, Dispose, AnswerQuery, storeVars
    <3>4. ASSUME NEW c \in Calls, \/ Approved(c) \/ Denied(c) \/ Enter(c) \/ StoreFails(c) \/ StoreAlignment(c)
                                  \/ \E q \in Pages : StartCall(c, q)
          PROVE  UNCHANGED given
      BY <3>4 DEF Approved, Denied, Enter, StoreFails, StoreAlignment, StartCall, Starts, storeVars
    <3>5. ASSUME \/ Ping \/ Restart \/ \E q \in pending : Timeout(q)
                 \/ \E x \in Sessions : CreateSession(x)
          PROVE  UNCHANGED given
      <4>1. CASE Ping \/ Restart
        BY <4>1 DEF Ping, Restart, Restarted, storeVars
      <4>2. CASE \E q \in pending : Timeout(q)
        BY <4>2 DEF Timeout, storeVars
      <4>3. CASE \E x \in Sessions : CreateSession(x)
        BY <4>3 DEF CreateSession
      <4> QED BY <3>5, <4>1, <4>2, <4>3
    <3> QED BY <3>1, <3>2, <3>3, <3>4, <3>5 DEF Next, StoreStep
  <2> QED BY <2>1, <2>2, <2>3, <2>4
<1>3. /\ calls[c].step = "writing" /\ calls[c].kind = "attach"
      /\ given' = AttachedTo(calls[c].slot, calls[c].page)
  BY <1>2 DEF StoreAttach
<1>4. Holds(c)
  BY <1>2, Zenon DEF StoreAttach
<1>5. s = calls[c].slot /\ p = calls[c].page
  BY <1>1, <1>3 DEF AttachedTo
<1>6. Hears(c) /\ Attaching(c)
  <2>1. clients[p].conn \in Conns
    BY <1>1, NoneFacts DEF ClientsInv, TypeInv, ClientTypes, ClientRecords
  <2>2. clients[p].conn = calls[c].conn
    BY <1>4, <1>5 DEF Holds
  <2> QED BY <1>3, <1>5, <2>1, <2>2 DEF Hears, Attaching
<1> QED BY <1>3, <1>5, <1>6 DEF ConfirmInv, AttachInv, Taken

(* Whatever sockets, frames and calls do meanwhile, a role that a step     *)
(* gives to a listed trace has been taken by the plugin before, unless the *)
(* plugin is no longer on the socket the broker knows, or the target       *)
(* changed (attachTarget and session_store.attach in perfetto-broker.mjs). *)
THEOREM RolesAreTaken == Spec => RolesAreConfirmed
<1>1. Init => PerfettoInv /\ ConfirmInv
  BY InitHolds, InitConfirm
<1>2. PerfettoInv /\ ConfirmInv /\ [Next]_vars => (PerfettoInv /\ ConfirmInv)'
  BY StepHolds, StutterHolds, StepConfirm, StutterConfirm
<1>3. PerfettoInv /\ ConfirmInv /\ [Next]_vars => [GivesTaken]_vars
  BY StepGivesTaken
<1>4. Spec => [][GivesTaken]_vars
  BY <1>1, <1>2, <1>3, PTL DEF Spec
<1> QED BY <1>4 DEF RolesAreConfirmed, GivesTaken
=============================================================================
