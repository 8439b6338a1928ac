------------------------ MODULE ConnectorSessionsProofs ------------------------
(***************************************************************************)
(* Proofs about ConnectorSessions for any pages, contexts, limits and      *)
(* bounds: type correctness with the limits on sessions and resume         *)
(* records, tables of the broker that agree, and snapshots that are        *)
(* current when they are accepted.                                         *)
(*                                                                         *)
(* The tables and the snapshots need only the broker's state.  That the    *)
(* client ids stay within their bound needs both ends of a socket: a page  *)
(* that is told to reset has a secret no record has any more (IdentsInv),  *)
(* which needs to know what a page may have sent on its socket and when    *)
(* (SocketsInv).  The order of the frames in a queue never matters, so the *)
(* lemmas about queues are about the set of their frames.                  *)
(***************************************************************************)
EXTENDS ConnectorSessions, FiniteSetTheorems, SequenceTheorems, TLAPS

(* The state is typed; a page has a socket while it is not away, and the   *)
(* context it connects with until the broker's challenge asks for it.      *)
Away == {"stopped", "idle", "rejected"}
Consistent(c) ==
    /\ c.socket = None <=> c.state \in Away
    /\ c.state = "await_challenge" => c.context \in Contexts

BrokerTypes ==
    /\ stage \in [Conns -> Stages]
    /\ sessions \in [Keys -> Sessions \cup {NoSession}]
    /\ records \in [Keys -> Records \cup {NoRecord}]
    /\ bindings \in Nat
FrameTypes == toBroker \in [Conns -> Seq(Frames)] /\ toPage \in [Conns -> Seq(Frames)]
PageTypes ==
    /\ client \in [Pages -> Clients]
    /\ live \in [Pages -> Contexts] /\ dirty \in [Pages -> BOOLEAN]
    /\ \A p \in Pages : Consistent(client[p])
OtherTypes ==
    /\ snap \in Snapshots \cup {NoSnapshot}
    /\ faults \in 0..MaxFaults /\ changes \in 0..MaxChanges

TypeInv == BrokerTypes /\ FrameTypes /\ PageTypes /\ OtherTypes

(* The limits on sessions and on resume records. *)
SessionLimit == IsFiniteSet(Live) /\ Cardinality(Live) <= MaxSessions
RecordLimit == IsFiniteSet(Remembered) /\ Cardinality(Remembered) <= 2 * MaxSessions

(* Each socket past authentication is that of one session, and the record  *)
(* of a session follows it.  Bindings are drawn in order.                  *)
TablesInv ==
    /\ \A k \in Conns : stage[k] \in {"audit", "open"} => \E key \in Live : sessions[key].conn = k
    /\ \A key \in Live :
        /\ stage[sessions[key].conn] \in {"audit", "open"}
        /\ records[key] \in Records
        /\ records[key].binding = sessions[key].binding
        /\ records[key].generation = sessions[key].generation
    /\ \A key, other \in Live : sessions[key].conn = sessions[other].conn => key = other
    /\ \A key \in Keys : records[key].binding <= bindings

(* The frames of a queue, whatever their order. *)
Within(q) == {q[n] : n \in DOMAIN q}

(* How far the two ends of a socket are apart.  A page answers one         *)
(* challenge on a socket, for the client id and the secret it has, and the *)
(* acknowledgement comes after it.                                         *)
SocketsInv ==
    /\ \A p, q \in Pages : client[p].socket = client[q].socket /\ client[p].socket # None => p = q
    /\ \A k \in Conns :
        /\ \A f \in Within(toPage[k]) : f.type = "auth_challenge" => stage[k] # "init"
        /\ \A f \in Within(toPage[k]) : f.type = "hello_ack" => stage[k] \in {"open", "closed"}
        /\ \A f \in Within(toBroker[k]) : f.type = "auth_response" => stage[k] = "proof"
    /\ \A p \in Pages, k \in Conns : client[p].socket = k =>
        /\ client[p].state = "await_challenge" => stage[k] \in {"closed", "init", "proof"}
        /\ \A f \in Within(toBroker[k]) : f.type = "auth_response" =>
            /\ client[p].state # "await_challenge"
            /\ f.key = <<p, client[p].ident>> /\ f.secret = client[p].secret
        /\ \A key \in Keys : sessions[key].conn = k => key = <<p, client[p].ident>>

(* The page has, or is about to get, a secret that no record has any more. *)
Outdated(p, secret) == secret # None /\ records[<<p, client[p].ident>>].binding # secret
Stale(p) ==
    \/ Outdated(p, client[p].secret)
    \/ \E k \in Conns : client[p].socket = k /\ \E f \in Within(toPage[k]) :
        \/ f.type = "hello_ack" /\ Outdated(p, f.secret)
        \/ f.type = "rejected" /\ f.code = "RESET_REQUIRED"

(* A page takes a new client id when it is loaded again, or once for each  *)
(* record the broker lost.                                                 *)
IdentsInv ==
    \A p \in Pages : client[p].ident <= faults + 1 /\ (Stale(p) => client[p].ident <= faults)

(* What a snapshot may be compared with: the generation of its binding     *)
(* only grows, and within one generation only the version does.            *)
Following(s, now) ==
    /\ now.conn = s.session.conn
    /\ GuardOf[now.context] = GuardOf[s.session.context]
    /\ now.version >= s.session.version
    /\ now.version = s.session.version => now.context = s.session.context
    /\ s.changed => s.kind = "read" /\ now.version > s.session.version

SnapInv ==
    snap # NoSnapshot =>
        LET key == snap.key
            then == snap.session
        IN  /\ then.binding <= bindings
            /\ records[key].binding = then.binding => records[key].generation >= then.generation
            /\ /\ key \in Live /\ sessions[key].binding = then.binding
               /\ sessions[key].generation = then.generation
               => Following(snap, sessions[key])

CoreInv == TypeInv /\ SessionLimit /\ RecordLimit /\ TablesInv /\ SocketsInv /\ IdentsInv /\ SnapInv

(* A page answers a socket's challenge once. *)
Single(q) ==
    \A n, m \in DOMAIN q : q[n].type = "auth_response" /\ q[m].type = "auth_response" => n = m
OneAnswer == \A k \in Conns : Single(toBroker[k])

IInv == CoreInv /\ OneAnswer

-----------------------------------------------------------------------------
(* Records and sessions are told from their absence by one field. *)

LEMMA Forms ==
    /\ None \notin Conns /\ NoSession.conn = None /\ NoRecord.binding = None
    /\ NoSession \notin Sessions /\ NoRecord \notin Records /\ NoSnapshot \notin Snapshots
    /\ \A s \in Sessions : s.conn \in Conns /\ s.conn # None
    /\ \A r \in Records : r.binding \in Nat \ {0} /\ r.binding # None
<1>1. None \notin Conns
  BY SessionBounds DEF None, Conns
<1>2. NoSession.conn = None /\ NoRecord.binding = None
  BY DEF NoSession, NoRecord
<1>3. \A s \in Sessions : s.conn \in Conns
  BY DEF Sessions
<1>4. \A r \in Records : r.binding \in Nat \ {0}
  BY DEF Records, Bindings
<1>5. NoSnapshot \notin Snapshots
  BY DEF NoSnapshot, Snapshots
<1> QED BY <1>1, <1>2, <1>3, <1>4, <1>5 DEF None

LEMMA LiveForms ==
    ASSUME BrokerTypes
    PROVE  /\ \A key \in Keys : key \in Live <=> sessions[key] \in Sessions
           /\ \A key \in Keys : key \in Live <=> sessions[key].conn # None
           /\ \A key \in Keys : key \in Remembered <=> records[key] \in Records
           /\ \A key \in Keys : key \in Remembered <=> records[key].binding # None
           /\ \A key \in Keys : records[key].binding \in Nat
           /\ \A key \in Keys : sessions[key].conn \in Conns \cup {None}
<1>1. ASSUME NEW key \in Keys PROVE sessions[key] \in Sessions \/ sessions[key] = NoSession
  BY DEF BrokerTypes
<1>2. ASSUME NEW key \in Keys PROVE records[key] \in Records \/ records[key] = NoRecord
  BY DEF BrokerTypes
<1>3. None \in Nat
  BY DEF None
<1> QED BY <1>1, <1>2, <1>3, Forms DEF Live, Remembered

-----------------------------------------------------------------------------
(* Queues. *)

LEMMA WithinEmpty == Within(<<>>) = {}
  BY DEF Within

LEMMA WithinOne ==
    ASSUME NEW f \in Frames
    PROVE  <<f>> \in Seq(Frames) /\ Within(<<f>>) = {f}
  BY DEF Within

LEMMA WithinAppend ==
    ASSUME NEW q \in Seq(Frames), NEW f \in Frames
    PROVE  Append(q, f) \in Seq(Frames) /\ Within(Append(q, f)) = Within(q) \cup {f}
<1>1. /\ Append(q, f) \in Seq(Frames) /\ Len(Append(q, f)) = Len(q) + 1 /\ Len(q) \in Nat
      /\ \A i \in 1..Len(q) : Append(q, f)[i] = q[i]
      /\ Append(q, f)[Len(q) + 1] = f
  BY AppendProperties, LenProperties
<1>2. DOMAIN q = 1..Len(q) /\ DOMAIN Append(q, f) = 1..(Len(q) + 1)
  BY <1>1, LenProperties
<1>3. \A i \in DOMAIN Append(q, f) : i \in DOMAIN q \/ i = Len(q) + 1
  BY <1>1, <1>2
<1>4. Len(q) + 1 \in DOMAIN Append(q, f) /\ \A i \in DOMAIN q : i \in DOMAIN Append(q, f)
  BY <1>1, <1>2
<1> QED BY <1>1, <1>2, <1>3, <1>4 DEF Within

LEMMA WithinTail ==
    ASSUME NEW q \in Seq(Frames), q # <<>>
    PROVE  /\ Tail(q) \in Seq(Frames) /\ Within(Tail(q)) \subseteq Within(q)
           /\ Head(q) \in Frames /\ Head(q) \in Within(q)
<1>1. /\ Tail(q) \in Seq(Frames) /\ Len(Tail(q)) = Len(q) - 1 /\ Head(q) \in Frames
      /\ \A i \in 1..Len(Tail(q)) : Tail(q)[i] = q[i + 1]
      /\ Head(q) = q[1]
  BY HeadTailProperties
<1>2. Len(q) \in Nat \ {0} /\ DOMAIN q = 1..Len(q) /\ DOMAIN Tail(q) = 1..Len(Tail(q))
  BY <1>1, EmptySeq, LenProperties
<1>3. \A i \in DOMAIN Tail(q) : i + 1 \in DOMAIN q /\ Tail(q)[i] = q[i + 1]
  BY <1>1, <1>2
<1>4. 1 \in DOMAIN q
  BY <1>2
<1> QED BY <1>1, <1>3, <1>4 DEF Within

LEMMA WithinConcat ==
    ASSUME NEW q \in Seq(Frames), NEW r \in Seq(Frames)
    PROVE  q \o r \in Seq(Frames) /\ Within(q \o r) \subseteq Within(q) \cup Within(r)
<1>1. /\ q \o r \in Seq(Frames) /\ Len(q \o r) = Len(q) + Len(r)
      /\ \A i \in 1..(Len(q) + Len(r)) :
            (q \o r)[i] = IF i <= Len(q) THEN q[i] ELSE r[i - Len(q)]
  BY ConcatProperties
<1>2. /\ Len(q) \in Nat /\ Len(r) \in Nat /\ DOMAIN q = 1..Len(q) /\ DOMAIN r = 1..Len(r)
      /\ DOMAIN (q \o r) = 1..(Len(q) + Len(r))
  BY <1>1, LenProperties
<1>3. ASSUME NEW i \in DOMAIN (q \o r)
      PROVE  (q \o r)[i] \in Within(q) \cup Within(r)
  <2>1. CASE i <= Len(q)
    <3>1. i \in DOMAIN q /\ (q \o r)[i] = q[i]
      BY <1>1, <1>2, <1>3, <2>1
    <3> QED BY <3>1 DEF Within
  <2>2. CASE ~(i <= Len(q))
    <3>1. i - Len(q) \in DOMAIN r /\ (q \o r)[i] = r[i - Len(q)]
      BY <1>1, <1>2, <1>3, <2>2
    <3> QED BY <3>1 DEF Within
  <2> QED BY <2>1, <2>2
<1>4. \A f \in Within(q \o r) : \E i \in DOMAIN (q \o r) : f = (q \o r)[i]
  BY DEF Within
<1> QED BY <1>1, <1>3, <1>4

LEMMA FrameForms ==
    /\ \A code \in {1001, 1006, 1008, 1013, 4000, 4001} :
            Close(code) \in Frames /\ Close(code).type = "close"
    /\ \A type \in {"auth_init", "auth_challenge", "request"} :
            Frame(type) \in Frames /\ Frame(type).type = type
    /\ \A code \in {"RESET_REQUIRED", "INVALID_MESSAGE"} :
            [type |-> "rejected", code |-> code] \in Frames
    /\ \A secret \in Bindings : [type |-> "hello_ack", secret |-> secret] \in Frames
    /\ \A context \in Contexts : [type |-> "context.update", context |-> context] \in Frames
    /\ \A key \in Keys, secret \in Bindings \cup {None}, context \in Contexts :
            [type |-> "auth_response", key |-> key, secret |-> secret, context |-> context] \in Frames
  BY DEF Frames, Close, Frame

LEMMA FrameFields ==
    /\ \A f \in Frames : f.type = "hello_ack" => f.secret \in Bindings
    /\ \A f \in Frames : f.type = "context.update" => f.context \in Contexts
    /\ \A f \in Frames : f.type = "auth_response" =>
            f.key \in Keys /\ f.secret \in Bindings \cup {None} /\ f.context \in Contexts
  BY DEF Frames

(* What a queue may gain without consequence for client ids and secrets,   *)
(* and a queue that at most gains that.                                    *)
Plain == {"auth_init", "request", "context.update", "close"}
Keeps(x, q) ==
    /\ x \in [Conns -> Seq(Frames)]
    /\ \A k \in Conns : \A f \in Within(x[k]) : f \in Within(q[k]) \/ f.type \in Plain

LEMMA KeepsSame ==
    ASSUME FrameTypes PROVE Keeps(toBroker, toBroker) /\ Keeps(toPage, toPage)
  BY DEF Keeps, FrameTypes

LEMMA KeepsReplaced ==
    ASSUME NEW q \in [Conns -> Seq(Frames)], NEW k, NEW s \in Seq(Frames),
           \A f \in Within(s) : f.type \in Plain
    PROVE  Keeps([q EXCEPT ![k] = s], q)
<1>1. \A l \in Conns : [q EXCEPT ![k] = s][l] = IF l = k THEN s ELSE q[l]
  OBVIOUS
<1>2. [q EXCEPT ![k] = s] \in [Conns -> Seq(Frames)]
  OBVIOUS
<1> QED BY <1>1, <1>2 DEF Keeps

LEMMA KeepsTail ==
    ASSUME NEW q \in [Conns -> Seq(Frames)], NEW k \in Conns, q[k] # <<>>
    PROVE  Keeps([q EXCEPT ![k] = Tail(@)], q)
<1>1. Tail(q[k]) \in Seq(Frames) /\ Within(Tail(q[k])) \subseteq Within(q[k])
  BY WithinTail
<1>2. \A l \in Conns : [q EXCEPT ![k] = Tail(@)][l] = IF l = k THEN Tail(q[k]) ELSE q[l]
  OBVIOUS
<1>3. [q EXCEPT ![k] = Tail(@)] \in [Conns -> Seq(Frames)]
  BY <1>1
<1> QED BY <1>1, <1>2, <1>3 DEF Keeps

LEMMA KeepsAppend ==
    ASSUME NEW q \in [Conns -> Seq(Frames)], NEW k \in Conns, NEW f \in Frames, f.type \in Plain
    PROVE  Keeps([q EXCEPT ![k] = IF stage[k] = "closed" THEN <<>> ELSE Append(@, f)], q)
<1>1. Append(q[k], f) \in Seq(Frames) /\ Within(Append(q[k], f)) = Within(q[k]) \cup {f}
  BY WithinAppend
<1>2. <<>> \in Seq(Frames) /\ Within(<<>>) = {}
  BY EmptySeq, WithinEmpty
<1> DEFINE x == [q EXCEPT ![k] = IF stage[k] = "closed" THEN <<>> ELSE Append(@, f)]
<1>3. \A l \in Conns : x[l] = IF l = k THEN IF stage[k] = "closed" THEN <<>> ELSE Append(q[k], f)
                              ELSE q[l]
  OBVIOUS
<1>4. x \in [Conns -> Seq(Frames)]
  BY <1>1, <1>2
<1> QED BY <1>1, <1>2, <1>3, <1>4 DEF Keeps

LEMMA KeepsIgnored ==
    ASSUME FrameTypes, NEW ks PROVE Keeps(Ignored(ks), toBroker)
<1>1. <<>> \in Seq(Frames) /\ Within(<<>>) = {}
  BY EmptySeq, WithinEmpty
<1> QED BY <1>1 DEF Keeps, Ignored, FrameTypes

(* What is sent to the pages is added to their queues, or lost. *)
LEMMA SentFrames ==
    ASSUME FrameTypes, NEW fs \in [Conns -> Seq(Frames)]
    PROVE  /\ Sent(fs) \in [Conns -> Seq(Frames)]
           /\ \A k \in Conns : Within(Sent(fs)[k]) \subseteq Within(toPage[k]) \cup Within(fs[k])
<1>1. ASSUME NEW k \in Conns
      PROVE  Sent(fs)[k] \in Seq(Frames) /\ Within(Sent(fs)[k]) \subseteq Within(toPage[k]) \cup Within(fs[k])
  <2>1. CASE Attached(k)
    <3>1. Sent(fs)[k] = toPage[k] \o fs[k] /\ toPage[k] \in Seq(Frames) /\ fs[k] \in Seq(Frames)
      BY <2>1 DEF Sent, FrameTypes
    <3> QED BY <3>1, WithinConcat
  <2>2. CASE ~Attached(k)
    <3>1. Sent(fs)[k] = <<>>
      BY <2>2 DEF Sent
    <3> QED BY <3>1, EmptySeq, WithinEmpty
  <2> QED BY <2>1, <2>2
<1>2. Sent(fs) = [k \in Conns |-> Sent(fs)[k]]
  BY DEF Sent
<1> QED BY <1>1, <1>2

LEMMA OnFrames ==
    ASSUME NEW ks, NEW f \in Frames
    PROVE  /\ On(ks, f) \in [Conns -> Seq(Frames)]
           /\ \A k \in Conns : Within(On(ks, f)[k]) = IF k \in ks THEN {f} ELSE {}
<1>1. <<f>> \in Seq(Frames) /\ Within(<<f>>) = {f} /\ <<>> \in Seq(Frames) /\ Within(<<>>) = {}
  BY WithinOne, WithinEmpty, EmptySeq
<1>2. \A k \in Conns : On(ks, f)[k] = IF k \in ks THEN <<f>> ELSE <<>>
  BY DEF On
<1> QED BY <1>1, <1>2 DEF On

LEMMA KeepsSent ==
    ASSUME FrameTypes, NEW ks, NEW f \in Frames, f.type \in Plain
    PROVE  Keeps(Sent(On(ks, f)), toPage)
<1>1. /\ On(ks, f) \in [Conns -> Seq(Frames)]
      /\ \A k \in Conns : Within(On(ks, f)[k]) = IF k \in ks THEN {f} ELSE {}
  BY OnFrames
<1>2. /\ Sent(On(ks, f)) \in [Conns -> Seq(Frames)]
      /\ \A k \in Conns : Within(Sent(On(ks, f))[k]) \subseteq Within(toPage[k]) \cup Within(On(ks, f)[k])
  BY <1>1, SentFrames
<1> QED BY <1>1, <1>2 DEF Keeps

LEMMA KeepsClose ==
    ASSUME FrameTypes, NEW ks, NEW code \in {1001, 1006, 1008, 1013, 4000, 4001}
    PROVE  Keeps(Sent(On(ks, Close(code))), toPage)
  BY FrameForms, KeepsSent DEF Plain

-----------------------------------------------------------------------------
(* The broker's tables. *)

LEMMA FewerSessions ==
    ASSUME SessionLimit, MaxSessions \in Nat, Live' \subseteq Live
    PROVE  SessionLimit'
<1>1. IsFiniteSet(Live') /\ Cardinality(Live') <= Cardinality(Live)
  BY FS_Subset DEF SessionLimit
<1>2. Cardinality(Live) \in Nat /\ Cardinality(Live') \in Nat
  BY <1>1, FS_CardinalityType DEF SessionLimit
<1> QED BY <1>1, <1>2 DEF SessionLimit

LEMMA FewerRecords ==
    ASSUME RecordLimit, MaxSessions \in Nat, Remembered' \subseteq Remembered
    PROVE  RecordLimit'
<1>1. IsFiniteSet(Remembered') /\ Cardinality(Remembered') <= Cardinality(Remembered)
  BY FS_Subset DEF RecordLimit
<1>2. Cardinality(Remembered) \in Nat /\ Cardinality(Remembered') \in Nat
  BY <1>1, FS_CardinalityType DEF RecordLimit
<1> QED BY <1>1, <1>2 DEF RecordLimit

LEMMA MaxSessionsNat == MaxSessions \in Nat /\ MaxFaults \in Nat /\ MaxChanges \in Nat /\ MaxConns \in Nat
  BY SessionBounds

(* The sockets ks are closed and their sessions end. *)
LEMMA EndedTables ==
    ASSUME TypeInv, TablesInv, SessionLimit, RecordLimit,
           NEW ks \in SUBSET Conns,
           stage' = Closed(ks), sessions' = Without(ks), UNCHANGED <<records, bindings>>
    PROVE  BrokerTypes' /\ TablesInv' /\ SessionLimit' /\ RecordLimit'
           /\ \A key \in Keys : sessions'[key] = NoSession \/ sessions'[key] = sessions[key]
<1>1. ASSUME NEW k \in Conns
      PROVE  stage'[k] = IF k \in ks THEN "closed" ELSE stage[k]
  BY DEF Closed
<1>2. ASSUME NEW key \in Keys
      PROVE  sessions'[key] = IF sessions[key].conn \in ks THEN NoSession ELSE sessions[key]
  BY DEF Without
<1>3. BrokerTypes'
  <2>1. stage' \in [Conns -> Stages]
    BY DEF Closed, Stages, TypeInv, BrokerTypes
  <2>2. sessions' \in [Keys -> Sessions \cup {NoSession}]
    BY DEF Without, TypeInv, BrokerTypes
  <2> QED BY <2>1, <2>2 DEF TypeInv, BrokerTypes
<1>4. ASSUME NEW key \in Keys
      PROVE  key \in Live' <=> key \in Live /\ sessions[key].conn \notin ks
  <2>1. BrokerTypes
    BY DEF TypeInv
  <2> QED BY <1>2, <1>3, <2>1, LiveForms, Forms DEF Live
<1>5. Live' \subseteq Live
  BY <1>4 DEF Live
<1>6. Remembered' = Remembered
  BY DEF Remembered
<1>7. TablesInv'
  <2>1. ASSUME NEW k \in Conns, stage'[k] \in {"audit", "open"}
        PROVE  \E key \in Live' : sessions'[key].conn = k
    <3>1. k \notin ks /\ stage[k] \in {"audit", "open"}
      BY <1>1, <2>1
    <3>2. PICK key \in Live : sessions[key].conn = k
      BY <3>1 DEF TablesInv
    <3>3. key \in Keys
      BY DEF Live
    <3> QED BY <1>2, <1>4, <3>1, <3>2, <3>3
  <2>2. ASSUME NEW key \in Live'
        PROVE  /\ stage'[sessions'[key].conn] \in {"audit", "open"}
               /\ records'[key] \in Records
               /\ records'[key].binding = sessions'[key].binding
               /\ records'[key].generation = sessions'[key].generation
    <3>1. key \in Keys /\ key \in Live /\ sessions[key].conn \notin ks /\ sessions'[key] = sessions[key]
      BY <1>2, <1>4, <1>5 DEF Live
    <3>2. sessions[key].conn \in Conns
      BY <3>1, LiveForms, Forms DEF TypeInv
    <3> QED BY <1>1, <3>1, <3>2 DEF TablesInv
  <2>3. ASSUME NEW key \in Live', NEW other \in Live', sessions'[key].conn = sessions'[other].conn
        PROVE  key = other
    <3>1. /\ key \in Keys /\ other \in Keys /\ key \in Live /\ other \in Live
          /\ sessions'[key] = sessions[key] /\ sessions'[other] = sessions[other]
      BY <1>2, <1>4, <1>5 DEF Live
    <3> QED BY <2>3, <3>1 DEF TablesInv
  <2>4. \A key \in Keys : records'[key].binding <= bindings'
    BY DEF TablesInv
  <2> QED BY <2>1, <2>2, <2>3, <2>4 DEF TablesInv
<1>8. SessionLimit' /\ RecordLimit'
  BY <1>5, <1>6, FewerSessions, FewerRecords, MaxSessionsNat
<1> QED BY <1>2, <1>3, <1>7, <1>8

LEMMA SameTables ==
    ASSUME BrokerTypes, TablesInv, SessionLimit, RecordLimit, UNCHANGED brokerVars
    PROVE  BrokerTypes' /\ TablesInv' /\ SessionLimit' /\ RecordLimit'
<1> USE DEF brokerVars
<1>1. Live' = Live /\ Remembered' = Remembered
  BY DEF Live, Remembered
<1> QED BY <1>1 DEF BrokerTypes, TablesInv, SessionLimit, RecordLimit

-----------------------------------------------------------------------------
(* Snapshots. *)

(* What a step may do to the record and to the session of a page: a        *)
(* binding that is replaced does not come back, and a session that is not  *)
(* the one of before has a generation of its own.                          *)
RecordAdvances(key) ==
    \/ records'[key].binding = None
    \/ records'[key].binding > bindings
    \/ /\ records'[key].binding = records[key].binding
       /\ key \in Remembered => records'[key].generation >= records[key].generation

Updated(s, t) ==
    /\ t.conn = s.conn /\ t.binding = s.binding /\ t.generation = s.generation
    /\ GuardOf[t.context] = GuardOf[s.context] /\ t.version = s.version + 1

SessionAdvances(key, s) ==
    \/ s = NoSession
    \/ s = sessions[key]
    \/ s.binding > bindings
    \/ s.binding = records[key].binding /\ s.generation > records[key].generation
    \/ key \in Live /\ Updated(sessions[key], s)

LEMMA SnapStep ==
    ASSUME TypeInv, TablesInv, SnapInv, NEW ss \in [Keys -> Sessions \cup {NoSession}],
           SetSessions(ss), bindings' \in Nat, bindings' >= bindings,
           records' \in [Keys -> Records \cup {NoRecord}],
           \A key \in Keys : RecordAdvances(key) /\ SessionAdvances(key, ss[key])
    PROVE  SnapInv' /\ snap' \in Snapshots \cup {NoSnapshot}
<1>0. BrokerTypes /\ sessions' = ss
  BY DEF TypeInv, SetSessions
<1>1. CASE snap = NoSnapshot
  BY <1>1 DEF SetSessions, SnapInv
<1>2. CASE snap # NoSnapshot
  <2> DEFINE key == snap.key
             then == snap.session
             now == ss[key]
  <2>1. snap \in Snapshots
    BY <1>2 DEF TypeInv, OtherTypes
  <2>2. key \in Keys /\ then \in Sessions /\ snap.kind \in {"action", "read"} /\ snap.changed \in BOOLEAN
    BY <2>1 DEF Snapshots
  <2>3. /\ snap' \in Snapshots /\ snap'.key = key /\ snap'.session = then /\ snap'.kind = snap.kind
        /\ snap'.changed <=> (snap.changed \/ ~SameSubject(sessions[key], now, snap.kind))
    <3>1. snap' = [snap EXCEPT !.changed = @ \/ ~SameSubject(sessions[key], now, snap.kind)]
      BY <1>2 DEF SetSessions
    <3>2. (snap.changed \/ ~SameSubject(sessions[key], now, snap.kind)) \in BOOLEAN
      OBVIOUS
    <3> HIDE DEF key, now
    <3>3. DOMAIN snap = {"key", "session", "kind", "changed"}
      BY <2>1 DEF Snapshots
    <3>4. /\ snap'.key = snap.key /\ snap'.session = snap.session /\ snap'.kind = snap.kind
          /\ snap'.changed = (snap.changed \/ ~SameSubject(sessions[key], now, snap.kind))
      BY <3>1, <3>3, Zenon
    <3>5. snap' \in Snapshots
      BY <2>1, <3>1, <3>2 DEF Snapshots
    <3> QED BY <3>4, <3>5 DEF key
  <2> HIDE DEF now
  <2>4. /\ then.binding \in Nat /\ then.generation \in Nat /\ then.version \in Nat
        /\ then.binding # None
    BY <2>2 DEF Sessions, Bindings, None
  <2>5. /\ then.binding <= bindings
        /\ records[key].binding = then.binding => records[key].generation >= then.generation
        /\ key \in Live /\ sessions[key].binding = then.binding
           /\ sessions[key].generation = then.generation => Following(snap, sessions[key])
    BY <1>2 DEF SnapInv
  <2>6. bindings \in Nat /\ records[key].binding \in Nat
        /\ (key \in Remembered => records[key].generation \in Nat)
        /\ (records[key].binding = then.binding => key \in Remembered)
        /\ (key \in Live <=> sessions[key] \in Sessions)
        /\ (sessions[key] \in Sessions \/ sessions[key] = NoSession)
    <3>1. key \in Remembered => records[key].generation \in Nat
      BY <1>0, <2>2, LiveForms DEF Records
    <3>2. records[key].binding = then.binding => key \in Remembered
      BY <1>0, <2>2, <2>4, LiveForms
    <3>3. key \in Live <=> sessions[key] \in Sessions
      BY <1>0, <2>2, LiveForms
    <3>4. bindings \in Nat /\ records[key].binding \in Nat
      BY <1>0, <2>2, LiveForms DEF BrokerTypes
    <3>5. sessions[key] \in Sessions \/ sessions[key] = NoSession
      BY <1>0, <2>2 DEF BrokerTypes
    <3> QED BY <3>1, <3>2, <3>3, <3>4, <3>5
  <2>7. then.binding <= bindings'
    BY <2>4, <2>5, <2>6
  <2>8. ASSUME records'[key].binding = then.binding PROVE records'[key].generation >= then.generation
    <3>1. RecordAdvances(key)
      BY <2>2
    <3>2. records'[key].binding = records[key].binding /\ records'[key].generation >= records[key].generation
      BY <2>8, <3>1, <2>4, <2>5, <2>6 DEF RecordAdvances
    <3>3. records[key].binding = then.binding /\ records[key].generation >= then.generation
      BY <2>8, <3>2, <2>5
    <3>4. records[key].generation \in Nat /\ then.generation \in Nat
      BY <2>4, <2>6, <3>3
    <3>5. \A g : g >= records[key].generation /\ records[key].generation >= then.generation
                    /\ g \in Nat => g >= then.generation
      BY <3>4
    <3>6. records'[key].generation \in Nat
      <4>1. records'[key] \in Records
        BY <2>2, <2>4, <2>8, Forms
      <4> QED BY <4>1 DEF Records
    <3> QED BY <3>2, <3>3, <3>5, <3>6
  <2>9. ASSUME key \in Live', now.binding = then.binding, now.generation = then.generation
        PROVE  Following(snap', now)
    <3>1. now # NoSession /\ now \in Sessions
      BY <1>0, <2>2, <2>9 DEF Live, now
    <3>2. SessionAdvances(key, now)
      BY <2>2 DEF now
    <3>3. now.version \in Nat
      BY <3>1 DEF Sessions
    <3>4. CASE now = sessions[key]
      <4>1. SameSubject(sessions[key], now, snap.kind)
        BY <3>1, <3>4 DEF SameSubject
      <4>2. snap'.changed <=> snap.changed
        BY <2>3, <4>1
      <4>3. Following(snap, now)
        BY <2>5, <2>6, <2>9, <3>1, <3>4
      <4> QED BY <2>3, <4>2, <4>3 DEF Following
    <3>5. CASE key \in Live /\ Updated(sessions[key], now)
      <4>1. Following(snap, sessions[key])
        BY <2>5, <2>9, <3>5 DEF Updated
      <4>2. sessions[key] \in Sessions /\ sessions[key] # NoSession /\ sessions[key].version \in Nat
        BY <2>6, <3>5, Forms DEF Sessions
      <4>3. now.version > then.version
        BY <2>4, <3>5, <4>1, <4>2 DEF Updated, Following
      <4>4. snap.kind # "read" => SameSubject(sessions[key], now, snap.kind)
        BY <3>1, <3>5, <4>2 DEF SameSubject, Updated
      <4>5. snap'.changed => snap'.kind = "read" /\ now.version > snap'.session.version
        BY <2>3, <4>1, <4>3, <4>4 DEF Following
      <4>6. now.conn = then.conn /\ GuardOf[now.context] = GuardOf[then.context]
        BY <3>5, <4>1 DEF Updated, Following
      <4>7. now.version >= then.version /\ now.version # then.version
        BY <2>4, <3>3, <4>3
      <4> QED BY <2>3, <4>5, <4>6, <4>7 DEF Following
    <3>6. CASE now.binding > bindings
      BY <2>4, <2>5, <2>6, <2>9, <3>6
    <3>7. CASE now.binding = records[key].binding /\ now.generation > records[key].generation
      BY <2>4, <2>5, <2>6, <2>9, <3>7
    <3> QED BY <3>1, <3>2, <3>4, <3>5, <3>6, <3>7 DEF SessionAdvances
  <2>10. SnapInv'
    BY <1>0, <2>3, <2>7, <2>8, <2>9 DEF SnapInv, now
  <2> QED BY <2>3, <2>10
<1> QED BY <1>1, <1>2

LEMMA SnapEnds ==
    ASSUME TypeInv, TablesInv, SnapInv, NEW ss \in [Keys -> Sessions \cup {NoSession}],
           SetSessions(ss), UNCHANGED <<records, bindings>>,
           \A key \in Keys : ss[key] = NoSession \/ ss[key] = sessions[key]
    PROVE  SnapInv' /\ snap' \in Snapshots \cup {NoSnapshot}
<1>1. bindings' \in Nat /\ bindings' >= bindings
  BY DEF TypeInv, BrokerTypes
<1>2. records' \in [Keys -> Records \cup {NoRecord}]
  BY DEF TypeInv, BrokerTypes
<1>3. ASSUME NEW key \in Keys
      PROVE  RecordAdvances(key) /\ SessionAdvances(key, ss[key])
  <2>1. key \in Remembered => records[key].generation \in Nat
    BY LiveForms DEF TypeInv, Records
  <2> QED BY <2>1 DEF RecordAdvances, SessionAdvances
<1> QED BY <1>1, <1>2, <1>3, SnapStep

LEMMA SnapSame ==
    ASSUME SnapInv, UNCHANGED <<sessions, bindings, snap>>,
           \A key \in Keys : records'[key].binding = None \/ records'[key] = records[key],
           snap \in Snapshots \cup {NoSnapshot}
    PROVE  SnapInv'
<1>1. Live' = Live
  BY DEF Live
<1>2. CASE snap = NoSnapshot
  BY <1>2 DEF SnapInv
<1>3. CASE snap # NoSnapshot
  <2>1. snap.key \in Keys /\ snap.session \in Sessions
    BY <1>3 DEF Snapshots
  <2>2. snap.session.binding # None
    BY <2>1 DEF Sessions, Bindings, None
  <2> QED BY <1>1, <1>3, <2>1, <2>2 DEF SnapInv, Following
<1> QED BY <1>2, <1>3

-----------------------------------------------------------------------------
(* Both ends of a socket. *)

(* Frames to the pages that are of no consequence for the handshakes. *)
Mild(x, q) ==
    \A k \in Conns : \A f \in Within(x[k]) : f \in Within(q[k]) \/ f.type \in Plain \cup {"rejected"}

LEMMA KeepsMild == \A x, q : Keeps(x, q) => Mild(x, q)
  BY DEF Keeps, Mild

(* Steps of the broker that leave the handshakes as they are, or end them. *)
Quiet ==
    /\ client' = client
    /\ Keeps(toBroker', toBroker) /\ Mild(toPage', toPage)
    /\ \A k \in Conns :
        \/ stage'[k] = stage[k]
        \/ stage'[k] = "closed" /\ toBroker'[k] = <<>>
    /\ \A key \in Keys : sessions'[key].conn = sessions[key].conn \/ sessions'[key].conn = None

LEMMA PlainTypes ==
    \A type \in Plain : type \notin {"auth_challenge", "hello_ack", "auth_response", "rejected"}
  BY DEF Plain

LEMMA QuietSockets ==
    ASSUME TypeInv, SocketsInv, Quiet
    PROVE  SocketsInv'
<1>1. ASSUME NEW k \in Conns, NEW f \in Within(toPage'[k]), f.type \in {"auth_challenge", "hello_ack"}
      PROVE  f \in Within(toPage[k])
  BY <1>1, PlainTypes DEF Quiet, Mild
<1>2. ASSUME NEW k \in Conns, NEW f \in Within(toBroker'[k]), f.type \notin Plain
      PROVE  f \in Within(toBroker[k]) /\ stage'[k] = stage[k]
  BY <1>2, WithinEmpty DEF Quiet, Keeps
<1>3. \A p, q \in Pages : client'[p].socket = client'[q].socket /\ client'[p].socket # None => p = q
  BY DEF Quiet, SocketsInv
<1>4. ASSUME NEW k \in Conns
      PROVE  /\ \A f \in Within(toPage'[k]) : f.type = "auth_challenge" => stage'[k] # "init"
             /\ \A f \in Within(toPage'[k]) : f.type = "hello_ack" => stage'[k] \in {"open", "closed"}
             /\ \A f \in Within(toBroker'[k]) : f.type = "auth_response" => stage'[k] = "proof"
  <2>1. stage'[k] = stage[k] \/ stage'[k] = "closed"
    BY DEF Quiet
  <2> QED BY <1>1, <1>2, <2>1, PlainTypes DEF SocketsInv
<1>5. ASSUME NEW p \in Pages, NEW k \in Conns, client'[p].socket = k
      PROVE  /\ client'[p].state = "await_challenge" => stage'[k] \in {"closed", "init", "proof"}
             /\ \A f \in Within(toBroker'[k]) : f.type = "auth_response" =>
                 /\ client'[p].state # "await_challenge"
                 /\ f.key = <<p, client'[p].ident>> /\ f.secret = client'[p].secret
             /\ \A key \in Keys : sessions'[key].conn = k => key = <<p, client'[p].ident>>
  <2>1. client' = client /\ client[p].socket = k
    BY <1>5 DEF Quiet
  <2>2. stage'[k] = stage[k] \/ stage'[k] = "closed"
    BY DEF Quiet
  <2>3. k # None
    BY Forms
  <2>4. \A key \in Keys : sessions'[key].conn = k => sessions[key].conn = k
    BY <2>3 DEF Quiet
  <2> QED BY <1>2, <2>1, <2>2, <2>4, PlainTypes DEF SocketsInv
<1> QED BY <1>3, <1>4, <1>5 DEF SocketsInv

(* A page becomes stale only with a fault. *)
LEMMA StaleIdents ==
    ASSUME TypeInv, IdentsInv, faults' = faults + 1, faults' \in Nat,
           \A p \in Pages : client'[p].ident = client[p].ident
    PROVE  IdentsInv'
<1>1. ASSUME NEW p \in Pages
      PROVE  client'[p].ident <= faults' + 1 /\ client'[p].ident <= faults'
  <2>1. client[p].ident \in Nat /\ faults \in Nat
    BY SessionBounds DEF TypeInv, PageTypes, OtherTypes, Clients, Idents
  <2>2. client[p].ident <= faults + 1
    BY DEF IdentsInv
  <2> QED BY <2>1, <2>2
<1> QED BY <1>1 DEF IdentsInv

LEMMA KeptIdents ==
    ASSUME TypeInv, IdentsInv, faults' = faults,
           \A p \in Pages : client'[p].ident = client[p].ident /\ (Stale(p)' => Stale(p))
    PROVE  IdentsInv'
<1>1. ASSUME NEW p \in Pages
      PROVE  client'[p].ident <= faults' + 1 /\ (Stale(p)' => client'[p].ident <= faults')
  BY DEF IdentsInv
<1> QED BY <1>1 DEF IdentsInv

LEMMA QuietIdents ==
    ASSUME TypeInv, IdentsInv, client' = client, Keeps(toPage', toPage),
           \/ faults' = faults + 1 /\ faults' \in Nat
           \/ /\ faults' = faults
              /\ \A key \in Keys :
                    records'[key].binding = records[key].binding \/ records[key].binding = None
    PROVE  IdentsInv'
<1>1. CASE faults' = faults + 1 /\ faults' \in Nat
  BY <1>1, StaleIdents
<1>2. CASE /\ faults' = faults
           /\ \A key \in Keys :
                 records'[key].binding = records[key].binding \/ records[key].binding = None
  <2>1. ASSUME NEW p \in Pages, Stale(p)' PROVE Stale(p)
    <3>1. <<p, client[p].ident>> \in Keys
      BY DEF Keys, TypeInv, PageTypes, Clients
    <3>2. ASSUME NEW secret, Outdated(p, secret)' PROVE Outdated(p, secret)
      BY <1>2, <3>1, <3>2 DEF Outdated
    <3>3. Outdated(p, client[p].secret)' => Outdated(p, client[p].secret)
      BY <3>2 DEF Outdated
    <3>4. CASE Outdated(p, client[p].secret)'
      BY <3>3, <3>4 DEF Stale
    <3>5. ASSUME NEW k \in Conns, client'[p].socket = k, NEW f \in Within(toPage'[k]),
                 \/ f.type = "hello_ack" /\ Outdated(p, f.secret)'
                 \/ f.type = "rejected" /\ f.code = "RESET_REQUIRED"
          PROVE  Stale(p)
      <4>1. f \in Within(toPage[k]) /\ client[p].socket = k
        BY <3>5, PlainTypes DEF Keeps
      <4> QED BY <3>2, <3>5, <4>1 DEF Stale
    <3> QED BY <2>1, <3>4, <3>5 DEF Stale
  <2> QED BY <1>2, <2>1, KeptIdents
<1> QED BY <1>1, <1>2

-----------------------------------------------------------------------------
(* Steps of a page. *)

LEMMA FaultBounds ==
    ASSUME OtherTypes, Fault
    PROVE  faults' = faults + 1 /\ faults' \in 0..MaxFaults /\ changes' = changes
  BY MaxSessionsNat DEF OtherTypes, Fault

LEMMA PageStepInv ==
    ASSUME CoreInv, UNCHANGED <<brokerVars, snap>>, FrameTypes', PageTypes',
           faults' \in 0..MaxFaults, changes' \in 0..MaxChanges, SocketsInv', IdentsInv'
    PROVE  CoreInv'
<1>1. BrokerTypes' /\ TablesInv' /\ SessionLimit' /\ RecordLimit'
  BY SameTables DEF CoreInv, TypeInv
<1>2. snap \in Snapshots \cup {NoSnapshot} /\ UNCHANGED <<sessions, records, bindings>>
  BY DEF CoreInv, TypeInv, OtherTypes, brokerVars
<1>3. SnapInv'
  BY <1>2, SnapSame DEF CoreInv
<1>4. OtherTypes'
  BY <1>2 DEF OtherTypes
<1> QED BY <1>1, <1>3, <1>4 DEF CoreInv, TypeInv

LEMMA ClientFields ==
    ASSUME PageTypes, NEW p \in Pages
    PROVE  /\ client[p] \in Clients /\ client[p].socket \in Conns \cup {None}
           /\ client[p].ident \in Idents /\ client[p].secret \in Bindings \cup {None}
           /\ <<p, client[p].ident>> \in Keys
  BY DEF PageTypes, Clients, Keys

LEMMA ClientTypes ==
    ASSUME PageTypes, NEW p \in Pages, NEW c \in Clients, client' = [client EXCEPT ![p] = c],
           live' \in [Pages -> Contexts], dirty' \in [Pages -> BOOLEAN],
           Consistent(c)
    PROVE  PageTypes' /\ client'[p] = c /\ \A q \in Pages : q # p => client'[q] = client[q]
<1>1. client'[p] = c /\ \A q \in Pages : q # p => client'[q] = client[q]
  BY DEF PageTypes
<1>2. client' \in [Pages -> Clients]
  BY DEF PageTypes
<1>3. \A q \in Pages : Consistent(client'[q])
  BY <1>1 DEF PageTypes
<1> QED BY <1>1, <1>2, <1>3 DEF PageTypes

(* The page p leaves its socket, if it has one. *)
Left(p, c) ==
    /\ client' = [client EXCEPT ![p] = c]
    /\ c \in Clients /\ c.socket = None /\ c.state \in Away
    /\ Keeps(toBroker', toBroker) /\ Keeps(toPage', toPage)
    /\ UNCHANGED <<stage, sessions, records>>

LEMMA AwayConsistent == \A c : c.socket = None /\ c.state \in Away => Consistent(c)
  BY DEF Consistent, Away

LEMMA LeftSockets ==
    ASSUME TypeInv, SocketsInv, NEW p \in Pages, NEW c, Left(p, c)
    PROVE  SocketsInv'
<1>1. client'[p] = c /\ \A q \in Pages : q # p => client'[q] = client[q]
  BY DEF Left, TypeInv, PageTypes
<1>2. ASSUME NEW q \in Pages, client'[q].socket # None PROVE q # p /\ client'[q] = client[q]
  BY <1>1, <1>2 DEF Left
<1>3. ASSUME NEW k \in Conns
      PROVE  /\ \A f \in Within(toPage'[k]) : f.type \in Plain \/ f \in Within(toPage[k])
             /\ \A f \in Within(toBroker'[k]) : f.type \in Plain \/ f \in Within(toBroker[k])
             /\ k # None
  BY Forms DEF Left, Keeps
<1>4. \A q, r \in Pages : client'[q].socket = client'[r].socket /\ client'[q].socket # None => q = r
  BY <1>2 DEF SocketsInv
<1>5. ASSUME NEW k \in Conns
      PROVE  /\ \A f \in Within(toPage'[k]) : f.type = "auth_challenge" => stage'[k] # "init"
             /\ \A f \in Within(toPage'[k]) : f.type = "hello_ack" => stage'[k] \in {"open", "closed"}
             /\ \A f \in Within(toBroker'[k]) : f.type = "auth_response" => stage'[k] = "proof"
  BY <1>3, PlainTypes DEF SocketsInv, Left
<1>6. ASSUME NEW q \in Pages, NEW k \in Conns, client'[q].socket = k
      PROVE  /\ client'[q].state = "await_challenge" => stage'[k] \in {"closed", "init", "proof"}
             /\ \A f \in Within(toBroker'[k]) : f.type = "auth_response" =>
                 /\ client'[q].state # "await_challenge"
                 /\ f.key = <<q, client'[q].ident>> /\ f.secret = client'[q].secret
             /\ \A key \in Keys : sessions'[key].conn = k => key = <<q, client'[q].ident>>
  <2>1. client'[q] = client[q] /\ client[q].socket = k
    BY <1>2, <1>3, <1>6
  <2> QED BY <1>3, <2>1, PlainTypes DEF SocketsInv, Left
<1> QED BY <1>4, <1>5, <1>6 DEF SocketsInv

LEMMA LeftIdents ==
    ASSUME TypeInv, IdentsInv, NEW p \in Pages, NEW c, Left(p, c), faults' \in Nat,
           \/ /\ faults' \in {faults, faults + 1}
              /\ c.ident = client[p].ident /\ c.secret = client[p].secret
           \/ /\ (faults' = faults + 1 \/ (faults' = faults /\ Stale(p)))
              /\ c.ident = client[p].ident + 1 /\ c.secret = None
    PROVE  IdentsInv'
<1>1. client'[p] = c /\ \A q \in Pages : q # p => client'[q] = client[q]
  BY DEF Left, TypeInv, PageTypes
<1>2. faults \in Nat /\ \A q \in Pages : client[q].ident \in Nat
  BY SessionBounds DEF TypeInv, PageTypes, OtherTypes, Clients, Idents
<1>3. ASSUME NEW q \in Pages, q # p, Stale(q)' PROVE Stale(q)
  <2>1. client'[q] = client[q]
    BY <1>1, <1>3
  <2>2. CASE Outdated(q, client[q].secret)'
    BY <2>1, <2>2 DEF Outdated, Left, Stale
  <2>3. ASSUME NEW k \in Conns, client'[q].socket = k, NEW f \in Within(toPage'[k]),
               \/ f.type = "hello_ack" /\ Outdated(q, f.secret)'
               \/ f.type = "rejected" /\ f.code = "RESET_REQUIRED"
        PROVE  Stale(q)
    <3>1. f \in Within(toPage[k])
      BY <2>3, PlainTypes DEF Left, Keeps
    <3> QED BY <2>1, <2>3, <3>1 DEF Stale, Outdated, Left
  <2> QED BY <1>3, <2>2, <2>3 DEF Stale
<1>4. ASSUME Stale(p)' PROVE c.secret # None /\ (c.ident = client[p].ident => Outdated(p, c.secret))
  <2>1. \A k \in Conns : client'[p].socket # k
    BY <1>1, Forms DEF Left
  <2>2. Outdated(p, client[p].secret)'
    BY <1>4, <2>1 DEF Stale
  <2> QED BY <1>1, <2>2 DEF Outdated, Left
<1>5. ASSUME NEW q \in Pages
      PROVE  client'[q].ident <= faults' + 1 /\ (Stale(q)' => client'[q].ident <= faults')
  <2>0. client[q].ident <= faults + 1 /\ (Stale(q) => client[q].ident <= faults)
    BY DEF IdentsInv
  <2>1. CASE q # p
    <3>1. client'[q] = client[q] /\ faults' >= faults
      BY <1>1, <1>2, <2>1
    <3> QED BY <1>2, <1>3, <2>0, <2>1, <3>1
  <2>2. CASE q = p /\ c.ident = client[p].ident /\ c.secret = client[p].secret
    <3>1. Stale(p)' => Stale(p)
      BY <1>4, <2>2 DEF Stale
    <3>2. faults' >= faults
      BY <1>2, <2>2, SessionBounds
    <3>3. client'[q].ident = client[q].ident
      BY <1>1, <2>2
    <3> QED BY <1>2, <2>0, <2>2, <3>1, <3>2, <3>3
  <2>3. CASE q = p /\ c.ident = client[p].ident + 1 /\ c.secret = None
    <3>1. ~Stale(p)'
      BY <1>4, <2>3
    <3>2. client'[p].ident = client[p].ident + 1
      BY <1>1, <2>3
    <3>3. c.ident # client[p].ident
      BY <1>2, <2>3
    <3>4. faults' = faults + 1 \/ (faults' = faults /\ Stale(p))
      BY <3>3
    <3> QED BY <1>2, <2>0, <2>3, <3>1, <3>2, <3>4
  <2> QED BY <2>1, <2>2, <2>3
<1> QED BY <1>5 DEF IdentsInv

LEMMA LeaveLeft ==
    ASSUME TypeInv, NEW p \in Pages, NEW c \in Clients, client[p].socket \in Conns, Leave(p, c),
           c.state \in Away, UNCHANGED <<stage, sessions, records>>
    PROVE  Left(p, [c EXCEPT !.socket = None, !.context = None]) /\ FrameTypes'
<1>1. [c EXCEPT !.socket = None, !.context = None] \in Clients
  BY DEF Clients
<1>2. /\ [c EXCEPT !.socket = None, !.context = None].socket = None
      /\ [c EXCEPT !.socket = None, !.context = None].state = c.state
  BY DEF Clients
<1>3. Close(1006) \in Frames /\ Close(1006).type \in Plain
  BY FrameForms DEF Plain
<1>4. toBroker \in [Conns -> Seq(Frames)] /\ toPage \in [Conns -> Seq(Frames)]
  BY DEF TypeInv, FrameTypes
<1>5. Keeps(toBroker', toBroker)
  <2> DEFINE k == client[p].socket
             f == Close(1006)
  <2>1. toBroker' = [toBroker EXCEPT ![k] = IF stage[k] = "closed" THEN <<>> ELSE Append(@, f)]
    BY DEF Leave, Reply
  <2>2. k \in Conns /\ f \in Frames /\ f.type \in Plain
    BY <1>3
  <2> HIDE DEF k, f
  <2> QED BY <1>4, <2>1, <2>2, KeepsAppend
<1>6. Keeps(toPage', toPage)
  <2>1. <<>> \in Seq(Frames) /\ \A f \in Within(<<>>) : f.type \in Plain
    BY WithinEmpty, EmptySeq
  <2> QED BY <1>4, <2>1, KeepsReplaced DEF Leave
<1>7. client' = [client EXCEPT ![p] = [c EXCEPT !.socket = None, !.context = None]]
  BY DEF Leave, Set
<1> QED BY <1>1, <1>2, <1>5, <1>6, <1>7 DEF Left, Keeps, FrameTypes

LEMMA LeaveInv ==
    ASSUME CoreInv, NEW p \in Pages, NEW c \in Clients, client[p].socket \in Conns, Leave(p, c),
           c.state \in Away, UNCHANGED <<brokerVars, snap>>,
           live' \in [Pages -> Contexts], dirty' \in [Pages -> BOOLEAN],
           faults' \in 0..MaxFaults, changes' \in 0..MaxChanges,
           \/ /\ faults' \in {faults, faults + 1}
              /\ c.ident = client[p].ident /\ c.secret = client[p].secret
           \/ /\ (faults' = faults + 1 \/ (faults' = faults /\ Stale(p)))
              /\ c.ident = client[p].ident + 1 /\ c.secret = None
    PROVE  CoreInv'
<1> DEFINE d == [c EXCEPT !.socket = None, !.context = None]
<1>1. UNCHANGED <<stage, sessions, records>>
  BY DEF brokerVars
<1>2. TypeInv /\ SocketsInv /\ IdentsInv /\ PageTypes
  BY DEF CoreInv, TypeInv
<1>3. Left(p, d) /\ FrameTypes'
  BY <1>1, <1>2, LeaveLeft
<1>4. d.ident = c.ident /\ d.secret = c.secret /\ d.state = c.state /\ faults' \in Nat
  BY MaxSessionsNat DEF Clients
<1> HIDE DEF d
<1>5. SocketsInv'
  BY <1>2, <1>3, LeftSockets
<1>6. IdentsInv'
  BY <1>2, <1>3, <1>4, LeftIdents
<1>7. PageTypes'
  BY <1>2, <1>3, <1>4, ClientTypes, AwayConsistent DEF Left
<1> QED BY <1>3, <1>5, <1>6, <1>7, PageStepInv

LEMMA WaitingSocket ==
    ASSUME TypeInv, NEW p \in Pages, NEW states, NEW types, Waiting(p, states, types)
    PROVE  /\ client[p].socket \in Conns /\ toPage[client[p].socket] # <<>>
           /\ toPage[client[p].socket] \in Seq(Frames)
           /\ Head(toPage[client[p].socket]) \in Frames
           /\ Head(toPage[client[p].socket]) \in Within(toPage[client[p].socket])
           /\ Head(toPage[client[p].socket]).type \in types
           /\ client[p].state \in states
<1>1. client[p].socket \in Conns /\ toPage[client[p].socket] # <<>>
  BY ClientFields DEF Waiting, TypeInv
<1>2. toPage[client[p].socket] \in Seq(Frames)
  BY <1>1 DEF TypeInv, FrameTypes
<1> QED BY <1>1, <1>2, WithinTail DEF Waiting

(* The page goes on with a client id it did not have. *)
LEMMA NewClient ==
    ASSUME NEW old \in Clients, NEW resets \in 0..1, old.ident + 1 \in Idents
    PROVE  LET new == [old EXCEPT !.state = "idle", !.resets = resets, !.secret = None, !.ident = @ + 1]
           IN  /\ new \in Clients /\ new.ident = old.ident + 1 /\ new.secret = None
               /\ new.state \in Away /\ new.socket = old.socket
<1> DEFINE i == old.ident + 1
           new == [old EXCEPT !.state = "idle", !.resets = resets, !.secret = None, !.ident = i]
<1>1. i \in Idents /\ "idle" \in States
  BY DEF States
<1> HIDE DEF i
<1>2. new \in Clients /\ new.ident = i /\ new.secret = None /\ new.state = "idle" /\ new.socket = old.socket
  BY <1>1 DEF Clients
<1> QED BY <1>2 DEF i, Away

LEMMA HelloRejectedInv ==
    ASSUME CoreInv, NEW p \in Pages, HelloRejected(p) PROVE CoreInv'
<1>0. TypeInv /\ PageTypes /\ OtherTypes /\ client[p] \in Clients /\ IdentsInv
  BY ClientFields DEF CoreInv, TypeInv
<1> DEFINE f == Head(toPage[client[p].socket])
           old == [client[p] EXCEPT !.state = "rejected"]
           new == [client[p] EXCEPT !.state = "idle", !.resets = 1, !.secret = None, !.ident = @ + 1]
<1>1. /\ client[p].socket \in Conns /\ f \in Within(toPage[client[p].socket])
      /\ f.type = "rejected"
  BY <1>0, WaitingSocket DEF HelloRejected
<1>2. /\ UNCHANGED <<brokerVars, snap>> /\ UNCHANGED <<live, dirty, faults, changes>>
  BY DEF HelloRejected, boundVars
<1>3. /\ live' \in [Pages -> Contexts] /\ dirty' \in [Pages -> BOOLEAN]
      /\ faults' \in 0..MaxFaults /\ changes' \in 0..MaxChanges /\ faults' = faults
  BY <1>0, <1>2 DEF PageTypes, OtherTypes
<1>4. CASE f.code = "RESET_REQUIRED" /\ client[p].resets = 0
  <2>1. Stale(p)
    BY <1>1, <1>4 DEF Stale
  <2>2. client[p].ident \in Nat /\ client[p].ident <= faults /\ faults \in 0..MaxFaults /\ client[p].ident >= 1
    BY <1>0, <2>1, SessionBounds DEF IdentsInv, OtherTypes, Clients, Idents
  <2>3. client[p].ident + 1 \in Idents
    BY <2>2, MaxSessionsNat DEF Idents
  <2>4. /\ new \in Clients /\ new.ident = client[p].ident + 1 /\ new.secret = None
        /\ new.state \in Away
    <3>1. 1 \in 0..1
      OBVIOUS
    <3> QED BY <1>0, <2>3, <3>1, NewClient, Zenon
  <2>5. Leave(p, new)
    BY <1>4 DEF HelloRejected
  <2> HIDE DEF new, f
  <2> QED BY <1>1, <1>2, <1>3, <2>1, <2>4, <2>5, LeaveInv
<1>5. CASE ~(f.code = "RESET_REQUIRED" /\ client[p].resets = 0)
  <2>1. /\ old \in Clients /\ old.ident = client[p].ident /\ old.secret = client[p].secret
        /\ old.state \in Away
    BY <1>0 DEF Clients, States, Away
  <2>2. Leave(p, old)
    BY <1>5 DEF HelloRejected
  <2> HIDE DEF old, f
  <2> QED BY <1>1, <1>2, <1>3, <2>1, <2>2, LeaveInv
<1> QED BY <1>4, <1>5

LEMMA RejectProtocolMessageInv ==
    ASSUME CoreInv, NEW p \in Pages, RejectProtocolMessage(p) PROVE CoreInv'
<1> DEFINE c == [client[p] EXCEPT !.state = "rejected"]
<1>0. TypeInv /\ PageTypes /\ OtherTypes /\ client[p] \in Clients
  BY ClientFields DEF CoreInv, TypeInv
<1>1. client[p].socket \in Conns
  BY <1>0, WaitingSocket DEF RejectProtocolMessage
<1>2. /\ UNCHANGED <<brokerVars, snap>> /\ faults' = faults
      /\ live' \in [Pages -> Contexts] /\ dirty' \in [Pages -> BOOLEAN]
      /\ faults' \in 0..MaxFaults /\ changes' \in 0..MaxChanges
  BY <1>0 DEF RejectProtocolMessage, PageTypes, OtherTypes, boundVars
<1>3. /\ c \in Clients /\ c.ident = client[p].ident /\ c.secret = client[p].secret
      /\ c.state \in Away
  BY <1>0 DEF Clients, States, Away
<1>4. Leave(p, c)
  BY DEF RejectProtocolMessage
<1> HIDE DEF c
<1> QED BY <1>1, <1>2, <1>3, <1>4, LeaveInv

LEMMA HandshakeTimeoutInv ==
    ASSUME CoreInv, NEW p \in Pages, HandshakeTimeout(p) PROVE CoreInv'
<1> DEFINE c == [client[p] EXCEPT !.state = "idle"]
<1>0. TypeInv /\ PageTypes /\ OtherTypes /\ client[p] \in Clients
  BY ClientFields DEF CoreInv, TypeInv
<1>1. client[p].socket \in Conns
  BY <1>0, ClientFields DEF HandshakeTimeout
<1>2. faults' = faults + 1 /\ faults' \in 0..MaxFaults /\ changes' = changes
  BY <1>0, FaultBounds DEF HandshakeTimeout
<1>3. /\ UNCHANGED <<brokerVars, snap>> /\ changes' \in 0..MaxChanges
      /\ live' \in [Pages -> Contexts] /\ dirty' \in [Pages -> BOOLEAN]
  BY <1>0, <1>2 DEF HandshakeTimeout, PageTypes, OtherTypes
<1>4. /\ c \in Clients /\ c.ident = client[p].ident /\ c.secret = client[p].secret
      /\ c.state \in Away
  BY <1>0 DEF Clients, States, Away
<1>5. Leave(p, c)
  BY DEF HandshakeTimeout
<1> HIDE DEF c
<1> QED BY <1>1, <1>2, <1>3, <1>4, <1>5, LeaveInv

(* stop and reload: the page has a socket to close, or none. *)
LEMMA HangupInv ==
    ASSUME CoreInv, NEW p \in Pages, NEW c \in Clients, Hangup(p, c), c.socket = client[p].socket,
           c.state \in Away, UNCHANGED <<brokerVars, live, snap>>,
           dirty' \in [Pages -> BOOLEAN], Fault,
           \/ c.ident = client[p].ident /\ c.secret = client[p].secret
           \/ c.ident = client[p].ident + 1 /\ c.secret = None
    PROVE  CoreInv'
<1>0. TypeInv /\ FrameTypes /\ PageTypes /\ OtherTypes /\ SocketsInv /\ IdentsInv
  BY DEF CoreInv, TypeInv
<1>1. faults' = faults + 1 /\ faults' \in 0..MaxFaults /\ changes' = changes /\ faults' \in Nat
  BY <1>0, FaultBounds, MaxSessionsNat
<1>2. changes' \in 0..MaxChanges /\ live' \in [Pages -> Contexts]
  BY <1>0, <1>1 DEF PageTypes, OtherTypes
<1>3. /\ faults' \in {faults, faults + 1} /\ faults' \in Nat
      /\ \/ /\ faults' \in {faults, faults + 1}
            /\ c.ident = client[p].ident /\ c.secret = client[p].secret
         \/ /\ (faults' = faults + 1 \/ (faults' = faults /\ Stale(p)))
            /\ c.ident = client[p].ident + 1 /\ c.secret = None
  BY <1>1, Zenon
<1>4. CASE client[p].socket = None
  <2>1. client' = [client EXCEPT ![p] = c] /\ UNCHANGED <<toBroker, toPage>>
    BY <1>4 DEF Hangup, Set, netVars
  <2>2. FrameTypes'
    BY <1>0, <2>1 DEF FrameTypes
  <2>3. Left(p, c)
    BY <1>0, <1>4, <2>1, KeepsSame DEF Left, brokerVars
  <2>4. SocketsInv'
    BY <1>0, <2>3, LeftSockets
  <2>5. IdentsInv'
    BY <1>0, <1>3, <2>3, LeftIdents
  <2>6. PageTypes'
    BY <1>0, <1>2, <1>4, <2>1, ClientTypes, AwayConsistent
  <2> QED BY <1>1, <1>2, <2>2, <2>4, <2>5, <2>6, PageStepInv
<1>5. CASE client[p].socket # None
  <2>1. client[p].socket \in Conns /\ Leave(p, c)
    BY <1>0, <1>5, ClientFields DEF Hangup
  <2> QED BY <1>1, <1>2, <1>3, <2>1, LeaveInv
<1> QED BY <1>4, <1>5

LEMMA StopInv ==
    ASSUME CoreInv, NEW p \in Pages, Stop(p) PROVE CoreInv'
<1> DEFINE c == [client[p] EXCEPT !.state = "stopped"]
<1>0. TypeInv /\ PageTypes /\ client[p] \in Clients
  BY ClientFields DEF CoreInv, TypeInv
<1>1. /\ c \in Clients /\ c.ident = client[p].ident /\ c.secret = client[p].secret
      /\ c.state \in Away /\ c.socket = client[p].socket
  BY <1>0 DEF Clients, States, Away
<1>2. dirty' \in [Pages -> BOOLEAN] /\ UNCHANGED <<brokerVars, live, snap>> /\ Fault /\ Hangup(p, c)
  BY <1>0 DEF Stop, PageTypes
<1> HIDE DEF c
<1> QED BY <1>1, <1>2, HangupInv

LEMMA ReloadInv ==
    ASSUME CoreInv, NEW p \in Pages, Reload(p) PROVE CoreInv'
<1> DEFINE c == [client[p] EXCEPT !.state = "idle", !.resets = 0, !.secret = None, !.ident = @ + 1]
<1>0. TypeInv /\ PageTypes /\ OtherTypes /\ IdentsInv /\ client[p] \in Clients
  BY ClientFields DEF CoreInv, TypeInv
<1>1. faults \in Nat /\ faults + 1 \in 0..MaxFaults
  BY <1>0, FaultBounds, MaxSessionsNat DEF Reload, OtherTypes
<1>2. client[p].ident \in Nat /\ client[p].ident >= 1 /\ client[p].ident <= faults + 1
  BY <1>0, SessionBounds DEF IdentsInv, Clients, Idents
<1>3. client[p].ident + 1 \in Idents
  BY <1>1, <1>2, MaxSessionsNat DEF Idents
<1>4. /\ c \in Clients /\ c.ident = client[p].ident + 1 /\ c.secret = None
      /\ c.state \in Away /\ c.socket = client[p].socket
  <2>1. 0 \in 0..1
    OBVIOUS
  <2> QED BY <1>0, <1>3, <2>1, NewClient, Zenon
<1>5. dirty' \in [Pages -> BOOLEAN] /\ UNCHANGED <<brokerVars, live, snap>> /\ Fault /\ Hangup(p, c)
  BY <1>0 DEF Reload, PageTypes
<1> HIDE DEF c
<1> QED BY <1>4, <1>5, HangupInv

LEMMA HandleCloseInv ==
    ASSUME CoreInv, NEW p \in Pages, HandleClose(p) PROVE CoreInv'
<1> DEFINE state == IF client[p].state # "connected" /\ Head(toPage[client[p].socket]).code = 1008
                    THEN "rejected" ELSE "idle"
           c == [client[p] EXCEPT !.socket = None, !.context = None, !.state = state]
<1>0. /\ TypeInv /\ FrameTypes /\ PageTypes /\ OtherTypes /\ SocketsInv /\ IdentsInv
      /\ client[p] \in Clients
  BY ClientFields DEF CoreInv, TypeInv
<1>1. client[p].socket \in Conns
  BY <1>0, WaitingSocket DEF HandleClose
<1>2. state \in {"rejected", "idle"}
  OBVIOUS
<1>3. client' = [client EXCEPT ![p] = c]
  BY DEF HandleClose, Set
<1> HIDE DEF state
<1>4. /\ c \in Clients /\ c.ident = client[p].ident /\ c.secret = client[p].secret
      /\ c.state \in Away /\ c.socket = None
  BY <1>0, <1>2 DEF Clients, States, Away
<1>5. /\ UNCHANGED <<brokerVars, snap>> /\ faults' = faults /\ toBroker' = toBroker
      /\ live' \in [Pages -> Contexts] /\ dirty' \in [Pages -> BOOLEAN]
      /\ faults' \in 0..MaxFaults /\ changes' \in 0..MaxChanges /\ faults' \in Nat
  BY <1>0, MaxSessionsNat DEF HandleClose, PageTypes, OtherTypes, boundVars
<1>6. Keeps(toPage', toPage)
  <2>1. <<>> \in Seq(Frames) /\ \A f \in Within(<<>>) : f.type \in Plain
    BY WithinEmpty, EmptySeq
  <2> QED BY <1>0, <2>1, KeepsReplaced, ZenonT(30) DEF HandleClose, FrameTypes
<1>7. Keeps(toBroker', toBroker)
  BY <1>0, <1>5, KeepsSame
<1> HIDE DEF c
<1>8. Left(p, c)
  BY <1>3, <1>4, <1>5, <1>6, <1>7 DEF Left, brokerVars
<1>9. SocketsInv' /\ IdentsInv'
  BY <1>0, <1>4, <1>5, <1>8, LeftSockets, LeftIdents
<1>10. PageTypes' /\ FrameTypes'
  <2>1. PageTypes'
    BY <1>0, <1>3, <1>4, <1>5, ClientTypes, AwayConsistent
  <2> QED BY <2>1, <1>6, <1>7 DEF Keeps, FrameTypes
<1> QED BY <1>5, <1>9, <1>10, PageStepInv

LEMMA StageTables ==
    ASSUME BrokerTypes, TablesInv, SessionLimit, RecordLimit, UNCHANGED <<sessions, records, bindings>>,
           stage' \in [Conns -> Stages],
           \A k \in Conns : stage'[k] \in {"audit", "open"} <=> stage[k] \in {"audit", "open"}
    PROVE  BrokerTypes' /\ TablesInv' /\ SessionLimit' /\ RecordLimit'
<1>1. Live' = Live /\ Remembered' = Remembered
  BY DEF Live, Remembered
<1>2. ASSUME NEW k \in Conns, stage'[k] \in {"audit", "open"}
      PROVE  \E key \in Live' : sessions'[key].conn = k
  BY <1>1, <1>2 DEF TablesInv
<1>3. ASSUME NEW key \in Live'
      PROVE  /\ stage'[sessions'[key].conn] \in {"audit", "open"}
             /\ records'[key] \in Records
             /\ records'[key].binding = sessions'[key].binding
             /\ records'[key].generation = sessions'[key].generation
  <2>1. key \in Live /\ key \in Keys
    BY <1>1 DEF Live
  <2>2. sessions[key].conn \in Conns
    BY <2>1, LiveForms, Forms
  <2> QED BY <2>1, <2>2 DEF TablesInv
<1>4. TablesInv'
  BY <1>1, <1>2, <1>3 DEF TablesInv
<1> QED BY <1>1, <1>4 DEF BrokerTypes, SessionLimit, RecordLimit

(* A step that does not touch the sessions. *)
LEMMA StageStepInv ==
    ASSUME CoreInv, UNCHANGED <<sessions, records, bindings, snap>>,
           stage' \in [Conns -> Stages],
           \A k \in Conns : stage'[k] \in {"audit", "open"} <=> stage[k] \in {"audit", "open"},
           FrameTypes', PageTypes',
           faults' \in 0..MaxFaults, changes' \in 0..MaxChanges, SocketsInv', IdentsInv'
    PROVE  CoreInv'
<1>1. BrokerTypes' /\ TablesInv' /\ SessionLimit' /\ RecordLimit'
  BY StageTables DEF CoreInv, TypeInv
<1>2. snap \in Snapshots \cup {NoSnapshot}
  BY DEF CoreInv, TypeInv, OtherTypes
<1>3. SnapInv'
  BY <1>2, SnapSame DEF CoreInv
<1>4. OtherTypes'
  BY <1>2 DEF OtherTypes
<1> QED BY <1>1, <1>3, <1>4 DEF CoreInv, TypeInv

(* A step of the page that only takes frames or sends plain ones. *)
LEMMA QuietPageInv ==
    ASSUME CoreInv, UNCHANGED <<brokerVars, client, snap, faults>>, Keeps(toBroker', toBroker),
           Keeps(toPage', toPage), live' \in [Pages -> Contexts], dirty' \in [Pages -> BOOLEAN],
           changes' \in 0..MaxChanges
    PROVE  CoreInv'
<1>0. TypeInv /\ PageTypes /\ OtherTypes /\ SocketsInv /\ IdentsInv
  BY DEF CoreInv, TypeInv
<1>1. Quiet
  BY KeepsMild DEF Quiet, brokerVars
<1>2. SocketsInv' /\ IdentsInv'
  BY <1>0, <1>1, QuietSockets, QuietIdents DEF brokerVars
<1>3. FrameTypes' /\ PageTypes' /\ faults' \in 0..MaxFaults
  BY <1>0 DEF Keeps, FrameTypes, PageTypes, OtherTypes
<1> QED BY <1>2, <1>3, PageStepInv

LEMMA HandleRequestInv ==
    ASSUME CoreInv, NEW p \in Pages, HandleRequest(p) PROVE CoreInv'
<1>0. TypeInv /\ FrameTypes /\ PageTypes /\ OtherTypes
  BY DEF CoreInv, TypeInv
<1>1. client[p].socket \in Conns /\ toPage[client[p].socket] # <<>>
  BY <1>0, WaitingSocket DEF HandleRequest
<1>2. toPage' = [toPage EXCEPT ![client[p].socket] = Tail(@)]
  BY DEF HandleRequest, Consume
<1>3. Keeps(toPage', toPage)
  BY <1>0, <1>1, <1>2, KeepsTail DEF FrameTypes
<1>4. UNCHANGED <<brokerVars, client, snap, faults, changes, toBroker, live, dirty>>
  BY DEF HandleRequest, pageVars, boundVars
<1>5. /\ Keeps(toBroker', toBroker) /\ live' \in [Pages -> Contexts] /\ dirty' \in [Pages -> BOOLEAN]
      /\ changes' \in 0..MaxChanges
  BY <1>0, <1>4, KeepsSame DEF PageTypes, OtherTypes
<1> QED BY <1>3, <1>4, <1>5, QuietPageInv

LEMMA UpdateContextInv ==
    ASSUME CoreInv, NEW p \in Pages, UpdateContext(p)
    PROVE  CoreInv'
<1>0. TypeInv /\ FrameTypes /\ PageTypes /\ OtherTypes
  BY DEF CoreInv, TypeInv
<1>1. UNCHANGED <<brokerVars, client, snap, faults, changes, toPage, live>>
  BY DEF UpdateContext, boundVars
<1>2. /\ Keeps(toPage', toPage) /\ live' \in [Pages -> Contexts] /\ dirty' \in [Pages -> BOOLEAN]
      /\ changes' \in 0..MaxChanges
  BY <1>0, <1>1, KeepsSame DEF PageTypes, OtherTypes, UpdateContext
<1>3. Keeps(toBroker', toBroker)
  <2>1. CASE client[p].state # "connected"
    <3>1. toBroker' = toBroker
      BY <2>1 DEF UpdateContext
    <3> QED BY <1>0, <3>1, KeepsSame
  <2>2. CASE client[p].state = "connected"
    <3> DEFINE k == client[p].socket
               f == [type |-> "context.update", context |-> live[p]]
    <3>1. toBroker' = [toBroker EXCEPT ![k] = IF stage[k] = "closed" THEN <<>> ELSE Append(@, f)]
      BY <2>2 DEF UpdateContext, Reply
    <3>2. k \in Conns /\ f \in Frames /\ f.type \in Plain
      <4>1. live[p] \in Contexts /\ k \in Conns \cup {None} /\ Consistent(client[p])
        BY <1>0, ClientFields DEF PageTypes
      <4>2. k \in Conns
        BY <2>2, <4>1 DEF Consistent, Away
      <4> QED BY <4>1, <4>2, FrameForms DEF Plain
    <3> HIDE DEF k, f
    <3> QED BY <1>0, <3>1, <3>2, KeepsAppend DEF FrameTypes
  <2> QED BY <2>1, <2>2
<1> QED BY <1>1, <1>2, <1>3, QuietPageInv

LEMMA ChangeContextInv ==
    ASSUME CoreInv, NEW p \in Pages, NEW context \in Contexts, ChangeContext(p, context) PROVE CoreInv'
<1>0. TypeInv /\ FrameTypes /\ PageTypes /\ OtherTypes
  BY DEF CoreInv, TypeInv
<1>1. UNCHANGED <<brokerVars, client, snap, faults, toBroker, toPage>>
  BY DEF ChangeContext, netVars
<1>2. changes' \in 0..MaxChanges
  BY <1>0, MaxSessionsNat DEF OtherTypes, ChangeContext
<1>3. live' \in [Pages -> Contexts] /\ dirty' \in [Pages -> BOOLEAN]
  BY <1>0 DEF PageTypes, ChangeContext
<1> QED BY <1>0, <1>1, <1>2, <1>3, KeepsSame, QuietPageInv

LEMMA RestartsInv ==
    ASSUME CoreInv, NEW p \in Pages, Restarts(p) PROVE CoreInv'
<1> DEFINE c == [client[p] EXCEPT !.state = "idle", !.resets = 0]
<1>0. /\ TypeInv /\ FrameTypes /\ PageTypes /\ OtherTypes /\ SocketsInv /\ IdentsInv
      /\ client[p] \in Clients
  BY ClientFields DEF CoreInv, TypeInv
<1>1. /\ UNCHANGED <<brokerVars, snap, faults, changes, toBroker, toPage, live, dirty>>
      /\ client' = [client EXCEPT ![p] = c]
  BY DEF Restarts, Set, netVars, boundVars
<1>2. /\ c \in Clients /\ c.ident = client[p].ident /\ c.secret = client[p].secret
      /\ c.state \in Away /\ c.socket = None
  <2>1. 0 \in 0..1 /\ "idle" \in States
    BY DEF States
  <2>2. c \in Clients /\ c.socket = client[p].socket /\ c.state = "idle"
        /\ c.ident = client[p].ident /\ c.secret = client[p].secret
    BY <1>0, <2>1 DEF Clients
  <2>3. Consistent(client[p]) /\ client[p].state = "stopped"
    BY <1>0 DEF PageTypes, Restarts
  <2> QED BY <2>2, <2>3 DEF Consistent, Away
<1> HIDE DEF c
<1>3. Left(p, c)
  BY <1>0, <1>1, <1>2, KeepsSame DEF Left, brokerVars
<1>4. faults' \in {faults, faults + 1} /\ faults' \in Nat
  BY <1>0, <1>1, MaxSessionsNat DEF OtherTypes
<1>5. SocketsInv' /\ IdentsInv'
  BY <1>0, <1>2, <1>3, <1>4, LeftSockets, LeftIdents
<1>6. PageTypes'
  <2>1. live' \in [Pages -> Contexts] /\ dirty' \in [Pages -> BOOLEAN]
    BY <1>0, <1>1 DEF PageTypes
  <2> QED BY <1>0, <1>1, <1>2, <2>1, ClientTypes, AwayConsistent
<1>7. FrameTypes' /\ faults' \in 0..MaxFaults /\ changes' \in 0..MaxChanges
  BY <1>0, <1>1 DEF FrameTypes, OtherTypes
<1> QED BY <1>1, <1>5, <1>6, <1>7, PageStepInv

(* A new socket takes the first place that is free. *)
LEMMA LeastNatural ==
    ASSUME NEW S \in SUBSET Nat, S # {}
    PROVE  \E i \in S : \A j \in S : i <= j
<1>1. IsWellFoundedOn(OpToRel(<, Nat), Nat)
  BY NatLessThanWellFounded
<1>2. PICK i \in S : \A j \in S : ~(<<j, i>> \in OpToRel(<, Nat))
  BY <1>1, WFMin
<1>3. \A j \in S : ~(j < i)
  BY <1>2 DEF OpToRel
<1>4. \A j \in S : i <= j
  BY <1>3
<1> QED BY <1>4

(* What a page knows changes only with its client id, its secret and its   *)
(* socket's frames.                                                        *)
LEMMA StaleCarries ==
    ASSUME NEW p \in Pages, UNCHANGED records, Stale(p)',
           client'[p].ident = client[p].ident, client'[p].secret = client[p].secret,
           \A k \in Conns : client'[p].socket = k => \A f \in Within(toPage'[k]) :
                \/ f.type \notin {"hello_ack", "rejected"}
                \/ client[p].socket = k /\ f \in Within(toPage[k])
    PROVE  Stale(p)
<1>1. ASSUME NEW secret, Outdated(p, secret)' PROVE Outdated(p, secret)
  BY <1>1 DEF Outdated
<1>2. CASE Outdated(p, client[p].secret)'
  BY <1>2 DEF Outdated, Stale
<1>3. ASSUME NEW k \in Conns, client'[p].socket = k, NEW f \in Within(toPage'[k]),
             \/ f.type = "hello_ack" /\ Outdated(p, f.secret)'
             \/ f.type = "rejected" /\ f.code = "RESET_REQUIRED"
      PROVE  Stale(p)
  <2>1. client[p].socket = k /\ f \in Within(toPage[k])
    BY <1>3
  <2> QED BY <1>1, <1>3, <2>1 DEF Stale
<1> QED BY <1>2, <1>3 DEF Stale

LEMMA ConnectInv ==
    ASSUME CoreInv, NEW p \in Pages, Connect(p) PROVE CoreInv'
<1> DEFINE k == CHOOSE i \in Free : \A j \in Free : i <= j
           c == [client[p] EXCEPT !.state = "await_challenge", !.socket = k, !.context = live[p]]
<1>0. /\ TypeInv /\ BrokerTypes /\ FrameTypes /\ PageTypes /\ OtherTypes /\ TablesInv
      /\ SocketsInv /\ IdentsInv /\ client[p] \in Clients
  BY ClientFields DEF CoreInv, TypeInv
<1>1. k \in Free
  <2>1. Free \in SUBSET Nat /\ Free # {}
    BY DEF Free, Conns, Connect
  <2> QED BY <2>1, LeastNatural
<1>2. k \in Conns /\ stage[k] = "closed" /\ ~Attached(k) /\ toPage[k] = <<>> /\ k # None
  BY <1>1, Forms DEF Free
<1>3. /\ client' = [client EXCEPT ![p] = c]
      /\ \/ /\ toPage' = [toPage EXCEPT ![k] = <<Close(1013)>>]
            /\ UNCHANGED <<stage, toBroker>>
         \/ /\ stage' = [stage EXCEPT ![k] = "init"]
            /\ toBroker' = [toBroker EXCEPT ![k] = <<Frame("auth_init")>>]
            /\ UNCHANGED toPage
      /\ UNCHANGED <<sessions, records, bindings, live, dirty, snap, faults, changes>>
  BY DEF Connect, Set, boundVars
<1> HIDE DEF k
<1>4. /\ c \in Clients /\ c.ident = client[p].ident /\ c.secret = client[p].secret
      /\ c.state = "await_challenge" /\ c.socket = k /\ Consistent(c)
  <2>1. "await_challenge" \in States /\ live[p] \in Contexts
    BY <1>0 DEF States, PageTypes
  <2>2. /\ c \in Clients /\ c.ident = client[p].ident /\ c.secret = client[p].secret
        /\ c.state = "await_challenge" /\ c.socket = k /\ c.context = live[p]
    BY <1>0, <1>2, <2>1 DEF Clients
  <2> QED BY <1>2, <2>1, <2>2 DEF Consistent, Away
<1> HIDE DEF c
<1>5. PageTypes' /\ client'[p] = c /\ \A q \in Pages : q # p => client'[q] = client[q]
  <2>1. live' \in [Pages -> Contexts] /\ dirty' \in [Pages -> BOOLEAN]
    BY <1>0, <1>3 DEF PageTypes
  <2> QED BY <1>0, <1>3, <1>4, <2>1, ClientTypes
<1>6. /\ <<Close(1013)>> \in Seq(Frames) /\ Within(<<Close(1013)>>) = {Close(1013)}
      /\ <<Frame("auth_init")>> \in Seq(Frames) /\ Within(<<Frame("auth_init")>>) = {Frame("auth_init")}
      /\ Close(1013).type = "close" /\ Frame("auth_init").type = "auth_init"
  BY FrameForms, WithinOne
<1>7. Keeps(toPage', toPage) /\ Keeps(toBroker', toBroker)
  <2>1. {"close", "auth_init"} \subseteq Plain
    BY DEF Plain
  <2>2. Keeps([toPage EXCEPT ![k] = <<Close(1013)>>], toPage)
    <3> DEFINE s == <<Close(1013)>>
    <3>1. s \in Seq(Frames) /\ \A f \in Within(s) : f.type \in Plain
      BY <1>6, <2>1
    <3>2. toPage \in [Conns -> Seq(Frames)]
      BY <1>0 DEF FrameTypes
    <3> HIDE DEF s
    <3>3. Keeps([toPage EXCEPT ![k] = s], toPage)
      BY <3>1, <3>2, KeepsReplaced
    <3> QED BY <3>3 DEF s
  <2>3. Keeps([toBroker EXCEPT ![k] = <<Frame("auth_init")>>], toBroker)
    <3>1. <<Frame("auth_init")>> \in Seq(Frames) /\ \A f \in Within(<<Frame("auth_init")>>) : f.type \in Plain
      BY <1>6, <2>1
    <3>2. toBroker \in [Conns -> Seq(Frames)]
      BY <1>0 DEF FrameTypes
    <3> QED BY <3>1, <3>2, KeepsReplaced
  <2> QED BY <1>0, <1>3, <2>2, <2>3, KeepsSame
<1>8. /\ \A l \in Conns : l # k => stage'[l] = stage[l]
      /\ stage'[k] \in {"closed", "init"} /\ stage' \in [Conns -> Stages]
  BY <1>0, <1>2, <1>3 DEF BrokerTypes, Stages
<1>9. \A f \in Within(toPage'[k]) : f.type = "close"
  <2>1. toPage'[k] = <<>> \/ toPage'[k] = <<Close(1013)>>
    BY <1>0, <1>2, <1>3 DEF FrameTypes
  <2> QED BY <1>6, <2>1, WithinEmpty
<1>10. \A f \in Within(toBroker'[k]) : f.type # "auth_response"
  <2>1. CASE toBroker'[k] = <<Frame("auth_init")>>
    BY <1>6, <2>1
  <2>2. CASE toBroker'[k] = toBroker[k]
    BY <1>2, <2>2 DEF SocketsInv, CoreInv
  <2>3. toBroker'[k] = <<Frame("auth_init")>> \/ toBroker'[k] = toBroker[k]
    BY <1>0, <1>2, <1>3 DEF FrameTypes
  <2> QED BY <2>1, <2>2, <2>3
<1>11. SocketsInv'
  <2>1. ASSUME NEW q \in Pages, NEW r \in Pages, client'[q].socket = client'[r].socket,
               client'[q].socket # None
        PROVE  q = r
    BY <1>0, <1>2, <1>4, <1>5, <2>1 DEF SocketsInv, Attached
  <2>2. ASSUME NEW l \in Conns
        PROVE  /\ \A f \in Within(toPage'[l]) : f.type = "auth_challenge" => stage'[l] # "init"
               /\ \A f \in Within(toPage'[l]) : f.type = "hello_ack" => stage'[l] \in {"open", "closed"}
               /\ \A f \in Within(toBroker'[l]) : f.type = "auth_response" => stage'[l] = "proof"
    <3>1. CASE l = k
      BY <1>9, <1>10, <3>1
    <3>2. CASE l # k
      BY <1>0, <1>7, <1>8, <3>2, PlainTypes DEF SocketsInv, Keeps
    <3> QED BY <3>1, <3>2
  <2>3. ASSUME NEW q \in Pages, NEW l \in Conns, client'[q].socket = l
        PROVE  /\ client'[q].state = "await_challenge" => stage'[l] \in {"closed", "init", "proof"}
               /\ \A f \in Within(toBroker'[l]) : f.type = "auth_response" =>
                    /\ client'[q].state # "await_challenge"
                    /\ f.key = <<q, client'[q].ident>> /\ f.secret = client'[q].secret
               /\ \A key \in Keys : sessions'[key].conn = l => key = <<q, client'[q].ident>>
    <3>1. CASE q = p
      <4>1. l = k
        BY <1>4, <1>5, <2>3, <3>1
      <4>2. \A key \in Keys : sessions[key].conn # k
        <5>1. ASSUME NEW key \in Keys, sessions[key].conn = k PROVE FALSE
          <6>1. key \in Live
            BY <1>0, <1>2, <5>1, LiveForms
          <6> QED BY <1>0, <1>2, <5>1, <6>1 DEF TablesInv
        <5> QED BY <5>1
      <4> QED BY <1>3, <1>8, <1>10, <4>1, <4>2
    <3>2. CASE q # p
      <4>1. client'[q] = client[q] /\ client[q].socket = l
        BY <1>5, <2>3, <3>2
      <4>2. l # k
        BY <1>2, <4>1 DEF Attached
      <4>3. \A f \in Within(toBroker'[l]) : f.type = "auth_response" => f \in Within(toBroker[l])
        BY <1>7, PlainTypes DEF Keeps
      <4>4. stage'[l] = stage[l] /\ sessions' = sessions
        BY <1>3, <1>8, <4>2
      <4> QED BY <1>0, <4>1, <4>3, <4>4 DEF SocketsInv
    <3> QED BY <3>1, <3>2
  <2> QED BY <2>1, <2>2, <2>3 DEF SocketsInv
<1>12. IdentsInv'
  <2>1. ASSUME NEW q \in Pages PROVE client'[q].ident = client[q].ident /\ client'[q].secret = client[q].secret
    BY <1>4, <1>5
  <2>2. ASSUME NEW q \in Pages, Stale(q)' PROVE Stale(q)
    <3>1. ASSUME NEW l \in Conns, client'[q].socket = l, NEW f \in Within(toPage'[l])
          PROVE  f.type \notin {"hello_ack", "rejected"} \/ (client[q].socket = l /\ f \in Within(toPage[l]))
      <4>1. CASE q = p
        BY <1>4, <1>5, <1>9, <3>1, <4>1
      <4>2. CASE q # p
        BY <1>5, <1>7, <3>1, <4>2, PlainTypes DEF Keeps
      <4> QED BY <4>1, <4>2
    <3> QED BY <1>3, <2>1, <2>2, <3>1, StaleCarries
  <2> QED BY <1>0, <1>3, <2>1, <2>2, KeptIdents
<1>13. FrameTypes' /\ faults' \in 0..MaxFaults /\ changes' \in 0..MaxChanges
  BY <1>0, <1>3, <1>7 DEF Keeps, FrameTypes, OtherTypes
<1>14. \A l \in Conns : stage'[l] \in {"audit", "open"} <=> stage[l] \in {"audit", "open"}
  <2>1. stage[k] \notin {"audit", "open"} /\ stage'[k] \notin {"audit", "open"}
    BY <1>2, <1>8
  <2> QED BY <1>8, <2>1
<1> QED BY <1>3, <1>5, <1>8, <1>11, <1>12, <1>13, <1>14, StageStepInv

LEMMA HandleAuthChallengeInv ==
    ASSUME CoreInv, NEW p \in Pages, HandleAuthChallenge(p) PROVE CoreInv'
<1> DEFINE k == client[p].socket
           c == [client[p] EXCEPT !.state = "await_ack", !.context = None]
           f == [type |-> "auth_response", key |-> <<p, client[p].ident>>,
                 secret |-> client[p].secret, context |-> client[p].context]
<1>0. /\ TypeInv /\ BrokerTypes /\ FrameTypes /\ PageTypes /\ OtherTypes
      /\ SocketsInv /\ IdentsInv /\ client[p] \in Clients
  BY ClientFields DEF CoreInv, TypeInv
<1>1. /\ k \in Conns /\ toPage[k] # <<>> /\ client[p].state = "await_challenge"
      /\ Head(toPage[k]) \in Within(toPage[k]) /\ Head(toPage[k]).type = "auth_challenge"
  BY <1>0, WaitingSocket DEF HandleAuthChallenge
<1>2. /\ client' = [client EXCEPT ![p] = c] /\ toPage' = [toPage EXCEPT ![k] = Tail(@)]
      /\ toBroker' = [toBroker EXCEPT ![k] = IF stage[k] = "closed" THEN <<>> ELSE Append(@, f)]
      /\ UNCHANGED <<brokerVars, live, dirty, snap, faults, changes>>
  BY DEF HandleAuthChallenge, Set, Consume, Reply, boundVars
<1>3. stage[k] \in {"closed", "proof"}
  BY <1>0, <1>1 DEF SocketsInv
<1>4. f \in Frames /\ f.type = "auth_response" /\ f.key = <<p, client[p].ident>> /\ f.secret = client[p].secret
  <2>1. <<p, client[p].ident>> \in Keys /\ client[p].secret \in Bindings \cup {None}
    BY <1>0, ClientFields
  <2>2. client[p].context \in Contexts
    BY <1>0, <1>1 DEF PageTypes, Consistent
  <2> QED BY <2>1, <2>2, FrameForms
<1>5. /\ c \in Clients /\ c.ident = client[p].ident /\ c.secret = client[p].secret
      /\ c.state = "await_ack" /\ c.socket = k /\ Consistent(c)
  <2>1. "await_ack" \in States
    BY DEF States
  <2>2. /\ c \in Clients /\ c.ident = client[p].ident /\ c.secret = client[p].secret
        /\ c.state = "await_ack" /\ c.socket = k
    BY <1>0, <2>1 DEF Clients
  <2> QED BY <1>1, <2>2, Forms DEF Consistent, Away
<1> HIDE DEF c, f
<1>6. PageTypes' /\ client'[p] = c /\ \A q \in Pages : q # p => client'[q] = client[q]
  <2>1. live' \in [Pages -> Contexts] /\ dirty' \in [Pages -> BOOLEAN]
    BY <1>0, <1>2 DEF PageTypes
  <2> QED BY <1>0, <1>2, <1>5, <2>1, ClientTypes
<1> HIDE DEF k
<1>7. Keeps(toPage', toPage)
  BY <1>0, <1>1, <1>2, KeepsTail DEF FrameTypes
<1>8. /\ toBroker' \in [Conns -> Seq(Frames)]
      /\ \A l \in Conns : l # k => toBroker'[l] = toBroker[l]
      /\ \A g \in Within(toBroker'[k]) : (g = f /\ stage[k] = "proof") \/ g \in Within(toBroker[k])
  <2>1. Append(toBroker[k], f) \in Seq(Frames) /\ Within(Append(toBroker[k], f)) = Within(toBroker[k]) \cup {f}
    BY <1>0, <1>1, <1>4, WithinAppend DEF FrameTypes
  <2>2. toBroker'[k] = IF stage[k] = "closed" THEN <<>> ELSE Append(toBroker[k], f)
    BY <1>0, <1>1, <1>2 DEF FrameTypes
  <2>3. toBroker' \in [Conns -> Seq(Frames)] /\ \A l \in Conns : l # k => toBroker'[l] = toBroker[l]
    BY <1>0, <1>2, <2>1, EmptySeq DEF FrameTypes
  <2> QED BY <1>3, <2>1, <2>2, <2>3, WithinEmpty
<1>9. SocketsInv'
  <2>0. stage' = stage /\ sessions' = sessions
    BY <1>2 DEF brokerVars
  <2>1. ASSUME NEW q \in Pages, NEW r \in Pages, client'[q].socket = client'[r].socket,
               client'[q].socket # None
        PROVE  q = r
    <3>1. client'[q].socket = client[q].socket /\ client'[r].socket = client[r].socket
      BY <1>5, <1>6 DEF k
    <3> QED BY <1>0, <2>1, <3>1 DEF SocketsInv
  <2>2. ASSUME NEW l \in Conns
        PROVE  /\ \A g \in Within(toPage'[l]) : g.type = "auth_challenge" => stage'[l] # "init"
               /\ \A g \in Within(toPage'[l]) : g.type = "hello_ack" => stage'[l] \in {"open", "closed"}
               /\ \A g \in Within(toBroker'[l]) : g.type = "auth_response" => stage'[l] = "proof"
    <3>1. \A g \in Within(toBroker'[l]) : g.type = "auth_response" => stage'[l] = "proof"
      BY <1>0, <1>8, <2>0 DEF SocketsInv
    <3> QED BY <1>0, <1>7, <2>0, <3>1, PlainTypes DEF SocketsInv, Keeps
  <2>3. ASSUME NEW q \in Pages, NEW l \in Conns, client'[q].socket = l
        PROVE  /\ client'[q].state = "await_challenge" => stage'[l] \in {"closed", "init", "proof"}
               /\ \A g \in Within(toBroker'[l]) : g.type = "auth_response" =>
                    /\ client'[q].state # "await_challenge"
                    /\ g.key = <<q, client'[q].ident>> /\ g.secret = client'[q].secret
               /\ \A key \in Keys : sessions'[key].conn = l => key = <<q, client'[q].ident>>
    <3>1. CASE q = p
      <4>1. l = k /\ client'[q] = c /\ client[p].socket = k
        BY <1>5, <1>6, <2>3, <3>1 DEF k
      <4>2. \A g \in Within(toBroker[k]) : g.type # "auth_response"
        BY <1>0, <1>1, <4>1 DEF SocketsInv
      <4>3. \A key \in Keys : sessions[key].conn = k => key = <<p, client[p].ident>>
        BY <1>0, <1>1, <4>1 DEF SocketsInv
      <4> QED BY <1>4, <1>5, <1>8, <2>0, <3>1, <4>1, <4>2, <4>3
    <3>2. CASE q # p
      <4>1. client'[q] = client[q] /\ client[q].socket = l
        BY <1>6, <2>3, <3>2
      <4>2. l # k
        BY <1>0, <1>1, <3>2, <4>1, Forms DEF SocketsInv, k
      <4> QED BY <1>0, <1>8, <2>0, <4>1, <4>2 DEF SocketsInv
    <3> QED BY <3>1, <3>2
  <2> QED BY <2>1, <2>2, <2>3 DEF SocketsInv
<1>10. IdentsInv'
  <2>1. ASSUME NEW q \in Pages
        PROVE  /\ client'[q].ident = client[q].ident /\ client'[q].secret = client[q].secret
               /\ client'[q].socket = client[q].socket
    BY <1>5, <1>6 DEF k
  <2>2. ASSUME NEW q \in Pages, Stale(q)' PROVE Stale(q)
    <3>1. ASSUME NEW l \in Conns, client'[q].socket = l, NEW g \in Within(toPage'[l])
          PROVE  g.type \notin {"hello_ack", "rejected"} \/ (client[q].socket = l /\ g \in Within(toPage[l]))
      BY <1>7, <2>1, <3>1, PlainTypes DEF Keeps
    <3>2. UNCHANGED records
      BY <1>2 DEF brokerVars
    <3> QED BY <2>1, <2>2, <3>1, <3>2, StaleCarries
  <2> QED BY <1>0, <1>2, <2>1, <2>2, KeptIdents
<1>11. FrameTypes' /\ faults' \in 0..MaxFaults /\ changes' \in 0..MaxChanges
  BY <1>0, <1>2, <1>7, <1>8 DEF Keeps, FrameTypes, OtherTypes
<1> QED BY <1>2, <1>6, <1>9, <1>10, <1>11, PageStepInv

LEMMA HelloAcceptedInv ==
    ASSUME CoreInv, NEW p \in Pages, HelloAccepted(p) PROVE CoreInv'
<1> DEFINE k == client[p].socket
           f == Head(toPage[k])
           c == [client[p] EXCEPT !.state = "connected", !.resets = 0, !.secret = f.secret]
<1>0. /\ TypeInv /\ BrokerTypes /\ FrameTypes /\ PageTypes /\ OtherTypes
      /\ SocketsInv /\ IdentsInv /\ client[p] \in Clients
  BY ClientFields DEF CoreInv, TypeInv
<1>1. /\ k \in Conns /\ toPage[k] # <<>>
      /\ f \in Within(toPage[k]) /\ f \in Frames /\ f.type = "hello_ack"
  BY <1>0, WaitingSocket DEF HelloAccepted
<1>2. /\ client' = [client EXCEPT ![p] = c] /\ toPage' = [toPage EXCEPT ![k] = Tail(@)]
      /\ UNCHANGED <<brokerVars, toBroker, live, dirty, snap, faults, changes>>
  BY DEF HelloAccepted, Set, Consume, boundVars
<1>3. f.secret \in Bindings
  BY <1>1, FrameFields
<1> HIDE DEF f
<1>4. /\ c \in Clients /\ c.ident = client[p].ident /\ c.secret = f.secret
      /\ c.state = "connected" /\ c.socket = k /\ Consistent(c)
  <2>1. "connected" \in States /\ 0 \in 0..1
    BY DEF States
  <2>2. /\ c \in Clients /\ c.ident = client[p].ident /\ c.secret = f.secret
        /\ c.state = "connected" /\ c.socket = k
    BY <1>0, <1>3, <2>1 DEF Clients
  <2> QED BY <1>1, <2>2, Forms DEF Consistent, Away
<1> HIDE DEF c
<1>5. PageTypes' /\ client'[p] = c /\ \A q \in Pages : q # p => client'[q] = client[q]
  <2>1. live' \in [Pages -> Contexts] /\ dirty' \in [Pages -> BOOLEAN]
    BY <1>0, <1>2 DEF PageTypes
  <2> QED BY <1>0, <1>2, <1>4, <2>1, ClientTypes
<1>6. Keeps(toPage', toPage)
  <2> HIDE DEF k
  <2> QED BY <1>0, <1>1, <1>2, KeepsTail DEF FrameTypes
<1>7. \A g \in Within(toBroker[k]) : g.type # "auth_response"
  <2>1. stage[k] \in {"open", "closed"}
    BY <1>0, <1>1 DEF SocketsInv
  <2> QED BY <1>0, <1>1, <2>1 DEF SocketsInv
<1>8. SocketsInv'
  <2>0. stage' = stage /\ sessions' = sessions /\ toBroker' = toBroker
    BY <1>2 DEF brokerVars
  <2>1. ASSUME NEW q \in Pages, NEW r \in Pages, client'[q].socket = client'[r].socket,
               client'[q].socket # None
        PROVE  q = r
    <3>1. client'[q].socket = client[q].socket /\ client'[r].socket = client[r].socket
      BY <1>4, <1>5
    <3> QED BY <1>0, <2>1, <3>1 DEF SocketsInv
  <2>2. ASSUME NEW l \in Conns
        PROVE  /\ \A g \in Within(toPage'[l]) : g.type = "auth_challenge" => stage'[l] # "init"
               /\ \A g \in Within(toPage'[l]) : g.type = "hello_ack" => stage'[l] \in {"open", "closed"}
               /\ \A g \in Within(toBroker'[l]) : g.type = "auth_response" => stage'[l] = "proof"
    BY <1>0, <1>6, <2>0, PlainTypes DEF SocketsInv, Keeps
  <2>3. ASSUME NEW q \in Pages, NEW l \in Conns, client'[q].socket = l
        PROVE  /\ client'[q].state = "await_challenge" => stage'[l] \in {"closed", "init", "proof"}
               /\ \A g \in Within(toBroker'[l]) : g.type = "auth_response" =>
                    /\ client'[q].state # "await_challenge"
                    /\ g.key = <<q, client'[q].ident>> /\ g.secret = client'[q].secret
               /\ \A key \in Keys : sessions'[key].conn = l => key = <<q, client'[q].ident>>
    <3>1. CASE q = p
      <4>1. l = k /\ client'[q] = c
        BY <1>4, <1>5, <2>3, <3>1
      <4>2. \A key \in Keys : sessions[key].conn = k => key = <<p, client[p].ident>>
        BY <1>0, <1>1 DEF SocketsInv
      <4> QED BY <1>4, <1>7, <2>0, <3>1, <4>1, <4>2
    <3>2. CASE q # p
      <4>1. client'[q] = client[q] /\ client[q].socket = l
        BY <1>5, <2>3, <3>2
      <4> QED BY <1>0, <2>0, <4>1 DEF SocketsInv
    <3> QED BY <3>1, <3>2
  <2> QED BY <2>1, <2>2, <2>3 DEF SocketsInv
<1>9. IdentsInv'
  <2>0. records' = records
    BY <1>2 DEF brokerVars
  <2>1. ASSUME NEW q \in Pages PROVE client'[q].ident = client[q].ident
    BY <1>4, <1>5
  <2>2. ASSUME NEW q \in Pages, Stale(q)' PROVE Stale(q)
    <3>1. ASSUME NEW l \in Conns, client'[q].socket = l, NEW g \in Within(toPage'[l])
          PROVE  g.type \notin {"hello_ack", "rejected"} \/ (client[q].socket = l /\ g \in Within(toPage[l]))
      BY <1>4, <1>5, <1>6, <3>1, PlainTypes DEF Keeps
    <3>2. CASE q # p
      <4>1. client'[q].secret = client[q].secret
        BY <1>5, <3>2
      <4> QED BY <2>0, <2>1, <2>2, <3>1, <4>1, StaleCarries
    <3>3. CASE q = p
      <4>1. ASSUME NEW secret, Outdated(p, secret)' PROVE Outdated(p, secret)
        BY <2>0, <2>1, <4>1 DEF Outdated
      <4>2. CASE Outdated(p, client[p].secret)'
        <5>1. Outdated(p, f.secret)
          BY <1>4, <1>5, <2>0, <4>2 DEF Outdated
        <5> QED BY <1>1, <3>3, <5>1 DEF Stale
      <4>3. ASSUME NEW l \in Conns, client'[p].socket = l, NEW g \in Within(toPage'[l]),
                   \/ g.type = "hello_ack" /\ Outdated(p, g.secret)'
                   \/ g.type = "rejected" /\ g.code = "RESET_REQUIRED"
            PROVE  Stale(p)
        BY <3>1, <3>3, <4>1, <4>3 DEF Stale
      <4> QED BY <2>2, <3>3, <4>2, <4>3 DEF Stale
    <3> QED BY <3>2, <3>3
  <2> QED BY <1>0, <1>2, <2>1, <2>2, KeptIdents
<1>10. FrameTypes' /\ faults' \in 0..MaxFaults /\ changes' \in 0..MaxChanges
  BY <1>0, <1>2, <1>6 DEF Keeps, FrameTypes, OtherTypes
<1> QED BY <1>2, <1>5, <1>8, <1>9, <1>10, PageStepInv

-----------------------------------------------------------------------------
(* Steps of the broker. *)

LEMMA SameFaults ==
    ASSUME OtherTypes, UNCHANGED <<faults, changes>>
    PROVE  faults' = faults /\ faults' \in 0..MaxFaults /\ changes' \in 0..MaxChanges
  BY DEF OtherTypes

LEMMA MoreFaults ==
    ASSUME OtherTypes, Fault
    PROVE  /\ faults' = faults + 1 /\ faults' \in Nat
           /\ faults' \in 0..MaxFaults /\ changes' \in 0..MaxChanges
<1>1. faults' = faults + 1 /\ faults' \in 0..MaxFaults /\ changes' = changes
  BY FaultBounds
<1> QED BY <1>1, MaxSessionsNat DEF OtherTypes

(* The sockets ks are closed by the broker, or at their end. *)
LEMMA ClosingInv ==
    ASSUME CoreInv, NEW ks \in SUBSET Conns, stage' = Closed(ks), SetSessions(Without(ks)),
           toBroker' = Ignored(ks), Keeps(toPage', toPage),
           UNCHANGED <<records, bindings, pageVars>>,
           (faults' = faults) \/ (faults' = faults + 1),
           faults' \in 0..MaxFaults, changes' \in 0..MaxChanges
    PROVE  CoreInv'
<1>0. /\ TypeInv /\ BrokerTypes /\ FrameTypes /\ PageTypes /\ OtherTypes /\ TablesInv
      /\ SocketsInv /\ IdentsInv /\ SessionLimit /\ RecordLimit /\ SnapInv
  BY DEF CoreInv, TypeInv
<1>1. sessions' = Without(ks)
  BY DEF SetSessions
<1>2. /\ BrokerTypes' /\ TablesInv' /\ SessionLimit' /\ RecordLimit'
      /\ \A key \in Keys : sessions'[key] = NoSession \/ sessions'[key] = sessions[key]
  BY <1>0, <1>1, EndedTables
<1>3. SnapInv' /\ snap' \in Snapshots \cup {NoSnapshot}
  <2>1. Without(ks) \in [Keys -> Sessions \cup {NoSession}]
    BY <1>1, <1>2 DEF BrokerTypes
  <2> QED BY <1>0, <1>1, <1>2, <2>1, SnapEnds
<1>4. Quiet
  <2>1. Keeps(toBroker', toBroker)
    BY <1>0, KeepsIgnored
  <2>2. \A k \in Conns : \/ stage'[k] = stage[k]
                         \/ stage'[k] = "closed" /\ toBroker'[k] = <<>>
    BY DEF Closed, Ignored
  <2>3. \A key \in Keys : sessions'[key].conn = sessions[key].conn \/ sessions'[key].conn = None
    BY <1>2, Forms
  <2> QED BY <2>1, <2>2, <2>3, KeepsMild DEF Quiet, pageVars
<1>5. SocketsInv'
  BY <1>0, <1>4, QuietSockets
<1>6. IdentsInv'
  <2>1. faults' \in Nat /\ client' = client
    BY MaxSessionsNat DEF pageVars
  <2> QED BY <1>0, <2>1, QuietIdents
<1>7. PageTypes' /\ FrameTypes' /\ OtherTypes'
  BY <1>0, <1>3, <1>4 DEF PageTypes, FrameTypes, OtherTypes, Quiet, Keeps, pageVars
<1> QED BY <1>2, <1>3, <1>5, <1>6, <1>7 DEF CoreInv, TypeInv

LEMMA PeerClosedInv ==
    ASSUME CoreInv, NEW k \in Conns, PeerClosed(k) PROVE CoreInv'
<1>0. OtherTypes /\ FrameTypes
  BY DEF CoreInv, TypeInv
<1>1. faults' = faults /\ faults' \in 0..MaxFaults /\ changes' \in 0..MaxChanges
  BY <1>0, SameFaults DEF PeerClosed, boundVars
<1>2. toPage' = toPage /\ Keeps(toPage', toPage)
  BY <1>0, KeepsSame DEF PeerClosed
<1> QED BY <1>1, <1>2, ClosingInv DEF PeerClosed

LEMMA BrokerClosesInv ==
    ASSUME CoreInv, NEW ks \in SUBSET Conns, NEW code \in {1001, 1006, 1008, 1013, 4000, 4001},
           BrokerCloses(ks, code), Fault, UNCHANGED <<records, bindings, pageVars>>
    PROVE  CoreInv'
<1>0. OtherTypes /\ FrameTypes
  BY DEF CoreInv, TypeInv
<1>1. faults' = faults + 1 /\ faults' \in 0..MaxFaults /\ changes' \in 0..MaxChanges
  BY <1>0, MoreFaults
<1>2. Keeps(toPage', toPage)
  BY <1>0, KeepsClose DEF BrokerCloses
<1> QED BY <1>1, <1>2, ClosingInv DEF BrokerCloses

LEMMA AuditFailsInv ==
    ASSUME CoreInv, NEW k \in Conns, AuditFails(k) PROVE CoreInv'
  BY BrokerClosesInv DEF AuditFails

LEMMA AuthTimeoutInv ==
    ASSUME CoreInv, NEW k \in Conns, AuthTimeout(k) PROVE CoreInv'
  BY BrokerClosesInv DEF AuthTimeout

LEMMA PingInv ==
    ASSUME CoreInv, Ping PROVE CoreInv'
<1>0. BrokerTypes /\ OtherTypes /\ FrameTypes
  BY DEF CoreInv, TypeInv
<1>1. PICK silent \in SUBSET {sessions[key].conn : key \in Live} :
        /\ IF silent = {} THEN UNCHANGED boundVars ELSE Fault
        /\ stage' = Closed(silent)
        /\ SetSessions(Without(silent))
        /\ toBroker' = Ignored(silent)
        /\ toPage' = Sent([k \in Conns |->
                IF k \in silent THEN <<Close(4000)>>
                ELSE IF \E key \in Live : sessions[key].conn = k THEN <<Frame("request")>>
                ELSE <<>>])
  BY DEF Ping
<1>2. silent \in SUBSET Conns
  <2>1. \A key \in Live : sessions[key].conn \in Conns
    BY <1>0, LiveForms, Forms DEF Live
  <2> QED BY <2>1
<1>3. /\ (faults' = faults) \/ (faults' = faults + 1)
      /\ faults' \in 0..MaxFaults /\ changes' \in 0..MaxChanges
  BY <1>0, <1>1, SameFaults, MoreFaults DEF boundVars
<1>4. Keeps(toPage', toPage)
  <2> DEFINE fs == [k \in Conns |->
                IF k \in silent THEN <<Close(4000)>>
                ELSE IF \E key \in Live : sessions[key].conn = k THEN <<Frame("request")>>
                ELSE <<>>]
             a == <<Close(4000)>>
             b == <<Frame("request")>>
  <2>1. /\ a \in Seq(Frames) /\ \A f \in Within(a) : f.type \in Plain
        /\ b \in Seq(Frames) /\ \A f \in Within(b) : f.type \in Plain
        /\ <<>> \in Seq(Frames) /\ \A f \in Within(<<>>) : f.type \in Plain
    BY FrameForms, WithinOne, WithinEmpty, EmptySeq DEF Plain
  <2>2. \A k \in Conns : fs[k] \in {a, b, <<>>}
    OBVIOUS
  <2>3. fs = [k \in Conns |-> fs[k]]
    OBVIOUS
  <2> HIDE DEF a, b
  <2>4. \A k \in Conns : fs[k] \in Seq(Frames) /\ \A f \in Within(fs[k]) : f.type \in Plain
    BY <2>1, <2>2
  <2>5. toPage' = Sent(fs)
    BY <1>1
  <2> HIDE DEF fs
  <2>6. fs \in [Conns -> Seq(Frames)]
    BY <2>3, <2>4
  <2>7. /\ Sent(fs) \in [Conns -> Seq(Frames)]
        /\ \A k \in Conns : Within(Sent(fs)[k]) \subseteq Within(toPage[k]) \cup Within(fs[k])
    BY <1>0, <2>6, SentFrames
  <2> QED BY <2>4, <2>5, <2>7 DEF Keeps
<1>5. UNCHANGED <<records, bindings, pageVars>>
  BY DEF Ping
<1> QED BY <1>1, <1>2, <1>3, <1>4, <1>5, ClosingInv

LEMMA LoseInv ==
    ASSUME CoreInv, NEW k \in Conns, Lose(k) PROVE CoreInv'
<1>0. /\ TypeInv /\ BrokerTypes /\ FrameTypes /\ PageTypes /\ OtherTypes
      /\ SocketsInv /\ IdentsInv
  BY DEF CoreInv, TypeInv
<1>1. /\ faults' = faults + 1 /\ faults' \in Nat
      /\ faults' \in 0..MaxFaults /\ changes' \in 0..MaxChanges
  BY <1>0, MoreFaults DEF Lose
<1>2. Keeps(toBroker', toBroker) /\ Keeps(toPage', toPage)
  <2> DEFINE s == <<Close(1006)>>
  <2>1. s \in Seq(Frames) /\ \A f \in Within(s) : f.type \in Plain
    BY FrameForms, WithinOne DEF Plain
  <2>2. toBroker' = [toBroker EXCEPT ![k] = s] /\ toPage' = [toPage EXCEPT ![k] = s]
    BY DEF Lose
  <2>3. toBroker \in [Conns -> Seq(Frames)] /\ toPage \in [Conns -> Seq(Frames)]
    BY <1>0 DEF FrameTypes
  <2> HIDE DEF s
  <2>4. Keeps([toBroker EXCEPT ![k] = s], toBroker) /\ Keeps([toPage EXCEPT ![k] = s], toPage)
    BY <2>1, <2>3, KeepsReplaced
  <2> QED BY <2>2, <2>4
<1>3. UNCHANGED <<brokerVars, pageVars, snap>>
  BY DEF Lose
<1>4. Quiet
  BY <1>2, <1>3, KeepsMild DEF Quiet, brokerVars, pageVars
<1>5. SocketsInv' /\ IdentsInv'
  <2>1. client' = client
    BY <1>3 DEF pageVars
  <2> QED BY <1>0, <1>1, <1>2, <1>4, <2>1, QuietSockets, QuietIdents
<1>6. FrameTypes' /\ PageTypes'
  BY <1>0, <1>2, <1>3 DEF Keeps, FrameTypes, PageTypes, pageVars
<1> QED BY <1>1, <1>3, <1>5, <1>6, PageStepInv

LEMMA RestartInv ==
    ASSUME CoreInv, Restart PROVE CoreInv'
<1>0. /\ TypeInv /\ BrokerTypes /\ FrameTypes /\ PageTypes /\ OtherTypes /\ TablesInv
      /\ SocketsInv /\ IdentsInv /\ SessionLimit /\ RecordLimit /\ SnapInv
  BY DEF CoreInv, TypeInv
<1>1. /\ faults' = faults + 1 /\ faults' \in Nat
      /\ faults' \in 0..MaxFaults /\ changes' \in 0..MaxChanges
  BY <1>0, MoreFaults DEF Restart
<1> DEFINE ss == [key \in Keys |-> NoSession]
<1>2. /\ stage' = [k \in Conns |-> "closed"] /\ SetSessions(ss)
      /\ records' = [key \in Keys |-> NoRecord] /\ toBroker' = [k \in Conns |-> <<>>]
      /\ UNCHANGED <<bindings, pageVars>>
  BY DEF Restart
<1>3. sessions' = ss
  BY <1>2 DEF SetSessions
<1>4. BrokerTypes' /\ ss \in [Keys -> Sessions \cup {NoSession}]
  BY <1>0, <1>2, <1>3 DEF BrokerTypes, Stages
<1>5. Live' = {} /\ Remembered' = {}
  BY <1>2, <1>3 DEF Live, Remembered
<1>6. TablesInv'
  <2>1. \A key \in Keys : records'[key].binding = None
    BY <1>2, Forms
  <2>2. \A key \in Keys : records'[key].binding <= bindings'
    BY <1>0, <1>2, <2>1 DEF BrokerTypes, None
  <2> QED BY <1>2, <1>5, <2>2 DEF TablesInv
<1>7. SessionLimit' /\ RecordLimit'
  BY <1>0, <1>5, FewerSessions, FewerRecords, MaxSessionsNat
<1>8. SnapInv' /\ snap' \in Snapshots \cup {NoSnapshot}
  <2>1. \A key \in Keys : RecordAdvances(key) /\ SessionAdvances(key, ss[key])
    BY <1>2, Forms DEF RecordAdvances, SessionAdvances
  <2>2. bindings' \in Nat /\ bindings' >= bindings
    BY <1>0, <1>2 DEF BrokerTypes
  <2>3. records' \in [Keys -> Records \cup {NoRecord}]
    BY <1>4 DEF BrokerTypes
  <2> QED BY <1>0, <1>2, <1>4, <2>1, <2>2, <2>3, SnapStep
<1>9. Keeps(toPage', toPage)
  <2>1. ASSUME NEW k \in Conns
        PROVE  /\ toPage'[k] \in Seq(Frames)
               /\ \A f \in Within(toPage'[k]) : f \in Within(toPage[k]) \/ f.type \in Plain
    <3> DEFINE x == Sent(On({k}, Close(1001)))
    <3>1. toPage'[k] = IF stage[k] = "closed" THEN toPage[k] ELSE x[k]
      BY DEF Restart
    <3>2. Keeps(x, toPage)
      BY <1>0, KeepsClose
    <3> HIDE DEF x
    <3>3. CASE stage[k] = "closed"
      BY <1>0, <3>1, <3>3 DEF FrameTypes
    <3>4. CASE stage[k] # "closed"
      <4>1. toPage'[k] = x[k]
        BY <3>1, <3>4
      <4> QED BY <3>2, <4>1 DEF Keeps
    <3> QED BY <3>3, <3>4
  <2>2. toPage' = [k \in Conns |-> toPage'[k]]
    BY DEF Restart
  <2> QED BY <2>1, <2>2 DEF Keeps
<1>10. Quiet
  <2>1. Keeps(toBroker', toBroker)
    BY <1>2, EmptySeq, WithinEmpty DEF Keeps
  <2>2. \A key \in Keys : sessions'[key].conn = None
    BY <1>3, Forms
  <2> QED BY <1>2, <1>9, <2>1, <2>2, KeepsMild DEF Quiet, pageVars
<1>11. SocketsInv' /\ IdentsInv'
  <2>1. client' = client
    BY <1>2 DEF pageVars
  <2> QED BY <1>0, <1>1, <1>9, <1>10, <2>1, QuietSockets, QuietIdents
<1>12. FrameTypes' /\ PageTypes' /\ OtherTypes'
  BY <1>0, <1>1, <1>2, <1>8, <1>9, <1>10 DEF Keeps, FrameTypes, PageTypes, OtherTypes, Quiet, pageVars
<1> QED BY <1>4, <1>6, <1>7, <1>8, <1>11, <1>12 DEF CoreInv, TypeInv

LEMMA ExpireInv ==
    ASSUME CoreInv, NEW key \in Keys, Expire(key) PROVE CoreInv'
<1>0. /\ TypeInv /\ BrokerTypes /\ FrameTypes /\ PageTypes /\ OtherTypes /\ TablesInv
      /\ SocketsInv /\ IdentsInv /\ SessionLimit /\ RecordLimit /\ SnapInv
  BY DEF CoreInv, TypeInv
<1>1. /\ faults' = faults + 1 /\ faults' \in Nat
      /\ faults' \in 0..MaxFaults /\ changes' \in 0..MaxChanges
  BY <1>0, MoreFaults DEF Expire
<1>2. /\ key \notin Live /\ records' = [records EXCEPT ![key] = NoRecord]
      /\ UNCHANGED <<stage, sessions, bindings, toBroker, toPage, client, live, dirty, snap>>
  BY DEF Expire, netVars, pageVars
<1>3. \A k \in Keys : records'[k] = IF k = key THEN NoRecord ELSE records[k]
  BY <1>0, <1>2 DEF BrokerTypes
<1>4. BrokerTypes' /\ Live' = Live /\ Remembered' \subseteq Remembered
  BY <1>0, <1>2, <1>3 DEF BrokerTypes, Live, Remembered
<1>5. TablesInv'
  <2>1. \A k \in Live : records'[k] = records[k]
    BY <1>2, <1>3 DEF Live
  <2>2. \A k \in Keys : records'[k].binding <= bindings'
    BY <1>0, <1>2, <1>3, Forms DEF TablesInv, BrokerTypes, None
  <2> QED BY <1>0, <1>2, <1>4, <2>1, <2>2 DEF TablesInv
<1>6. SessionLimit' /\ RecordLimit'
  BY <1>0, <1>4, FewerSessions, FewerRecords, MaxSessionsNat
<1>7. SnapInv'
  <2>1. \A k \in Keys : records'[k].binding = None \/ records'[k] = records[k]
    BY <1>3, Forms
  <2> QED BY <1>0, <1>2, <2>1, SnapSame DEF OtherTypes
<1>8. SocketsInv'
  BY <1>0, <1>2 DEF SocketsInv
<1>9. IdentsInv'
  BY <1>0, <1>1, <1>2, StaleIdents
<1>10. FrameTypes' /\ PageTypes' /\ OtherTypes'
  BY <1>0, <1>1, <1>2 DEF FrameTypes, PageTypes, OtherTypes
<1> QED BY <1>4, <1>5, <1>6, <1>7, <1>8, <1>9, <1>10 DEF CoreInv, TypeInv

LEMMA AtHead ==
    ASSUME FrameTypes, NEW k \in Conns, NEW s, NEW type, At(k, s, type)
    PROVE  /\ stage[k] = s /\ Head(toBroker[k]) \in Frames /\ Head(toBroker[k]) \in Within(toBroker[k])
           /\ Head(toBroker[k]).type = type /\ Keeps(Received(k), toBroker)
           /\ Tail(toBroker[k]) \in Seq(Frames) /\ Within(Tail(toBroker[k])) \subseteq Within(toBroker[k])
<1>1. toBroker \in [Conns -> Seq(Frames)] /\ toBroker[k] \in Seq(Frames) /\ toBroker[k] # <<>>
  BY DEF FrameTypes, At
<1> QED BY <1>1, WithinTail, KeepsTail DEF At, Received

LEMMA UseSnapshotInv ==
    ASSUME CoreInv, UseSnapshot PROVE CoreInv'
<1>0. /\ TypeInv /\ BrokerTypes /\ FrameTypes /\ PageTypes /\ OtherTypes /\ TablesInv
      /\ SocketsInv /\ IdentsInv /\ SessionLimit /\ RecordLimit
  BY DEF CoreInv, TypeInv
<1>1. UNCHANGED <<brokerVars, toBroker, pageVars, boundVars>> /\ snap' = NoSnapshot
  BY DEF UseSnapshot
<1>2. Keeps(toPage', toPage)
  <2>1. toPage' = toPage \/ toPage' = Sent(On({snap.session.conn}, Frame("request")))
    BY DEF UseSnapshot
  <2>2. Frame("request") \in Frames /\ Frame("request").type \in Plain
    BY FrameForms DEF Plain
  <2> QED BY <1>0, <2>1, <2>2, KeepsSame, KeepsSent
<1>3. client' = client /\ faults' = faults /\ records' = records
  BY <1>1 DEF pageVars, boundVars, brokerVars
<1>4. Quiet
  BY <1>0, <1>1, <1>2, KeepsSame, KeepsMild DEF Quiet, brokerVars, pageVars
<1>5. SocketsInv' /\ IdentsInv'
  BY <1>0, <1>2, <1>3, <1>4, QuietSockets, QuietIdents
<1>6. FrameTypes' /\ PageTypes' /\ OtherTypes'
  BY <1>0, <1>1, <1>2 DEF Keeps, FrameTypes, PageTypes, OtherTypes, pageVars, boundVars
<1>7. BrokerTypes' /\ TablesInv' /\ SessionLimit' /\ RecordLimit'
  BY <1>0, <1>1, SameTables
<1>8. SnapInv'
  BY <1>1 DEF SnapInv
<1> QED BY <1>5, <1>6, <1>7, <1>8 DEF CoreInv, TypeInv

LEMMA CreateSnapshotInv ==
    ASSUME CoreInv, NEW key \in Keys, NEW kind \in {"action", "read"}, CreateSnapshot(key, kind)
    PROVE  CoreInv'
<1>0. /\ BrokerTypes /\ FrameTypes /\ PageTypes /\ OtherTypes /\ TablesInv
      /\ SocketsInv /\ IdentsInv /\ SessionLimit /\ RecordLimit
  BY DEF CoreInv, TypeInv
<1>1. /\ UNCHANGED <<brokerVars, netVars, pageVars, boundVars>> /\ key \in Live
      /\ snap' = [key |-> key, session |-> sessions[key], kind |-> kind, changed |-> FALSE]
  BY DEF CreateSnapshot
<1>2. /\ UNCHANGED <<stage, sessions, records, bindings, toBroker, toPage, client, live, dirty>>
      /\ UNCHANGED <<faults, changes>>
  BY <1>1 DEF brokerVars, netVars, pageVars, boundVars
<1>3. sessions[key] \in Sessions
  BY <1>0, <1>1, LiveForms
<1>4. SocketsInv'
  BY <1>0, <1>2 DEF SocketsInv
<1>5. IdentsInv'
  <2>1. \A p \in Pages : Stale(p)' <=> Stale(p)
    BY <1>2 DEF Stale, Outdated
  <2> QED BY <1>0, <1>2, <2>1 DEF IdentsInv
<1>6. snap' \in Snapshots
  BY <1>1, <1>3 DEF Snapshots
<1>7. FrameTypes' /\ PageTypes' /\ OtherTypes'
  BY <1>0, <1>2, <1>6 DEF FrameTypes, PageTypes, OtherTypes
<1>8. BrokerTypes' /\ TablesInv' /\ SessionLimit' /\ RecordLimit'
  BY <1>0, <1>1, SameTables
<1>9. SnapInv'
  <2>1. /\ sessions[key].version \in Nat /\ sessions[key].generation \in Nat
        /\ sessions[key].binding = records[key].binding
        /\ sessions[key].generation = records[key].generation
        /\ records[key].binding <= bindings
    BY <1>0, <1>1, <1>3 DEF Sessions, TablesInv
  <2>2. snap'.key = key /\ snap'.session = sessions[key] /\ ~snap'.changed
    BY <1>1
  <2>3. Following(snap', sessions[key])
    BY <2>1, <2>2 DEF Following
  <2> QED BY <1>2, <2>1, <2>2, <2>3 DEF SnapInv
<1> QED BY <1>4, <1>5, <1>7, <1>8, <1>9 DEF CoreInv, TypeInv

LEMMA AcceptAuthInitInv ==
    ASSUME CoreInv, NEW k \in Conns, AcceptAuthInit(k) PROVE CoreInv'
<1> DEFINE f == Frame("auth_challenge")
<1>0. /\ TypeInv /\ BrokerTypes /\ FrameTypes /\ PageTypes /\ OtherTypes /\ SocketsInv /\ IdentsInv
  BY DEF CoreInv, TypeInv
<1>1. /\ stage' = [stage EXCEPT ![k] = "proof"] /\ toBroker' = Received(k)
      /\ toPage' = Sent(On({k}, f))
      /\ UNCHANGED <<sessions, records, bindings, client, live, dirty, snap, faults, changes>>
  BY DEF AcceptAuthInit, pageVars, boundVars
<1>2. stage[k] = "init" /\ Keeps(toBroker', toBroker)
  BY <1>0, <1>1, AtHead DEF AcceptAuthInit
<1>3. /\ stage' \in [Conns -> Stages]
      /\ \A l \in Conns : stage'[l] = IF l = k THEN "proof" ELSE stage[l]
  BY <1>0, <1>1 DEF BrokerTypes, Stages
<1>4. /\ toPage' \in [Conns -> Seq(Frames)]
      /\ \A l \in Conns : \A g \in Within(toPage'[l]) :
            g \in Within(toPage[l]) \/ (l = k /\ g.type = "auth_challenge")
  <2>1. f \in Frames /\ f.type = "auth_challenge"
    BY FrameForms
  <2> HIDE DEF f
  <2>2. /\ On({k}, f) \in [Conns -> Seq(Frames)]
        /\ \A l \in Conns : Within(On({k}, f)[l]) = IF l \in {k} THEN {f} ELSE {}
    BY <2>1, OnFrames
  <2>3. /\ toPage' \in [Conns -> Seq(Frames)]
        /\ \A l \in Conns : Within(toPage'[l]) \subseteq Within(toPage[l]) \cup Within(On({k}, f)[l])
    BY <1>0, <1>1, <2>2, SentFrames
  <2> QED BY <2>1, <2>2, <2>3
<1>5. \A l \in Conns : \A g \in Within(toBroker'[l]) : g.type = "auth_response" => g \in Within(toBroker[l])
  BY <1>2, PlainTypes DEF Keeps
<1>6. SocketsInv'
  <2>1. \A p, q \in Pages : client'[p].socket = client'[q].socket /\ client'[p].socket # None => p = q
    BY <1>0, <1>1 DEF SocketsInv
  <2>2. ASSUME NEW l \in Conns
        PROVE  /\ \A g \in Within(toPage'[l]) : g.type = "auth_challenge" => stage'[l] # "init"
               /\ \A g \in Within(toPage'[l]) : g.type = "hello_ack" => stage'[l] \in {"open", "closed"}
               /\ \A g \in Within(toBroker'[l]) : g.type = "auth_response" => stage'[l] = "proof"
    <3>1. CASE l = k
      BY <1>0, <1>2, <1>3, <1>4, <3>1 DEF SocketsInv
    <3>2. CASE l # k
      BY <1>0, <1>3, <1>4, <1>5, <3>2 DEF SocketsInv
    <3> QED BY <3>1, <3>2
  <2>3. ASSUME NEW p \in Pages, NEW l \in Conns, client'[p].socket = l
        PROVE  /\ client'[p].state = "await_challenge" => stage'[l] \in {"closed", "init", "proof"}
               /\ \A g \in Within(toBroker'[l]) : g.type = "auth_response" =>
                    /\ client'[p].state # "await_challenge"
                    /\ g.key = <<p, client'[p].ident>> /\ g.secret = client'[p].secret
               /\ \A key \in Keys : sessions'[key].conn = l => key = <<p, client'[p].ident>>
    BY <1>0, <1>1, <1>3, <1>5, <2>3 DEF SocketsInv
  <2> QED BY <2>1, <2>2, <2>3 DEF SocketsInv
<1>7. IdentsInv'
  <2>1. ASSUME NEW p \in Pages, Stale(p)' PROVE Stale(p)
    BY <1>1, <1>4, <2>1, StaleCarries
  <2> QED BY <1>0, <1>1, <2>1, KeptIdents
<1>8. FrameTypes' /\ PageTypes' /\ faults' \in 0..MaxFaults /\ changes' \in 0..MaxChanges
  BY <1>0, <1>1, <1>2, <1>4 DEF Keeps, FrameTypes, PageTypes, OtherTypes
<1>9. \A l \in Conns : stage'[l] \in {"audit", "open"} <=> stage[l] \in {"audit", "open"}
  BY <1>2, <1>3
<1> QED BY <1>1, <1>3, <1>6, <1>7, <1>8, <1>9, StageStepInv

LEMMA SendHelloAckInv ==
    ASSUME CoreInv, NEW k \in Conns, SendHelloAck(k) PROVE CoreInv'
<1>0. /\ TypeInv /\ BrokerTypes /\ FrameTypes /\ PageTypes /\ OtherTypes /\ TablesInv
      /\ SocketsInv /\ IdentsInv
  BY DEF CoreInv, TypeInv
<1>1. PICK key \in Live :
        /\ sessions[key].conn = k
        /\ toPage' = Sent(On({k}, [type |-> "hello_ack", secret |-> sessions[key].binding]))
  BY DEF SendHelloAck
<1> DEFINE f == [type |-> "hello_ack", secret |-> sessions[key].binding]
<1>2. /\ stage[k] = "audit" /\ stage' = [stage EXCEPT ![k] = "open"]
      /\ UNCHANGED <<sessions, records, bindings, toBroker, client, live, dirty, snap, faults, changes>>
  BY DEF SendHelloAck, pageVars, boundVars
<1>3. /\ stage' \in [Conns -> Stages]
      /\ \A l \in Conns : stage'[l] = IF l = k THEN "open" ELSE stage[l]
  BY <1>0, <1>2 DEF BrokerTypes, Stages
<1>4. key \in Keys /\ sessions[key].binding \in Bindings /\ records[key].binding = sessions[key].binding
  <2>1. key \in Keys /\ sessions[key] \in Sessions
    BY <1>0, LiveForms DEF Live
  <2> QED BY <1>0, <2>1 DEF Sessions, TablesInv
<1>5. f \in Frames /\ f.type = "hello_ack" /\ f.secret = records[key].binding
  BY <1>4, FrameForms
<1>6. /\ toPage' \in [Conns -> Seq(Frames)]
      /\ \A l \in Conns : \A g \in Within(toPage'[l]) :
            g \in Within(toPage[l]) \/ (l = k /\ g = f)
  <2>1. toPage' = Sent(On({k}, f))
    BY <1>1
  <2> HIDE DEF f
  <2>2. /\ On({k}, f) \in [Conns -> Seq(Frames)]
        /\ \A l \in Conns : Within(On({k}, f)[l]) = IF l \in {k} THEN {f} ELSE {}
    BY <1>5, OnFrames
  <2>3. /\ toPage' \in [Conns -> Seq(Frames)]
        /\ \A l \in Conns : Within(toPage'[l]) \subseteq Within(toPage[l]) \cup Within(On({k}, f)[l])
    BY <1>0, <2>1, <2>2, SentFrames
  <2> QED BY <2>2, <2>3
<1> HIDE DEF f
<1>7. SocketsInv'
  <2>1. \A p, q \in Pages : client'[p].socket = client'[q].socket /\ client'[p].socket # None => p = q
    BY <1>0, <1>2 DEF SocketsInv
  <2>2. ASSUME NEW l \in Conns
        PROVE  /\ \A g \in Within(toPage'[l]) : g.type = "auth_challenge" => stage'[l] # "init"
               /\ \A g \in Within(toPage'[l]) : g.type = "hello_ack" => stage'[l] \in {"open", "closed"}
               /\ \A g \in Within(toBroker'[l]) : g.type = "auth_response" => stage'[l] = "proof"
    <3>1. CASE l = k
      BY <1>0, <1>2, <1>3, <3>1 DEF SocketsInv
    <3>2. CASE l # k
      BY <1>0, <1>2, <1>3, <1>6, <3>2 DEF SocketsInv
    <3> QED BY <3>1, <3>2
  <2>3. ASSUME NEW p \in Pages, NEW l \in Conns, client'[p].socket = l
        PROVE  /\ client'[p].state = "await_challenge" => stage'[l] \in {"closed", "init", "proof"}
               /\ \A g \in Within(toBroker'[l]) : g.type = "auth_response" =>
                    /\ client'[p].state # "await_challenge"
                    /\ g.key = <<p, client'[p].ident>> /\ g.secret = client'[p].secret
               /\ \A key2 \in Keys : sessions'[key2].conn = l => key2 = <<p, client'[p].ident>>
    BY <1>0, <1>2, <1>3, <2>3 DEF SocketsInv
  <2> QED BY <2>1, <2>2, <2>3 DEF SocketsInv
<1>8. IdentsInv'
  <2>1. ASSUME NEW p \in Pages, Stale(p)' PROVE Stale(p)
    <3>1. ASSUME NEW secret, Outdated(p, secret)' PROVE Outdated(p, secret)
      BY <1>2, <3>1 DEF Outdated
    <3>2. CASE Outdated(p, client[p].secret)'
      BY <1>2, <3>2 DEF Outdated, Stale
    <3>3. ASSUME NEW l \in Conns, client'[p].socket = l, NEW g \in Within(toPage'[l]),
                 \/ g.type = "hello_ack" /\ Outdated(p, g.secret)'
                 \/ g.type = "rejected" /\ g.code = "RESET_REQUIRED"
          PROVE  Stale(p)
      <4>1. CASE g \in Within(toPage[l])
        BY <1>2, <3>1, <3>3, <4>1 DEF Stale
      <4>2. CASE l = k /\ g = f
        <5>1. key = <<p, client[p].ident>>
          BY <1>0, <1>1, <1>2, <1>4, <3>3, <4>2 DEF SocketsInv
        <5>2. ~Outdated(p, g.secret)'
          BY <1>2, <1>5, <4>2, <5>1 DEF Outdated
        <5> QED BY <1>5, <3>3, <4>2, <5>2
      <4> QED BY <1>6, <4>1, <4>2
    <3> QED BY <1>2, <2>1, <3>2, <3>3 DEF Stale
  <2> QED BY <1>0, <1>2, <2>1, KeptIdents
<1>9. FrameTypes' /\ PageTypes' /\ faults' \in 0..MaxFaults /\ changes' \in 0..MaxChanges
  BY <1>0, <1>2, <1>6 DEF FrameTypes, PageTypes, OtherTypes
<1>10. \A l \in Conns : stage'[l] \in {"audit", "open"} <=> stage[l] \in {"audit", "open"}
  BY <1>2, <1>3
<1> QED BY <1>2, <1>3, <1>7, <1>8, <1>9, <1>10, StageStepInv

LEMMA ContextEventInv ==
    ASSUME CoreInv, NEW k \in Conns, ContextEvent(k) PROVE CoreInv'
<1> DEFINE key == KeyOf(k)
           new == Head(toBroker[k]).context
           step == IF GuardOf[new] # GuardOf[sessions[key].context] THEN 1 ELSE 0
           ss == [sessions EXCEPT ![key].context = new, ![key].version = @ + 1,
                                  ![key].generation = @ + step]
<1>0. /\ TypeInv /\ BrokerTypes /\ FrameTypes /\ PageTypes /\ OtherTypes /\ TablesInv
      /\ SocketsInv /\ IdentsInv /\ SessionLimit /\ RecordLimit /\ SnapInv
  BY DEF CoreInv, TypeInv
<1>1. /\ SetSessions(ss) /\ toBroker' = Received(k)
      /\ records' = IF step = 0 THEN records
                    ELSE [records EXCEPT ![key].generation = sessions[key].generation + 1]
      /\ UNCHANGED <<stage, bindings, toPage, client, live, dirty, faults, changes>>
  BY DEF ContextEvent, pageVars, boundVars
<1>2. stage[k] = "open" /\ Keeps(toBroker', toBroker) /\ new \in Contexts
  BY <1>0, <1>1, AtHead, FrameFields DEF ContextEvent
<1>3. key \in Live /\ sessions[key].conn = k
  <2>1. \E i \in Live : sessions[i].conn = k
    BY <1>0, <1>2 DEF TablesInv
  <2> QED BY <2>1 DEF KeyOf
<1>4. /\ key \in Keys /\ sessions[key] \in Sessions /\ records[key] \in Records
      /\ records[key].binding = sessions[key].binding
      /\ records[key].generation = sessions[key].generation
  <2>1. key \in Keys
    BY <1>3 DEF Live
  <2> QED BY <1>0, <1>3, <2>1, LiveForms DEF TablesInv
<1>5. step \in {0, 1} /\ (step = 0 => GuardOf[new] = GuardOf[sessions[key].context])
  OBVIOUS
<1> HIDE DEF key, new, step
<1>6. /\ \A i \in Keys : i # key => ss[i] = sessions[i]
      /\ ss[key] = [sessions[key] EXCEPT !.context = new, !.version = @ + 1, !.generation = @ + step]
  BY <1>0, <1>4 DEF BrokerTypes
<1>7. /\ ss[key] \in Sessions /\ ss[key].conn = k /\ ss[key].binding = sessions[key].binding
      /\ ss[key].generation = sessions[key].generation + step
      /\ ss[key].version = sessions[key].version + 1 /\ ss[key].context = new
  <2> DEFINE g == sessions[key].generation + step
             v == sessions[key].version + 1
  <2>1. g \in Nat \ {0} /\ v \in Nat \ {0}
    BY <1>4, <1>5 DEF Sessions
  <2>2. ss[key] = [sessions[key] EXCEPT !.context = new, !.version = v, !.generation = g]
    BY <1>6
  <2> HIDE DEF g, v, ss
  <2>3. /\ ss[key] \in Sessions /\ ss[key].conn = k /\ ss[key].binding = sessions[key].binding
        /\ ss[key].generation = g /\ ss[key].version = v /\ ss[key].context = new
    BY <1>2, <1>3, <1>4, <2>1, <2>2 DEF Sessions
  <2> QED BY <2>3 DEF g, v
<1>8. ss \in [Keys -> Sessions \cup {NoSession}]
  <2>1. ss = [i \in Keys |-> ss[i]]
    BY <1>0 DEF BrokerTypes
  <2> HIDE DEF ss
  <2>2. \A i \in Keys : ss[i] \in Sessions \cup {NoSession}
    BY <1>0, <1>6, <1>7 DEF BrokerTypes
  <2> QED BY <2>1, <2>2
<1>9. sessions' = ss
  BY <1>1 DEF SetSessions
<1> HIDE DEF ss
<1>10. /\ records' \in [Keys -> Records \cup {NoRecord}]
       /\ \A i \in Keys : i # key => records'[i] = records[i]
       /\ records'[key] \in Records /\ records'[key].binding = records[key].binding
       /\ records'[key].generation = sessions[key].generation + step
  <2>1. sessions[key].generation \in Nat \ {0}
    BY <1>4 DEF Sessions
  <2>2. CASE step = 0
    BY <1>0, <1>1, <1>4, <2>1, <2>2 DEF BrokerTypes
  <2>3. CASE step = 1
    <3>1. records' = [records EXCEPT ![key].generation = sessions[key].generation + 1]
      BY <1>1, <2>3
    <3>2. /\ \A i \in Keys : i # key => records'[i] = records[i]
          /\ records'[key] = [records[key] EXCEPT !.generation = sessions[key].generation + 1]
          /\ DOMAIN records' = Keys /\ records' = [i \in Keys |-> records'[i]]
      BY <1>0, <1>4, <3>1 DEF BrokerTypes
    <3>3. /\ records'[key] \in Records /\ records'[key].binding = records[key].binding
          /\ records'[key].generation = sessions[key].generation + 1
      BY <1>4, <2>1, <3>2 DEF Records
    <3>4. \A i \in Keys : records'[i] \in Records \cup {NoRecord}
      BY <1>0, <3>2, <3>3 DEF BrokerTypes
    <3> QED BY <2>3, <3>2, <3>3, <3>4
  <2> QED BY <1>5, <2>2, <2>3
<1>11. BrokerTypes'
  BY <1>0, <1>1, <1>8, <1>9, <1>10 DEF BrokerTypes
<1>12. Live' = Live /\ Remembered' = Remembered
  <2>1. \A i \in Keys : sessions'[i].conn = sessions[i].conn
    BY <1>3, <1>6, <1>7, <1>9
  <2>2. \A i \in Keys : records'[i].binding = records[i].binding
    BY <1>10
  <2>3. \A i \in Keys : (i \in Live' <=> i \in Live) /\ (i \in Remembered' <=> i \in Remembered)
    <3>1. \A i \in Keys : (i \in Live <=> sessions[i].conn # None) /\ (i \in Remembered <=> records[i].binding # None)
      BY <1>0, LiveForms
    <3>2. \A i \in Keys : (i \in Live' <=> sessions'[i].conn # None) /\ (i \in Remembered' <=> records'[i].binding # None)
      BY <1>11, Forms DEF BrokerTypes, Live, Remembered
    <3> QED BY <2>1, <2>2, <3>1, <3>2
  <2> QED BY <2>3 DEF Live, Remembered
<1>13. \A i \in Keys : /\ sessions'[i].conn = sessions[i].conn
                       /\ records'[i].binding = records[i].binding
  BY <1>3, <1>6, <1>7, <1>9, <1>10
<1>14. TablesInv'
  <2>1. Live \subseteq Keys
    BY DEF Live
  <2>2. ASSUME NEW i \in Live'
        PROVE  /\ stage'[sessions'[i].conn] \in {"audit", "open"} /\ records'[i] \in Records
               /\ records'[i].binding = sessions'[i].binding
               /\ records'[i].generation = sessions'[i].generation
    <3>1. i \in Live /\ i \in Keys
      BY <1>12, <2>1
    <3>2. stage'[sessions'[i].conn] \in {"audit", "open"}
      BY <1>0, <1>1, <1>13, <3>1 DEF TablesInv
    <3>3. CASE i = key
      BY <1>4, <1>7, <1>9, <1>10, <3>2, <3>3
    <3>4. CASE i # key
      BY <1>0, <1>6, <1>9, <1>10, <3>1, <3>2, <3>4 DEF TablesInv
    <3> QED BY <3>3, <3>4
  <2>3. \A i \in Keys : records'[i].binding <= bindings'
    BY <1>0, <1>1, <1>13 DEF TablesInv
  <2>4. \A l \in Conns : stage'[l] \in {"audit", "open"} => \E i \in Live' : sessions'[i].conn = l
    BY <1>0, <1>1, <1>12, <1>13, <2>1 DEF TablesInv
  <2>5. \A i, j \in Live' : sessions'[i].conn = sessions'[j].conn => i = j
    BY <1>0, <1>12, <1>13, <2>1 DEF TablesInv
  <2> QED BY <2>2, <2>3, <2>4, <2>5 DEF TablesInv
<1>15. SessionLimit' /\ RecordLimit'
  BY <1>0, <1>12 DEF SessionLimit, RecordLimit
<1>16. SnapInv' /\ snap' \in Snapshots \cup {NoSnapshot}
  <2>1. sessions[key].generation \in Nat /\ sessions[key].version \in Nat
    BY <1>4 DEF Sessions
  <2>2. SessionAdvances(key, ss[key])
    <3>1. CASE step = 0
      <4>1. Updated(sessions[key], ss[key])
        BY <1>3, <1>5, <1>7, <2>1, <3>1 DEF Updated
      <4> QED BY <1>3, <4>1 DEF SessionAdvances
    <3>2. CASE step = 1
      <4>1. ss[key].binding = records[key].binding /\ ss[key].generation > records[key].generation
        BY <1>4, <1>7, <2>1, <3>2
      <4> QED BY <4>1 DEF SessionAdvances
    <3> QED BY <1>5, <3>1, <3>2
  <2>3. RecordAdvances(key)
    BY <1>4, <1>5, <1>10, <2>1 DEF RecordAdvances
  <2>4. ASSUME NEW i \in Keys, i # key PROVE RecordAdvances(i) /\ SessionAdvances(i, ss[i])
    <3>1. i \in Remembered => records[i].generation \in Nat
      BY <1>0, LiveForms DEF Records
    <3> QED BY <1>6, <1>10, <2>4, <3>1 DEF RecordAdvances, SessionAdvances
  <2>5. bindings' \in Nat /\ bindings' >= bindings
    BY <1>0, <1>1 DEF BrokerTypes
  <2> QED BY <1>0, <1>1, <1>8, <1>10, <2>2, <2>3, <2>4, <2>5, SnapStep
<1>17. Quiet
  BY <1>0, <1>1, <1>2, <1>13, KeepsSame, KeepsMild DEF Quiet
<1>18. SocketsInv' /\ IdentsInv'
  <2>1. Keeps(toPage', toPage)
    BY <1>0, <1>1, KeepsSame
  <2> QED BY <1>0, <1>1, <1>13, <1>17, <2>1, QuietSockets, QuietIdents
<1>19. FrameTypes' /\ PageTypes' /\ OtherTypes'
  BY <1>0, <1>1, <1>2, <1>16 DEF Keeps, FrameTypes, PageTypes, OtherTypes
<1> QED BY <1>11, <1>14, <1>15, <1>16, <1>18, <1>19 DEF CoreInv, TypeInv

-----------------------------------------------------------------------------
(* acceptHello. *)

LEMMA SingleHead ==
    ASSUME NEW q \in Seq(Frames), q # <<>>, Single(q), Head(q).type = "auth_response"
    PROVE  \A f \in Within(Tail(q)) : f.type # "auth_response"
<1>1. /\ Tail(q) \in Seq(Frames) /\ Len(Tail(q)) = Len(q) - 1
      /\ \A i \in 1..Len(Tail(q)) : Tail(q)[i] = q[i + 1]
      /\ Head(q) = q[1]
  BY HeadTailProperties
<1>2. Len(q) \in Nat \ {0} /\ DOMAIN q = 1..Len(q) /\ DOMAIN Tail(q) = 1..Len(Tail(q))
  BY <1>1, EmptySeq, LenProperties
<1>3. ASSUME NEW i \in DOMAIN Tail(q), Tail(q)[i].type = "auth_response" PROVE FALSE
  <2>1. i + 1 \in DOMAIN q /\ 1 \in DOMAIN q /\ i + 1 # 1 /\ Tail(q)[i] = q[i + 1]
    BY <1>1, <1>2
  <2> QED BY <1>1, <1>3, <2>1 DEF Single
<1> QED BY <1>3 DEF Within

LEMMA RefuseFrames ==
    ASSUME CoreInv, NEW k \in Conns, NEW code \in {"RESET_REQUIRED", "INVALID_MESSAGE"},
           stage[k] = "proof", Refuse(k, code), UNCHANGED <<pageVars, boundVars>>
    PROVE  /\ stage' \in [Conns -> Stages]
           /\ \A l \in Conns : stage'[l] \in {"audit", "open"} <=> stage[l] \in {"audit", "open"}
           /\ SocketsInv' /\ FrameTypes' /\ PageTypes'
           /\ faults' = faults /\ faults' \in 0..MaxFaults /\ changes' \in 0..MaxChanges
           /\ UNCHANGED <<sessions, snap>>
           /\ \A l \in Conns : \A f \in Within(toPage'[l]) :
                \/ f \in Within(toPage[l]) \/ f.type \notin {"hello_ack", "rejected"}
                \/ l = k /\ f = [type |-> "rejected", code |-> code]
<1>0. /\ TypeInv /\ BrokerTypes /\ FrameTypes /\ PageTypes /\ OtherTypes /\ SocketsInv
  BY DEF CoreInv, TypeInv
<1> DEFINE r == [type |-> "rejected", code |-> code]
           c == Close(1008)
           fs == [On({k}, c) EXCEPT ![k] = <<r>> \o @]
<1>1. r \in Frames /\ r.type = "rejected" /\ c \in Frames /\ c.type = "close"
  BY FrameForms
<1>2. stage' = Closed({k}) /\ toBroker' = Ignored({k}) /\ toPage' = Sent(fs) /\ UNCHANGED <<sessions, snap>>
  BY DEF Refuse
<1> HIDE DEF r, c
<1>3. /\ fs \in [Conns -> Seq(Frames)]
      /\ \A l \in Conns : \A f \in Within(fs[l]) : f = c \/ (l = k /\ f = r)
  <2>1. /\ On({k}, c) \in [Conns -> Seq(Frames)]
        /\ \A l \in Conns : Within(On({k}, c)[l]) = IF l \in {k} THEN {c} ELSE {}
    BY <1>1, OnFrames
  <2>2. <<r>> \in Seq(Frames) /\ Within(<<r>>) = {r}
    BY <1>1, WithinOne
  <2>3. /\ <<r>> \o On({k}, c)[k] \in Seq(Frames)
        /\ Within(<<r>> \o On({k}, c)[k]) \subseteq Within(<<r>>) \cup Within(On({k}, c)[k])
    BY <2>1, <2>2, WithinConcat
  <2> DEFINE s == <<r>> \o On({k}, c)[k]
             o == On({k}, c)
  <2>4. fs = [o EXCEPT ![k] = s] /\ o \in [Conns -> Seq(Frames)] /\ s \in Seq(Frames)
    BY <2>1, <2>3
  <2>5. \A f \in Within(s) : f = c \/ f = r
    BY <2>1, <2>2, <2>3
  <2>6. \A l \in Conns : \A f \in Within(o[l]) : f = c
    BY <2>1
  <2> HIDE DEF s, o, fs
  <2> QED BY <2>4, <2>5, <2>6
<1> HIDE DEF fs
<1>4. /\ toPage' \in [Conns -> Seq(Frames)]
      /\ \A l \in Conns : \A f \in Within(toPage'[l]) :
            f \in Within(toPage[l]) \/ f = c \/ (l = k /\ f = r)
  <2>1. /\ toPage' \in [Conns -> Seq(Frames)]
        /\ \A l \in Conns : Within(toPage'[l]) \subseteq Within(toPage[l]) \cup Within(fs[l])
    BY <1>0, <1>2, <1>3, SentFrames
  <2> QED BY <1>3, <2>1
<1>5. \A l \in Conns : stage'[l] = IF l = k THEN "closed" ELSE stage[l]
  BY <1>2 DEF Closed
<1>6. stage' \in [Conns -> Stages]
  BY <1>0, <1>2 DEF Closed, BrokerTypes, Stages
<1>7. Keeps(toBroker', toBroker)
  BY <1>0, <1>2, KeepsIgnored
<1>8. SocketsInv'
  <2>1. Mild(toPage', toPage)
    BY <1>1, <1>4 DEF Mild, Plain
  <2>2. \A l \in Conns : stage'[l] = stage[l] \/ (stage'[l] = "closed" /\ toBroker'[l] = <<>>)
    BY <1>2, <1>5 DEF Ignored
  <2>3. Quiet
    BY <1>2, <1>7, <2>1, <2>2 DEF Quiet, pageVars
  <2> QED BY <1>0, <2>3, QuietSockets
<1>9. FrameTypes' /\ PageTypes'
  BY <1>0, <1>4, <1>7 DEF Keeps, FrameTypes, PageTypes, pageVars
<1>10. faults' = faults /\ faults' \in 0..MaxFaults /\ changes' \in 0..MaxChanges
  BY <1>0, SameFaults DEF boundVars
<1>11. \A l \in Conns : \A f \in Within(toPage'[l]) :
            \/ f \in Within(toPage[l]) \/ f.type \notin {"hello_ack", "rejected"}
            \/ l = k /\ f = r
  BY <1>1, <1>4
<1>12. \A l \in Conns : stage'[l] \in {"audit", "open"} <=> stage[l] \in {"audit", "open"}
  BY <1>5
<1> QED BY <1>2, <1>6, <1>8, <1>9, <1>10, <1>11, <1>12 DEF r

(* What a page that is refused knows: a page told to reset has the secret  *)
(* of no record.                                                           *)
LEMMA RefuseIdents ==
    ASSUME CoreInv, NEW k \in Conns, NEW code \in {"RESET_REQUIRED", "INVALID_MESSAGE"},
           stage[k] = "proof", Refuse(k, code), UNCHANGED <<pageVars, boundVars>>,
           \A key \in Keys : records'[key].binding = records[key].binding \/ records[key].binding = None,
           code = "RESET_REQUIRED" => \A p \in Pages : client[p].socket = k => Stale(p)
    PROVE  IdentsInv'
<1>0. TypeInv /\ PageTypes /\ IdentsInv
  BY DEF CoreInv, TypeInv
<1>1. faults' = faults /\ client' = client
  BY RefuseFrames DEF pageVars
<1>2. \A l \in Conns : \A f \in Within(toPage'[l]) :
            \/ f \in Within(toPage[l]) \/ f.type \notin {"hello_ack", "rejected"}
            \/ l = k /\ f = [type |-> "rejected", code |-> code]
  BY RefuseFrames
<1>3. ASSUME NEW p \in Pages, Stale(p)' PROVE Stale(p)
  <2>0. <<p, client[p].ident>> \in Keys
    BY <1>0, ClientFields
  <2>1. ASSUME NEW secret, Outdated(p, secret)' PROVE Outdated(p, secret)
    BY <1>1, <2>0, <2>1 DEF Outdated
  <2>2. CASE Outdated(p, client[p].secret)'
    <3>1. Outdated(p, client[p].secret)
      BY <1>1, <2>0, <2>2 DEF Outdated
    <3> QED BY <3>1 DEF Stale
  <2>3. ASSUME NEW l \in Conns, client'[p].socket = l, NEW f \in Within(toPage'[l]),
               \/ f.type = "hello_ack" /\ Outdated(p, f.secret)'
               \/ f.type = "rejected" /\ f.code = "RESET_REQUIRED"
        PROVE  Stale(p)
    <3>1. CASE f \in Within(toPage[l])
      BY <1>1, <2>1, <2>3, <3>1 DEF Stale
    <3>2. CASE l = k /\ f = [type |-> "rejected", code |-> code]
      BY <1>1, <2>3, <3>2
    <3> QED BY <1>2, <2>3, <3>1, <3>2
  <2> QED BY <1>3, <2>2, <2>3 DEF Stale
<1> QED BY <1>0, <1>1, <1>3, KeptIdents

LEMMA RefusedInv ==
    ASSUME CoreInv, NEW k \in Conns, NEW code \in {"RESET_REQUIRED", "INVALID_MESSAGE"},
           stage[k] = "proof", Refuse(k, code), UNCHANGED <<records, bindings, pageVars, boundVars>>,
           code = "RESET_REQUIRED" => \A p \in Pages : client[p].socket = k => Stale(p)
    PROVE  CoreInv'
<1>1. IdentsInv'
  BY RefuseIdents
<1> QED BY <1>1, RefuseFrames, StageStepInv

(* The record of a page is drawn, or its generation goes on. *)
Renewed(key, r) ==
    /\ records' = [records EXCEPT ![key] = r]
    /\ r \in Records
    /\ bindings' \in Nat /\ bindings' >= bindings /\ r.binding <= bindings'
    /\ \/ key \notin Remembered /\ r.binding > bindings
       \/ /\ key \in Remembered /\ r.binding = records[key].binding
          /\ r.generation > records[key].generation
    /\ RecordLimit'

LEMMA RenewedRecords ==
    ASSUME CoreInv, NEW key \in Keys, NEW r, Renewed(key, r)
    PROVE  /\ records' \in [Keys -> Records \cup {NoRecord}]
           /\ records'[key] = r /\ \A i \in Keys : i # key => records'[i] = records[i]
           /\ \A i \in Keys : records'[i].binding <= bindings'
           /\ \A i \in Keys : RecordAdvances(i)
           /\ \A i \in Keys : records'[i].binding = records[i].binding \/ records[i].binding = None
<1>0. BrokerTypes /\ TablesInv
  BY DEF CoreInv, TypeInv
<1>1. /\ records' \in [Keys -> Records \cup {NoRecord}]
      /\ records'[key] = r /\ \A i \in Keys : i # key => records'[i] = records[i]
  BY <1>0 DEF BrokerTypes, Renewed
<1>2. \A i \in Keys : records[i].binding \in Nat /\ records[i].binding <= bindings /\ bindings \in Nat
  BY <1>0, LiveForms DEF TablesInv, BrokerTypes
<1>3. \A i \in Keys : records'[i].binding <= bindings'
  BY <1>1, <1>2 DEF Renewed
<1>4. \A i \in Keys : i \in Remembered => records[i].generation \in Nat
  BY <1>0, LiveForms DEF Records
<1>5. r.generation \in Nat
  BY DEF Renewed, Records
<1>6. ASSUME NEW i \in Keys PROVE RecordAdvances(i)
  <2>1. CASE i # key
    BY <1>1, <1>4, <2>1 DEF RecordAdvances
  <2>2. CASE i = key
    BY <1>1, <1>4, <1>5, <2>2 DEF RecordAdvances, Renewed
  <2> QED BY <2>1, <2>2
<1>7. ASSUME NEW i \in Keys PROVE records'[i].binding = records[i].binding \/ records[i].binding = None
  <2>1. i \notin Remembered => records[i].binding = None
    BY <1>0, LiveForms
  <2> QED BY <1>1, <2>1 DEF Renewed
<1> QED BY <1>1, <1>3, <1>6, <1>7

LEMMA RegisterRefusedInv ==
    ASSUME CoreInv, NEW k \in Conns, NEW key \in Keys, NEW r, stage[k] = "proof",
           Renewed(key, r), NoRoom(key, r.binding), Refuse(k, "INVALID_MESSAGE"),
           UNCHANGED <<pageVars, boundVars>>
    PROVE  CoreInv'
<1>0. /\ TypeInv /\ BrokerTypes /\ OtherTypes /\ TablesInv /\ SessionLimit /\ SnapInv
  BY DEF CoreInv, TypeInv
<1>1. /\ stage' \in [Conns -> Stages]
      /\ \A l \in Conns : stage'[l] \in {"audit", "open"} <=> stage[l] \in {"audit", "open"}
      /\ SocketsInv' /\ FrameTypes' /\ PageTypes'
      /\ faults' = faults /\ faults' \in 0..MaxFaults /\ changes' \in 0..MaxChanges
      /\ UNCHANGED <<sessions, snap>>
  BY RefuseFrames
<1>2. /\ records' \in [Keys -> Records \cup {NoRecord}]
      /\ records'[key] = r /\ \A i \in Keys : i # key => records'[i] = records[i]
      /\ \A i \in Keys : records'[i].binding <= bindings'
      /\ \A i \in Keys : RecordAdvances(i)
      /\ \A i \in Keys : records'[i].binding = records[i].binding \/ records[i].binding = None
  BY RenewedRecords
<1>3. key \notin Live
  <2>1. key \in Live => key \in Remembered /\ records[key].binding = sessions[key].binding
    BY <1>0, LiveForms DEF TablesInv
  <2> QED BY <2>1 DEF NoRoom, Renewed
<1>4. Live' = Live
  BY <1>1 DEF Live
<1>5. BrokerTypes'
  BY <1>0, <1>1, <1>2 DEF BrokerTypes, Renewed
<1>6. TablesInv'
  <2>1. ASSUME NEW i \in Live'
        PROVE  /\ stage'[sessions'[i].conn] \in {"audit", "open"} /\ records'[i] \in Records
               /\ records'[i].binding = sessions'[i].binding
               /\ records'[i].generation = sessions'[i].generation
    <3>1. i \in Live /\ i \in Keys /\ i # key
      BY <1>3, <1>4 DEF Live
    <3>2. sessions[i].conn \in Conns
      BY <1>0, <3>1, LiveForms, Forms
    <3> QED BY <1>0, <1>1, <1>2, <3>1, <3>2 DEF TablesInv
  <2>2. \A l \in Conns : stage'[l] \in {"audit", "open"} => \E i \in Live' : sessions'[i].conn = l
    BY <1>0, <1>1, <1>4 DEF TablesInv
  <2>3. \A i, j \in Live' : sessions'[i].conn = sessions'[j].conn => i = j
    BY <1>0, <1>1, <1>4 DEF TablesInv
  <2> QED BY <1>2, <2>1, <2>2, <2>3 DEF TablesInv
<1>7. SessionLimit' /\ RecordLimit'
  BY <1>0, <1>4 DEF SessionLimit, Renewed
<1>8. SnapInv'
  <2>1. CASE snap = NoSnapshot
    BY <1>1, <2>1 DEF SnapInv
  <2>2. CASE snap # NoSnapshot
    <3> DEFINE i == snap.key
               then == snap.session
    <3>1. i \in Keys /\ then \in Sessions
      BY <1>0, <2>2 DEF OtherTypes, Snapshots
    <3>2. then.binding \in Nat /\ then.generation \in Nat /\ then.binding # None /\ bindings \in Nat
          /\ bindings' \in Nat /\ bindings' >= bindings
      BY <1>0, <3>1 DEF Sessions, Bindings, BrokerTypes, Renewed, None
    <3>3. /\ then.binding <= bindings
          /\ records[i].binding = then.binding => records[i].generation >= then.generation
          /\ i \in Live /\ sessions[i].binding = then.binding
             /\ sessions[i].generation = then.generation => Following(snap, sessions[i])
      BY <1>0, <2>2 DEF SnapInv
    <3>4. ASSUME records'[i].binding = then.binding PROVE records'[i].generation >= then.generation
      <4>1. CASE i # key
        BY <1>2, <3>1, <3>3, <3>4, <4>1
      <4>2. CASE i = key
        <5>1. ~(r.binding > bindings)
          BY <1>2, <3>2, <3>3, <3>4, <4>2
        <5>2. key \in Remembered /\ r.binding = records[key].binding /\ r.generation > records[key].generation
          BY <5>1 DEF Renewed
        <5>3. r.generation \in Nat /\ records[key].generation \in Nat
          BY <1>0, <5>2, LiveForms DEF Renewed, Records
        <5>4. records[key].generation >= then.generation
          BY <1>2, <3>3, <3>4, <4>2, <5>2
        <5> QED BY <1>2, <3>2, <4>2, <5>2, <5>3, <5>4
      <4> QED BY <4>1, <4>2
    <3>5. then.binding <= bindings'
      BY <3>2, <3>3
    <3>6. snap' = snap /\ sessions' = sessions
      BY <1>1
    <3> QED BY <1>4, <3>3, <3>4, <3>5, <3>6 DEF SnapInv, Following
  <2> QED BY <2>1, <2>2
<1>9. IdentsInv'
  BY <1>2, RefuseIdents
<1>10. OtherTypes'
  BY <1>0, <1>1 DEF OtherTypes
<1> QED BY <1>1, <1>5, <1>6, <1>7, <1>8, <1>9, <1>10 DEF CoreInv, TypeInv

(* The session of a page starts on socket k; the one it had ends. *)
Registers(k, key, r, context) ==
    /\ stage' = [Closed(Replaced(key)) EXCEPT ![k] = "audit"]
    /\ toBroker' = [Ignored(Replaced(key)) EXCEPT ![k] = Tail(@)]
    /\ toPage' = Sent(On(Replaced(key), Close(4001)))
    /\ SetSessions([sessions EXCEPT ![key] =
            [conn |-> k, binding |-> r.binding, generation |-> r.generation,
             context |-> context, version |-> 1]])

LEMMA RegistersTables ==
    ASSUME CoreInv, NEW k \in Conns, NEW key \in Keys, NEW r, NEW context \in Contexts,
           stage[k] = "proof", Renewed(key, r), ~NoRoom(key, r.binding), Registers(k, key, r, context)
    PROVE  /\ BrokerTypes' /\ TablesInv' /\ SessionLimit' /\ RecordLimit' /\ SnapInv'
           /\ snap' \in Snapshots \cup {NoSnapshot}
           /\ k \notin Replaced(key) /\ sessions'[key].conn = k
           /\ \A i \in Keys : i # key => sessions'[i] = sessions[i]
           /\ \A l \in Conns : stage'[l] = IF l = k THEN "audit"
                                           ELSE IF l \in Replaced(key) THEN "closed" ELSE stage[l]
<1> DEFINE s == [conn |-> k, binding |-> r.binding, generation |-> r.generation,
                 context |-> context, version |-> 1]
           ss == [sessions EXCEPT ![key] = s]
<1>0. /\ TypeInv /\ BrokerTypes /\ OtherTypes /\ TablesInv /\ SessionLimit /\ SnapInv
  BY DEF CoreInv, TypeInv
<1>1. /\ stage' = [Closed(Replaced(key)) EXCEPT ![k] = "audit"] /\ SetSessions(ss)
  BY DEF Registers
<1>2. /\ s \in Sessions /\ s.conn = k /\ s.binding = r.binding /\ s.generation = r.generation
  BY DEF Sessions, Records, Renewed
<1> HIDE DEF s
<1>3. /\ ss \in [Keys -> Sessions \cup {NoSession}] /\ ss[key] = s
      /\ \A i \in Keys : i # key => ss[i] = sessions[i]
  BY <1>0, <1>2 DEF BrokerTypes
<1>4. sessions' = ss
  BY <1>1 DEF SetSessions
<1> HIDE DEF ss
<1>5. /\ records' \in [Keys -> Records \cup {NoRecord}]
      /\ records'[key] = r /\ \A i \in Keys : i # key => records'[i] = records[i]
      /\ \A i \in Keys : records'[i].binding <= bindings'
      /\ \A i \in Keys : RecordAdvances(i)
  BY RenewedRecords
<1>6. k \notin Replaced(key)
  <2>1. key \in Live => stage[sessions[key].conn] # "proof"
    BY <1>0 DEF TablesInv
  <2> QED BY <2>1 DEF Replaced
<1>7. \A l \in Conns : stage'[l] = IF l = k THEN "audit"
                                   ELSE IF l \in Replaced(key) THEN "closed" ELSE stage[l]
  BY <1>1 DEF Closed
<1>8. stage' \in [Conns -> Stages]
  <2>1. Closed(Replaced(key)) \in [Conns -> Stages]
    BY <1>0 DEF Closed, BrokerTypes, Stages
  <2> QED BY <1>1, <2>1 DEF Stages
<1>9. BrokerTypes'
  BY <1>3, <1>4, <1>5, <1>8 DEF BrokerTypes, Renewed
<1>10. Live' = Live \cup {key} /\ key \in Live'
  <2>1. sessions'[key] # NoSession /\ \A i \in Keys : i # key => sessions'[i] = sessions[i]
    BY <1>2, <1>3, <1>4, Forms
  <2> QED BY <2>1 DEF Live
<1>11. TablesInv'
  <2>1. ASSUME NEW i \in Live'
        PROVE  /\ stage'[sessions'[i].conn] \in {"audit", "open"} /\ records'[i] \in Records
               /\ records'[i].binding = sessions'[i].binding
               /\ records'[i].generation = sessions'[i].generation
    <3>1. CASE i = key
      BY <1>2, <1>3, <1>4, <1>5, <1>7, <3>1 DEF Renewed
    <3>2. CASE i # key
      <4>1. i \in Live /\ i \in Keys /\ sessions'[i] = sessions[i] /\ records'[i] = records[i]
        BY <1>3, <1>4, <1>5, <1>10, <3>2 DEF Live
      <4>2. sessions[i].conn \in Conns /\ stage[sessions[i].conn] \in {"audit", "open"}
        BY <1>0, <4>1, LiveForms, Forms DEF TablesInv
      <4>3. sessions[i].conn \notin Replaced(key)
        BY <1>0, <3>2, <4>1 DEF TablesInv, Replaced
      <4> QED BY <1>0, <1>7, <4>1, <4>2, <4>3 DEF TablesInv
    <3> QED BY <3>1, <3>2
  <2>2. ASSUME NEW l \in Conns, stage'[l] \in {"audit", "open"}
        PROVE  \E i \in Live' : sessions'[i].conn = l
    <3>1. CASE l = k
      BY <1>2, <1>3, <1>4, <1>10, <3>1
    <3>2. CASE l # k
      <4>1. l \notin Replaced(key) /\ stage[l] \in {"audit", "open"}
        BY <1>7, <2>2, <3>2
      <4>2. PICK i \in Live : sessions[i].conn = l
        BY <1>0, <4>1 DEF TablesInv
      <4>3. i # key /\ i \in Keys
        BY <4>1, <4>2 DEF Replaced, Live
      <4> QED BY <1>3, <1>4, <1>10, <4>2, <4>3
    <3> QED BY <3>1, <3>2
  <2>3. ASSUME NEW i \in Live', NEW j \in Live', sessions'[i].conn = sessions'[j].conn PROVE i = j
    <3>1. \A o \in Live : stage[sessions[o].conn] # "proof"
      BY <1>0 DEF TablesInv
    <3>2. \A o \in Live' : o # key => o \in Live /\ o \in Keys /\ sessions'[o] = sessions[o]
                                        /\ sessions[o].conn # k
      BY <1>3, <1>4, <1>10, <3>1 DEF Live
    <3>3. sessions'[key].conn = k
      BY <1>2, <1>3, <1>4
    <3> QED BY <1>0, <2>3, <3>2, <3>3 DEF TablesInv
  <2> QED BY <1>5, <2>1, <2>2, <2>3 DEF TablesInv
<1>12. SessionLimit'
  <2>1. CASE key \in Live
    <3>1. Live' = Live
      BY <1>10, <2>1
    <3> QED BY <1>0, <3>1 DEF SessionLimit
  <2>2. CASE key \notin Live
    <3>1. ~(Cardinality(Live) >= MaxSessions)
      BY <2>2 DEF NoRoom
    <3>2. /\ IsFiniteSet(Live \cup {key}) /\ Cardinality(Live \cup {key}) = Cardinality(Live) + 1
          /\ Cardinality(Live) \in Nat
      BY <1>0, <2>2, FS_AddElement, FS_CardinalityType DEF SessionLimit
    <3>3. Cardinality(Live') <= MaxSessions /\ IsFiniteSet(Live')
      BY <1>10, <3>1, <3>2, MaxSessionsNat
    <3> QED BY <3>3 DEF SessionLimit
  <2> QED BY <2>1, <2>2
<1>13. SnapInv' /\ snap' \in Snapshots \cup {NoSnapshot}
  <2>1. SessionAdvances(key, ss[key])
    BY <1>2, <1>3 DEF SessionAdvances, Renewed
  <2>2. \A i \in Keys : SessionAdvances(i, ss[i])
    BY <1>3, <2>1 DEF SessionAdvances
  <2>3. bindings' \in Nat /\ bindings' >= bindings
    BY DEF Renewed
  <2> QED BY <1>0, <1>1, <1>3, <1>5, <2>2, <2>3, SnapStep
<1>14. RecordLimit'
  BY DEF Renewed
<1>15. sessions'[key].conn = k /\ \A i \in Keys : i # key => sessions'[i] = sessions[i]
  BY <1>2, <1>3, <1>4
<1> QED BY <1>6, <1>7, <1>9, <1>11, <1>12, <1>13, <1>14, <1>15

LEMMA RegistersInv ==
    ASSUME CoreInv, NEW k \in Conns, NEW key \in Keys, NEW r, NEW context \in Contexts,
           stage[k] = "proof", Renewed(key, r), ~NoRoom(key, r.binding), Registers(k, key, r, context),
           UNCHANGED <<pageVars, boundVars>>, toBroker[k] # <<>>,
           \A f \in Within(Tail(toBroker[k])) : f.type # "auth_response",
           \A p \in Pages : client[p].socket = k =>
                key = <<p, client[p].ident>> /\ client[p].state # "await_challenge"
    PROVE  CoreInv'
<1>0. /\ TypeInv /\ BrokerTypes /\ FrameTypes /\ PageTypes /\ OtherTypes /\ TablesInv /\ SocketsInv
      /\ IdentsInv
  BY DEF CoreInv, TypeInv
<1>1. /\ BrokerTypes' /\ TablesInv' /\ SessionLimit' /\ RecordLimit' /\ SnapInv'
      /\ snap' \in Snapshots \cup {NoSnapshot}
  BY RegistersTables
<1>2. /\ k \notin Replaced(key) /\ sessions'[key].conn = k
      /\ \A i \in Keys : i # key => sessions'[i] = sessions[i]
      /\ \A l \in Conns : stage'[l] = IF l = k THEN "audit"
                                      ELSE IF l \in Replaced(key) THEN "closed" ELSE stage[l]
  BY RegistersTables
<1>3. UNCHANGED <<client, live, dirty, faults, changes>>
  BY DEF pageVars, boundVars
<1>4. Keeps(toPage', toPage)
  BY <1>0, KeepsClose DEF Registers
<1>5. /\ toBroker' \in [Conns -> Seq(Frames)]
      /\ toBroker'[k] = Tail(toBroker[k])
      /\ \A l \in Conns : l # k => toBroker'[l] = IF l \in Replaced(key) THEN <<>> ELSE toBroker[l]
  <2>1. Tail(toBroker[k]) \in Seq(Frames)
    BY <1>0, WithinTail DEF FrameTypes
  <2>2. Ignored(Replaced(key)) \in [Conns -> Seq(Frames)] /\ Ignored(Replaced(key))[k] = toBroker[k]
    BY <1>0, <1>2, EmptySeq DEF Ignored, FrameTypes
  <2>3. toBroker' = [Ignored(Replaced(key)) EXCEPT ![k] = Tail(@)]
    BY DEF Registers
  <2> QED BY <2>1, <2>2, <2>3 DEF Ignored
<1>6. \A l \in Conns : \A f \in Within(toBroker'[l]) : f.type = "auth_response" =>
            l # k /\ l \notin Replaced(key) /\ f \in Within(toBroker[l])
  BY <1>5, WithinEmpty
<1>7. SocketsInv'
  <2>1. \A p, q \in Pages : client'[p].socket = client'[q].socket /\ client'[p].socket # None => p = q
    BY <1>0, <1>3 DEF SocketsInv
  <2>2. ASSUME NEW l \in Conns
        PROVE  /\ \A f \in Within(toPage'[l]) : f.type = "auth_challenge" => stage'[l] # "init"
               /\ \A f \in Within(toPage'[l]) : f.type = "hello_ack" => stage'[l] \in {"open", "closed"}
               /\ \A f \in Within(toBroker'[l]) : f.type = "auth_response" => stage'[l] = "proof"
    <3>1. \A f \in Within(toPage'[l]) : f.type \in {"auth_challenge", "hello_ack"} => f \in Within(toPage[l])
      BY <1>4, PlainTypes DEF Keeps
    <3>2. \A f \in Within(toPage[l]) : f.type = "hello_ack" => stage[l] \in {"open", "closed"}
      BY <1>0 DEF SocketsInv
    <3>3. \A f \in Within(toPage[l]) : f.type = "auth_challenge" => stage[l] # "init"
      BY <1>0 DEF SocketsInv
    <3>4. \A f \in Within(toBroker'[l]) : f.type = "auth_response" => stage'[l] = "proof"
      BY <1>0, <1>2, <1>6 DEF SocketsInv
    <3>5. stage'[l] # "init" \/ stage'[l] = stage[l]
      BY <1>2
    <3>6. stage[l] \in {"open", "closed"} => stage'[l] \in {"open", "closed"}
      BY <1>2
    <3> QED BY <3>1, <3>2, <3>3, <3>4, <3>5, <3>6
  <2>3. ASSUME NEW p \in Pages, NEW l \in Conns, client'[p].socket = l
        PROVE  /\ client'[p].state = "await_challenge" => stage'[l] \in {"closed", "init", "proof"}
               /\ \A f \in Within(toBroker'[l]) : f.type = "auth_response" =>
                    /\ client'[p].state # "await_challenge"
                    /\ f.key = <<p, client'[p].ident>> /\ f.secret = client'[p].secret
               /\ \A i \in Keys : sessions'[i].conn = l => i = <<p, client'[p].ident>>
    <3>0. client'[p] = client[p] /\ client[p].socket = l
      BY <1>3, <2>3
    <3>1. client[p].state = "await_challenge" => stage'[l] \in {"closed", "init", "proof"}
      BY <1>0, <1>2, <3>0 DEF SocketsInv
    <3>2. \A f \in Within(toBroker'[l]) : f.type = "auth_response" =>
                    /\ client[p].state # "await_challenge"
                    /\ f.key = <<p, client[p].ident>> /\ f.secret = client[p].secret
      BY <1>0, <1>6, <3>0 DEF SocketsInv
    <3>3. ASSUME NEW i \in Keys, sessions'[i].conn = l PROVE i = <<p, client[p].ident>>
      <4>1. CASE i = key
        BY <1>2, <3>0, <3>3, <4>1
      <4>2. CASE i # key
        <5>1. sessions[i].conn = l
          BY <1>2, <3>3, <4>2
        <5> QED BY <1>0, <3>0, <5>1 DEF SocketsInv
      <4> QED BY <4>1, <4>2
    <3> QED BY <3>0, <3>1, <3>2, <3>3
  <2> QED BY <2>1, <2>2, <2>3 DEF SocketsInv
<1>8. IdentsInv'
  <2>1. \A i \in Keys : records'[i].binding = records[i].binding \/ records[i].binding = None
    BY RenewedRecords
  <2> QED BY <1>0, <1>3, <1>4, <2>1, QuietIdents
<1>9. FrameTypes' /\ PageTypes' /\ OtherTypes'
  BY <1>0, <1>1, <1>3, <1>4, <1>5 DEF Keeps, FrameTypes, PageTypes, OtherTypes
<1> QED BY <1>1, <1>7, <1>8, <1>9 DEF CoreInv, TypeInv

LEMMA RegisterInv ==
    ASSUME CoreInv, NEW k \in Conns, NEW key \in Keys, NEW r, NEW context \in Contexts,
           stage[k] = "proof", Register(k, key, r, context),
           Renewed(key, r), UNCHANGED <<pageVars, boundVars>>, toBroker[k] # <<>>,
           \A f \in Within(Tail(toBroker[k])) : f.type # "auth_response",
           \A p \in Pages : client[p].socket = k =>
                key = <<p, client[p].ident>> /\ client[p].state # "await_challenge"
    PROVE  CoreInv'
<1>1. CASE NoRoom(key, r.binding)
  <2>1. Refuse(k, "INVALID_MESSAGE")
    BY <1>1 DEF Register
  <2> QED BY <1>1, <2>1, RegisterRefusedInv
<1>2. CASE ~NoRoom(key, r.binding)
  <2>1. Registers(k, key, r, context)
    BY <1>2 DEF Register, Registers
  <2> QED BY <1>2, <2>1, RegistersInv
<1> QED BY <1>1, <1>2

LEMMA AcceptHelloInv ==
    ASSUME CoreInv, OneAnswer, NEW k \in Conns, AcceptHello(k) PROVE CoreInv'
<1> DEFINE m == Head(toBroker[k])
           old == records[m.key]
           full == Cardinality(Remembered) >= 2 * MaxSessions
<1>0. /\ TypeInv /\ BrokerTypes /\ FrameTypes /\ PageTypes /\ OtherTypes /\ TablesInv /\ SocketsInv
      /\ RecordLimit
  BY DEF CoreInv, TypeInv
<1>1. /\ stage[k] = "proof" /\ m \in Frames /\ m \in Within(toBroker[k]) /\ m.type = "auth_response"
      /\ toBroker[k] # <<>> /\ toBroker[k] \in Seq(Frames)
  BY <1>0, AtHead DEF AcceptHello, At, FrameTypes
<1>2. m.key \in Keys /\ m.secret \in Bindings \cup {None} /\ m.context \in Contexts
  BY <1>1, FrameFields
<1>3. \A f \in Within(Tail(toBroker[k])) : f.type # "auth_response"
  BY <1>1, SingleHead DEF OneAnswer
<1>4. ASSUME NEW p \in Pages, client[p].socket = k
      PROVE  /\ m.key = <<p, client[p].ident>> /\ m.secret = client[p].secret
             /\ client[p].state # "await_challenge"
  BY <1>0, <1>1, <1>4 DEF SocketsInv
<1>5. UNCHANGED <<pageVars, boundVars>>
  BY DEF AcceptHello
<1>6. /\ old # NoRecord <=> m.key \in Remembered
      /\ old # NoRecord <=> old \in Records
      /\ m.key \notin Remembered => old.binding = None
      /\ bindings \in Nat
      /\ old \in Records => old.binding <= bindings /\ old.binding \in Nat /\ old.generation \in Nat
  <2>1. old \in Records => old.generation \in Nat
    BY DEF Records
  <2>2. (old # NoRecord <=> m.key \in Remembered) /\ (m.key \in Remembered <=> old \in Records)
    BY <1>0, <1>2, LiveForms DEF Remembered
  <2>3. /\ m.key \notin Remembered => old.binding = None
        /\ old.binding <= bindings /\ old.binding \in Nat /\ bindings \in Nat
    BY <1>0, <1>2, LiveForms DEF TablesInv, BrokerTypes
  <2> QED BY <2>1, <2>2, <2>3
<1>7. CASE \E code \in {"INVALID_MESSAGE", "RESET_REQUIRED"} :
            /\ Refuse(k, code) /\ UNCHANGED <<records, bindings>>
            /\ code = "RESET_REQUIRED" => old = NoRecord /\ m.secret # None
  <2>1. PICK code \in {"INVALID_MESSAGE", "RESET_REQUIRED"} :
            /\ Refuse(k, code) /\ UNCHANGED <<records, bindings>>
            /\ code = "RESET_REQUIRED" => old = NoRecord /\ m.secret # None
    BY <1>7
  <2>2. ASSUME code = "RESET_REQUIRED", NEW p \in Pages, client[p].socket = k PROVE Stale(p)
    <3>1. old.binding = None /\ m.secret # None
      BY <1>6, <2>1, <2>2
    <3>2. Outdated(p, client[p].secret)
      BY <1>4, <2>2, <3>1 DEF Outdated
    <3> QED BY <3>2 DEF Stale
  <2>3. UNCHANGED <<records, bindings, pageVars, boundVars>>
    BY <1>5, <2>1
  <2> HIDE DEF m, old, full
  <2> QED BY <1>1, <2>1, <2>2, <2>3, RefusedInv
<1>8. CASE /\ old # NoRecord /\ m.secret = old.binding
           /\ Register(k, m.key, [old EXCEPT !.generation = @ + 1], m.context)
           /\ UNCHANGED bindings
  <2> DEFINE r == [old EXCEPT !.generation = @ + 1]
  <2>1. old \in Records /\ m.key \in Remembered
    BY <1>6, <1>8
  <2>2. r \in Records /\ r.binding = old.binding /\ r.generation = old.generation + 1
    <3> DEFINE g == old.generation + 1
    <3>1. g \in Nat \ {0}
      BY <1>6, <2>1
    <3> HIDE DEF g
    <3>2. [old EXCEPT !.generation = g] \in Records /\ [old EXCEPT !.generation = g].binding = old.binding
          /\ [old EXCEPT !.generation = g].generation = g
      BY <2>1, <3>1 DEF Records
    <3> QED BY <3>2 DEF g
  <2>3. records' = [records EXCEPT ![m.key] = r]
    BY <1>8 DEF Register
  <2>4. Register(k, m.key, r, m.context) /\ bindings' = bindings
    BY <1>8
  <2> HIDE DEF r
  <2>5. Remembered' = Remembered
    <3>1. \A i \in Keys : records'[i] = IF i = m.key THEN r ELSE records[i]
      BY <1>0, <1>2, <2>3 DEF BrokerTypes
    <3>2. r # NoRecord
      BY <2>2, Forms
    <3> HIDE DEF m
    <3> QED BY <2>1, <3>1, <3>2 DEF Remembered
  <2>6. RecordLimit'
    BY <1>0, <2>5 DEF RecordLimit
  <2>7. Renewed(m.key, r)
    BY <1>6, <2>1, <2>2, <2>3, <2>4, <2>6 DEF Renewed
  <2> HIDE DEF m, old, full
  <2> QED BY <1>1, <1>2, <1>3, <1>4, <1>5, <2>4, <2>7, RegisterInv
<1>9. CASE /\ old = NoRecord /\ m.secret = None /\ ~full
           /\ bindings' = bindings + 1
           /\ Register(k, m.key, [binding |-> bindings + 1, generation |-> 1], m.context)
  <2> DEFINE r == [binding |-> bindings + 1, generation |-> 1]
  <2>1. m.key \notin Remembered
    BY <1>6, <1>9
  <2>2. r \in Records /\ r.binding = bindings + 1
    BY <1>6 DEF Records, Bindings
  <2>3. records' = [records EXCEPT ![m.key] = r]
    BY <1>9 DEF Register
  <2>4. Register(k, m.key, r, m.context) /\ bindings' = bindings + 1
    BY <1>9
  <2> HIDE DEF r
  <2>5. Remembered' = Remembered \cup {m.key}
    <3>1. \A i \in Keys : records'[i] = IF i = m.key THEN r ELSE records[i]
      BY <1>0, <1>2, <2>3 DEF BrokerTypes
    <3>2. r # NoRecord
      BY <2>2, Forms
    <3> HIDE DEF m
    <3> QED BY <1>2, <3>1, <3>2 DEF Remembered
  <2>6. RecordLimit'
    <3>1. /\ IsFiniteSet(Remembered') /\ Cardinality(Remembered') = Cardinality(Remembered) + 1
          /\ Cardinality(Remembered) \in Nat
      BY <1>0, <2>1, <2>5, FS_AddElement, FS_CardinalityType DEF RecordLimit
    <3>2. ~(Cardinality(Remembered) >= 2 * MaxSessions)
      BY <1>9
    <3>3. Cardinality(Remembered') <= 2 * MaxSessions
      BY <3>1, <3>2, MaxSessionsNat
    <3> QED BY <3>1, <3>3 DEF RecordLimit
  <2>7. Renewed(m.key, r)
    BY <1>6, <2>1, <2>2, <2>3, <2>4, <2>6 DEF Renewed
  <2> HIDE DEF m, old, full
  <2> QED BY <1>1, <1>2, <1>3, <1>4, <1>5, <2>4, <2>7, RegisterInv, ZenonT(30)
<1>10. \/ \E code \in {"INVALID_MESSAGE", "RESET_REQUIRED"} :
            /\ Refuse(k, code) /\ UNCHANGED <<records, bindings>>
            /\ code = "RESET_REQUIRED" => old = NoRecord /\ m.secret # None
       \/ /\ old # NoRecord /\ m.secret = old.binding
          /\ Register(k, m.key, [old EXCEPT !.generation = @ + 1], m.context)
          /\ UNCHANGED bindings
       \/ /\ old = NoRecord /\ m.secret = None /\ ~full
          /\ bindings' = bindings + 1
          /\ Register(k, m.key, [binding |-> bindings + 1, generation |-> 1], m.context)
  BY DEF AcceptHello
<1> QED BY <1>7, <1>8, <1>9, <1>10

-----------------------------------------------------------------------------
(* A page answers a socket's challenge once: what becomes of the queues    *)
(* to the broker. *)

LEMMA SingleEmpty == Single(<<>>)
  BY DEF Single

LEMMA SingleOne == \A f : Single(<<f>>)
  BY DEF Single

LEMMA SingleTail ==
    ASSUME NEW q \in Seq(Frames), q # <<>>, Single(q)
    PROVE  Single(Tail(q))
<1>1. /\ Len(q) \in Nat /\ Len(Tail(q)) = Len(q) - 1 /\ Tail(q) \in Seq(Frames)
      /\ \A i \in 1..Len(Tail(q)) : Tail(q)[i] = q[i + 1]
  BY HeadTailProperties, LenProperties
<1>2. DOMAIN q = 1..Len(q) /\ DOMAIN Tail(q) = 1..Len(Tail(q))
  BY <1>1, LenProperties
<1>3. ASSUME NEW n \in DOMAIN Tail(q), NEW m \in DOMAIN Tail(q),
             Tail(q)[n].type = "auth_response", Tail(q)[m].type = "auth_response"
      PROVE  n = m
  <2>1. n + 1 \in DOMAIN q /\ m + 1 \in DOMAIN q /\ n \in Nat /\ m \in Nat
    BY <1>1, <1>2
  <2>2. q[n + 1].type = "auth_response" /\ q[m + 1].type = "auth_response"
    BY <1>1, <1>2, <1>3
  <2>3. n + 1 = m + 1
    BY <2>1, <2>2 DEF Single
  <2> QED BY <2>1, <2>3
<1> QED BY <1>3 DEF Single

LEMMA SingleAppend ==
    ASSUME NEW q \in Seq(Frames), NEW f \in Frames, Single(q),
           f.type # "auth_response" \/ \A g \in Within(q) : g.type # "auth_response"
    PROVE  Single(Append(q, f))
<1>1. /\ Append(q, f) \in Seq(Frames) /\ Len(Append(q, f)) = Len(q) + 1 /\ Len(q) \in Nat
      /\ \A i \in 1..Len(q) : Append(q, f)[i] = q[i]
      /\ Append(q, f)[Len(q) + 1] = f
  BY AppendProperties, LenProperties
<1>2. DOMAIN q = 1..Len(q) /\ DOMAIN Append(q, f) = 1..(Len(q) + 1)
  BY <1>1, LenProperties
<1>3. \A i \in DOMAIN Append(q, f) :
        \/ i \in DOMAIN q /\ Append(q, f)[i] = q[i] /\ q[i] \in Within(q)
        \/ i = Len(q) + 1 /\ Append(q, f)[i] = f
  BY <1>1, <1>2 DEF Within
<1> QED BY <1>3 DEF Single

(* What a step may do to a queue. *)
Orderly ==
    \A k \in Conns :
        \/ toBroker'[k] \in {toBroker[k], <<>>}
        \/ \E f : toBroker'[k] = <<f>>
        \/ toBroker[k] # <<>> /\ toBroker'[k] = Tail(toBroker[k])
        \/ \E f \in Frames :
            /\ toBroker'[k] = Append(toBroker[k], f)
            /\ f.type # "auth_response" \/ \A g \in Within(toBroker[k]) : g.type # "auth_response"

LEMMA OrderlyAnswers ==
    ASSUME FrameTypes, OneAnswer, Orderly PROVE OneAnswer'
<1> SUFFICES ASSUME NEW k \in Conns PROVE Single(toBroker'[k])
  BY DEF OneAnswer
<1>1. Single(toBroker[k]) /\ toBroker[k] \in Seq(Frames)
  BY DEF OneAnswer, FrameTypes
<1>2. CASE toBroker'[k] \in {toBroker[k], <<>>} \/ \E f : toBroker'[k] = <<f>>
  BY <1>1, <1>2, SingleEmpty, SingleOne
<1>3. CASE toBroker[k] # <<>> /\ toBroker'[k] = Tail(toBroker[k])
  BY <1>1, <1>3, SingleTail
<1>4. CASE \E f \in Frames :
            /\ toBroker'[k] = Append(toBroker[k], f)
            /\ f.type # "auth_response" \/ \A g \in Within(toBroker[k]) : g.type # "auth_response"
  BY <1>1, <1>4, SingleAppend
<1> QED BY <1>2, <1>3, <1>4 DEF Orderly

LEMMA OrderlySame == toBroker' = toBroker => Orderly
  BY DEF Orderly

LEMMA OrderlyIgnored == ASSUME NEW ks, toBroker' = Ignored(ks) PROVE Orderly
  BY DEF Orderly, Ignored

LEMMA OrderlyReceived ==
    ASSUME FrameTypes, NEW k \in Conns, toBroker[k] # <<>>, toBroker' = Received(k) PROVE Orderly
  BY DEF Orderly, Received, FrameTypes

LEMMA OrderlyReplaced ==
    ASSUME FrameTypes, NEW k \in Conns, NEW f, toBroker' = [toBroker EXCEPT ![k] = <<f>>] PROVE Orderly
<1> SUFFICES ASSUME NEW l \in Conns PROVE toBroker'[l] = toBroker[l] \/ toBroker'[l] = <<f>>
  BY DEF Orderly
<1> QED BY DEF FrameTypes

LEMMA OrderlyReply ==
    ASSUME FrameTypes, NEW p \in Pages, client[p].socket \in Conns, NEW f \in Frames, Reply(p, f),
           f.type # "auth_response" \/ \A g \in Within(toBroker[client[p].socket]) : g.type # "auth_response"
    PROVE  Orderly
<1> SUFFICES ASSUME NEW l \in Conns
             PROVE  \/ toBroker'[l] \in {toBroker[l], <<>>}
                    \/ l = client[p].socket /\ toBroker'[l] = Append(toBroker[l], f)
  BY DEF Orderly
<1> QED BY DEF FrameTypes, Reply

LEMMA OrderlyLeave ==
    ASSUME FrameTypes, NEW p \in Pages, client[p].socket \in Conns, NEW c, Leave(p, c) PROVE Orderly
<1>1. Close(1006) \in Frames /\ Close(1006).type # "auth_response"
  BY FrameForms
<1> QED BY <1>1, OrderlyReply DEF Leave

LEMMA OrderlyHangup ==
    ASSUME TypeInv, NEW p \in Pages, NEW c, Hangup(p, c) PROVE Orderly
<1>1. client[p].socket \in Conns \cup {None} /\ FrameTypes
  BY ClientFields DEF TypeInv
<1>2. CASE client[p].socket = None
  BY <1>2, OrderlySame DEF Hangup, netVars
<1>3. CASE client[p].socket # None
  BY <1>1, <1>3, OrderlyLeave DEF Hangup
<1> QED BY <1>2, <1>3

LEMMA BrokerAnswers ==
    ASSUME TypeInv, TablesInv, OneAnswer, NEW k \in Conns, BrokerStep(k) \/ AuditFails(k) \/ AuthTimeout(k) \/ Lose(k)
    PROVE  OneAnswer'
<1>0. FrameTypes
  BY DEF TypeInv
<1>1. CASE AcceptAuthInit(k)
  BY <1>0, <1>1, OrderlyReceived, OrderlyAnswers DEF AcceptAuthInit, At
<1>2. CASE AcceptHello(k)
  <2>1. toBroker[k] # <<>> /\ stage[k] = "proof"
    BY <1>2 DEF AcceptHello, At
  <2>2. ASSUME NEW key, NEW record, NEW context, Register(k, key, record, context)
        PROVE  Orderly
    <3>1. CASE toBroker' = Ignored({k})
      BY <3>1, OrderlyIgnored
    <3>2. CASE toBroker' = [Ignored(Replaced(key)) EXCEPT ![k] = Tail(@)]
      <4>1. k \notin Replaced(key)
        BY <2>1 DEF Replaced, TablesInv
      <4>2. /\ \A l \in Conns : l # k => toBroker'[l] \in {toBroker[l], <<>>}
            /\ toBroker'[k] = Tail(toBroker[k])
        BY <3>2, <4>1 DEF Ignored
      <4> QED BY <2>1, <4>2 DEF Orderly
    <3>3. toBroker' = Ignored({k}) \/ toBroker' = [Ignored(Replaced(key)) EXCEPT ![k] = Tail(@)]
      <4>1. CASE NoRoom(key, record.binding)
        BY <2>2, <4>1 DEF Register, Refuse
      <4>2. CASE ~NoRoom(key, record.binding)
        BY <2>2, <4>2 DEF Register
      <4> QED BY <4>1, <4>2
    <3> QED BY <3>1, <3>2, <3>3
  <2>3. ASSUME NEW code, Refuse(k, code) PROVE Orderly
    BY <2>3, OrderlyIgnored DEF Refuse
  <2>4. \/ \E code : Refuse(k, code)
        \/ \E key, record, context : Register(k, key, record, context)
    BY <1>2 DEF AcceptHello
  <2> QED BY <1>0, <2>2, <2>3, <2>4, OrderlyAnswers
<1>3. CASE SendHelloAck(k)
  BY <1>0, <1>3, OrderlySame, OrderlyAnswers DEF SendHelloAck
<1>4. CASE ContextEvent(k)
  BY <1>0, <1>4, OrderlyReceived, OrderlyAnswers DEF ContextEvent, At
<1>5. CASE PeerClosed(k)
  BY <1>0, <1>5, OrderlyIgnored, OrderlyAnswers DEF PeerClosed
<1>6. CASE AuditFails(k)
  BY <1>0, <1>6, OrderlyIgnored, OrderlyAnswers DEF AuditFails, BrokerCloses
<1>7. CASE AuthTimeout(k)
  BY <1>0, <1>7, OrderlyIgnored, OrderlyAnswers DEF AuthTimeout, BrokerCloses
<1>8. CASE Lose(k)
  <2> DEFINE f == Close(1006)
  <2>1. toBroker' = [toBroker EXCEPT ![k] = <<f>>]
    BY <1>8 DEF Lose
  <2> HIDE DEF f
  <2> QED BY <1>0, <2>1, OrderlyReplaced, OrderlyAnswers
<1> QED BY <1>1, <1>2, <1>3, <1>4, <1>5, <1>6, <1>7, <1>8 DEF BrokerStep

LEMMA PageAnswers ==
    ASSUME TypeInv, SocketsInv, OneAnswer, NEW p \in Pages,
           PageStep(p) \/ HandshakeTimeout(p) \/ Stop(p) \/ Restarts(p) \/ Reload(p)
    PROVE  OneAnswer'
<1>0. FrameTypes
  BY DEF TypeInv
<1>1. CASE Connect(p)
  <2> DEFINE k == CHOOSE i \in Free : \A j \in Free : i <= j
  <2>1. k \in Conns
    <3>1. Free \in SUBSET Nat /\ Free # {}
      BY <1>1 DEF Free, Conns, Connect
    <3>2. k \in Free
      BY <3>1, LeastNatural
    <3> QED BY <3>2 DEF Free
  <2>2. toBroker' = toBroker \/ toBroker' = [toBroker EXCEPT ![k] = <<Frame("auth_init")>>]
    BY <1>1 DEF Connect
  <2> HIDE DEF k
  <2> QED BY <1>0, <2>1, <2>2, OrderlySame, OrderlyReplaced, OrderlyAnswers
<1>2. CASE HandleAuthChallenge(p)
  <2> DEFINE k == client[p].socket
             f == [type |-> "auth_response", key |-> <<p, client[p].ident>>,
                   secret |-> client[p].secret, context |-> client[p].context]
  <2>1. k \in Conns /\ client[p].state = "await_challenge"
    BY <1>2, WaitingSocket DEF HandleAuthChallenge
  <2>2. f \in Frames
    <3>1. <<p, client[p].ident>> \in Keys /\ client[p].secret \in Bindings \cup {None}
      BY ClientFields DEF TypeInv
    <3>2. client[p].context \in Contexts
      BY <2>1 DEF TypeInv, PageTypes, Consistent
    <3> QED BY <3>1, <3>2, FrameForms
  <2>3. \A g \in Within(toBroker[k]) : g.type # "auth_response"
    BY <2>1 DEF SocketsInv
  <2>4. Reply(p, f)
    BY <1>2 DEF HandleAuthChallenge
  <2> HIDE DEF f
  <2> QED BY <1>0, <2>1, <2>2, <2>3, <2>4, OrderlyReply, OrderlyAnswers
<1>3. CASE HelloAccepted(p) \/ HandleRequest(p) \/ HandleClose(p) \/ Restarts(p)
  BY <1>0, <1>3, OrderlySame, OrderlyAnswers DEF HelloAccepted, HandleRequest, HandleClose, Restarts, netVars
<1>4. CASE HelloRejected(p) \/ RejectProtocolMessage(p)
  <2>1. client[p].socket \in Conns
    BY <1>4, WaitingSocket DEF HelloRejected, RejectProtocolMessage
  <2>2. \E c : Leave(p, c)
    BY <1>4 DEF HelloRejected, RejectProtocolMessage
  <2> QED BY <1>0, <2>1, <2>2, OrderlyLeave, OrderlyAnswers
<1>5. CASE UpdateContext(p)
  <2>1. CASE client[p].state = "connected"
    <3> DEFINE f == [type |-> "context.update", context |-> live[p]]
    <3>1. client[p].socket \in Conns
      BY <2>1, ClientFields DEF TypeInv, PageTypes, Consistent, Away
    <3>2. f \in Frames /\ f.type # "auth_response"
      BY FrameForms DEF TypeInv, PageTypes
    <3>3. Reply(p, f)
      BY <1>5, <2>1 DEF UpdateContext
    <3> HIDE DEF f
    <3> QED BY <1>0, <3>1, <3>2, <3>3, OrderlyReply, OrderlyAnswers
  <2>2. CASE client[p].state # "connected"
    BY <1>0, <1>5, <2>2, OrderlySame, OrderlyAnswers DEF UpdateContext
  <2> QED BY <2>1, <2>2
<1>6. CASE HandshakeTimeout(p)
  <2>1. client[p].socket \in Conns /\ \E c : Leave(p, c)
    BY <1>6, ClientFields DEF HandshakeTimeout, TypeInv
  <2> QED BY <1>0, <2>1, OrderlyLeave, OrderlyAnswers
<1>7. CASE Stop(p) \/ Reload(p)
  <2>1. \E c : Hangup(p, c)
    BY <1>7 DEF Stop, Reload
  <2> QED BY <1>0, <2>1, OrderlyHangup, OrderlyAnswers
<1> QED BY <1>1, <1>2, <1>3, <1>4, <1>5, <1>6, <1>7 DEF PageStep

LEMMA OtherAnswers ==
    ASSUME TypeInv, OneAnswer,
           \/ \E p \in Pages, context \in Contexts : ChangeContext(p, context)
           \/ \E key \in Keys : Expire(key)
           \/ \E key \in Keys, kind \in {"action", "read"} : CreateSnapshot(key, kind)
           \/ UseSnapshot \/ Ping \/ Restart \/ UNCHANGED vars
    PROVE  OneAnswer'
<1>0. FrameTypes
  BY DEF TypeInv
<1>1. CASE Ping
  BY <1>0, <1>1, OrderlyIgnored, OrderlyAnswers DEF Ping
<1>2. CASE Restart
  <2>1. Orderly
    BY <1>2 DEF Restart, Orderly
  <2> QED BY <1>0, <2>1, OrderlyAnswers
<1>3. CASE toBroker' = toBroker
  BY <1>0, <1>3, OrderlySame, OrderlyAnswers
<1>4. ASSUME NEW p \in Pages, NEW context \in Contexts, ChangeContext(p, context) PROVE toBroker' = toBroker
  BY <1>4 DEF ChangeContext, netVars
<1>5. ASSUME NEW key \in Keys, Expire(key) PROVE toBroker' = toBroker
  BY <1>5 DEF Expire, netVars
<1>6. ASSUME NEW key \in Keys, NEW kind \in {"action", "read"}, CreateSnapshot(key, kind)
      PROVE  toBroker' = toBroker
  BY <1>6 DEF CreateSnapshot, netVars
<1>7. ASSUME UseSnapshot \/ UNCHANGED vars PROVE toBroker' = toBroker
  BY <1>7 DEF UseSnapshot, vars, netVars
<1> QED BY <1>1, <1>2, <1>3, <1>4, <1>5, <1>6, <1>7

-----------------------------------------------------------------------------
(* The theorems. *)

LEMMA InitInv == Init => IInv
<1> SUFFICES ASSUME Init PROVE IInv
  OBVIOUS
<1>1. /\ stage = [k \in Conns |-> "closed"] /\ sessions = [key \in Keys |-> NoSession]
      /\ records = [key \in Keys |-> NoRecord] /\ bindings = 0
      /\ toBroker = [k \in Conns |-> <<>>] /\ toPage = [k \in Conns |-> <<>>]
      /\ snap = NoSnapshot /\ faults = 0 /\ changes = 0 /\ dirty = [p \in Pages |-> FALSE]
      /\ live = [p \in Pages |-> CHOOSE context \in Contexts : TRUE]
      /\ client = [p \in Pages |-> [state |-> "idle", socket |-> None, ident |-> 1,
                                    secret |-> None, resets |-> 0, context |-> None]]
  BY DEF Init
<1>2. BrokerTypes /\ OtherTypes
  BY <1>1, MaxSessionsNat DEF BrokerTypes, OtherTypes, Stages
<1>3. FrameTypes
  BY <1>1, EmptySeq DEF FrameTypes
<1>4. \A p \in Pages : /\ client[p] \in Clients /\ Consistent(client[p]) /\ client[p].ident = 1
                       /\ client[p].socket = None /\ client[p].secret = None
  <2>1. "idle" \in States /\ "idle" \in Away /\ 1 \in Idents /\ 0 \in 0..1
    BY MaxSessionsNat DEF States, Away, Idents
  <2>2. \A p \in Pages : client[p] \in Clients
    BY <1>1, <2>1 DEF Clients
  <2> QED BY <1>1, <2>1, <2>2 DEF Consistent
<1>5. PageTypes
  <2>1. (CHOOSE context \in Contexts : TRUE) \in Contexts
    BY SessionBounds
  <2> QED BY <1>1, <1>4, <2>1 DEF PageTypes
<1>6. Live = {} /\ Remembered = {}
  BY <1>1 DEF Live, Remembered
<1>7. SessionLimit /\ RecordLimit
  BY <1>6, FS_EmptySet, MaxSessionsNat DEF SessionLimit, RecordLimit
<1>8. TablesInv
  BY <1>1, <1>6 DEF TablesInv, NoRecord, None
<1>9. SocketsInv
  <2>1. \A k \in Conns : Within(toPage[k]) = {} /\ Within(toBroker[k]) = {} /\ k # None
    BY <1>1, WithinEmpty, Forms
  <2> QED BY <1>4, <2>1 DEF SocketsInv
<1>10. IdentsInv
  <2>1. \A p \in Pages : ~Stale(p)
    BY <1>4, Forms DEF Stale, Outdated
  <2> QED BY <1>1, <1>4, <2>1 DEF IdentsInv
<1>11. SnapInv
  BY <1>1 DEF SnapInv
<1>12. OneAnswer
  BY <1>1, SingleEmpty DEF OneAnswer
<1> QED BY <1>2, <1>3, <1>5, <1>7, <1>8, <1>9, <1>10, <1>11, <1>12 DEF IInv, CoreInv, TypeInv

LEMMA StutterInv == ASSUME CoreInv, UNCHANGED vars PROVE CoreInv'
<1>1. UNCHANGED <<brokerVars, client, snap, faults, toBroker, toPage, live, dirty, changes>>
  BY DEF vars, netVars, pageVars, boundVars
<1>2. TypeInv /\ FrameTypes /\ PageTypes /\ OtherTypes
  BY DEF CoreInv, TypeInv
<1>3. /\ Keeps(toBroker', toBroker) /\ Keeps(toPage', toPage)
      /\ live' \in [Pages -> Contexts] /\ dirty' \in [Pages -> BOOLEAN] /\ changes' \in 0..MaxChanges
  BY <1>1, <1>2, KeepsSame DEF PageTypes, OtherTypes
<1> QED BY <1>1, <1>3, QuietPageInv

LEMMA StepInv == IInv /\ [Next]_vars => IInv'
<1> SUFFICES ASSUME IInv, [Next]_vars PROVE IInv'
  OBVIOUS
<1>1. CoreInv /\ OneAnswer /\ TypeInv /\ SocketsInv /\ TablesInv
  BY DEF IInv, CoreInv
<1>2. ASSUME NEW k \in Conns, BrokerStep(k) \/ AuditFails(k) \/ AuthTimeout(k) \/ Lose(k)
      PROVE  IInv'
  <2>1. OneAnswer'
    BY <1>1, <1>2, BrokerAnswers
  <2>2. ASSUME AcceptAuthInit(k) PROVE CoreInv'
    BY <1>1, <2>2, AcceptAuthInitInv
  <2>3. ASSUME AcceptHello(k) PROVE CoreInv'
    BY <1>1, <2>3, AcceptHelloInv
  <2>4. ASSUME SendHelloAck(k) PROVE CoreInv'
    BY <1>1, <2>4, SendHelloAckInv
  <2>5. ASSUME ContextEvent(k) PROVE CoreInv'
    BY <1>1, <2>5, ContextEventInv
  <2>6. ASSUME PeerClosed(k) PROVE CoreInv'
    BY <1>1, <2>6, PeerClosedInv
  <2>7. ASSUME AuditFails(k) PROVE CoreInv'
    BY <1>1, <2>7, AuditFailsInv
  <2>8. ASSUME AuthTimeout(k) PROVE CoreInv'
    BY <1>1, <2>8, AuthTimeoutInv
  <2>9. ASSUME Lose(k) PROVE CoreInv'
    BY <1>1, <2>9, LoseInv
  <2>10. CoreInv'
    BY <1>2, <2>2, <2>3, <2>4, <2>5, <2>6, <2>7, <2>8, <2>9 DEF BrokerStep
  <2> QED BY <2>1, <2>10 DEF IInv
<1>3. ASSUME NEW p \in Pages,
             PageStep(p) \/ HandshakeTimeout(p) \/ Stop(p) \/ Restarts(p) \/ Reload(p)
      PROVE  IInv'
  <2>1. OneAnswer'
    BY <1>1, <1>3, PageAnswers
  <2>2. ASSUME Connect(p) PROVE CoreInv'
    BY <1>1, <2>2, ConnectInv
  <2>3. ASSUME HandleAuthChallenge(p) PROVE CoreInv'
    BY <1>1, <2>3, HandleAuthChallengeInv
  <2>4. ASSUME HelloAccepted(p) PROVE CoreInv'
    BY <1>1, <2>4, HelloAcceptedInv
  <2>5. ASSUME HelloRejected(p) PROVE CoreInv'
    BY <1>1, <2>5, HelloRejectedInv
  <2>6. ASSUME RejectProtocolMessage(p) PROVE CoreInv'
    BY <1>1, <2>6, RejectProtocolMessageInv
  <2>7. ASSUME HandleRequest(p) PROVE CoreInv'
    BY <1>1, <2>7, HandleRequestInv
  <2>8. ASSUME HandleClose(p) PROVE CoreInv'
    BY <1>1, <2>8, HandleCloseInv
  <2>9. ASSUME UpdateContext(p) PROVE CoreInv'
    BY <1>1, <2>9, UpdateContextInv
  <2>10. ASSUME HandshakeTimeout(p) PROVE CoreInv'
    BY <1>1, <2>10, HandshakeTimeoutInv
  <2>11. ASSUME Stop(p) PROVE CoreInv'
    BY <1>1, <2>11, StopInv
  <2>12. ASSUME Restarts(p) PROVE CoreInv'
    BY <1>1, <2>12, RestartsInv
  <2>13. ASSUME Reload(p) PROVE CoreInv'
    BY <1>1, <2>13, ReloadInv
  <2>14. CoreInv'
    BY <1>3, <2>2, <2>3, <2>4, <2>5, <2>6, <2>7, <2>8, <2>9, <2>10, <2>11, <2>12, <2>13 DEF PageStep
  <2> QED BY <2>1, <2>14 DEF IInv
<1>4. ASSUME \/ \E p \in Pages, context \in Contexts : ChangeContext(p, context)
             \/ \E key \in Keys : Expire(key)
             \/ \E key \in Keys, kind \in {"action", "read"} : CreateSnapshot(key, kind)
             \/ UseSnapshot \/ Ping \/ Restart \/ UNCHANGED vars
      PROVE  IInv'
  <2>1. OneAnswer'
    BY <1>1, <1>4, OtherAnswers
  <2>2. ASSUME NEW p \in Pages, NEW context \in Contexts, ChangeContext(p, context) PROVE CoreInv'
    BY <1>1, <2>2, ChangeContextInv
  <2>3. ASSUME NEW key \in Keys, Expire(key) PROVE CoreInv'
    BY <1>1, <2>3, ExpireInv
  <2>4. ASSUME NEW key \in Keys, NEW kind \in {"action", "read"}, CreateSnapshot(key, kind) PROVE CoreInv'
    BY <1>1, <2>4, CreateSnapshotInv
  <2>5. ASSUME UseSnapshot PROVE CoreInv'
    BY <1>1, <2>5, UseSnapshotInv
  <2>6. ASSUME Ping PROVE CoreInv'
    BY <1>1, <2>6, PingInv
  <2>7. ASSUME Restart PROVE CoreInv'
    BY <1>1, <2>7, RestartInv
  <2>8. ASSUME UNCHANGED vars PROVE CoreInv'
    BY <1>1, <2>8, StutterInv
  <2>9. CoreInv'
    BY <1>4, <2>2, <2>3, <2>4, <2>5, <2>6, <2>7, <2>8
  <2> QED BY <2>1, <2>9 DEF IInv
<1> QED BY <1>2, <1>3, <1>4 DEF Next

LEMMA AlwaysInv == Spec => []IInv
  BY InitInv, StepInv, PTL DEF Spec

LEMMA TypesFollow == IInv => TypeOK
  BY DEF IInv, CoreInv, TypeInv, BrokerTypes, FrameTypes, PageTypes, OtherTypes, SessionLimit,
         RecordLimit, TypeOK

LEMMA TablesFollow == IInv => TablesAgree
<1> SUFFICES ASSUME IInv PROVE TablesAgree
  OBVIOUS
<1>1. TablesInv /\ BrokerTypes
  BY DEF IInv, CoreInv, TypeInv
<1>2. ASSUME NEW k \in Conns
      PROVE  Cardinality({key \in Live : sessions[key].conn = k})
                = IF stage[k] \in {"audit", "open"} THEN 1 ELSE 0
  <2>1. CASE stage[k] \in {"audit", "open"}
    <3>1. PICK key \in Live : sessions[key].conn = k
      BY <1>1, <2>1 DEF TablesInv
    <3>2. {other \in Live : sessions[other].conn = k} = {key}
      BY <1>1, <3>1 DEF TablesInv
    <3> QED BY <2>1, <3>2, FS_Singleton
  <2>2. CASE stage[k] \notin {"audit", "open"}
    <3>1. {key \in Live : sessions[key].conn = k} = {}
      BY <1>1, <2>2 DEF TablesInv
    <3> QED BY <2>2, <3>1, FS_EmptySet
  <2> QED BY <2>1, <2>2
<1>3. ASSUME NEW key \in Live
      PROVE  /\ key \in Remembered
             /\ records[key].binding = sessions[key].binding
             /\ records[key].generation = sessions[key].generation
  <2>1. key \in Keys /\ records[key] \in Records
    BY <1>1 DEF TablesInv, Live
  <2> QED BY <1>1, <2>1, LiveForms DEF TablesInv
<1> QED BY <1>2, <1>3 DEF TablesAgree

LEMMA SnapshotsFollow == IInv => SnapshotsAreCurrent
<1> SUFFICES ASSUME IInv, snap # NoSnapshot, Accepted(snap)
             PROVE  /\ ~snap.changed
                    /\ snap.kind = "read" => sessions[snap.key].context = snap.session.context
  BY DEF SnapshotsAreCurrent
<1> DEFINE now == sessions[snap.key]
           then == snap.session
<1>1. SnapInv /\ snap \in Snapshots /\ BrokerTypes
  BY DEF IInv, CoreInv, TypeInv, OtherTypes
<1>2. snap.key \in Keys /\ snap.kind \in {"action", "read"} /\ then \in Sessions
  BY <1>1 DEF Snapshots
<1>3. /\ now # NoSession /\ now.binding = then.binding /\ now.generation = then.generation
      /\ snap.kind = "read" => now.version = then.version
  BY DEF Accepted
<1>4. snap.key \in Live /\ now \in Sessions
  BY <1>1, <1>2, <1>3 DEF Live, BrokerTypes
<1>5. Following(snap, now)
  BY <1>1, <1>3, <1>4 DEF SnapInv
<1>6. now.version \in Nat /\ then.version \in Nat
  BY <1>2, <1>4 DEF Sessions
<1> QED BY <1>2, <1>3, <1>5, <1>6 DEF Following

(* The state of the broker and of the pages is well formed.  In            *)
(* particular connectors.maxSessions bounds the sessions whatever order    *)
(* handshakes, losses, pings and restarts come in, and acceptHello keeps   *)
(* the resume records at twice that.                                       *)
THEOREM ConnectorTypeCorrect == Spec => []TypeOK
  BY AlwaysInv, TypesFollow, PTL

(* However handshakes, reconnects, refusals, losses and restarts mix, each *)
(* socket past authentication belongs to exactly one session, and the      *)
(* resume record of a session has its binding and generation: acceptHello, *)
(* endSession and handleEvent keep sessions, clientIndex and resumeRecords *)
(* in step.                                                                *)
THEOREM TablesAlwaysAgree == Spec => []TablesAgree
  BY AlwaysInv, TablesFollow, PTL

(* A snapshot that assertSnapshot accepts after an approval, however long  *)
(* it took, is about the same session and the same guarded context as when *)
(* it was taken, with no reconnect and no change and change back in        *)
(* between: the generation of a binding never goes back.                   *)
THEOREM SnapshotsStayCurrent == Spec => []SnapshotsAreCurrent
  BY AlwaysInv, SnapshotsFollow, PTL
=============================================================================
