---------------------------- MODULE ApprovalsProofs ----------------------------
(***************************************************************************)
(* Proofs about Approvals for any calls, sessions, policies and bounds:    *)
(* type correctness with the limits of the store, a once grant lets one    *)
(* call pass, and confirmed decisions last.                                *)
(*                                                                         *)
(* The store keeps its state three times: in memory, on the way to the     *)
(* file, and in the file.  The inductive invariant says which two of them  *)
(* agree (CopiesInv), that the document on its way is a successor of the   *)
(* one in memory (CommitInv), and, of the document that counts (Doc), that *)
(* a request somebody decided is never asked again, so that its grant      *)
(* never comes back once it is used up or revoked (GrantsInv).             *)
(***************************************************************************)
EXTENDS Approvals, FiniteSetTheorems, TLAPS

Types ==
    /\ up \in BOOLEAN
    /\ starts \in 0..MaxStarts
    /\ memory \in Documents /\ disk \in Documents
    /\ queue \in Seq(Jobs)
    /\ pruned \in BOOLEAN /\ stored \in BOOLEAN
    /\ commit \in Documents \cup {NoDocument}
    /\ mcp \in SUBSET Sessions /\ opened \in SUBSET Sessions
    /\ expired \in SUBSET Calls
    /\ call \in [Calls -> CallStates]
    /\ by \in [Calls -> Grants \cup {NoGrant, ByConfig}]
    /\ revoked \in SUBSET Grants /\ lasting \in SUBSET Grants

(* Calls that nobody was asked about. *)
Fresh == {c \in Calls : call[c] \in {"idle", "entered", "queued"}}

(* Within a document: the limits on requests, a request with a grant is    *)
(* not pending, and where everything is trusted nothing is always granted  *)
(* one by one.                                                             *)
Good(D) ==
    /\ IsFiniteSet(D.pending) /\ Cardinality(D.pending) <= MaxPending
    /\ \A p, q \in D.pending : SameRequest(p, q) => p = q
    /\ \A g \in D.grants : g.of \notin D.pending
    /\ D.policy = "trusted_always" =>
            /\ \A p \in D.pending : "always" \notin DecisionsOf[p]
            /\ \A g \in D.grants : g.mode # "always"

(* The document the next operation starts from, and what of it survives.   *)
Doc == IF up THEN memory ELSE disk

(* Grants whose request nobody will be asked about again. *)
Closed == {g \in Grants : g.of \notin Fresh /\ g.of \notin Doc.pending}

QueueInv ==
    \A i \in DOMAIN queue : queue[i].kind = "require" =>
        /\ queue[i].call \in Calls /\ call[queue[i].call] = "queued"
        /\ \A j \in DOMAIN queue :
                queue[j].kind = "require" /\ queue[j].call = queue[i].call => j = i

CopiesInv ==
    /\ up => disk = (IF stored THEN commit ELSE memory)
    /\ ~up => memory = Nothing /\ queue = <<>> /\ commit = NoDocument /\ ~pruned
    /\ commit = NoDocument => ~stored

(* What a commit may add to the state in memory, or take from it. *)
Successor(D) ==
    /\ D.policy = memory.policy
    /\ \A g \in D.grants : g \in memory.grants \/ (g.of \in memory.pending /\ g.of \notin D.pending)
    /\ \A p \in D.pending : p \in memory.pending
                            \/ (Head1.kind = "require" /\ pruned /\ p = Head1.call)
    /\ Good(D)
    /\ lasting \subseteq D.grants

(* The request at the head uses up a once grant. *)
Spends(c) ==
    /\ by[c] \in memory.grants \ commit.grants
    /\ by[c].mode = "once"
    /\ SameRequest(by[c].of, c)

CommitInv ==
    commit # NoDocument =>
        /\ up /\ queue # <<>>
        /\ Successor(commit)
        /\ Head1.kind = "require" => by[Head1.call] = NoGrant \/ Spends(Head1.call)

(* A call that was not decided has no grant, unless it is using one up. *)
ByInv ==
    \A c \in Calls :
        /\ c \in Fresh /\ by[c] # NoGrant =>
                commit # NoDocument /\ Head1.kind = "require" /\ Head1.call = c /\ pruned
        /\ Once(c) => SameRequest(by[c].of, c) /\ \A d \in Calls \ {c} : Once(d) => by[d] # by[c]

GrantsInv ==
    /\ Good(Doc)
    /\ Doc.pending \cap Fresh = {}
    /\ Doc.grants \subseteq Closed
    /\ revoked \subseteq Closed \ Doc.grants
    /\ \A c \in Calls : Once(c) => by[c] \in Closed \ Doc.grants
    /\ \A i \in DOMAIN queue : queue[i].kind = "revoke" => queue[i].grant \in Closed \ lasting
    /\ \A g \in lasting : g \in Doc.grants /\ g.mode = "always"

AInv == Types /\ QueueInv /\ CopiesInv /\ CommitInv /\ ByInv /\ GrantsInv

-----------------------------------------------------------------------------
(* The queue and the documents. *)

LEMMA HeadFacts ==
    ASSUME Types, queue # <<>>
    PROVE  /\ 1 \in DOMAIN queue /\ queue[1] = Head1 /\ Head1 \in Jobs
           /\ Tail(queue) \in Seq(Jobs)
           /\ \A i \in DOMAIN Tail(queue) :
                /\ i \in Nat \ {0} /\ i + 1 \in DOMAIN queue
                /\ Tail(queue)[i] = queue[i + 1]
  BY DEF Types, Head1

LEMMA AppendFacts ==
    ASSUME Types, NEW job \in Jobs
    PROVE  /\ Append(queue, job) \in Seq(Jobs)
           /\ DOMAIN Append(queue, job) = DOMAIN queue \cup {Len(queue) + 1}
           /\ \A i \in DOMAIN queue : i # Len(queue) + 1 /\ Append(queue, job)[i] = queue[i]
           /\ Append(queue, job)[Len(queue) + 1] = job
           /\ queue # <<>> => Head(Append(queue, job)) = Head1
  BY DEF Types, Head1

LEMMA DocumentFacts ==
    ASSUME Types
    PROVE  /\ memory.grants \in SUBSET Grants /\ memory.pending \in SUBSET Calls
           /\ disk.grants \in SUBSET Grants /\ disk.pending \in SUBSET Calls
           /\ commit # NoDocument =>
                /\ commit \in Documents
                /\ commit.grants \in SUBSET Grants /\ commit.pending \in SUBSET Calls
           /\ Nothing \in Documents /\ NoDocument \notin Documents
           /\ Doc \in Documents
  BY DEF Types, Documents, Nothing, NoDocument, Policies, Doc

LEMMA JobTypes ==
    /\ \A kind \in {"require", "revokeSession", "decide", "revoke"} : Job(kind) \in Jobs
    /\ \A s \in Sessions : [Job("revokeSession") EXCEPT !.session = s] \in Jobs
    /\ \A c \in Calls : [Job("require") EXCEPT !.call = c] \in Jobs
    /\ \A p \in Calls, d \in Decisions :
            [Job("decide") EXCEPT !.call = p, !.decision = d] \in Jobs
    /\ \A g \in Grants : [Job("revoke") EXCEPT !.grant = g] \in Jobs
  BY DEF Job, Jobs, Decisions

-----------------------------------------------------------------------------
(* Type correctness. *)

LEMMA TypesInit == Init => Types
<1> SUFFICES ASSUME Init PROVE Types
  OBVIOUS
<1> USE ApprovalCalls
<1>1. memory \in Documents /\ disk \in Documents
  BY DEF Init, Nothing, Documents, Policies
<1>2. queue \in Seq(Jobs) /\ starts \in 0..MaxStarts
  BY DEF Init
<1>3. call \in [Calls -> CallStates] /\ by \in [Calls -> Grants \cup {NoGrant, ByConfig}]
  BY DEF Init, CallStates
<1> QED
  BY <1>1, <1>2, <1>3 DEF Init, Types

LEMMA TypesStep == Types /\ QueueInv /\ CommitInv /\ [Next]_vars => Types'
<1> SUFFICES ASSUME Types, QueueInv, CommitInv, [Next]_vars PROVE Types'
  OBVIOUS
<1> USE ApprovalCalls
<1>h. ASSUME queue # <<>>
      PROVE  /\ Head1 \in Jobs /\ Tail(queue) \in Seq(Jobs)
             /\ Head1.kind = "require" => Head1.call \in Calls
  BY <1>h, HeadFacts DEF QueueInv
<1>a. ASSUME NEW job \in Jobs, Enqueue(job) PROVE queue' \in Seq(Jobs)
  BY <1>a, AppendFacts DEF Enqueue
<1>1. ASSUME NEW policy \in Policies, Start(policy) PROVE Types'
  <2>1. Loaded(policy) \in Documents
    BY DEF Loaded, Types, Documents
  <2> QED
    BY <1>1, <2>1 DEF Types, Start, mcpVars
<1>2. ASSUME Crash PROVE Types'
  <2>1. memory' \in Documents /\ queue' \in Seq(Jobs)
    BY <1>2, DocumentFacts DEF Crash
  <2>2. call' \in [Calls -> CallStates]
    BY <1>2 DEF Crash, Types, CallStates
  <2> QED
    BY <1>2, <2>1, <2>2 DEF Types, Crash, historyVars
<1>3. ASSUME NEW p \in Calls, Expire(p) PROVE Types'
  BY <1>3 DEF Types, Expire, storeVars, mcpVars, historyVars
<1>4. ASSUME NEW s \in Sessions, OpenSession(s) PROVE Types'
  BY <1>4 DEF Types, OpenSession, storeVars, historyVars
<1>5. ASSUME NEW s \in Sessions, CloseSession(s) PROVE Types'
  <2>1. queue' \in Seq(Jobs)
    BY <1>5, <1>a, JobTypes DEF CloseSession
  <2> QED
    BY <1>5, <2>1 DEF Types, CloseSession, historyVars
<1>6. ASSUME NEW c \in Calls, EnterCall(c) PROVE Types'
  BY <1>6 DEF Types, EnterCall, storeVars, mcpVars, historyVars, CallStates
<1>7. ASSUME NEW c \in Calls, Require(c) PROVE Types'
  <2>1. queue' \in Seq(Jobs)
    BY <1>7, <1>a, JobTypes DEF Require
  <2> QED
    BY <1>7, <2>1 DEF Types, Require, mcpVars, historyVars, CallStates
<1>8. ASSUME NEW p \in Calls, NEW decision \in Decisions, Decide(p, decision) PROVE Types'
  <2>1. queue' \in Seq(Jobs)
    BY <1>8, <1>a, JobTypes DEF Decide
  <2> QED
    BY <1>8, <2>1 DEF Types, Decide, mcpVars, historyVars
<1>9. ASSUME NEW g \in memory.grants, Revoke(g) PROVE Types'
  <2>1. queue' \in Seq(Jobs)
    BY <1>9, <1>a, JobTypes, DocumentFacts DEF Revoke
  <2> QED
    BY <1>9, <2>1 DEF Types, Revoke, mcpVars
<1>10. ASSUME Prune PROVE Types'
  <2>1. commit' \in Documents \cup {NoDocument} /\ pruned' \in BOOLEAN
    <3>1. memory \in Documents /\ {} \in SUBSET Calls
      BY DEF Types
    <3>2. [memory EXCEPT !.pending = @ \ expired, !.decided = {}] \in Documents
      BY <3>1 DEF Documents
    <3> QED
      BY <1>10, <3>2 DEF Prune, Types
  <2> QED
    BY <1>10, <2>1 DEF Types, Prune, mcpVars, historyVars
<1>11. ASSUME RequireByConfig PROVE Types'
  <2>1. PICK g \in {ByConfig} \cup memory.grants :
            /\ SetCall(Head1.call, "approved") /\ by' = [by EXCEPT ![Head1.call] = g]
    BY <1>11 DEF RequireByConfig, Approve, Standing
  <2>2. by' \in [Calls -> Grants \cup {NoGrant, ByConfig}] /\ call' \in [Calls -> CallStates]
    BY <2>1, DocumentFacts DEF Types, SetCall, CallStates
  <2>3. queue # <<>>
    BY <1>11 DEF RequireByConfig, Turn, Holding
  <2> QED
    BY <1>11, <1>h, <2>2, <2>3 DEF Types, RequireByConfig, Release, mcpVars
<1>12. ASSUME RequireByGrant PROVE Types'
  <2>1. PICK g \in memory.grants :
            \/ g.mode = "session" /\ Approve(Head1.call, g) /\ Release /\ UNCHANGED memory
            \/ /\ g.mode = "once"
               /\ commit' = [memory EXCEPT !.grants = @ \ {g}]
               /\ by' = [by EXCEPT ![Head1.call] = g]
               /\ UNCHANGED <<memory, queue, pruned, stored, call>>
    BY <1>12 DEF RequireByGrant, Consumable
  <2>2. queue # <<>>
    BY <1>12 DEF RequireByGrant, Turn, Holding
  <2>3. by' \in [Calls -> Grants \cup {NoGrant, ByConfig}] /\ call' \in [Calls -> CallStates]
    BY <2>1, DocumentFacts DEF Types, Approve, SetCall, CallStates
  <2>4. commit' \in Documents \cup {NoDocument}
    BY <2>1 DEF Types, Documents, Release
  <2>5. queue' \in Seq(Jobs) /\ pruned' \in BOOLEAN /\ stored' \in BOOLEAN /\ memory' = memory
    BY <1>h, <2>1, <2>2 DEF Types, Release
  <2> QED
    BY <1>12, <2>3, <2>4, <2>5 DEF Types, RequireByGrant, mcpVars
<1>13. ASSUME Ask PROVE Types'
  <2>1. queue # <<>> /\ Head1.call \in Calls
    BY <1>13, <1>h DEF Ask, Turn, Holding
  <2>2. \/ (SetCall(Head1.call, "asked") \/ SetCall(Head1.call, "error")) /\ Release
        \/ /\ commit' = [memory EXCEPT !.pending = @ \cup {Head1.call}]
           /\ UNCHANGED <<call, queue, pruned, stored>>
    BY <1>13 DEF Ask
  <2>3. call' \in [Calls -> CallStates] /\ commit' \in Documents \cup {NoDocument}
    BY <2>1, <2>2 DEF Types, SetCall, CallStates, Release, Documents
  <2>4. queue' \in Seq(Jobs) /\ pruned' \in BOOLEAN /\ stored' \in BOOLEAN
    BY <1>h, <2>1, <2>2 DEF Types, Release
  <2> QED
    BY <1>13, <2>3, <2>4 DEF Types, Ask, mcpVars, historyVars
<1>14. ASSUME DecideJob PROVE Types'
  <2>1. queue # <<>>
    BY <1>14 DEF DecideJob, Turn, Holding
  <2>2. CASE Permitted(Head1.call, Head1.decision)
    <3>1. Head1.call \in Calls /\ Head1.decision \in Decisions
      BY <1>h, <2>1, <2>2, DocumentFacts DEF Permitted, Jobs
    <3>2. Head1.decision # "deny" => [of |-> Head1.call, mode |-> Head1.decision] \in Grants
      BY <3>1 DEF Grants, Decisions
    <3>3. commit' \in Documents
      <4> DEFINE grants == IF Head1.decision = "deny" THEN memory.grants
                           ELSE memory.grants \cup {[of |-> Head1.call, mode |-> Head1.decision]}
                 pending == memory.pending \ {Head1.call}
                 decided == memory.decided \cup {Head1.call}
      <4>1. grants \in SUBSET Grants /\ pending \in SUBSET Calls /\ decided \in SUBSET Calls
        BY <3>1, <3>2, DocumentFacts DEF Types, Documents
      <4>2. commit' = [memory EXCEPT !.pending = pending, !.decided = decided, !.grants = grants]
        BY <1>14, <2>2 DEF DecideJob
      <4> HIDE DEF grants, pending, decided
      <4>3. memory \in Documents /\ memory.policy \in Policies
        BY DEF Types, Documents
      <4>4. commit' = [policy |-> memory.policy, grants |-> grants,
                       pending |-> pending, decided |-> decided]
        BY <4>2, <4>3 DEF Documents
      <4> QED
        BY <4>1, <4>3, <4>4 DEF Documents
    <3> QED
      BY <1>14, <2>2, <3>3 DEF Types, DecideJob, mcpVars, historyVars
  <2>3. CASE ~Permitted(Head1.call, Head1.decision)
    BY <1>14, <1>h, <2>1, <2>3 DEF Types, DecideJob, Release, mcpVars, historyVars
  <2> QED
    BY <2>2, <2>3
<1>15. ASSUME RevokeJob PROVE Types'
  <2>1. queue # <<>>
    BY <1>15 DEF RevokeJob, Turn, Holding
  <2>2. [memory EXCEPT !.grants = Kept] \in Documents
    BY DEF Types, Documents, Kept
  <2> QED
    BY <1>15, <1>h, <2>1, <2>2 DEF Types, RevokeJob, Release, mcpVars, historyVars
<1>16. ASSUME Store PROVE Types'
  BY <1>16 DEF Types, Store, Writing, mcpVars, historyVars
<1>17. ASSUME StoreFails PROVE Types'
  <2>1. queue' \in Seq(Jobs)
    BY <1>17, <1>h DEF StoreFails, Release, Writing, CommitInv
  <2> QED
    BY <1>17, <2>1 DEF Types, StoreFails, SetCall, Release, mcpVars, CallStates
<1>18. ASSUME Install PROVE Types'
  <2>1. queue # <<>>
    BY <1>18 DEF Install, Writing, CommitInv
  <2>4. /\ queue' \in Seq(Jobs) /\ pruned' \in BOOLEAN /\ stored' \in BOOLEAN
        /\ commit' \in Documents \cup {NoDocument}
    BY <1>18, <1>h, <2>1 DEF Install, Release, Types
  <2>2. call' \in [Calls -> CallStates]
    BY <1>18 DEF Install, SetCall, Types, CallStates, historyVars
  <2>3. lasting' \in SUBSET Grants /\ revoked' \in SUBSET Grants /\ by' = by
    BY <1>18, DocumentFacts DEF Install, Types, Writing, historyVars
  <2> QED
    BY <1>18, <2>4, <2>2, <2>3 DEF Types, Install, Writing, mcpVars
<1>19. ASSUME UNCHANGED vars PROVE Types'
  BY <1>19 DEF Types, vars, storeVars, mcpVars, historyVars
<1> QED
  BY <1>1, <1>2, <1>3, <1>4, <1>5, <1>6, <1>7, <1>8, <1>9, <1>10, <1>11, <1>12, <1>13, <1>14,
     <1>15, <1>16, <1>17, <1>18, <1>19 DEF Next, Operation
-----------------------------------------------------------------------------
(* How the invariant moves along. *)

(* The state in memory is a successor of itself. *)
LEMMA MemorySucceeds ==
    ASSUME AInv, up
    PROVE  Successor(memory)
  BY DEF AInv, GrantsInv, Successor, Doc

(* A smaller document is as good. *)
LEMMA SmallerIsGood ==
    ASSUME NEW D, Good(D), NEW E, E.policy = D.policy,
           E.pending \subseteq D.pending, E.grants \subseteq D.grants
    PROVE  Good(E)
<1>1. IsFiniteSet(E.pending) /\ Cardinality(E.pending) <= Cardinality(D.pending)
  BY FS_Subset DEF Good
<1>2. Cardinality(E.pending) \in Nat /\ Cardinality(D.pending) \in Nat
  BY <1>1, FS_CardinalityType DEF Good
<1> QED
  BY <1>1, <1>2, ApprovalCalls DEF Good

(* A successor becomes the document that counts, when the call that asks   *)
(* for it is no longer fresh: what was closed stays closed.                *)
LEMMA Renewed ==
    ASSUME AInv, up, NEW E, E \in Documents, Successor(E), Doc' = E,
           Fresh' \subseteq Fresh,
           \A p \in E.pending : p \notin memory.pending => p \notin Fresh',
           \A p \in E.pending : p \notin memory.pending => queue # <<>>
    PROVE  /\ Closed \subseteq Closed'
           /\ E.grants \subseteq Closed'
           /\ E.pending \cap Fresh' = {}
           /\ \A g \in Closed : g \notin memory.grants => g \notin E.grants
<1>0. /\ Doc = memory /\ E.grants \in SUBSET Grants /\ E.pending \in SUBSET Calls
      /\ \A g \in Grants : g.of \in Calls
      /\ Types
  BY DEF Doc, Documents, Grants, AInv
<1>1. \A p \in E.pending : p \notin memory.pending => p \in Fresh
  BY <1>0, HeadFacts DEF Successor, AInv, QueueInv, Fresh
<1>2. Closed \subseteq Closed'
  BY <1>0, <1>1 DEF Closed
<1>3. E.pending \cap Fresh' = {}
  BY <1>0 DEF AInv, GrantsInv
<1>4. ASSUME NEW g \in E.grants PROVE g \in Closed'
  <2>1. CASE g \in memory.grants
    BY <1>0, <1>2, <2>1 DEF AInv, GrantsInv
  <2>2. CASE g.of \in memory.pending /\ g.of \notin E.pending
    BY <1>0, <2>2 DEF AInv, GrantsInv, Closed
  <2> QED
    BY <2>1, <2>2 DEF Successor
<1>5. \A g \in Closed : g \notin memory.grants => g \notin E.grants
  BY <1>0 DEF Successor, Closed
<1> QED
  BY <1>2, <1>3, <1>4, <1>5

(* Callers, sessions and operators queue operations: the state stays as it *)
(* is, and a grant that somebody asks back is no longer lasting.           *)
LEMMA QuietKeeps ==
    ASSUME AInv, Types',
           UNCHANGED <<up, memory, disk, pruned, commit, stored, by, revoked>>,
           lasting' \subseteq lasting,
           Fresh' = Fresh,
           \A c \in Calls : /\ call'[c] = "approved" <=> call[c] = "approved"
                            /\ call[c] = "queued" => call'[c] = "queued",
           \/ queue' = queue
           \/ \E job \in Jobs :
                /\ up /\ queue' = Append(queue, job)
                /\ job.kind = "require" => /\ job.call \in Calls
                                           /\ call[job.call] # "queued" /\ call'[job.call] = "queued"
                /\ job.kind = "revoke" => job.grant \in memory.grants \ lasting'
    PROVE  AInv'
<1>0. Types /\ Doc' = Doc /\ Closed' = Closed
  BY DEF AInv, Doc, Closed
<1>1. \A c \in Calls : Once(c)' = Once(c)
  BY DEF Once
<1>2. queue # <<>> => queue' # <<>> /\ Head1' = Head1
  <2>1. ASSUME NEW job \in Jobs, queue' = Append(queue, job), queue # <<>>
        PROVE  queue' # <<>> /\ Head1' = Head1
    BY <1>0, <2>1, AppendFacts DEF Head1, Types
  <2> QED
    BY <2>1 DEF Head1
<1>3. \/ \A i \in DOMAIN queue' : i \in DOMAIN queue /\ queue'[i] = queue[i]
      \/ \E job \in Jobs, n \in Nat :
            /\ up
            /\ \A i \in DOMAIN queue' : \/ i \in DOMAIN queue /\ queue'[i] = queue[i]
                                        \/ i = n /\ queue'[i] = job
            /\ job.kind = "require" => /\ job.call \in Calls
                                       /\ call[job.call] # "queued" /\ call'[job.call] = "queued"
            /\ job.kind = "revoke" => job.grant \in memory.grants \ lasting'
  <2>1. CASE queue' = queue
    BY <2>1
  <2>2. ASSUME NEW job \in Jobs, queue' = Append(queue, job)
        PROVE  /\ Len(queue) + 1 \in Nat
               /\ \A i \in DOMAIN queue' : \/ i \in DOMAIN queue /\ queue'[i] = queue[i]
                                           \/ i = Len(queue) + 1 /\ queue'[i] = job
    BY <1>0, <2>2, AppendFacts DEF Types
  <2> QED
    BY <2>1, <2>2
<1>4. QueueInv'
  BY <1>3 DEF AInv, QueueInv
<1>5. CopiesInv'
  <2>1. ~up => queue' = queue
    OBVIOUS
  <2> QED
    BY <2>1 DEF AInv, CopiesInv
<1>6. CommitInv'
  <2>1. commit # NoDocument => Successor(commit)'
    BY <1>2 DEF AInv, CommitInv, Successor, Good
  <2> QED
    BY <1>2, <2>1 DEF AInv, CommitInv, Spends
<1>7. ByInv'
  BY <1>1, <1>2 DEF AInv, ByInv, CommitInv
<1>8. GrantsInv'
  <2>1. Good(Doc)'
    BY <1>0 DEF AInv, GrantsInv, Good
  <2>2. \A i \in DOMAIN queue' : queue'[i].kind = "revoke" => queue'[i].grant \in Closed \ lasting'
    <3>1. \A i \in DOMAIN queue : queue[i].kind = "revoke" => queue[i].grant \in Closed \ lasting'
      BY DEF AInv, GrantsInv
    <3>2. up => memory.grants \subseteq Closed
      BY DEF AInv, GrantsInv, Doc
    <3> QED
      BY <1>3, <3>1, <3>2
  <2> QED
    BY <1>0, <1>1, <2>1, <2>2 DEF AInv, GrantsInv
<1> QED
  BY <1>4, <1>5, <1>6, <1>7, <1>8 DEF AInv

(* The operation at the head has prepared a document to write. *)
LEMMA CommitKeeps ==
    ASSUME AInv, Types', Holding,
           UNCHANGED <<up, memory, disk, queue, pruned, stored, call, revoked, lasting>>,
           commit' # NoDocument, Successor(commit'),
           \/ by' = by
           \/ \E g \in memory.grants \ commit'.grants :
                /\ Head1.kind = "require" /\ pruned
                /\ by' = [by EXCEPT ![Head1.call] = g]
                /\ g.mode = "once" /\ SameRequest(g.of, Head1.call)
    PROVE  AInv'
<1>0. /\ Types /\ up /\ queue # <<>> /\ commit = NoDocument /\ Doc' = Doc /\ Head1' = Head1
      /\ Fresh' = Fresh /\ Closed' = Closed
      /\ \A c \in Calls : c \in Fresh => by[c] = NoGrant
  BY DEF AInv, Holding, Doc, Head1, ByInv, Fresh, Closed
<1>h. Head1.kind = "require" => Head1.call \in Calls /\ call[Head1.call] = "queued"
  BY <1>0, HeadFacts DEF AInv, QueueInv
<1>1. \A c \in Calls : \/ by'[c] = by[c]
                       \/ /\ c = Head1.call /\ Head1.kind = "require" /\ pruned
                          /\ by'[c] \in memory.grants \ commit'.grants
                          /\ by'[c].mode = "once" /\ SameRequest(by'[c].of, c)
  BY <1>0, <1>h DEF Types
<1>2. \A c \in Calls : Once(c)' => Once(c) /\ by'[c] = by[c]
  BY <1>h, <1>1 DEF Once
<1>3. QueueInv' /\ CopiesInv'
  BY <1>0 DEF AInv, QueueInv, CopiesInv
<1>4. CommitInv'
  <2>1. Successor(commit)'
    BY <1>0 DEF Successor, Good
  <2>2. Head1.kind = "require" => by'[Head1.call] = NoGrant \/ Spends(Head1.call)'
    <3>1. CASE by' = by
      BY <1>0, <1>h, <3>1 DEF Fresh
    <3>2. CASE by' # by
      BY <1>0, <1>h, <1>1, <3>2 DEF Spends, Fresh
    <3> QED
      BY <3>1, <3>2
  <2> QED
    BY <1>0, <2>1, <2>2 DEF CommitInv
<1>5. ByInv'
  <2>1. \A c \in Calls : c \in Fresh /\ by'[c] # NoGrant =>
                            c = Head1.call /\ Head1.kind = "require" /\ pruned
    BY <1>0, <1>1
  <2> QED
    BY <1>0, <1>2, <2>1 DEF AInv, ByInv
<1>6. GrantsInv'
  <2>1. \A c \in Calls : Once(c)' => by'[c] \in Closed \ Doc.grants
    BY <1>2 DEF AInv, GrantsInv
  <2> QED
    BY <1>0, <2>1 DEF AInv, GrantsInv, Good
<1> QED
  BY <1>3, <1>4, <1>5, <1>6 DEF AInv

(* The operation at the head returns or throws, and writes nothing. *)
LEMMA ReleaseKeeps ==
    ASSUME AInv, Types', up, queue # <<>>, ~stored, Release,
           UNCHANGED <<up, memory, disk, revoked, lasting>>,
           \A c \in Calls :
                \/ /\ call'[c] = call[c] /\ by'[c] = by[c]
                   /\ Head1.kind = "require" => c # Head1.call
                \/ /\ Head1.kind = "require" /\ c = Head1.call
                   /\ call'[c] \in {"approved", "asked", "error"}
                   /\ call'[c] = "approved" => by'[c].mode # "once"
    PROVE  AInv'
<1>0. /\ Types /\ Doc' = Doc /\ disk = memory /\ Fresh' \subseteq Fresh
      /\ queue' = Tail(queue) /\ commit' = NoDocument /\ ~stored'
  BY DEF AInv, Doc, CopiesInv, Fresh, Release
<1>1. /\ queue[1] = Head1 /\ 1 \in DOMAIN queue
      /\ \A i \in DOMAIN queue' : i \in Nat \ {0} /\ i + 1 \in DOMAIN queue /\ queue'[i] = queue[i + 1]
  BY <1>0, HeadFacts
<1>2. QueueInv'
  <2> SUFFICES ASSUME NEW i \in DOMAIN queue', queue'[i].kind = "require"
               PROVE  /\ queue'[i].call \in Calls /\ call'[queue'[i].call] = "queued"
                      /\ \A j \in DOMAIN queue' :
                            queue'[j].kind = "require" /\ queue'[j].call = queue'[i].call => j = i
    BY DEF QueueInv
  <2>1. /\ queue[i + 1].call \in Calls /\ call[queue[i + 1].call] = "queued"
        /\ \A j \in DOMAIN queue :
                queue[j].kind = "require" /\ queue[j].call = queue[i + 1].call => j = i + 1
    BY <1>1 DEF AInv, QueueInv
  <2>2. Head1.kind = "require" => queue[i + 1].call # Head1.call
    BY <1>1, <2>1
  <2>3. call'[queue[i + 1].call] = "queued"
    BY <2>1, <2>2
  <2>4. \A j \in DOMAIN queue' :
            queue'[j].kind = "require" /\ queue'[j].call = queue'[i].call => j = i
    BY <1>1, <2>1
  <2> QED
    BY <1>1, <2>1, <2>3, <2>4
<1>3. CopiesInv' /\ CommitInv'
  BY <1>0 DEF CopiesInv, CommitInv
<1>4. ByInv'
  <2>1. \A c \in Calls : Once(c)' => Once(c) /\ by'[c] = by[c]
    BY DEF Once
  <2>2. \A c \in Calls : c \in Fresh' => by'[c] = NoGrant
    BY <1>0 DEF AInv, ByInv, Fresh
  <2> QED
    BY <2>1, <2>2 DEF AInv, ByInv
<1>5. GrantsInv'
  <2>1. Closed \subseteq Closed'
    BY <1>0 DEF Closed
  <2>2. \A c \in Calls : Once(c)' => Once(c) /\ by'[c] = by[c]
    BY DEF Once
  <2>3. \A i \in DOMAIN queue' : queue'[i].kind = "revoke" => queue'[i].grant \in Closed \ lasting
    BY <1>1 DEF AInv, GrantsInv
  <2> QED
    BY <1>0, <2>1, <2>2, <2>3 DEF AInv, GrantsInv, Good
<1> QED
  BY <1>2, <1>3, <1>4, <1>5 DEF AInv

(* writeJsonAtomic puts the document in place. *)
LEMMA StoreKeeps ==
    ASSUME AInv, Types', Store
    PROVE  AInv'
<1>0. /\ Types /\ up /\ commit # NoDocument /\ ~stored /\ stored' /\ disk' = commit
      /\ UNCHANGED <<up, memory, queue, pruned, commit, call, by, revoked, lasting>>
      /\ Doc' = Doc /\ Fresh' = Fresh /\ Closed' = Closed /\ Head1' = Head1
  BY DEF AInv, Store, Writing, historyVars, Doc, Fresh, Closed, Head1, Types
<1>1. QueueInv' /\ CopiesInv'
  BY <1>0 DEF AInv, QueueInv, CopiesInv
<1>2. CommitInv'
  BY <1>0 DEF AInv, CommitInv, Successor, Good, Spends
<1>3. ByInv' /\ GrantsInv'
  BY <1>0 DEF AInv, ByInv, GrantsInv, Good, Once
<1> QED
  BY <1>1, <1>2, <1>3 DEF AInv

(* The document in place becomes the state in memory. *)
LEMMA InstallKeeps ==
    ASSUME AInv, Types', Install
    PROVE  AInv'
<1> USE ApprovalCalls
<1>0. /\ Types /\ up /\ up' = up /\ commit # NoDocument /\ stored /\ memory' = commit
      /\ disk' = commit /\ commit' = NoDocument /\ ~stored' /\ by' = by
      /\ queue # <<>> /\ Successor(commit) /\ commit \in Documents
      /\ Doc = memory /\ Doc' = commit
      /\ Head1.kind = "require" => by[Head1.call] = NoGrant \/ Spends(Head1.call)
  BY DocumentFacts DEF AInv, Install, Writing, CopiesInv, CommitInv, Release, historyVars, Doc, Types
<1>1. /\ queue[1] = Head1 /\ 1 \in DOMAIN queue
      /\ Head1.kind = "require" => Head1.call \in Calls /\ call[Head1.call] = "queued"
  BY <1>0, HeadFacts DEF AInv, QueueInv
<1>2. CopiesInv' /\ CommitInv'
  BY <1>0 DEF CopiesInv, CommitInv
<1>3. CASE Head1.kind \in {"require", "decide"} /\ ~pruned
  <2>0. UNCHANGED <<queue, call, revoked, lasting>> /\ Fresh' = Fresh
    BY <1>3 DEF Install, historyVars, Fresh
  <2>1. \A p \in commit.pending : p \in memory.pending
    BY <1>0, <1>3 DEF Successor
  <2>2. /\ Closed \subseteq Closed'
        /\ commit.grants \subseteq Closed'
        /\ commit.pending \cap Fresh' = {}
        /\ \A g \in Closed : g \notin memory.grants => g \notin commit.grants
    BY <1>0, <2>0, <2>1, Renewed
  <2>3. QueueInv'
    BY <2>0 DEF AInv, QueueInv
  <2>4. ByInv'
    BY <1>0, <1>3, <2>0 DEF AInv, ByInv, Once
  <2>5. GrantsInv'
    <3>1. \A c \in Calls : Once(c)' => by[c] \in Closed \ memory.grants
      BY <1>0, <2>0 DEF AInv, GrantsInv, Once
    <3>2. \A i \in DOMAIN queue' : queue'[i].kind = "revoke" => queue'[i].grant \in Closed' \ lasting'
      BY <2>0, <2>2 DEF AInv, GrantsInv
    <3>3. lasting \subseteq commit.grants
      BY <1>0 DEF Successor
    <3>4. Good(Doc)'
      BY <1>0 DEF Successor, Good
    <3> QED
      BY <1>0, <2>0, <2>2, <3>1, <3>2, <3>3, <3>4 DEF AInv, GrantsInv
  <2> QED
    BY <1>2, <2>3, <2>4, <2>5 DEF AInv
<1>4. CASE ~(Head1.kind \in {"require", "decide"} /\ ~pruned)
  <2>0. /\ queue' = Tail(queue)
        /\ lasting' = lasting \cup {g \in commit.grants \ memory.grants : g.mode = "always"}
        /\ revoked' \subseteq revoked \cup (memory.grants \ commit.grants)
        /\ SetCall(IF Head1.kind = "require" THEN Head1.call ELSE "none",
                   IF Head1.kind = "require" /\ by[Head1.call] = NoGrant
                   THEN "asked" ELSE "approved")
    BY <1>4 DEF Install, Release
  <2>1. \A c \in Calls :
            \/ /\ call'[c] = call[c]
               /\ Head1.kind = "require" => c # Head1.call
            \/ /\ Head1.kind = "require" /\ c = Head1.call
               /\ call'[c] \in {"approved", "asked"}
               /\ call'[c] = "approved" => Spends(c)
    BY <1>0, <2>0 DEF SetCall
  <2>2. Fresh' \subseteq Fresh /\ (Head1.kind = "require" => Head1.call \notin Fresh')
    BY <2>1 DEF Fresh
  <2>3. /\ Closed \subseteq Closed'
        /\ commit.grants \subseteq Closed'
        /\ commit.pending \cap Fresh' = {}
        /\ \A g \in Closed : g \notin memory.grants => g \notin commit.grants
    <3>1. \A p \in commit.pending : p \notin memory.pending => p \notin Fresh'
      BY <1>0, <2>2 DEF Successor
    <3> QED
      BY <1>0, <2>2, <3>1, Renewed
  <2>4. \A i \in DOMAIN queue' : i \in Nat \ {0} /\ i + 1 \in DOMAIN queue /\ queue'[i] = queue[i + 1]
    BY <1>0, <2>0, HeadFacts
  <2>5. QueueInv'
    <3> SUFFICES ASSUME NEW i \in DOMAIN queue', queue'[i].kind = "require"
                 PROVE  /\ queue'[i].call \in Calls /\ call'[queue'[i].call] = "queued"
                        /\ \A j \in DOMAIN queue' :
                              queue'[j].kind = "require" /\ queue'[j].call = queue'[i].call => j = i
      BY DEF QueueInv
    <3>1. /\ queue[i + 1].call \in Calls /\ call[queue[i + 1].call] = "queued"
          /\ \A j \in DOMAIN queue :
                  queue[j].kind = "require" /\ queue[j].call = queue[i + 1].call => j = i + 1
      BY <2>4 DEF AInv, QueueInv
    <3>2. Head1.kind = "require" => queue[i + 1].call # Head1.call
      BY <1>1, <2>4, <3>1
    <3>3. call'[queue[i + 1].call] = "queued"
      BY <2>1, <3>1, <3>2
    <3>4. \A j \in DOMAIN queue' :
              queue'[j].kind = "require" /\ queue'[j].call = queue'[i].call => j = i
      BY <2>4, <3>1
    <3> QED
      BY <2>4, <3>1, <3>3, <3>4
  <2>6. \A c \in Calls : Once(c)' => \/ Once(c) /\ by[c] \in Closed \ memory.grants
                                     \/ /\ Head1.kind = "require" /\ c = Head1.call
                                        /\ Spends(c) /\ by[c] \in Closed
    <3>1. memory.grants \subseteq Closed
      BY <1>0 DEF AInv, GrantsInv
    <3> QED
      BY <1>0, <2>1, <3>1 DEF AInv, GrantsInv, Once, Spends
  <2>7. ByInv'
    <3>1. \A c \in Calls : c \in Fresh' => by[c] = NoGrant
      BY <2>1, <2>2 DEF AInv, ByInv, Fresh
    <3>2. ASSUME NEW c \in Calls, Once(c)'
          PROVE  SameRequest(by[c].of, c) /\ \A d \in Calls \ {c} : Once(d)' => by[d] # by[c]
      <4>1. SameRequest(by[c].of, c)
        BY <2>6, <3>2 DEF AInv, ByInv, Spends
      <4>2. ASSUME NEW d \in Calls \ {c}, Once(d)' PROVE by[d] # by[c]
        BY <2>6, <3>2, <4>2 DEF AInv, ByInv, Spends
      <4> QED
        BY <4>1, <4>2
    <3> QED
      BY <1>0, <3>1, <3>2 DEF ByInv
  <2>8. GrantsInv'
    <3>1. Good(Doc)'
      BY <1>0 DEF Successor, Good
    <3>2. \A c \in Calls : Once(c)' => by[c] \in Closed' \ commit.grants
      BY <2>3, <2>6 DEF Spends
    <3>3. revoked' \subseteq Closed' \ commit.grants
      <4>1. revoked \subseteq Closed \ memory.grants /\ memory.grants \subseteq Closed
        BY <1>0 DEF AInv, GrantsInv
      <4> QED
        BY <2>0, <2>3, <4>1
    <3>4. \A i \in DOMAIN queue' : queue'[i].kind = "revoke" => queue'[i].grant \in Closed' \ lasting'
      <4>1. \A i \in DOMAIN queue' : queue'[i].kind = "revoke" => queue'[i].grant \in Closed \ lasting
        BY <2>4 DEF AInv, GrantsInv
      <4>2. \A g \in Closed : g \in commit.grants => g \in memory.grants
        BY <2>3
      <4> QED
        BY <2>0, <2>3, <4>1, <4>2
    <3>5. \A g \in lasting' : g \in commit.grants /\ g.mode = "always"
      BY <1>0, <2>0 DEF AInv, GrantsInv, Successor
    <3> QED
      BY <1>0, <2>3, <3>1, <3>2, <3>3, <3>4, <3>5 DEF GrantsInv
  <2> QED
    BY <1>2, <2>5, <2>7, <2>8 DEF AInv
<1> QED
  BY <1>3, <1>4

(* The process ends: the file holds the state in memory or its successor.  *)
LEMMA CrashKeeps ==
    ASSUME AInv, Types', Crash
    PROVE  AInv'
<1>0. /\ Types /\ up /\ ~up' /\ memory' = Nothing /\ queue' = <<>> /\ ~pruned'
      /\ commit' = NoDocument /\ ~stored'
      /\ UNCHANGED <<disk, by, revoked, lasting>>
      /\ Doc = memory /\ Doc' = disk /\ disk \in Documents
  BY DEF AInv, Crash, historyVars, Doc, Types
<1>1. \A c \in Calls :
        /\ call'[c] = "approved" <=> call[c] = "approved"
        /\ call'[c] \in {"idle", "entered", "queued"} => call'[c] = "idle" /\ call[c] = "idle"
  BY DEF Crash
<1>2. Successor(disk)
  <2>1. CASE stored
    BY <1>0, <2>1 DEF AInv, CopiesInv, CommitInv
  <2>2. CASE ~stored
    BY <1>0, <2>2, MemorySucceeds DEF AInv, CopiesInv
  <2> QED
    BY <2>1, <2>2
<1>3. Fresh' \subseteq Fresh /\ \A c \in Fresh' : call[c] = "idle"
  BY <1>1 DEF Fresh
<1>4. \A p \in disk.pending : p \notin memory.pending => p \notin Fresh' /\ queue # <<>>
  <2>1. ASSUME NEW p \in disk.pending, p \notin memory.pending PROVE queue # <<>>
    BY <1>0, <2>1 DEF AInv, CopiesInv, CommitInv
  <2>2. queue # <<>> /\ Head1.kind = "require" => call[Head1.call] = "queued"
    BY <1>0, HeadFacts DEF AInv, QueueInv
  <2> QED
    BY <1>2, <1>3, <2>1, <2>2 DEF Successor
<1>5. /\ Closed \subseteq Closed'
      /\ disk.grants \subseteq Closed'
      /\ disk.pending \cap Fresh' = {}
      /\ \A g \in Closed : g \notin memory.grants => g \notin disk.grants
  BY <1>0, <1>2, <1>3, <1>4, Renewed
<1>6. QueueInv' /\ CopiesInv' /\ CommitInv'
  BY <1>0 DEF QueueInv, CopiesInv, CommitInv
<1>7. \A c \in Calls : Once(c)' = Once(c)
  BY <1>0, <1>1 DEF Once
<1>8. ByInv'
  <2>1. queue # <<>> /\ Head1.kind = "require" => call[Head1.call] = "queued"
    BY <1>0, HeadFacts DEF AInv, QueueInv
  <2>2. \A c \in Calls : c \in Fresh' => by[c] = NoGrant
    BY <1>3, <2>1 DEF AInv, ByInv, CommitInv
  <2> QED
    BY <1>0, <1>7, <2>2 DEF AInv, ByInv
<1>9. GrantsInv'
  <2>1. Good(Doc)' /\ lasting \subseteq disk.grants
    BY <1>0, <1>2 DEF Successor, Good
  <2> QED
    BY <1>0, <1>5, <1>7, <2>1 DEF AInv, GrantsInv
<1> QED
  BY <1>6, <1>8, <1>9 DEF AInv

(* initialize: what the file holds, less what does not outlive a restart.  *)
LEMMA StartKeeps ==
    ASSUME AInv, Types', NEW policy \in Policies, Start(policy)
    PROVE  AInv'
<1>0. /\ Types /\ ~up /\ up' /\ disk' = Loaded(policy) /\ memory' = Loaded(policy)
      /\ queue = <<>> /\ commit = NoDocument /\ ~stored
      /\ UNCHANGED <<queue, pruned, commit, stored, call, by, revoked>>
      /\ Doc = disk /\ Doc' = Loaded(policy) /\ Fresh' = Fresh
  BY DEF AInv, Start, CopiesInv, Doc, Fresh
<1>1. /\ Loaded(policy).policy = policy
      /\ Loaded(policy).pending \subseteq disk.pending
      /\ Loaded(policy).grants \subseteq disk.grants
      /\ disk.policy # policy => Loaded(policy).pending = {} /\ Loaded(policy).grants = {}
  BY DEF Loaded
<1>2. Closed \subseteq Closed'
  BY <1>0, <1>1 DEF Closed
<1>3. Good(Loaded(policy))
  <2>1. CASE disk.policy = policy
    BY <1>0, <1>1, <2>1, SmallerIsGood DEF AInv, GrantsInv
  <2>2. CASE disk.policy # policy
    <3>1. IsFiniteSet({}) /\ Cardinality({}) = 0 /\ 0 <= MaxPending
      BY FS_EmptySet, ApprovalCalls
    <3>2. Loaded(policy).pending = {} /\ Loaded(policy).grants = {}
      BY <1>1, <2>2
    <3> QED
      BY <3>1, <3>2 DEF Good
  <2> QED
    BY <2>1, <2>2
<1>4. QueueInv' /\ CopiesInv' /\ CommitInv'
  BY <1>0 DEF QueueInv, CopiesInv, CommitInv
<1>5. ByInv'
  BY <1>0 DEF AInv, ByInv, Once
<1>6. GrantsInv'
  <2>1. \A g \in lasting' : g \in Loaded(policy).grants /\ g.mode = "always"
    <3>1. CASE disk.policy # policy
      BY <3>1 DEF Start
    <3>2. CASE disk.policy = policy
      <4>1. \A g \in lasting' : g \in disk.grants /\ g.mode = "always"
        BY <1>0, <3>2 DEF AInv, GrantsInv, Start
      <4>2. lasting' # {} => policy = "manual"
        BY <1>0, <3>2, <4>1 DEF AInv, GrantsInv, Good, Policies
      <4> QED
        BY <3>2, <4>1, <4>2 DEF Loaded
    <3> QED
      BY <3>1, <3>2
  <2>2. \A c \in Calls : Once(c)' => by[c] \in Closed \ disk.grants
    BY <1>0 DEF AInv, GrantsInv, Once
  <2>3. Good(Doc)'
    BY <1>0, <1>3 DEF Good
  <2>4. \A i \in DOMAIN queue' : FALSE
    BY <1>0
  <2>5. /\ disk.pending \cap Fresh = {}
        /\ disk.grants \subseteq Closed
        /\ revoked \subseteq Closed \ disk.grants
    BY <1>0 DEF AInv, GrantsInv
  <2> QED
    BY <1>0, <1>1, <1>2, <2>1, <2>2, <2>3, <2>4, <2>5 DEF GrantsInv
<1> QED
  BY <1>4, <1>5, <1>6 DEF AInv

-----------------------------------------------------------------------------
(* The operations, each as one of these steps. *)

LEMMA PruneKeeps ==
    ASSUME AInv, Types', Prune
    PROVE  AInv'
<1>0. /\ Types /\ up /\ queue # <<>> /\ commit = NoDocument /\ memory \in Documents
      /\ UNCHANGED <<up, memory, disk, queue, stored, call, by, revoked, lasting>>
  BY DEF AInv, Prune, Holding, historyVars, Types
<1>1. CASE Leftover = {}
  <2>1. /\ Doc' = Doc /\ Fresh' = Fresh /\ Closed' = Closed /\ Head1' = Head1
        /\ commit' = commit
    BY <1>0, <1>1 DEF Prune, Doc, Fresh, Closed, Head1
  <2> QED
    BY <1>0, <2>1 DEF AInv, QueueInv, CopiesInv, CommitInv, ByInv, GrantsInv, Good, Once
<1>2. CASE Leftover # {}
  <2>1. /\ commit' = [memory EXCEPT !.pending = @ \ expired, !.decided = {}]
        /\ UNCHANGED pruned /\ Holding
    BY <1>2 DEF Prune
  <2>2. /\ commit'.policy = memory.policy /\ commit'.grants = memory.grants
        /\ commit'.pending = memory.pending \ expired
    BY <1>0, <2>1 DEF Documents
  <2>3. Successor(memory)
    BY <1>0, MemorySucceeds
  <2>4. Good(commit')
    <3> DEFINE E == commit'
    <3>1. E.policy = memory.policy /\ E.pending \subseteq memory.pending /\ E.grants \subseteq memory.grants
      BY <2>2
    <3> HIDE DEF E
    <3>2. Good(E)
      BY <2>3, <3>1, SmallerIsGood DEF Successor
    <3> QED
      BY <3>2 DEF E
  <2>5. Successor(commit')
    BY <2>2, <2>3, <2>4 DEF Successor
  <2>6. commit' # NoDocument
    BY <1>0, <2>2 DEF NoDocument, Documents, Policies
  <2> QED
    BY <1>0, <2>1, <2>5, <2>6, CommitKeeps
<1> QED
  BY <1>1, <1>2

(* A request is approved, refused or answered without a write. *)
LEMMA AnswerKeeps ==
    ASSUME AInv, Types', Turn("require"), Release, UNCHANGED <<up, memory, disk, revoked, lasting>>,
           NEW result \in {"approved", "asked", "error"}, SetCall(Head1.call, result),
           \/ by' = by /\ result # "approved"
           \/ \E g : by' = [by EXCEPT ![Head1.call] = g] /\ g.mode # "once"
    PROVE  AInv'
<1>0. Types /\ up /\ queue # <<>> /\ ~stored /\ Head1.kind = "require"
  BY DEF AInv, CopiesInv, Turn, Holding
<1>1. Head1.call \in Calls
  BY <1>0, HeadFacts DEF AInv, QueueInv
<1>2. \A c \in Calls :
        \/ /\ call'[c] = call[c] /\ by'[c] = by[c]
           /\ c # Head1.call
        \/ /\ c = Head1.call
           /\ call'[c] \in {"approved", "asked", "error"}
           /\ call'[c] = "approved" => by'[c].mode # "once"
  BY <1>0, <1>1 DEF SetCall, Types
<1> QED
  BY <1>0, <1>2, ReleaseKeeps

LEMMA RequireKeeps ==
    ASSUME AInv, Types', RequireByConfig \/ RequireByGrant \/ Ask
    PROVE  AInv'
<1> USE ApprovalCalls
<1> DEFINE c == Head1.call
<1>0. /\ Types /\ Turn("require") /\ Holding /\ up /\ queue # <<>> /\ Head1.kind = "require" /\ pruned
      /\ UNCHANGED <<up, disk, revoked, lasting>>
      /\ memory \in Documents /\ memory.grants \in SUBSET Grants
  BY DEF AInv, RequireByConfig, RequireByGrant, Ask, Turn, Holding, historyVars, Types, Documents
<1>1. c \in Calls /\ c \in Fresh
  BY <1>0, HeadFacts DEF AInv, QueueInv, Fresh
<1>2. Successor(memory) /\ Doc = memory
  BY <1>0, MemorySucceeds DEF Doc
<1>3. CASE RequireByConfig
  <2>1. PICK g \in {ByConfig} \cup {g \in memory.grants : g.mode = "always"} : Approve(c, g)
    BY <1>3 DEF RequireByConfig, Standing
  <2>2. g.mode # "once"
    BY <2>1 DEF ByConfig
  <2> QED
    BY <1>0, <1>3, <2>1, <2>2, AnswerKeeps DEF Approve, RequireByConfig
<1>4. CASE RequireByGrant
  <2>1. PICK g \in memory.grants :
            /\ g \in Consumable(c)
            /\ \/ g.mode = "session" /\ Approve(c, g) /\ Release /\ UNCHANGED memory
               \/ /\ g.mode = "once"
                  /\ commit' = [memory EXCEPT !.grants = @ \ {g}]
                  /\ by' = [by EXCEPT ![c] = g]
                  /\ UNCHANGED <<memory, queue, pruned, stored, call>>
    BY <1>4 DEF RequireByGrant, Consumable
  <2>2. CASE g.mode = "session" /\ Approve(c, g) /\ Release /\ UNCHANGED memory
    BY <1>0, <2>2, AnswerKeeps DEF Approve
  <2>3. CASE /\ g.mode = "once"
             /\ commit' = [memory EXCEPT !.grants = @ \ {g}]
             /\ by' = [by EXCEPT ![c] = g]
             /\ UNCHANGED <<memory, queue, pruned, stored, call>>
    <3>1. /\ commit'.policy = memory.policy /\ commit'.grants = memory.grants \ {g}
          /\ commit'.pending = memory.pending
      BY <1>0, <2>3 DEF Documents
    <3>2. SameRequest(g.of, c)
      BY <2>1, <2>3 DEF Consumable
    <3>3. Good(commit')
      <4> DEFINE E == commit'
      <4>1. E.policy = memory.policy /\ E.pending \subseteq memory.pending /\ E.grants \subseteq memory.grants
        BY <3>1
      <4> HIDE DEF E
      <4>2. Good(E)
        BY <1>2, <4>1, SmallerIsGood DEF Successor
      <4> QED
        BY <4>2 DEF E
    <3>4. \A l \in lasting : l # g
      BY <2>3 DEF AInv, GrantsInv
    <3>5. Successor(commit')
      BY <1>2, <3>1, <3>3, <3>4 DEF Successor
    <3>6. commit' # NoDocument
      BY <1>0, <3>1 DEF NoDocument, Documents, Policies
    <3>7. g \in memory.grants \ commit'.grants
      BY <3>1
    <3> QED
      BY <1>0, <2>3, <3>2, <3>5, <3>6, <3>7, CommitKeeps
  <2> QED
    BY <2>1, <2>2, <2>3
<1>5. CASE Ask
  <2>0. by' = by /\ memory' = memory
    BY <1>5 DEF Ask, historyVars
  <2>1. CASE (SetCall(c, "asked") \/ SetCall(c, "error")) /\ Release
    BY <1>0, <2>0, <2>1, AnswerKeeps
  <2>2. CASE /\ \A p \in memory.pending : ~SameRequest(p, c)
             /\ HasRoom
             /\ commit' = [memory EXCEPT !.pending = @ \cup {c}]
             /\ UNCHANGED <<call, queue, pruned, stored>>
    <3>1. /\ commit'.policy = memory.policy /\ commit'.grants = memory.grants
          /\ commit'.pending = memory.pending \cup {c}
      BY <1>0, <2>2 DEF Documents
    <3>2. IsFiniteSet(commit'.pending) /\ Cardinality(commit'.pending) <= MaxPending
      <4>1. /\ IsFiniteSet(memory.pending)
            /\ Cardinality(memory.pending) \in Nat /\ Cardinality(memory.pending) < MaxPending
        BY <1>2, <2>2, FS_CardinalityType DEF Successor, Good, HasRoom
      <4>2. /\ IsFiniteSet(memory.pending \cup {c})
            /\ Cardinality(memory.pending \cup {c}) =
                    IF c \in memory.pending THEN Cardinality(memory.pending)
                    ELSE Cardinality(memory.pending) + 1
        BY <4>1, FS_AddElement
      <4>3. Cardinality(memory.pending \cup {c}) \in Nat
        BY <4>2, FS_CardinalityType
      <4> QED
        BY <3>1, <4>1, <4>2, <4>3, ApprovalCalls
    <3>3. \A p, q \in commit'.pending : SameRequest(p, q) => p = q
      <4>1. \A p \in memory.pending : ~SameRequest(c, p)
        BY <2>2 DEF SameRequest
      <4> QED
        BY <1>2, <2>2, <3>1, <4>1 DEF Successor, Good
    <3>4. \A g \in memory.grants : g.of \notin commit'.pending
      BY <1>1, <1>2, <3>1 DEF AInv, GrantsInv, Good, Closed
    <3>5. memory.policy = "trusted_always" => "always" \notin DecisionsOf[c]
      BY <1>5 DEF Ask, NeedsGrant, Standing
    <3>6. Good(commit')
      BY <1>2, <3>1, <3>2, <3>3, <3>4, <3>5 DEF Successor, Good
    <3>7. Successor(commit')
      BY <1>0, <1>2, <3>1, <3>6 DEF Successor
    <3>8. commit' # NoDocument
      BY <1>0, <3>1 DEF NoDocument, Documents, Policies
    <3> QED
      BY <1>0, <2>0, <2>2, <3>7, <3>8, CommitKeeps
  <2> QED
    BY <1>5, <2>1, <2>2 DEF Ask
<1> QED
  BY <1>3, <1>4, <1>5

(* An operation of another kind gives up. *)
LEMMA RefusedKeeps ==
    ASSUME AInv, Types', up, queue # <<>>, ~stored, Head1.kind # "require", Release,
           UNCHANGED <<up, memory, disk, call, by, revoked, lasting>>
    PROVE  AInv'
  BY ReleaseKeeps

LEMMA DecideKeeps ==
    ASSUME AInv, Types', DecideJob
    PROVE  AInv'
<1> DEFINE p == Head1.call
           g == [of |-> p, mode |-> Head1.decision]
<1>0. /\ Types /\ Holding /\ up /\ queue # <<>> /\ Head1.kind = "decide" /\ pruned /\ ~stored
      /\ UNCHANGED <<up, memory, disk, call, by, revoked, lasting>>
      /\ memory \in Documents
  BY DEF AInv, CopiesInv, DecideJob, Turn, Holding, historyVars, Types
<1>1. CASE Permitted(p, Head1.decision)
  <2>0. /\ p \in memory.pending /\ Head1.decision \in DecisionsOf[p]
        /\ UNCHANGED <<queue, pruned, stored>>
        /\ commit' = [memory EXCEPT
                    !.pending = @ \ {p}, !.decided = @ \cup {p},
                    !.grants = IF Head1.decision = "deny" THEN @ ELSE @ \cup {g}]
    BY <1>1 DEF DecideJob, Permitted
  <2>1. /\ commit'.policy = memory.policy
        /\ commit'.grants = memory.grants \/ commit'.grants = memory.grants \cup {g}
        /\ commit'.pending = memory.pending \ {p}
    BY <1>0, <2>0 DEF Documents
  <2>2. Successor(memory)
    BY <1>0, MemorySucceeds
  <2>3. g.of = p /\ g.mode = Head1.decision
    OBVIOUS
  <2> HIDE DEF g
  <2>4. Good(commit')
    <3>1. IsFiniteSet(commit'.pending) /\ Cardinality(commit'.pending) <= MaxPending
      <4>1. /\ IsFiniteSet(memory.pending) /\ Cardinality(memory.pending) \in Nat
            /\ Cardinality(memory.pending) <= MaxPending
        BY <2>2, FS_CardinalityType DEF Successor, Good
      <4>2. /\ IsFiniteSet(memory.pending \ {p})
            /\ Cardinality(memory.pending \ {p}) <= Cardinality(memory.pending)
        BY <4>1, FS_Subset
      <4>3. Cardinality(memory.pending \ {p}) \in Nat
        BY <4>2, FS_CardinalityType
      <4> QED
        BY <2>1, <4>1, <4>2, <4>3, ApprovalCalls
    <3> QED
      BY <2>0, <2>1, <2>2, <2>3, <3>1 DEF Successor, Good
  <2>5. Successor(commit')
    BY <2>0, <2>1, <2>2, <2>3, <2>4 DEF Successor
  <2>6. commit' # NoDocument
    BY <1>0, <2>1 DEF NoDocument, Documents, Policies
  <2> QED
    BY <1>0, <2>0, <2>5, <2>6, CommitKeeps
<1>2. CASE ~Permitted(p, Head1.decision)
  BY <1>0, <1>2, RefusedKeeps DEF DecideJob
<1> QED
  BY <1>1, <1>2

LEMMA RevokeKeeps ==
    ASSUME AInv, Types', RevokeJob
    PROVE  AInv'
<1>0. /\ Types /\ Holding /\ up /\ queue # <<>> /\ Head1.kind \in {"revoke", "revokeSession"} /\ ~stored
      /\ UNCHANGED <<up, memory, disk, call, by, revoked, lasting>>
      /\ memory \in Documents
  BY DEF AInv, CopiesInv, RevokeJob, Turn, Holding, historyVars, Types
<1>1. CASE Kept = memory.grants
  BY <1>0, <1>1, RefusedKeeps DEF RevokeJob
<1>2. CASE Kept # memory.grants
  <2>0. commit' = [memory EXCEPT !.grants = Kept] /\ UNCHANGED <<queue, pruned, stored>>
    BY <1>2 DEF RevokeJob
  <2>1. /\ commit'.policy = memory.policy /\ commit'.grants = Kept
        /\ commit'.pending = memory.pending
    BY <1>0, <2>0 DEF Documents
  <2>2. Successor(memory) /\ Doc = memory
    BY <1>0, MemorySucceeds DEF Doc
  <2>3. Kept \subseteq memory.grants
    BY DEF Kept
  <2>4. Good(commit')
    <3> DEFINE E == commit'
    <3>1. E.policy = memory.policy /\ E.pending \subseteq memory.pending /\ E.grants \subseteq memory.grants
      BY <2>1, <2>3
    <3> HIDE DEF E
    <3>2. Good(E)
      BY <2>2, <3>1, SmallerIsGood DEF Successor
    <3> QED
      BY <3>2 DEF E
  <2>5. lasting \subseteq Kept
    <3>1. \A g \in lasting : g \in memory.grants /\ g.mode = "always"
      BY <2>2 DEF AInv, GrantsInv
    <3>2. Head1.kind = "revoke" => Head1.grant \notin lasting
      BY <1>0, HeadFacts DEF AInv, GrantsInv
    <3> QED
      BY <3>1, <3>2 DEF Kept
  <2>6. Successor(commit')
    BY <2>1, <2>2, <2>3, <2>4, <2>5 DEF Successor
  <2>7. commit' # NoDocument
    BY <1>0, <2>1 DEF NoDocument, Documents, Policies
  <2> QED
    BY <1>0, <2>0, <2>6, <2>7, CommitKeeps
<1> QED
  BY <1>1, <1>2

LEMMA StoreFailsKeeps ==
    ASSUME AInv, Types', StoreFails
    PROVE  AInv'
<1>0. /\ Types /\ up /\ queue # <<>> /\ ~stored /\ Release
      /\ UNCHANGED <<up, memory, disk, revoked, lasting>>
  BY DEF AInv, CommitInv, StoreFails, Writing
<1>1. \A c \in Calls :
        \/ /\ call'[c] = call[c] /\ by'[c] = by[c]
           /\ Head1.kind = "require" => c # Head1.call
        \/ Head1.kind = "require" /\ c = Head1.call /\ call'[c] = "error"
  BY ApprovalCalls DEF StoreFails, SetCall
<1> QED
  BY <1>0, <1>1, ReleaseKeeps

-----------------------------------------------------------------------------
(* The inductive invariant. *)

LEMMA ApprovalsInit == Init => AInv
<1> SUFFICES ASSUME Init PROVE AInv
  OBVIOUS
<1>0. /\ ~up /\ memory = Nothing /\ disk = Nothing /\ queue = <<>> /\ ~pruned
      /\ commit = NoDocument /\ ~stored /\ revoked = {} /\ lasting = {}
      /\ \A c \in Calls : call[c] = "idle" /\ by[c] = NoGrant
  BY DEF Init
<1>1. Types
  BY TypesInit
<1>2. Good(Nothing)
  <2>1. IsFiniteSet({}) /\ Cardinality({}) = 0 /\ 0 <= MaxPending
    BY FS_EmptySet, ApprovalCalls
  <2> QED
    BY <2>1 DEF Good, Nothing
<1>3. QueueInv /\ CopiesInv /\ CommitInv /\ ByInv
  BY <1>0 DEF QueueInv, CopiesInv, CommitInv, ByInv, Once
<1>4. GrantsInv
  BY <1>0, <1>2 DEF GrantsInv, Doc, Nothing, Once
<1> QED
  BY <1>1, <1>3, <1>4 DEF AInv

LEMMA ApprovalsStep == AInv /\ [Next]_vars => AInv'
<1> SUFFICES ASSUME AInv, [Next]_vars PROVE AInv'
  OBVIOUS
<1> USE ApprovalCalls
<1>0. Types /\ Types'
  BY TypesStep DEF AInv
<1>1. ASSUME NEW policy \in Policies, Start(policy) PROVE AInv'
  BY <1>0, <1>1, StartKeeps
<1>2. ASSUME Crash PROVE AInv'
  BY <1>0, <1>2, CrashKeeps
<1>3. ASSUME \/ \E p \in Calls : Expire(p)
             \/ \E s \in Sessions : OpenSession(s)
             \/ UNCHANGED vars
      PROVE  AInv'
  <2>1. UNCHANGED <<up, storeVars, call, historyVars>>
    BY <1>3 DEF Expire, OpenSession, vars
  <2> QED
    BY <1>0, <2>1, QuietKeeps DEF storeVars, historyVars, Fresh
<1>4. ASSUME NEW s \in Sessions, CloseSession(s) PROVE AInv'
  <2>1. PICK job \in Jobs : job.kind = "revokeSession" /\ queue' = Append(queue, job)
    <3>1. [Job("revokeSession") EXCEPT !.session = s].kind = "revokeSession"
      BY DEF Job
    <3> QED
      BY <1>4, <3>1, JobTypes DEF CloseSession, Enqueue
  <2> QED
    BY <1>0, <1>4, <2>1, QuietKeeps DEF CloseSession, historyVars, Fresh
<1>5. ASSUME NEW c \in Calls, EnterCall(c) PROVE AInv'
  <2>1. /\ call[c] = "idle" /\ call'[c] = "entered"
        /\ \A d \in Calls : d # c => call'[d] = call[d]
        /\ UNCHANGED <<up, storeVars, historyVars>>
    BY <1>0, <1>5 DEF EnterCall, Types
  <2>2. Fresh' = Fresh
    BY <2>1 DEF Fresh
  <2>3. \A d \in Calls : /\ call'[d] = "approved" <=> call[d] = "approved"
                         /\ call[d] = "queued" => call'[d] = "queued"
    BY <2>1
  <2> QED
    BY <1>0, <2>1, <2>2, <2>3, QuietKeeps DEF storeVars, historyVars
<1>6. ASSUME NEW c \in Calls, Require(c) PROVE AInv'
  <2>1. /\ up /\ call[c] = "entered" /\ call'[c] = "queued"
        /\ \A d \in Calls : d # c => call'[d] = call[d]
        /\ UNCHANGED <<up, memory, disk, pruned, commit, stored, historyVars>>
    BY <1>0, <1>6 DEF Require, Types
  <2>2. Fresh' = Fresh
    BY <2>1 DEF Fresh
  <2>3. \A d \in Calls : /\ call'[d] = "approved" <=> call[d] = "approved"
                         /\ call[d] = "queued" => call'[d] = "queued"
    BY <2>1
  <2>4. PICK job \in Jobs : job.kind = "require" /\ job.call = c /\ queue' = Append(queue, job)
    <3>1. /\ [Job("require") EXCEPT !.call = c].kind = "require"
          /\ [Job("require") EXCEPT !.call = c].call = c
      BY DEF Job
    <3> QED
      BY <1>6, <3>1, JobTypes DEF Require, Enqueue
  <2> QED
    BY <1>0, <2>1, <2>2, <2>3, <2>4, QuietKeeps DEF historyVars
<1>7. ASSUME NEW p \in Calls, NEW decision \in Decisions, Decide(p, decision) PROVE AInv'
  <2>1. PICK job \in Jobs : job.kind = "decide" /\ queue' = Append(queue, job)
    <3>1. [Job("decide") EXCEPT !.call = p, !.decision = decision].kind = "decide"
      BY DEF Job
    <3> QED
      BY <1>7, <3>1, JobTypes DEF Decide, Enqueue
  <2> QED
    BY <1>0, <1>7, <2>1, QuietKeeps DEF Decide, historyVars, Fresh
<1>8. ASSUME NEW g \in memory.grants, Revoke(g) PROVE AInv'
  <2>0. g \in Grants
    BY <1>0, DocumentFacts
  <2>1. PICK job \in Jobs : job.kind = "revoke" /\ job.grant = g /\ queue' = Append(queue, job)
    <3>1. /\ [Job("revoke") EXCEPT !.grant = g].kind = "revoke"
          /\ [Job("revoke") EXCEPT !.grant = g].grant = g
      BY DEF Job
    <3> QED
      BY <1>8, <2>0, <3>1, JobTypes DEF Revoke, Enqueue
  <2>2. /\ up /\ lasting' = lasting \ {g} /\ call' = call
        /\ UNCHANGED <<up, memory, disk, pruned, commit, stored, by, revoked>>
    BY <1>8 DEF Revoke
  <2> QED
    BY <1>0, <2>1, <2>2, QuietKeeps DEF Fresh
<1>9. ASSUME Operation PROVE AInv'
  BY <1>0, <1>9, PruneKeeps, RequireKeeps, DecideKeeps, RevokeKeeps, StoreKeeps,
     StoreFailsKeeps, InstallKeeps DEF Operation
<1> QED
  BY <1>1, <1>2, <1>3, <1>4, <1>5, <1>6, <1>7, <1>8, <1>9 DEF Next

-----------------------------------------------------------------------------
(* The results. *)

(* The three copies of the state, the queue and the grants fit together in *)
(* every reachable state of the store.                                     *)
THEOREM ApprovalsInductive == Spec => []AInv
  BY ApprovalsInit, ApprovalsStep, PTL DEF Spec

(* The state is well formed: only the operation that holds the mutex       *)
(* writes, no request is pending twice, and never more than maxPending     *)
(* are, whatever runs between the check and the commit.                    *)
THEOREM ApprovalsTyped == Spec => []TypeOK
<1>1. AInv => TypeOK
  <2> SUFFICES ASSUME AInv PROVE TypeOK
    OBVIOUS
  <2>1. Good(memory)
    <3>1. CASE up
      BY <3>1 DEF AInv, GrantsInv, Doc
    <3>2. CASE ~up
      <4>1. IsFiniteSet({}) /\ Cardinality({}) = 0 /\ 0 <= MaxPending
        BY FS_EmptySet, ApprovalCalls
      <4>2. memory.pending = {} /\ memory.grants = {} /\ memory.policy = "manual"
        BY <3>2 DEF AInv, CopiesInv, Nothing
      <4> QED
        BY <4>1, <4>2 DEF Good
    <3> QED
      BY <3>1, <3>2
  <2> QED
    BY <2>1 DEF AInv, Types, TypeOK, CommitInv, Good
<1> QED
  BY <1>1, ApprovalsInductive, PTL

(* A once grant lets one call pass, a call like the one the operator saw:  *)
(* require consumes it in the step that approves, even when the write      *)
(* fails, the daemon stops in it, or other calls wait for the same grant.  *)
THEOREM OnceSpentOnce == Spec => []OnceIsSpentOnce
<1>1. AInv => OnceIsSpentOnce
  <2> SUFFICES ASSUME AInv, NEW c \in Calls, Once(c)
               PROVE  /\ SameRequest(by[c].of, c)
                      /\ \A d \in Calls \ {c} : Once(d) => by[d] # by[c]
                      /\ by[c] \notin memory.grants \cup disk.grants
    BY DEF OnceIsSpentOnce
  <2>1. by[c] \in Closed \ Doc.grants
    BY DEF AInv, GrantsInv
  <2>2. up /\ stored => by[c] \notin commit.grants
    <3> SUFFICES ASSUME up, stored PROVE by[c] \notin commit.grants
      OBVIOUS
    <3>1. Successor(commit) /\ Doc = memory
      BY DEF AInv, CopiesInv, CommitInv, Doc
    <3> QED
      BY <2>1, <3>1 DEF Successor, Closed
  <2>3. by[c] \notin memory.grants \cup disk.grants
    BY <2>1, <2>2 DEF AInv, CopiesInv, Doc, Nothing
  <2> QED
    BY <2>3 DEF AInv, ByInv
<1> QED
  BY <1>1, ApprovalsInductive, PTL

(* A revoked grant is in no copy of the state nor on its way to one, and   *)
(* an always grant that nobody asked back is on disk: revocations and      *)
(* decisions survive failed writes, crashes and restarts.                  *)
THEOREM DecisionsKept == Spec => []DecisionsLast
<1>1. AInv => DecisionsLast
  <2> SUFFICES ASSUME AInv PROVE DecisionsLast
    OBVIOUS
  <2>1. revoked \subseteq Closed \ Doc.grants
    BY DEF AInv, GrantsInv
  <2>2. commit # NoDocument => revoked \cap commit.grants = {} /\ lasting \subseteq commit.grants
    <3> SUFFICES ASSUME commit # NoDocument
                 PROVE  revoked \cap commit.grants = {} /\ lasting \subseteq commit.grants
      OBVIOUS
    <3>1. Successor(commit) /\ Doc = memory
      BY DEF AInv, CommitInv, Doc
    <3> QED
      BY <2>1, <3>1 DEF Successor, Closed
  <2>3. lasting \subseteq Doc.grants
    BY DEF AInv, GrantsInv
  <2>4. \/ ~up /\ Doc = disk /\ memory.grants = {}
        \/ up /\ Doc = memory /\ disk = memory
        \/ up /\ Doc = memory /\ disk = commit /\ commit # NoDocument
    BY DEF AInv, CopiesInv, Doc, Nothing
  <2> QED
    BY <2>1, <2>2, <2>3, <2>4 DEF DecisionsLast
<1> QED
  BY <1>1, ApprovalsInductive, PTL
=============================================================================
