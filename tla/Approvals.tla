------------------------------- MODULE Approvals -------------------------------
(***************************************************************************)
(* Local approvals (src/src/approvals.mjs) and the MCP sessions that ask   *)
(* for them (src/src/mcp.mjs).  Every operation of ApprovalStore runs      *)
(* under one AsyncMutex and ends in commit, which writes approvals.json    *)
(* and only then replaces the state in memory; sessions are opened and     *)
(* closed outside the mutex, in between.                                   *)
(*                                                                         *)
(* A pending request is named by the call that created it, and so is the   *)
(* grant an operator makes of it.                                          *)
(***************************************************************************)
EXTENDS Naturals, Sequences, FiniteSets

CONSTANTS
    Calls,              \* protected tool calls
    Sessions,           \* MCP session ids, each issued at most once
    NoSession,          \* a call without a session, from the bridge or /admin/
    ScopeOf,            \* [Calls -> scopes]
    DetailsOf,          \* [Calls -> the hashed arguments]
    SessionOf,          \* [Calls -> Sessions and NoSession]
    DecisionsOf,        \* [Calls -> the decisions its request permits]
    Preapproved,        \* approvals.preapprovedScopes
    AllowPersistent,    \* approvals.allowPersistentGrants
    MaxPending,         \* approvals.maxPending
    MaxSessions,        \* MAX_MCP_SESSIONS
    MaxStarts,          \* bound: how often the daemon is started
    MaxWaiting          \* bound: operations that wait for the mutex

Decisions == {"once", "session", "always", "deny"}
Policies == {"manual", "trusted_always"}

ASSUME ApprovalCalls ==
    /\ NoSession \notin Sessions
    /\ "none" \notin Calls
    /\ SessionOf \in [Calls -> Sessions \cup {NoSession}]
    /\ DecisionsOf \in [Calls -> SUBSET Decisions]
    /\ \A c \in Calls : "deny" \in DecisionsOf[c]
    /\ MaxPending \in Nat /\ MaxSessions \in Nat /\ MaxStarts \in Nat /\ MaxWaiting \in Nat

VARIABLES
    up,         \* the daemon runs
    starts,     \* how often it was started
    memory,     \* this.state
    disk,       \* approvals.json
    queue,      \* operations waiting for the mutex; the head holds it
    pruned,     \* the head has passed pruneExpiredUnlocked
    commit,     \* the document the head is writing
    stored,     \* ... and has written
    mcp,        \* live MCP sessions
    opened,     \* sessions ever issued
    expired,    \* pending requests older than the time limit
    call,       \* where each call stands
    by,         \* history: the grant that approved a call
    revoked,    \* history: grants whose revocation was confirmed
    lasting     \* history: always grants confirmed and never asked back

storeVars == <<memory, disk, queue, pruned, commit, stored>>
mcpVars == <<mcp, opened>>
historyVars == <<by, revoked, lasting>>
vars == <<up, starts, storeVars, mcpVars, expired, call, historyVars>>

Grants == [of : Calls, mode : {"once", "session", "always"}]
NoGrant == [of |-> "none", mode |-> "none"]
(* Ways to be approved without a grant. *)
ByConfig == [of |-> "config", mode |-> "always"]
Documents == [policy : Policies, grants : SUBSET Grants,
              pending : SUBSET Calls, decided : SUBSET Calls]
NoDocument == [policy |-> "none"]
Jobs == [kind : {"require", "revokeSession", "decide", "revoke"},
         call : Calls \cup {"none"}, session : Sessions \cup {NoSession},
         decision : Decisions, grant : Grants \cup {NoGrant}]
(* The fingerprint covers scope, details, session and permitted decisions. *)
SameRequest(c, d) ==
    /\ ScopeOf[c] = ScopeOf[d] /\ DetailsOf[c] = DetailsOf[d]
    /\ SessionOf[c] = SessionOf[d] /\ DecisionsOf[c] = DecisionsOf[d]

CallStates == {"idle", "entered", "queued", "approved", "asked", "error", "lost"}

(* The state is well formed, and only the operation that holds the mutex   *)
(* writes approvals.json (runExclusive awaits the operation it runs).  Two *)
(* pending requests are never the same request, and there are at most      *)
(* maxPending of them: what decides whether to add one is still true when  *)
(* the file has been written.                                              *)
TypeOK ==
    /\ up \in BOOLEAN
    /\ starts \in 0..MaxStarts
    /\ memory \in Documents /\ disk \in Documents
    /\ queue \in Seq(Jobs)
    /\ pruned \in BOOLEAN /\ stored \in BOOLEAN
    /\ commit \in Documents \cup {NoDocument}
    /\ mcp \in SUBSET Sessions /\ opened \in SUBSET Sessions
    /\ expired \in SUBSET Calls
    /\ call \in [Calls -> CallStates]
    /\ by \in [Calls -> Grants \cup {NoGrant, ByConfig}]
    /\ revoked \in SUBSET Grants /\ lasting \in SUBSET Grants
    /\ commit # NoDocument => up /\ queue # <<>>
    /\ \A p, q \in memory.pending : SameRequest(p, q) => p = q
    /\ Cardinality(memory.pending) <= MaxPending

Nothing == [policy |-> "manual", grants |-> {}, pending |-> {}, decided |-> {}]

Init ==
    /\ up = FALSE
    /\ starts = 0
    /\ memory = Nothing /\ disk = Nothing
    /\ queue = <<>>
    /\ pruned = FALSE
    /\ commit = NoDocument /\ stored = FALSE
    /\ mcp = {} /\ opened = {}
    /\ expired = {}
    /\ call = [c \in Calls |-> "idle"]
    /\ by = [c \in Calls |-> NoGrant]
    /\ revoked = {} /\ lasting = {}

-----------------------------------------------------------------------------
(* The daemon. *)

(* initialize: under the policy the file was written with, always grants   *)
(* and unexpired requests are kept; under another one, nothing is.         *)
Loaded(policy) ==
    LET same == disk.policy = policy
    IN  [policy |-> policy,
         grants |-> IF same /\ policy = "manual"
                    THEN {g \in disk.grants : g.mode = "always"} ELSE {},
         pending |-> IF same THEN disk.pending \ expired ELSE {},
         decided |-> {}]

Start(policy) ==
    /\ ~up
    /\ starts < MaxStarts
    /\ up' = TRUE
    /\ starts' = starts + 1
    /\ disk' = Loaded(policy)
    /\ memory' = disk'
    /\ lasting' = IF policy = disk.policy THEN lasting ELSE {}
    /\ UNCHANGED <<queue, pruned, commit, stored, mcpVars, expired, call, by, revoked>>

(* The process ends at any point: in a write, before it or after it. *)
Crash ==
    /\ up
    /\ up' = FALSE
    /\ memory' = Nothing
    /\ queue' = <<>>
    /\ pruned' = FALSE
    /\ commit' = NoDocument /\ stored' = FALSE
    /\ mcp' = {}
    /\ call' = [c \in Calls |-> IF call[c] \in {"entered", "queued"} THEN "lost" ELSE call[c]]
    /\ UNCHANGED <<starts, disk, opened, expired, historyVars>>

(* Time passes for a request. *)
Expire(p) ==
    /\ p \in memory.pending \ expired
    /\ expired' = expired \cup {p}
    /\ UNCHANGED <<up, starts, storeVars, mcpVars, call, historyVars>>

-----------------------------------------------------------------------------
(* MCP sessions and the callers of the store. *)

Job(kind) == [kind |-> kind, call |-> "none", session |-> NoSession,
              decision |-> "deny", grant |-> NoGrant]
Enqueue(job) == Len(queue) < MaxWaiting /\ queue' = Append(queue, job)
Queued(job) == \E i \in DOMAIN queue : queue[i] = job

OpenSession(s) ==
    /\ up
    /\ s \notin opened
    /\ Cardinality(mcp) < MaxSessions
    /\ mcp' = mcp \cup {s}
    /\ opened' = opened \cup {s}
    /\ UNCHANGED <<up, starts, storeVars, expired, call, historyVars>>

(* closeSession, and the idle time limit of initialize and handle; a       *)
(* session that is gone already has its grants revoked once more.          *)
CloseSession(s) ==
    /\ up
    /\ s \in opened
    /\ mcp' = mcp \ {s}
    /\ LET job == [Job("revokeSession") EXCEPT !.session = s]
       IN ~Queued(job) /\ Enqueue(job)
    /\ UNCHANGED <<up, starts, memory, disk, pruned, commit, stored, opened, expired,
                   call, historyVars>>

(* handle checks the session of tools/call ... *)
EnterCall(c) ==
    /\ up
    /\ call[c] = "idle"
    /\ SessionOf[c] \in mcp \cup {NoSession}
    /\ call' = [call EXCEPT ![c] = "entered"]
    /\ UNCHANGED <<up, starts, storeVars, mcpVars, expired, historyVars>>

(* ... and after the awaits of the tool the call asks for approval. *)
Require(c) ==
    /\ up
    /\ call[c] = "entered"
    /\ call' = [call EXCEPT ![c] = "queued"]
    /\ Enqueue([Job("require") EXCEPT !.call = c])
    /\ UNCHANGED <<up, starts, memory, disk, pruned, commit, stored, mcpVars, expired,
                   historyVars>>

(* The operator answers a request, or revokes a grant, seen in /admin/. *)
Decide(p, decision) ==
    /\ up
    /\ p \in memory.pending
    /\ LET job == [Job("decide") EXCEPT !.call = p, !.decision = decision]
       IN ~Queued(job) /\ Enqueue(job)
    /\ UNCHANGED <<up, starts, memory, disk, pruned, commit, stored, mcpVars, expired,
                   call, historyVars>>

Revoke(g) ==
    /\ up
    /\ g \in memory.grants
    /\ LET job == [Job("revoke") EXCEPT !.grant = g]
       IN ~Queued(job) /\ Enqueue(job)
    /\ lasting' = lasting \ {g}
    /\ UNCHANGED <<up, starts, memory, disk, pruned, commit, stored, mcpVars, expired,
                   call, by, revoked>>

-----------------------------------------------------------------------------
(* The operation that holds the mutex. *)

Head1 == Head(queue)
Holding == up /\ queue # <<>> /\ commit = NoDocument
Writing == up /\ commit # NoDocument

(* The operation returns or throws: finally releases the mutex. *)
Release ==
    /\ queue' = Tail(queue)
    /\ pruned' = FALSE
    /\ commit' = NoDocument /\ stored' = FALSE

SetCall(c, result) == call' = [d \in Calls |-> IF d = c THEN result ELSE call[d]]

(* pruneExpiredUnlocked, first in require and decide. *)
Leftover == memory.decided \cup (memory.pending \cap expired)
Prune ==
    /\ Holding
    /\ Head1.kind \in {"require", "decide"}
    /\ ~pruned
    /\ IF Leftover = {}
       THEN pruned' = TRUE /\ UNCHANGED commit
       ELSE /\ commit' = [memory EXCEPT !.pending = @ \ expired, !.decided = {}]
            /\ UNCHANGED pruned
    /\ UNCHANGED <<up, starts, memory, disk, queue, stored, mcpVars, expired, call, historyVars>>

(* The head runs up to its commit. *)
Turn(kind) == Holding /\ Head1.kind = kind /\ (kind \in {"require", "decide"} => pruned)

(* findConsumable *)
Consumable(c) ==
    {g \in memory.grants :
        /\ ScopeOf[g.of] = ScopeOf[c]
        /\ g.mode \in DecisionsOf[c]
        /\ \/ g.mode = "once" /\ SameRequest(g.of, c)
           \/ g.mode = "session" /\ SessionOf[c] # NoSession /\ SessionOf[g.of] = SessionOf[c]}

Approve(c, g) == SetCall(c, "approved") /\ by' = [by EXCEPT ![c] = g]

(* The policy, a preapproved scope or an always grant approves at once. *)
Standing(c) ==
    IF memory.policy = "trusted_always" \/ ScopeOf[c] \in Preapproved THEN {ByConfig}
    ELSE {g \in memory.grants : g.mode = "always" /\ ScopeOf[g.of] = ScopeOf[c]}

RequireByConfig ==
    /\ Turn("require")
    /\ LET c == Head1.call IN
        /\ "always" \in DecisionsOf[c]
        /\ \E g \in Standing(c) : Approve(c, g)
    /\ Release
    /\ UNCHANGED <<up, starts, memory, disk, mcpVars, expired, revoked, lasting>>

NeedsGrant(c) == "always" \in DecisionsOf[c] => Standing(c) = {}

(* A session grant approves at once, a once grant when it is used up. *)
RequireByGrant ==
    /\ Turn("require")
    /\ LET c == Head1.call IN
        /\ NeedsGrant(c)
        /\ \E g \in Consumable(c) :
            \/ g.mode = "session" /\ Approve(c, g) /\ Release /\ UNCHANGED memory
            \/ /\ g.mode = "once"
               /\ commit' = [memory EXCEPT !.grants = @ \ {g}]
               /\ by' = [by EXCEPT ![c] = g]
               /\ UNCHANGED <<memory, queue, pruned, stored, call>>
    /\ UNCHANGED <<up, starts, disk, mcpVars, expired, revoked, lasting>>

(* Seeded fault: the limit is compared as if it were still to be reached. *)
HasRoomForOneMore == Cardinality(memory.pending) <= MaxPending

HasRoom == Cardinality(memory.pending) < MaxPending

(* ApprovalRequiredError, for the pending request or a new one. *)
Ask ==
    /\ Turn("require")
    /\ LET c == Head1.call
           same == {p \in memory.pending : SameRequest(p, c)}
       IN
        /\ NeedsGrant(c) /\ Consumable(c) = {}
        /\ \/ /\ same # {}
              /\ SetCall(c, "asked") /\ Release
           \/ /\ same = {} /\ ~HasRoom
              /\ SetCall(c, "error") /\ Release
           \/ /\ same = {} /\ HasRoom
              /\ commit' = [memory EXCEPT !.pending = @ \cup {c}]
              /\ UNCHANGED <<call, queue, pruned, stored>>
    /\ UNCHANGED <<up, starts, memory, disk, mcpVars, expired, historyVars>>

(* decide throws for a request that is gone or does not permit the answer. *)
Permitted(p, decision) ==
    /\ p \in memory.pending
    /\ decision \in DecisionsOf[p]
    /\ decision = "always" => AllowPersistent
    /\ decision = "session" => SessionOf[p] # NoSession

DecideJob ==
    /\ Turn("decide")
    /\ LET p == Head1.call IN
        IF Permitted(p, Head1.decision)
        THEN /\ commit' = [memory EXCEPT
                    !.pending = @ \ {p}, !.decided = @ \cup {p},
                    !.grants = IF Head1.decision = "deny" THEN @
                               ELSE @ \cup {[of |-> p, mode |-> Head1.decision]}]
             /\ UNCHANGED <<queue, pruned, stored>>
        ELSE Release
    /\ UNCHANGED <<up, starts, memory, disk, mcpVars, expired, call, historyVars>>

Kept ==
    IF Head1.kind = "revoke" THEN memory.grants \ {Head1.grant}
    ELSE {g \in memory.grants : g.mode # "session" \/ SessionOf[g.of] # Head1.session}

(* Seeded fault: revoke does not take the mutex. *)
RevokeJobAtOnce ==
    /\ up
    /\ \E i \in DOMAIN queue :
        /\ queue[i].kind = "revoke"
        /\ memory' = [memory EXCEPT !.grants = @ \ {queue[i].grant}]
        /\ disk' = memory'
        /\ revoked' = revoked \cup {queue[i].grant}
        /\ queue' = SubSeq(queue, 1, i - 1) \o SubSeq(queue, i + 1, Len(queue))
    /\ UNCHANGED <<up, starts, pruned, commit, stored, mcpVars, expired, call, by, lasting>>

RevokeJob ==
    /\ Turn("revoke") \/ Turn("revokeSession")
    /\ IF Kept = memory.grants
       THEN Release
       ELSE commit' = [memory EXCEPT !.grants = Kept] /\ UNCHANGED <<queue, pruned, stored>>
    /\ UNCHANGED <<up, starts, memory, disk, mcpVars, expired, call, historyVars>>

-----------------------------------------------------------------------------
(* commit: writeJsonAtomic, then this.state. *)

Store ==
    /\ Writing /\ ~stored
    /\ disk' = commit
    /\ stored' = TRUE
    /\ UNCHANGED <<up, starts, memory, queue, pruned, commit, mcpVars, expired, call,
                   historyVars>>

(* Seeded fault: a call whose grant could not be used up on disk goes on. *)
StoreFailsUnnoticed ==
    /\ Writing /\ ~stored
    /\ SetCall(IF Head1.kind = "require" THEN Head1.call ELSE "none",
               IF by[Head1.call] = NoGrant THEN "error" ELSE "approved")
    /\ Release
    /\ UNCHANGED <<up, starts, memory, disk, mcpVars, expired, historyVars>>

(* Seeded fault: an operation that cannot write starts over. *)
StoreFailsAndRepeats ==
    /\ Writing /\ ~stored
    /\ commit' = NoDocument
    /\ UNCHANGED <<up, starts, memory, disk, queue, pruned, stored, mcpVars, expired,
                   call, historyVars>>

(* The operation throws; a call that was using up a grant is not approved. *)
StoreFails ==
    /\ Writing /\ ~stored
    /\ SetCall(IF Head1.kind = "require" THEN Head1.call ELSE "none", "error")
    /\ by' = [c \in Calls |-> IF Head1.kind = "require" /\ c = Head1.call
                              THEN NoGrant ELSE by[c]]
    /\ Release
    /\ UNCHANGED <<up, starts, memory, disk, mcpVars, expired, revoked, lasting>>

(* Pruning goes on with the operation, any other commit ends it. *)
Install ==
    /\ Writing /\ stored
    /\ memory' = commit
    /\ IF Head1.kind \in {"require", "decide"} /\ ~pruned
       THEN /\ pruned' = TRUE
            /\ commit' = NoDocument /\ stored' = FALSE
            /\ UNCHANGED <<queue, call, historyVars>>
       ELSE /\ Release
            /\ SetCall(IF Head1.kind = "require" THEN Head1.call ELSE "none",
                       IF Head1.kind = "require" /\ by[Head1.call] = NoGrant
                       THEN "asked" ELSE "approved")
            /\ lasting' = lasting \cup {g \in commit.grants \ memory.grants : g.mode = "always"}
            /\ revoked' = IF Head1.kind \in {"revoke", "revokeSession"}
                          THEN revoked \cup (memory.grants \ commit.grants) ELSE revoked
            /\ UNCHANGED by
    /\ UNCHANGED <<up, starts, disk, mcpVars, expired>>

Operation ==
    \/ Prune \/ RequireByConfig \/ RequireByGrant \/ Ask \/ DecideJob \/ RevokeJob
    \/ Store \/ StoreFails \/ Install

Next ==
    \/ \E policy \in Policies : Start(policy)
    \/ Crash
    \/ \E p \in Calls : Expire(p)
    \/ \E s \in Sessions : OpenSession(s) \/ CloseSession(s)
    \/ \E c \in Calls : EnterCall(c) \/ Require(c)
    \/ \E p \in Calls, decision \in Decisions : Decide(p, decision)
    \/ \E g \in memory.grants : Revoke(g)
    \/ Operation

Spec == Init /\ [][Next]_vars

(* The operation that holds the mutex goes on, and its writes end. *)
FairSpec == Spec /\ WF_vars(Operation)

-----------------------------------------------------------------------------
(* Properties. *)

Once(c) == call[c] = "approved" /\ by[c].mode = "once"

(* A once grant lets one call pass, and a call like the one the operator   *)
(* saw: consumption and approval are one step even when the write fails,   *)
(* the daemon stops in it, or other calls wait for the same grant.         *)
OnceIsSpentOnce ==
    \A c \in Calls : Once(c) =>
        /\ SameRequest(by[c].of, c)
        /\ \A d \in Calls \ {c} : Once(d) => by[d] # by[c]
        /\ by[c] \notin memory.grants \cup disk.grants

(* Decisions that were confirmed last.  A grant that was revoked is in no  *)
(* copy of the state, nor in a document on its way to the file, and a      *)
(* restart does not revive it; an always grant that nobody asked back is   *)
(* on disk, whatever sessions end, writes fail and requests expire.        *)
DecisionsLast ==
    /\ revoked \cap (memory.grants \cup disk.grants) = {}
    /\ commit # NoDocument => revoked \cap commit.grants = {}
    /\ lasting \subseteq disk.grants

(* A call that asked for approval is answered: the mutex is passed on when *)
(* an operation fails too.  The daemon may stop instead (call "lost").     *)
RequiresReturn == <>[](\A c \in Calls : call[c] # "queued")

(* SECURITY.md: a session grant is removed when its session ends.  Unless  *)
(* the removal waits for the mutex, a session grant has a live session.    *)
(* The code does not keep to it (README, known divergences).               *)
SessionGrantsEnd ==
    \A g \in memory.grants :
        g.mode = "session" /\ SessionOf[g.of] \notin mcp
            => Queued([Job("revokeSession") EXCEPT !.session = SessionOf[g.of]])
=============================================================================
