# Verification of RELU AI Bridge

TLA+ models of RELU AI Bridge, the TLC runs that check them and the TLAPS proofs
about them. Source paths are relative to the repository (`src/connectors.mjs` is the
bridge's module; `docs/SECURITY.md` its documentation).

RELU AI Bridge is a local daemon (Node.js) between AI clients that speak MCP and
applications that run on the same machine: web pages with the browser SDK, HTTP APIs,
Perfetto, files and commands of the workspace, and chat tabs of a browser. An AI client
calls a tool; the bridge asks the operator for approval, finds the connector session of
the page, records mutations in a durable ledger, dispatches the request and returns the
result. Two other deployments reuse the ideas: an embedded .NET host and a Perfetto
plugin with its own broker.

## 1. Inventory

| Component | State | Operations | Hard behaviour |
|---|---|---|---|
| Mutation ledger (`connectors.mjs`, `operation-ledger.mjs`, `ledger-maintenance.mjs`) | `operationLedger`, `pending`, `busy`, the chain of snapshot writes, `connector-operations.json`, archives | begin, dispatch over browser, HTTP or Perfetto, answer, timeout, reconcile, shutdown, recover, archive | every await between the record and the dispatch, late answers, failed writes, crashes |
| Connector sessions (`connectors.mjs`, `websocket.mjs`) | `sessions`, `clientIndex`, `resumeRecords`, per-connection handshake | auth_init, auth_response, hello, context events, snapshots, ping, close | reconnect racing an old connection, an awaited audit write between the registration and its acknowledgement, stale snapshots |
| Browser SDK (`sdk/relu-web-connector.js`) | connection state, `clientId`, `resumeSecret` | connect, challenge, hello_ack, request, context update, reconnect, reset, start, stop | lost acknowledgements, a page that changes during the handshake |
| Instance lock (`instance-lock.mjs`) | `.instance-lock` and `.instance-lock-guard` directories with `owner.json` | acquire, recover a stale directory, release | several processes, each file system call a step, crashes |
| Approvals (`approvals.mjs`) and MCP sessions (`mcp.mjs`) | `approvals.json`, its copy in memory, the mutex queue, the live MCP sessions | require, decide, revoke, end of session, start under a policy | crashes around the write, sessions that end while calls wait |
| Perfetto broker and store (`perfetto-broker.mjs`, `perfetto-store.mjs`, `perfetto-tools.mjs`) and the plugin's client (`plugin/.../bridge_client.ts`) | clients, requests, query locks, the stored sessions and roles | hello, attach, detach, remove, select, query, ping, synchronise | a trace that reconnects or reloads during an attach, answers that outlive their socket |
| Agents (`agents.mjs`, `mcp.mjs`, `bridge.mjs`) and the chat extension (`extension/`) | workers, command queue, cursor and claim of each tab | spawn, message, report, clear, register, poll, acknowledge, open a chat | polls that overlap, tabs and workers that act late, restarts |
| Workspace tools (`tools/files.mjs`, `tools/commands.mjs`) | files, write locks, processes, slots, interactive sessions | apply edits with rollback, run, write, timeout, shutdown | other programs that change the files, failures half way, processes that do not end |
| Alignment (`alignment/`) | the series, candidates and rows of one call, its counters | sample, search, warp, simplify, map | recursion and boundaries of a numerical pipeline with limits |
| Goals and chat sessions (`goal.mjs`, `sessions.mjs`) | stored goals and sessions | set, advance, record | see section 8 |
| HTTP front end (`server.mjs`, `http-proof.mjs`, `security.mjs`) | one-shot challenges | challenge, prove, route | expiry and eviction while a proof is on its way |
| Configuration, schema, audit (`config.mjs`, `json-schema.mjs`, `audit.mjs`) | none beyond files | validation, append | input validation |
| .NET host, scripts, examples | own state each | see section 8 | |

How they interact. `relu-tools.mjs` takes a snapshot of a session, asks `ApprovalStore`
for the scope of the call and then calls `ConnectorBroker.executePrepared` with the
snapshot; everything between the snapshot and the dispatch may change, so the broker
revalidates it. `perfetto-tools.mjs` and `agentAction` in `mcp.mjs` do the same with
snapshots of a trace and of the workers. `server.mjs` holds the instance lock from start to
close, which is what lets approvals, ledger and Perfetto store keep their state in memory.
`ledger-maintenance.mjs` runs in a process of its own and holds the same lock. `bridge.mjs`
serves the chat extension's polls and `/admin/`, where the operator decides requests,
revokes grants and reconciles ambiguous operations. A Perfetto selection is a mutation of
the ledger, and its range may come from the alignment engine.

What makes each component correct:

- ledger: a mutation is durable before it is sent, sent at most once per key, never shown
  as done unless the peer said so, and its caller always returns;
- lock: one process per data directory, and a dead process does not wedge the next start;
- approvals: a once grant passes one call; a revoked grant is dead, also after a restart;
  a confirmed always grant survives; session grants end with their session;
- sessions: index, sessions and resume records agree; a snapshot that is accepted names
  the page and resource that were approved; a page gets connected again after a failure;
- Perfetto: a trace has one role, its client shows the role of the store and its plugin has
  taken it; one query runs at a time; calls and query locks end;
- agents: a command is carried out once, a retired worker stays retired, an action applies
  to the workers that were approved, a spawned worker starts;
- workspace: no text is overwritten unseen, a rollback leaves nothing behind, no process
  outlives a shutdown, slots come back;
- alignment: the path is the cheapest one, the mapping is monotone and follows the path, a
  valid call fails only of its own limits.

## 2. Modules

| Module | What it is |
|---|---|
| `MutationOnce` | the abstract promise: an operation is sent only while nothing is known of it, and is never forgotten once sent |
| `OperationLedger` | the ledger as the code has it; refines `MutationOnce` |
| `OperationLedgerProofs` | theorems: types, at-most-once and durable dispatch, what the callers are told; the ledger implements `MutationOnce` |
| `InstanceLock` | the directories of `instance-lock.mjs`, one action per file system call |
| `Approvals` | `ApprovalStore` under its mutex and the MCP sessions around it |
| `ConnectorSessions` | the broker's `accept` and what it calls, and the SDK that talks to it, over sockets that may be lost |
| `PerfettoSessions` | the Perfetto broker, its store, the tool calls and the plugin's client, over sockets that may be lost |
| `Agents` | the agent broker, the MCP calls and the content scripts and service worker of the chat extension |
| `Workspace` | edit transactions and commands over files that others change |
| `Alignment` | one call of the alignment engine, with reference definitions of what it computes |
| `InstanceLockProofs` | theorems: types; of two processes, the lock follows its owner |
| `ApprovalsProofs`, `AgentsProofs`, `WorkspaceProofs`, `PerfettoSessionsProofs`, `ConnectorSessionsProofs` | the theorems about these five |
| `AlignmentProofs` | theorems: windows, samples, the cheapest path, the mapping, what a call may fail of |
| `MC...` | values for the constants and symmetry, for TLC |

Definitions marked "Seeded fault" are variants of a definition that no specification
uses; each shows that a property can fail (section 6).

### OperationLedger

State and code: `ledger` is `operationLedger`, reduced to the status of each operation and
the call whose arguments it was begun with; `pend` is `pending` (live or tombstone);
`chain` is the queue of snapshots behind `persistChain`, of which the head is being
written; `disk` is `connector-operations.json`; `archives` the maintenance archives;
`call` where each caller stands, `waits` whom a duplicate waits on; `cached` whether the
result is kept; `conn`, `snap` and the session variables what a snapshot compares.
`sent` and `answered` are history variables. `mode` and `epoch` belong to the daemon and
its configured policy epoch.

A handler that runs without awaiting is one action. The awaits in `beginOperation`
(before the dispatch) and in the maintenance command are the points where other actions
interleave. A crash drops everything but files and history. One abstraction is worth
naming: `dropConnectionPending` calls `markAmbiguous` once per request and each call queues
a snapshot; the model queues the last one, because snapshots that differ only between
pending and ambiguous are recovered alike.

Bounds: `MaxEpoch` policy epochs, `MaxRecords` the capacity of the ledger (the code's limit
is far larger, what matters is that it is reached), `MaxConcurrent` the capability's limit,
each call is made once.

### InstanceLock

Each process goes through stages (guard, lock, release of the guard; later the release)
and within a stage through steps, one per file system call. A directory is a record of
whether it is there, the token in `owner.json` and temporary files; a path is looked up
at each step, so `writeJsonAtomic` may write into a directory that is not the one its
process made. `MaxAttempts` is the code's 4, and 3 in the run with three processes;
`MaxCrashes` bounds crashes. A dead process stays dead: reused process ids are not modelled.

### Approvals

`queue` is the mutex: its head runs, the rest wait. An operation is `Prune` (for require
and decide), then one step up to its commit, then `Store` or `StoreFails`, then `Install`;
without a commit it returns at once. MCP sessions open and close outside the mutex, and a
call checks its session before it waits for it (`EnterCall`, `Require`). A pending request
and the grant made of it are named by the call that asked. Several matching grants are a
free choice (`find` takes the first; which one that is depends on the order of old
decisions). `MaxStarts` bounds restarts, `MaxWaiting` the queue; an operator does not queue
the same decision twice.

### ConnectorSessions

`stage` is where `accept` stands with each connection: `init` and `proof` are the stages of
its handshake, `audit` is the await between the registered session and its `hello_ack`,
`open` is afterwards. `sessions` stands for `sessions` and `clientIndex`, keyed as the
latter; `records` is `resumeRecords`, of which only binding and generation are ever read
(the secret and the binding are drawn together, one number stands for both). `client` is
the SDK's connection state; `live` what `getContext` returns, `dirty` the 100 ms timer of
`scheduleContextUpdate`; `snap` the snapshot of one tool call that waits for its approval.
`toBroker` and `toPage` are the frames on their way, in order, until a socket is lost.

A message the broker takes is one action up to its first await; `connection.close` runs
the close handler at once, so a replaced or refused connection is gone in the same step.
The page's handler for a challenge awaits two digests and checks afterwards that nothing
changed; it is one action because nothing but a close can arrive meanwhile. A context is a
model value and `GuardOf` its two projections (resource and execution guard) together.
`Stop` and `Restarts` are the SDK's `stop` and `start`; `Reload` is a page that loads again
and draws a new client id. A resume record expires only while its page has no session:
`ping` touches the others every 20 s. (A machine that sleeps for ten minutes can break
this. `acceptHello` may then replace the record of a session that lives, and refuse the new
one at the session limit; the record and the session differ until the old socket ends.)

Left out: message queue limits, the `active` flag, invalid messages, and what an answer
does, which is `OperationLedger`'s matter: a ping and a request are one kind of frame that
is consumed once the page is connected. Bounds: `MaxConns` sockets at a time, `MaxFaults`
losses, timeouts, failed audit writes, expiries, stops, reloads and restarts together,
`MaxChanges` context changes, `MaxBoth` their sum, one unanswered ping or request per page,
one snapshot at a time.

### PerfettoSessions

`stage` is where the broker stands with each socket (`audit` again the await before
`hello_ack`), `clients` its client of each trace with the role it is listed with, `pending`
the requests, `mutex` the call that holds `assignmentMutex`; `existing` and `given` are the
store. `plugin` is `PerfettoBridgeClient`: its state, its socket, the role it has taken and
the queries that still run, which outlive their socket. A call goes from its snapshot
(`StartCall`) over approval (`Approved`, `Denied`) and the mutex (`Enter`) to the request,
the answer, the write (`StoreStep`, `StoreFails`) and back; each of these is a step and
anything may happen in between. The snapshot is compared again where the code compares it.
Client and session ids are drawn and never come back, so a snapshot is told apart by its
connection. `Announces` says whether the plugin sends `session.attached` as its source
does: with it every attach fails (section 5), so the other runs leave it out to see the
rest. `unsynced` is a history variable, the one place in the code where a role is stored and no client
told (677-681). Left out: validation of values and SQL, the descriptor file, the adapter to
Perfetto, and the ledger part of a selection, which is a mutation like the others.

### Agents

`workers` and `commands` are the broker's records, `next` its cursor; a mutation of the
broker holds its mutex until it is written and nothing reads the state in between, so it is
one step. `calls` are `agentAction`s: snapshot, approval, action. `tabs` are content
scripts: registering, polling with a cursor, reporting, with the provisional and the final
id of their chat; `tasks` the commands each has polled and not finished; `claims` the
service worker's `claimedCommands`, `payloads` what a new tab is to be told. The model is
of one prime and of the default that records no sessions: commands and bindings to chats
live in memory, and a restart keeps only the workers. `Leave` closes a tab or loads it
anew, `ForgetClaims` is the 60 s expiry or the end of the service worker. `runs` and
`forgotten` are history variables. Fields that only describe (titles, texts, times) are
left out, goals too.

### Workspace

A file shows the set of edits and foreign changes it was made from. An `applyEdits` call
waits for the one before it on its root, plans on the texts it reads, and commits file by
file: a look, then the write; after a failure it rolls back, last file first, again a look
and a write. The look and the write are two steps because the code awaits between them.
`raced` is a history variable with the foreign changes that fell into that window, which
no program can see without file locks. A command takes a slot, spawns (or throws, or has an
error event), runs, is asked to end by its timeout, an operator or the shutdown, is killed
after the grace period, and gives its slot back on `close`; the process may end while what
it has started still holds its output (`held`). A crash of the daemon leaves the files as
they are and its processes as orphans. Edits and commands meet in the model only through
the daemon's end. `MaxCost` bounds how many of both there are.

### Alignment

One behaviour is one call of `alignSelection`, from the selection to the mapping or an
error, one action per stage and, in the warping, per row. Times and values are whole
multiples of a unit, small enough that most divisions are exact, and a quotient is
rounded down otherwise; a series has one channel and its features are its values. Which
windows correlate best is chosen freely (`MaxGood` of them), so the search is followed for
every such choice. The operations count every checkpoint of the execution guard. A loop of
the code is `Loop`, a function over the interval it runs through, of which each value is made
from the one before: the binary search, the cells of a row, the way back, the stack of the
simplification. `Ways` is the reference definition, the set of all ways through the band with
what each costs, which the path of the warping is compared with. Options are those
the engine accepts; of the limits it checks itself.

## 3. Runs

| Run | What it asks | Size |
|---|---|---|
| `ledger_crash` | two calls with one operation id over browser and HTTP, everything failing: durable before sent, sent once, completion only by answer, requests match records, every call returns | 438k states |
| `ledger_archive` | HTTP and Perfetto, id reuse with other arguments, restarts, two epochs and archival: refinement of `MutationOnce`, genuine success | 832k |
| `ledger_interlock` | violation, see section 5 | |
| `lock_three` | three processes and a crash: one owner; with two the owner's lock stays under its name and a release frees it; restart over a stale lock succeeds | 495k |
| `approval_grants` | three calls, two of them one request that permits only once or deny; every decision, revocations, ending sessions, failed writes, restarts under both policies | 988k |
| `session_faults` | one page, three faults, two context changes, a tool call that waits: sockets, snapshots, resume records, the page settles | 396k |
| `perfetto_sessions` | two traces, two calls, a fault: roles, clients, requests, queries | 1.06M |
| `perfetto_limits` | two traces and room for one client, every kind of call, under fairness: limits hold, calls and query locks end | 180k |
| `perfetto_attach` | violation, see section 5 | |
| `agents` | two tabs, two workers of which one may be active, two calls, two commands, a fault | 160k |
| `workspace` | three edits, or two commands, or one of each, with a foreign change, a removal and a fault | 136k |
| `alignment` | some 90 calls: seven DUT series under fifteen settings of limits and options, irregular and bad input | 8k |

Why the bounds are enough. The ledger's hazards involve one record and a second call that
is a duplicate, a reuse of the id, or a rival on the same resource; three calls give all
three. Each bound on epochs, records and slots is small enough to be reached. Three
processes are what it takes to have an owner, one that moves its lock aside and one that
takes the name meanwhile. Approvals need a requester, a consumer and a third that must not
consume. Sessions need two context changes (there and back) for a snapshot to look current
when it is not, and two faults for a reset to meet a second loss; a reload gives a page
several sessions, so that the limit on records is reached with one page. Perfetto
needs two traces for one role and two calls for the mutex; the third socket is the one of a
trace that reconnects while its old socket and another trace are there. For the agents a
command of a worker that is cleared while another is spawned takes two workers, and two
tabs are needed to race for a command. Edits need a third call behind the second for the
lock to be released too early, commands two roots and a limit of each kind. In the
alignment run every error a valid request can meet, each limit, an empty and a full band,
and a mapping that is cut to its limit occur; the reference search is exponential, hence
the short series.

## 4. Fairness

`ledger_crash` assumes that a started write ends (either way), that the event loop runs a
continuation that is ready, and that timers fire: every request has one, HTTP by
`AbortController`. Nothing is assumed of peers, operators or connections. `lock_three`
assumes a running process completes its file system calls; `approval_grants` that the mutex
holder goes on, that is, that writes end. `session_faults` assumes that frames in flight
are delivered and handled, audit writes end and the reconnect timer fires; faults are
bounded, not unfair, so `PagesSettle` speaks of what follows the last of them.
`perfetto_limits` assumes the same of frames, writes and timers, that a query ends at some
time, and that `assignmentMutex` serves its waiters in order (strong fairness of `Enter`:
a call that waits is at the head again and again). `agents` assumes that tabs poll, which a
timer does every 1.5 s, and go on with what they have begun. `workspace` assumes that
timers fire and events come while the daemon runs; nothing is assumed of edits, of the
processes themselves or of other programs.

Deadlock is checked in the ledger runs. The others switch it off: processes end, the last
start may crash, a rejected page stays rejected, and calls are bounded.

## 5. Findings and known divergences

Two runs refute what the documentation or a protocol says.

- Interlock (`ledger_interlock`, `AmbiguityBlocksDispatch`): `beginOperation` looks for an
  ambiguous operation of the same resource before it awaits its own write, and nobody looks
  again.
- Attach (`perfetto_attach`, `EventsAreTaken`): the plugin announces a role with
  `session.attached`, an event its protocol file lists; the broker does not know it and
  closes the socket, so every attach with the plugin as it is fails.

Known divergences without a run of their own. The first three are definitions of the
modules, and TLC refutes each of them within seconds.

- One process (`OneProcess` with four processes, no crash, four attempts): add a process to
  `LockThree.cfg` and keep only `OneProcess`, under `Spec` with the module's `Symmetry`. `removeStaleDirectory` renames whatever is there and checks afterwards; a
  live guard is moved aside while another process takes the name, and two processes own the
  data directory (`docs/SECURITY.md:394` promises one).
- Session grants (`Approvals!SessionGrantsEnd`, one call with `AllDecisions`): a pending
  request outlives its MCP session, and a decision for the session then makes a grant that
  only a restart removes (`docs/SECURITY.md:224`).
- Acknowledgement first (`ConnectorSessions!AckComesFirst`): the session is registered
  before an awaited audit write and `hello_ack` sent after it (`connectors.mjs:397`); a
  request sent meanwhile makes the SDK reject the connection for good. The Perfetto broker
  has the same order (`perfetto-broker.mjs:422`), and its plugin fails its authentication.
- Commands keep their slot while a program they have started holds their output
  (`commands.mjs:123`; `docs/TOOLS.md:302` reads as if a timeout ends them).
- Files change unseen between the look and the rename (`files.mjs:282`), and a crash between
  two commits leaves a transaction half applied (`docs/TOOLS.md:296`).

Seen on the way, and modelled, but nothing promises otherwise:

- Sessions. A `hello_ack` that is lost leaves a resume record whose secret the page never
  got, so its next hello is refused and the page rejected for good (`PagesSettle` admits
  it); so do a handshake timeout of the broker and an audit write that fails. A context that
  changes during the handshake is not sent if its timer fires before the page is connected.
- Lock. A process that dies between `mkdir` and `owner.json` wedges the lock until somebody
  deletes it; two processes that race over a stale guard can both lose and leave a guard
  without an owner. A process id that is reused makes a stale lock look alive.
- Perfetto. A client registered on a socket that closed in the same chunk (464) makes the
  next ping throw in `setInterval` and ends the daemon. The late answer of a query, sent on
  a socket that is in its handshake, is refused with 1008, which the plugin takes as final.
- Agents. A sleeping worker that registers again works without looking for a slot, so more
  than `maxWorkers` may be active (`agents.mjs:344`); a message to a chat whose tab is
  closed is never delivered (`content.js:202`); a payload is matched by provisional chat id and may
  reach another tab (`background.js:111`); a tab whose first registration fails never polls;
  an acknowledgement overwrites `cancelled`.
- Workspace. Roots that overlap have separate locks (`files.mjs:217`); input written to an
  interactive process that has closed its end raises an error without a listener and ends
  the daemon (`commands.mjs:270`).
- Alignment. A narrow band over a DUT range with many more samples than the reference may
  have no path (`DTW_FAILED`). A warping may collapse on one DUT time: the mapped range is then
  empty, `perfetto-tools.mjs` (570-595) sends it as a selection all the same, and
  `mapDutToRef` throws (`mapping.mjs:139`).

## 6. Mutants

Every property of every passing run is paired in `PROJECT.json` with a seeded fault of the
code that breaks it: a dispatch before the write, a pending record recovered as none or as
done, a duplicate left on a promise nobody settles, a stale check without a token, an
approval whose consumption failed, a mutex released before its operation is over, a client
registered before the old one is gone, a query lock that ends with the timeout, a claim
that is given twice, a cursor that starts over, a file committed without a second look, a
kill that never comes, a warping that forgets one neighbour, a mapping cut without its end. Where a property has several parts the fault breaks one of them.

## 7. Proofs

Every theorem holds for all values of the constants its module's assumptions allow: any
number of calls, operations, tabs, workers, files and any limits, where a run checks one small
instance. Each module of proofs has one inductive invariant; TLC checked each of them as an
invariant of the run's instance before it was proved. An invariant that a run checks is
seldom inductive; what follows says for each what had to be added and why.

**The ledger** (`OperationLedgerProofs`). `TypeCorrect` (`TypeOK`), `Inductive` (`IInv`),
`DispatchDurable` (`DispatchIsDurable`) and `DispatchAtMostOnce` (`AtMostOnceDispatch`).
`DispatchIsDurable` is not inductive: that a record is on disk after the next write depends
on the snapshots that wait to be written. `IInv` adds that a file or archive of a dispatched
call keeps its record (`FilesInv`), that a dispatched call's record is in the ledger of its
epoch (`RecordsInv`), what each call's stage says of its record and its request
(`CallsInv`), and that every waiting snapshot contains the records of dispatched calls
(`ChainInv`). Most actions only move records between pending, ambiguous and done: `QuietInv`
treats all of them at once, and the proof of a step first shows which actions are quiet.
The remaining ones (begin, forget, send, reconcile, the end of a write, start, crash,
archive) have a lemma each.

**What its callers are told** (the second part of `OperationLedgerProofs`). `CompletedAnswered`
(`CompletedWasAnswered`), `RequestsMatch` (`RequestsMatchLedger`), `DuplicatesServed`
(`DuplicatesAreServed`) and `SuccessGenuine` (`SuccessIsGenuine`), from `OInv`. It adds to
`IInv` that every record, in memory, in the file or in a snapshot on its way there, belongs to a
call of its operation, and a completed one to a call the peer answered (`LedgersInv`): a
restart reads the file, so what holds of memory alone does not survive it. It adds that pending
records and calls under way are each other's (`HoldersInv`, `PendingInv`), which is why a
duplicate always has somebody to wait for, and that requests end with their session.

**The refinement** (the last part of `OperationLedgerProofs`). `ImplementsOnce`: `Spec => Once!Spec`, for
the instance of `MutationOnce` that the run checks as a property. Each action is a step of
the abstract store or leaves what it sees alone. The crash is the hard one: what the file holds
becomes the truth, so the file and each queued snapshot may not lack an operation whose
outcome was decided and may not be ahead of memory (`PersistedInv`), nor may an archive hold
what is not finished (`ArchivesInv`).

**The lock** (`InstanceLockProofs`). `LockTyped` (`TypeOK`), `LockInductive` (`IInv`) and
`LockFollows` (`LockFollowsOwner`), for any processes, crashes and rounds. `LockFollowsOwner`
speaks of two processes that have started, and its proof shows why. The guard does not
exclude by itself: a process that read the token of a dead owner may move away a guard that
the other has taken since. But what it moved names a token it did not expect, so it puts it
back or drops it, and ends without the guard: from the move on it never has it (`GivesUp`),
and the other is alone (`Left`). Hence one of two processes has the guard at a time, and finds
it where it left it unless the other is out (`GuardInv`). The lock changes only under the
guard and, while it has an owner, only when that owner gives it back; who takes it over or
gives it back finds what it has read (`LockInv`). Both hold while at most two have started
(`PairInv`); `NotThree` is the step from the cardinality to "any two others are the same". A
third process would find the name free between the move and the restore. `OneOfTwo`
(`OneProcess` while at most two have started) is a corollary.

**Approvals** (`ApprovalsProofs`). `ApprovalsTyped` (`TypeOK` with the limit on pending
requests), `OnceSpentOnce` (`OnceIsSpentOnce`) and `DecisionsKept` (`DecisionsLast`). The
store has its document up to three times, in memory, on its way to the file and in the file,
and a failed or late write decides which of them is next. `AInv` says which two agree
(`CopiesInv`), that the one on its way is a successor of the one in memory (`CommitInv`), and
that a request somebody decided is never asked again (`GrantsInv` with `Closed`), so that a grant
that was used up or revoked has nothing it could come back from. The assumption
`ApprovalCalls` says that "none", which stands for no call in the records of the model, is not
a call.

**Agents** (`AgentsProofs`). `AgentsTyped` (`TypeOK`: ids in order, cursors behind
`nextCursor`), `ApprovedChanges` (`WorkersAsApproved`) and `CommandsReach`
(`CommandsReachTabs`), which are action properties, and `ClaimsKept` (`ClaimsHold`). `AInv` has
a part for each owner of state. Its `ClaimsInv` is what `ClaimsHold` needs: of all the
tasks that are about to carry out a command whose claim was not dropped there is one,
it has the claim and has not run; polls overlap before that point, and after it another task
finds the claim.

**Workspace** (`WorkspaceProofs`). `WorkspaceTyped` (`TypeOK`: slots are those of the processes
that run, under both limits), `ShutdownClean` (`ShutdownLeavesNone`) and `FilesFollow`
(`FilesFollowEdits`). `CommandsInv` and `ClosingInv` say which signals were sent when. For the
files, `QueueInv` says that the calls of a root wait behind each other, each for one that is
not before any live call, so that one of them acts; `PlansInv` that what is planned was made by
calls that have ended, which is why putting a text back brings nothing back that was
undone; `ShownInv` which files may show a call, and `WrittenInv` that what a call has looked at
differs from what was written only by foreign changes made since.

`FilesFollow` has a hypothesis: `RootsApart`, edits of different roots touch different files.
The lock of `applyEdits` is one for each root, and nothing in the configuration keeps one root
from lying inside another (`config.mjs` rejects neither). With two roots that share a
file TLC finds a state where the property fails: the second call writes between the look and
the write of the first, which only foreign programs are said to do. The run has roots that are
apart. The assumption `WorkspaceBounds` says that `None`, which stands for a file that does
not exist, is not a text.

**Perfetto** (`PerfettoSessionsProofs`). `PerfettoTypeCorrect` (`TypeOK` with the limits on
sockets, clients and requests), `RolesAreTheStores` (`RolesMatchStore`), `RequestsFollow`
(`RequestsFollowClients`) and `ChangesAreSerial`: one call at a time changes the store, and
only a session that still exists. `RolesMatchStore` leans on `CallsInv`: who waits for a
plugin or writes on behalf of a role holds the mutex, so nobody removes its session meanwhile.
`RequestsFollowClients` is the harder one. A query that timed out is still owed, so its
request has to be followed wherever it is: `QueriesInv` says that of each id there is one
request on its way, or one query that runs, or one answer on its way back, that a call which
has not asked is nowhere among them, and that a client whose page is sent a query is locked
with it. `ClientsInv` says which sockets have a client and that requests wait for the socket
of theirs. The queues are unbounded; of a step the proofs use only that what is on its way
after it was on its way before, further back, or is among the frames it sends (`Forwards`,
`Tells`). `PerfettoBounds` says of the bounds of the model that the ids of calls and
sockets differ, as request ids do, and of the start that no more clients have joined than the
limit lets in.

**Roles** (the last part of `PerfettoSessionsProofs`). `RolesAreTaken` (`RolesAreConfirmed`): a role that a step
gives to a listed trace has been taken by its plugin before, unless the plugin has left the
socket the broker knows, or the target changed meanwhile. It is an action property about one
moment, and needs the order of everything before it. `ConfirmInv` adds to the invariant above
that plugins have sockets of their own (`Apart`), that a plugin is connected, and `hello_ack`
on its way, only on a socket the broker has opened (`Welcome`), that what is asked and awaited
for a call is about its page and its role (`Matching`), and the heart of it, `AttachInv`: the
request of the call is the last attach in the queue of its socket, and after the answer the
plugin has the role and no other attach is on its way to it. The attach that `hello_ack`
brings for the role a trace had before seems to break this: it may be queued behind the
request of a call. But then that request is before `hello_ack`, and the plugin ends the
socket when it meets it (`Unheard`). Without this case the invariant is false. Most steps
disturb none of it, and `Calm` says what they have in common; the four that do, `hello_ack`
and the attach request when they are sent and when they are handled, have a lemma each.

**Connector sessions** (`ConnectorSessionsProofs`). `ConnectorTypeCorrect` (`TypeOK` with
`maxSessions` and the limit on resume records), `TablesAlwaysAgree` (`TablesAgree`) and
`SnapshotsStayCurrent` (`SnapshotsAreCurrent`). The tables need only the broker's state:
`TablesInv` says it as a bijection between sockets past authentication and sessions.
`SnapshotsAreCurrent` says nothing of a binding that comes back; `SnapInv` adds that the
record of a binding never goes back to an earlier generation, whether or not the page has a session,
and that within one generation the guard stays and the version grows (`Following`). The hard
part of `TypeOK` is that client ids stay within their bound: a page draws a new one when it
is loaded again and when it is told to reset, and a reset must have been paid for by a fault
that lost its record. `IdentsInv` says so (`Stale`: the page has, or is about to be given,
a secret no record has any more, or its reset is on the way), and needs to know what a
page may have on its way to the broker: one answer on each socket (`OneAnswer`), for the
client id and the secret the page still has (`SocketsInv`). `SessionBounds` says that
`getContext` can return something. Bindings are unbounded numbers; what bounds them in a run
is that each new record costs a client id.

**Alignment** (`AlignmentProofs`). `TypesHold` (`TypeOK`), `FailuresAreKnown`
(`FailuresAreTheCallers`), `WindowsHold` (`WindowsAreSound`), `PathsAreCheapest`
(`PathIsCheapest`) and `MappingsAreSound` (`MappingIsSound`), from `Invariance` (`IInv`), for
requests with any series of whole numbers, any limits and any options the engine accepts
(`RequestTypes`). Two more things are asked of requests. The times of the REF series and of the
selection are whole nanoseconds (`WholeNanoseconds`), as the values of the trace processor
are; otherwise the mapping would begin, once rounded, beside the selection. And
if a selection is not empty it is at least a hundred units long. Scales are percentages and
quotients are rounded down, so a shorter one could be rounded to a window of no length, which
doubles do not do.

This is a pipeline of loops, and what a loop computes is proved by induction over the interval it
runs through. The prover cannot take an induction theorem that has an operator as parameter,
so induction is by least elements: a set of indices at which something fails would have a
least one (`FiniteMin`), and the step before it holds. `LoopComputes` gives
what a loop has first and what each value has from the one before; `SearchFinds` and
`LowerBound` (binary search), `RowFollows` (a row), `WalkComputed` (the way back),
`WaysComputed` (all ways) and `KeptNear` (the stack of the simplification) rest on it.

`IInv` has a part for each stage. `CallOK` says what was checked before the search
and that errors are those a caller can know; `SearchOK` that the candidates are as
`CandidatesAreDistinct` asks, and lie in the series; `WarpingOK` that what is sampled covers its range
(`Cover`), and that the rows are a table of the band (`Table`); `ResultsOK` that paths are in order
(`PathOfTimes`). The search keeps to its limit because the starts of a scale are
bounded by a quotient whose divisor counts the scales (`MostStarts`).

The cheapest path is one argument in two halves. Every cell costs what the best step to it
does (`Follows`). So along any way through the band no cell costs more than the way has cost so far
(`WaysAreDearer`), and at the end no way costs less than the best end (`BestEndIs`). In the other
direction, the step a cell came by leads to a cell in the band that costs less by just that step
(`CameFrom`); the sum of the indices falls at each, so the way back ends in the first
row within `Longest` steps, and reversed it is a way that costs what its cell does (`WalkStays`).
A cell that no way reaches is infinitely dear, and the warping fails only if all ends are.

A mapping is never refused as out of order: along a path the times never fall (`WaysArePaths`),
so neither do the means over one REF time (`CollapsedIs`), and points that are left out
(`SimplifiedFollows`, `CappedFollows`) leave the others in order.

That the mapping is sound needs more of what came before, `MappedOK`, an invariant next to
`IInv`: the REF and DUT samples are spaced (`SamplesOK`) and the DUT times of a path lie in the
series (`PathsOK`). The argument has four parts.

- *Order.* Samples never come closer than a nanosecond (`Spaced`; `NaturalSpaced`,
  `SampledSpaced`), so points that are rounded stay apart (`RoundedRise`).
- *Range.* The DUT samples are in the series, so the means of them are
  (`SampledInDut`, `PointsWithin`).
- *Tolerance.* `Splitting` is what the stack of `simplifyRdp` holds at each step: every point
  dropped is within the tolerance of the line between two neighbours kept, unless
  an interval on the stack still covers it. `Left` falls at each step, so the steps the loop is
  given suffice, and at the end the stack is empty (`KeptNear`).
- *There and back.* The interpolation between points that rise, rises (`LinearRises`, `CurveRises`,
  `MapsForward`); mapping back is mapping along the path with its two times swapped
  (`DutToRefIs`, `MapsBack`).

Only model-checked:

- liveness (`FairSpec` properties of every module) and what depends on ENABLED: outside the
  prover's reach;
- `OneProcess` of the lock for three processes; with four it is false (section 5);
- `AckComesFirst` of the connector sessions, which is expected to fail.

## 8. Plan and what is not modelled

The safety properties the runs check are proved but for those named in section 7. What would
say most next: `OneProcess` while three processes have started, which needs an invariant about
the guard in the hands of two.

Not modelled:

- what a page does with a request once it has it: after a context update the broker drops
  the requests of a connection that stays open, and an operator may judge one not applied
  that the page applies later (`connectors.mjs:700`);
- the write of the ledger that an HTTP answer may still queue after the lock is released
  (`server.mjs:355`), which needs the ledger and the lock in one state space;
- goals and chat sessions: synchronous changes of a file; an event may reach the bridge
  twice, and one sent while the daemon is down is lost, without a promise about either;
- one-shot HTTP challenges: they are taken from their map before any await;
- configuration loading and JSON schema validation (static input), the audit log (no
  decision depends on it), tool catalogues, reading and searching of files (operating
  system I/O), WebSocket framing, the adapter to Perfetto and the relay of the Perfetto
  extension, user interfaces, build and installation scripts, examples;
- the .NET host, a second implementation of sessions and approvals with its own threads.
