------------------------------- MODULE Workspace ------------------------------
(***************************************************************************)
(* The workspace tools of the bridge: transactions of edits                *)
(* (FileTools.applyEdits, tools/files.mjs) and commands with their slots,  *)
(* timeouts and interactive sessions (CommandManager, tools/commands.mjs), *)
(* over files that other programs change as well.                          *)
(*                                                                         *)
(* The text of a file is what has been written into it: the set of edits   *)
(* and of foreign changes it shows.                                        *)
(***************************************************************************)
EXTENDS Naturals, FiniteSets, Sequences, Functions

CONSTANTS
    Roots,
    Paths,
    Edits,          \* bound: the edits of a call, <<root, paths>>
    None,
    MaxTotal,       \* limits.maxConcurrentCommands
    MaxPerRoot,     \* limits.maxConcurrentCommandsPerRoot
    Missing,        \* the files that do not exist at the start
    MaxCalls,       \* bound: apply_edits and run_command calls, in all
    MaxCost,        \* bound: on both, a call of edits costs 2, a command 3
    MaxForeign,     \* bound: changes by other programs
    MaxFaults       \* bound: failed writes, spawns that fail, ends of the daemon

Calls == 1..MaxCalls
Foreign == (MaxCalls + 1)..(MaxCalls + MaxForeign)

ASSUME WorkspaceBounds ==
    /\ Edits \subseteq Roots \X Seq(Paths)
    /\ \A e \in Edits : e[2] # <<>> /\ IsInjective(e[2])
    /\ Missing \subseteq Paths
    /\ None \notin Nat /\ \A text \in SUBSET (Calls \cup Foreign) : text # None
    /\ {MaxTotal, MaxPerRoot, MaxCalls, MaxCost, MaxForeign, MaxFaults} \subseteq Nat

VARIABLES
    files,      \* what each file shows, None when it does not exist
    edits,      \* the apply_edits calls
    locks,      \* FileTools.writeLocks: the last call of each root
    procs,      \* the run_command calls and their processes
    slots,      \* activeByRoot
    total,      \* activeTotal
    daemon,     \* CommandManager.shuttingDown, and whether the daemon runs
    written,    \* history: what was written to a file that still exists
    raced,      \* history: foreign changes between the look at a file and the write
    faults

fileVars == <<files, edits, locks, written, raced>>
commandVars == <<procs, slots, total>>
vars == <<fileVars, commandVars, daemon, faults>>

Texts == {None} \cup SUBSET (Calls \cup Foreign)
NoEdit == [step |-> "none", root |-> None, paths |-> <<>>, waits |-> None,
           plan |-> <<>>, done |-> 0, looked |-> FALSE, conflict |-> FALSE]
NoProc == [step |-> "none", root |-> None, kind |-> "batch", alive |-> FALSE, held |-> FALSE,
           sent |-> "nothing", session |-> "none"]

Over == {"applied", "refused", "rolled back", "conflict", "lost"}
Running == {c \in Calls : procs[c].step = "running"}

(* The state is well formed, the limits on commands hold and the slots     *)
(* taken are those of the processes that run.                              *)
TypeOK ==
    /\ files \in [Paths -> Texts]
    /\ \A c \in Calls :
        /\ edits[c].step \in {"none", "waiting", "planning", "committing", "undoing"} \cup Over
        /\ edits[c].plan \in Seq(Texts) /\ Len(edits[c].plan) <= Len(edits[c].paths)
        /\ edits[c].done \in 0..Len(edits[c].plan)
        /\ procs[c].step \in {"none", "asked", "running", "refused", "ended", "orphan"}
        /\ procs[c].sent \in {"nothing", "SIGTERM", "SIGKILL"}
        /\ procs[c].session \in {"none", "open", "done"}
    /\ locks \in [Roots -> Calls \cup {None}]
    /\ total = Cardinality(Running) /\ total <= MaxTotal
    /\ \A r \in Roots :
        slots[r] = Cardinality({c \in Running : procs[c].root = r}) /\ slots[r] <= MaxPerRoot
    /\ daemon \in {"up", "closing", "closed", "down"}
    /\ faults \in 0..MaxFaults

Init ==
    /\ files = [p \in Paths |-> IF p \in Missing THEN None ELSE {}]
    /\ edits = [c \in Calls |-> NoEdit]
    /\ locks = [r \in Roots |-> None]
    /\ procs = [c \in Calls |-> NoProc]
    /\ slots = [r \in Roots |-> 0] /\ total = 0
    /\ daemon = "up"
    /\ written = [p \in Paths |-> {}] /\ raced = [p \in Paths |-> {}]
    /\ faults = 0

Fault == faults < MaxFaults /\ faults' = faults + 1
Shown(p) == IF files[p] = None THEN {} ELSE files[p]

(* Calls are made in order; which of them is made when is arbitrary. *)
Made(c) == edits[c] # NoEdit \/ procs[c] # NoProc
Cost == 2 * Cardinality({d \in Calls : edits[d] # NoEdit})
            + 3 * Cardinality({d \in Calls : procs[d] # NoProc})
May(c, cost) == ~Made(c) /\ (\A d \in Calls : d < c => Made(d)) /\ Cost + cost <= MaxCost

-----------------------------------------------------------------------------
(* Edits. *)

Change(c, step) == edits' = [edits EXCEPT ![c].step = step]

(* applyEdits: a call waits for the one before it on its root. *)
ApplyEdits(c) ==
    /\ May(c, 2) /\ daemon # "down"
    /\ \E e \in Edits :
        /\ edits' = [edits EXCEPT ![c] = [NoEdit EXCEPT !.step = "waiting", !.root = e[1], !.paths = e[2],
                                                        !.waits = locks[e[1]]]]
        /\ locks' = [locks EXCEPT ![e[1]] = c]
    /\ UNCHANGED <<files, written, raced, commandVars, daemon, faults>>

MayStart(c) == \A d \in Calls : edits[c].waits = d => edits[d].step \in Over

StartEdits(c) ==
    /\ edits[c].step = "waiting" /\ MayStart(c)
    /\ edits' = [edits EXCEPT ![c].step = "planning", ![c].waits = None]
    /\ UNCHANGED <<files, locks, written, raced, commandVars, daemon, faults>>

(* The lock of the root goes with the last call. *)
Released(c) == [locks EXCEPT ![edits[c].root] = IF @ = c THEN None ELSE @]

(* The call ends, and what it has held in memory goes. *)
Ended(c, step) == [NoEdit EXCEPT !.step = step, !.root = edits[c].root, !.paths = edits[c].paths]

EndEdits(c, step) ==
    /\ edits' = [edits EXCEPT ![c] = Ended(c, step)]
    /\ locks' = Released(c)

(* One file is read and its new text made, or the edit does not fit it.    *)
PlanEdit(c) ==
    LET e == edits[c]
        p == e.paths[Len(e.plan) + 1]
    IN  /\ e.step = "planning"
        /\ \/ /\ edits' = [edits EXCEPT ![c].plan = Append(@, files[p]),
                        ![c].step = IF Len(e.plan) + 1 = Len(e.paths) THEN "committing" ELSE @]
              /\ UNCHANGED locks
           \/ EndEdits(c, "refused")
        /\ UNCHANGED <<files, written, raced, commandVars, daemon, faults>>

(* The file whose turn it is, in the commit and in the rollback. *)
At(c) == edits[c].paths[edits[c].done + 1]
Original(c) == edits[c].plan[edits[c].done + 1]
Last(c) == edits[c].paths[edits[c].done]
LastOriginal(c) == edits[c].plan[edits[c].done]

With(text, c) == IF text = None THEN {c} ELSE text \cup {c}

(* Seeded fault: the file is not read again. *)
UnchangedAssumed(c) == TRUE

UnchangedSince(c) == files[At(c)] = Original(c)

(* The file is read again; one that has changed stops the transaction. *)
LookBeforeCommit(c) ==
    /\ edits[c].step = "committing" /\ ~edits[c].looked
    /\ IF UnchangedSince(c) THEN edits' = [edits EXCEPT ![c].looked = TRUE]
       ELSE Change(c, "undoing")
    /\ UNCHANGED <<files, locks, written, raced, commandVars, daemon, faults>>

(* writeAtomic *)
Commit(c) ==
    /\ edits[c].step = "committing" /\ edits[c].looked
    /\ files' = [files EXCEPT ![At(c)] = With(Original(c), c)]
    /\ written' = [written EXCEPT ![At(c)] = @ \cup {c}]
    /\ IF edits[c].done + 1 = Len(edits[c].paths)
       THEN EndEdits(c, "applied")
       ELSE /\ edits' = [edits EXCEPT ![c].done = @ + 1, ![c].looked = FALSE]
            /\ UNCHANGED locks
    /\ UNCHANGED <<raced, commandVars, daemon, faults>>

CommitFails(c) ==
    /\ edits[c].step = "committing"
    /\ Fault
    /\ edits' = [edits EXCEPT ![c].step = "undoing", ![c].looked = FALSE]
    /\ UNCHANGED <<files, locks, written, raced, commandVars, daemon>>

MayPutBack(c) == files[Last(c)] = With(LastOriginal(c), c)

(* The rollback, last file first: a file that shows something else, or has *)
(* gone, is left alone.                                                    *)
LookBeforeUndo(c) ==
    /\ edits[c].step = "undoing" /\ edits[c].done > 0 /\ ~edits[c].looked
    /\ edits' = IF MayPutBack(c) THEN [edits EXCEPT ![c].looked = TRUE]
                ELSE [edits EXCEPT ![c].conflict = TRUE, ![c].done = @ - 1]
    /\ UNCHANGED <<files, locks, written, raced, commandVars, daemon, faults>>

Undo(c) ==
    /\ edits[c].step = "undoing" /\ edits[c].done > 0 /\ edits[c].looked
    /\ files' = [files EXCEPT ![Last(c)] = LastOriginal(c)]
    /\ written' = [written EXCEPT ![Last(c)] = @ \ {c}]
    /\ edits' = [edits EXCEPT ![c].done = @ - 1, ![c].looked = FALSE,
                        ![c].conflict = @ \/ (LastOriginal(c) = None /\ files[Last(c)] = None)]
    /\ UNCHANGED <<locks, raced, commandVars, daemon, faults>>

UndoFails(c) ==
    /\ edits[c].step = "undoing" /\ edits[c].done > 0
    /\ Fault
    /\ edits' = [edits EXCEPT ![c].done = @ - 1, ![c].looked = FALSE, ![c].conflict = TRUE]
    /\ UNCHANGED <<files, locks, written, raced, commandVars, daemon>>

Undone(c) ==
    /\ edits[c].step = "undoing" /\ edits[c].done = 0
    /\ EndEdits(c, IF edits[c].conflict THEN "conflict" ELSE "rolled back")
    /\ UNCHANGED <<files, written, raced, commandVars, daemon, faults>>

(* Another program, or a command of the bridge, adds to a file or removes  *)
(* it.  Nothing keeps it from doing so between the look and the write.     *)
Watched(p) ==
    \E c \in Calls : edits[c].looked /\ p = IF edits[c].step = "committing" THEN At(c) ELSE Last(c)

ForeignChange(p) ==
    /\ \E f \in Foreign :
        /\ \A q \in Paths : f \notin written[q] \cup raced[q]
        /\ \A g \in Foreign : g < f => \E q \in Paths : g \in written[q] \cup raced[q]
        /\ files' = [files EXCEPT ![p] = Shown(p) \cup {f}]
        /\ written' = [written EXCEPT ![p] = @ \cup {f}]
        /\ raced' = IF Watched(p) THEN [raced EXCEPT ![p] = @ \cup {f}] ELSE raced
    /\ UNCHANGED <<edits, locks, commandVars, daemon, faults>>

ForeignRemoval(p) ==
    /\ files[p] # None
    /\ Fault
    /\ files' = [files EXCEPT ![p] = None]
    /\ written' = [written EXCEPT ![p] = {}]
    /\ UNCHANGED <<edits, locks, raced, commandVars, daemon>>

-----------------------------------------------------------------------------
(* Commands. *)

(* run: the profile and the directory are looked up. *)
Run(c) ==
    /\ May(c, 3) /\ daemon # "down"
    /\ \E r \in Roots, kind \in {"batch", "interactive"} :
        procs' = [procs EXCEPT ![c] = [NoProc EXCEPT !.step = "asked", !.root = r, !.kind = kind]]
    /\ UNCHANGED <<fileVars, slots, total, daemon, faults>>

(* Seeded fault: shutdown is not asked about. *)
MayAcquireAlways(r) == total < MaxTotal /\ slots[r] < MaxPerRoot

(* acquireSlot *)
MayAcquire(r) == daemon = "up" /\ total < MaxTotal /\ slots[r] < MaxPerRoot

Refuse(c) == procs' = [procs EXCEPT ![c].step = "refused"] /\ UNCHANGED <<slots, total>>

(* Seeded fault: the slot stays taken. *)
SpawnThrowsAndKeeps(c) ==
    /\ procs' = [procs EXCEPT ![c].step = "refused"]
    /\ slots' = [slots EXCEPT ![procs[c].root] = @ + 1] /\ total' = total + 1

(* spawn throws, and the slot is given back. *)
SpawnThrows(c) == Refuse(c)

Start(c) ==
    /\ procs[c].step = "asked"
    /\ \/ ~MayAcquire(procs[c].root) /\ Refuse(c) /\ UNCHANGED faults
       \/ MayAcquire(procs[c].root) /\ Fault /\ SpawnThrows(c)
       \/ /\ MayAcquire(procs[c].root)
          /\ procs' = [procs EXCEPT ![c].step = "running", ![c].alive = TRUE,
                            ![c].session = IF procs[c].kind = "interactive" THEN "open" ELSE "none"]
          /\ slots' = [slots EXCEPT ![procs[c].root] = @ + 1] /\ total' = total + 1
          /\ UNCHANGED faults
    /\ UNCHANGED <<fileVars, daemon>>

(* scheduleSessionCleanup: not while the daemon shuts down. *)
KeptAfter(c, event) == IF procs[c].session = "none" \/ daemon # "up" THEN "none" ELSE "done"

(* finishProcess, by the first of the two events. *)
FinishProcess(c, event) ==
    /\ procs' = [procs EXCEPT ![c].step = "ended", ![c].session = KeptAfter(c, event)]
    /\ slots' = [slots EXCEPT ![procs[c].root] = @ - 1] /\ total' = total - 1
    /\ UNCHANGED <<fileVars, daemon>>

(* The program could not be started. *)
ErrorEvent(c) ==
    /\ c \in Running /\ procs[c].alive /\ procs[c].sent = "nothing"
    /\ Fault
    /\ procs' = [procs EXCEPT ![c].step = "ended", ![c].alive = FALSE, ![c].session = KeptAfter(c, "error")]
    /\ slots' = [slots EXCEPT ![procs[c].root] = @ - 1] /\ total' = total - 1
    /\ UNCHANGED <<fileVars, daemon>>

(* The process ends of itself or by SIGTERM; a process it has started may  *)
(* hold its output open.                                                   *)
Exit(c) ==
    /\ procs[c].alive
    /\ \E held \in {FALSE} \cup {c \in Running} :
        procs' = [procs EXCEPT ![c].alive = FALSE, ![c].held = held]
    /\ UNCHANGED <<fileVars, slots, total, daemon, faults>>

LetGo(c) ==
    /\ procs[c].held
    /\ procs' = [procs EXCEPT ![c].held = FALSE]
    /\ UNCHANGED <<fileVars, slots, total, daemon, faults>>

(* The close event comes when the output is closed as well. *)
CloseEvent(c) ==
    /\ c \in Running /\ ~procs[c].alive /\ ~procs[c].held
    /\ FinishProcess(c, "close")
    /\ UNCHANGED faults

(* requestTermination, once. *)
Terminated(set) ==
    [c \in Calls |-> IF c \in set \cap Running /\ procs[c].sent = "nothing"
                     THEN [procs[c] EXCEPT !.sent = "SIGTERM"] ELSE procs[c]]

Timeout(c) ==
    /\ c \in Running /\ procs[c].sent = "nothing"
    /\ procs' = Terminated({c})
    /\ UNCHANGED <<fileVars, slots, total, daemon, faults>>

(* Seeded fault: the first signal is thought to be enough. *)
KillNever(c) ==
    /\ c \in Running /\ procs[c].sent = "SIGTERM" /\ ~procs[c].alive
    /\ procs' = [procs EXCEPT ![c].sent = "SIGKILL"]
    /\ UNCHANGED <<fileVars, slots, total, daemon, faults>>

(* The grace period is over; what SIGKILL ends may leave its output held.  *)
Kill(c) ==
    /\ c \in Running /\ procs[c].sent = "SIGTERM"
    /\ \E held \in {procs[c].held, procs[c].alive} :
        procs' = [procs EXCEPT ![c].sent = "SIGKILL", ![c].alive = FALSE, ![c].held = held]
    /\ UNCHANGED <<fileVars, slots, total, daemon, faults>>

(* The time to keep a session that is done is over. *)
Cleanup(c) ==
    /\ procs[c].session = "done"
    /\ procs' = [procs EXCEPT ![c].session = "none"]
    /\ UNCHANGED <<fileVars, slots, total, daemon, faults>>

(* The daemon ends: its calls are lost where they are, and the processes   *)
(* it has started go on without it.                                        *)
Ends ==
    /\ daemon' = "down"
    /\ edits' = [c \in Calls |-> IF edits[c].step \in {"none"} \cup Over THEN edits[c]
                                 ELSE Ended(c, "lost")]
    /\ locks' = [r \in Roots |-> None]
    /\ procs' = [c \in Calls |->
            [procs[c] EXCEPT !.session = "none",
                !.step = IF @ = "asked" THEN "refused" ELSE IF @ = "running" THEN "orphan" ELSE @]]
    /\ slots' = [r \in Roots |-> 0] /\ total' = 0
    /\ UNCHANGED <<files, written, raced>>

Crash == daemon # "down" /\ Fault /\ Ends

(* write: a session is asked to end; or it is sent characters nobody reads *)
(* any more, an error of the pipe that has no listener.                    *)
Write(c) ==
    /\ procs[c].session # "none" /\ c \in Running
    /\ \/ /\ procs[c].sent = "nothing"
          /\ procs' = Terminated({c})
          /\ UNCHANGED <<fileVars, slots, total, daemon, faults>>
       \/ Fault /\ Ends

(* shutdown: sessions that are done go, processes are asked to end.        *)
Shutdown ==
    /\ daemon = "up"
    /\ Fault
    /\ daemon' = "closing"
    /\ procs' = [c \in Calls |-> [Terminated(Calls)[c] EXCEPT !.session = IF @ = "done" THEN "none" ELSE @]]
    /\ UNCHANGED <<fileVars, slots, total>>

(* It waits for them, at most until the grace period of each is over.      *)
ShutdownEnds ==
    /\ daemon = "closing"
    /\ \A c \in Running : procs[c].sent # "SIGTERM"
    /\ daemon' = "closed"
    /\ UNCHANGED <<fileVars, commandVars, faults>>

Exits == daemon = "closed" /\ Ends /\ UNCHANGED faults

Restart ==
    /\ daemon = "down"
    /\ daemon' = "up"
    /\ UNCHANGED <<fileVars, commandVars, faults>>

-----------------------------------------------------------------------------

EditStep(c) ==
    \/ StartEdits(c) \/ PlanEdit(c) \/ LookBeforeCommit(c) \/ Commit(c)
    \/ LookBeforeUndo(c) \/ Undo(c) \/ Undone(c)
Process(c) == Start(c) \/ Timeout(c) \/ Kill(c) \/ CloseEvent(c) \/ Cleanup(c)

Next ==
    \/ \E c \in Calls : ApplyEdits(c) \/ EditStep(c) \/ CommitFails(c) \/ UndoFails(c)
    \/ \E c \in Calls : Run(c) \/ Process(c) \/ ErrorEvent(c) \/ Exit(c) \/ LetGo(c) \/ Write(c)
    \/ \E p \in Paths : ForeignChange(p) \/ ForeignRemoval(p)
    \/ Shutdown \/ ShutdownEnds \/ Exits \/ Crash \/ Restart

Spec == Init /\ [][Next]_vars

(* Timers fire, and events come while the daemon runs.                     *)
FairSpec == Spec /\ \A c \in Calls : WF_vars(Process(c))

-----------------------------------------------------------------------------
(* Properties. *)

(* What was written stays until it is rolled back or the file is removed,  *)
(* but for foreign changes made between a look and a write (TOOLS.md: what *)
(* another program has changed is not overwritten); and a transaction that *)
(* was rolled back has left nothing behind, in its own files or, through   *)
(* texts made from them, in any other.                                     *)
FilesFollowEdits ==
    \A p \in Paths :
        /\ written[p] \ Shown(p) \subseteq raced[p] \cap Foreign
        /\ \A c \in Calls : edits[c].step = "rolled back" => c \notin Shown(p)

(* When the shutdown is over, no process the daemon still knows is alive:  *)
(* its slots, and the lock of the instance, are about to be given up.      *)
ShutdownLeavesNone ==
    daemon = "closed" => \A c \in Running : ~procs[c].alive

(* A command that runs ends, by itself or by its timeout, and gives back   *)
(* its slot, unless a process it has started keeps its output open; a      *)
(* session whose process has ended is forgotten, by its own timer or by    *)
(* the shutdown, so that the table of sessions does not grow.              *)
CommandsEnd ==
    \A c \in Calls :
        /\ c \in Running ~> c \notin Running \/ procs[c].held
        /\ procs[c].step = "ended" ~> procs[c].session = "none"
=============================================================================
