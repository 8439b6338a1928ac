----------------------------- MODULE InstanceLock -----------------------------
(***************************************************************************)
(* The data directory lock (src/src/instance-lock.mjs).  A daemon, or the  *)
(* archive-ledger command, takes the directory .instance-lock while it     *)
(* holds the directory .instance-lock-guard; both are taken by mkdir       *)
(* followed by a write of owner.json, and both may be taken over from a    *)
(* process that is no longer alive by renaming them away first.            *)
(*                                                                         *)
(* Every file system call is one step, since each is awaited and the other *)
(* processes run in between.  A restarted daemon is another process.       *)
(***************************************************************************)
EXTENDS Naturals, FiniteSets

CONSTANTS
    Procs,          \* processes that share one data directory
    Dead,           \* a process that was killed before these started
    MaxCrashes,     \* how many of them may be killed
    MaxAttempts     \* rounds of acquireDirectory (4 in the code)

ASSUME LockBounds ==
    /\ MaxCrashes \in Nat
    /\ MaxAttempts \in Nat \ {0}
    /\ IsFiniteSet(Procs)
    /\ Dead \notin Procs

VARIABLES
    stage,      \* which directory operation of acquire or release a process is in
    step,       \* its next file system call
    attempt,    \* rounds of acquireDirectory used
    expected,   \* the token removeStaleDirectory expects to move
    moved,      \* the directory a process has renamed to its quarantine
    dir,        \* the two directories
    owns,       \* the process got the lock and has not begun to release it
    alive       \* processes not killed

vars == <<stage, step, attempt, expected, moved, dir, owns, alive>>

AcquireStages == {"guard", "lock", "reguard"}
ReleaseStages == {"unguard", "unlock", "reunguard"}
Stages == AcquireStages \cup ReleaseStages \cup {"held", "done", "failed"}
Steps == {"mkdir", "ensure", "write", "rename", "clean", "read", "move", "check",
          "restore", "discard", "rest"}

Names == {"guard", "lock"}
Name(s) == IF s \in {"lock", "unlock"} THEN "lock" ELSE "guard"

(* owner.json names a token; a token belongs to one acquisition of one     *)
(* process.                                                                *)
NoToken == <<>>
Token(p) ==
    CASE stage[p] \in {"guard", "unguard"}     -> <<p, "guard">>
      [] stage[p] \in {"lock", "unlock"}       -> <<p, "lock">>
      [] OTHER                                 -> <<p, "reguard">>
Tokens == ((Procs \cup {Dead}) \X {"guard", "lock", "reguard"}) \cup {NoToken}

Absent == [there |-> FALSE, owner |-> NoToken, tmps |-> {}]
Fresh == [there |-> TRUE, owner |-> NoToken, tmps |-> {}]
Stale(n) == [there |-> TRUE, owner |-> <<Dead, n>>, tmps |-> {}]
Directories == [there : BOOLEAN, owner : Tokens, tmps : SUBSET Procs]

TypeOK ==
    /\ stage \in [Procs -> Stages]
    /\ step \in [Procs -> Steps]
    /\ attempt \in [Procs -> 0..(MaxAttempts - 1)]
    /\ expected \in [Procs -> Tokens]
    /\ moved \in [Procs -> Directories]
    /\ dir \in [Names -> Directories]
    /\ owns \in [Procs -> BOOLEAN]
    /\ alive \in SUBSET Procs

Init ==
    /\ stage = [p \in Procs |-> "guard"]
    /\ step = [p \in Procs |-> "mkdir"]
    /\ attempt = [p \in Procs |-> 0]
    /\ expected = [p \in Procs |-> NoToken]
    /\ moved = [p \in Procs |-> Absent]
    /\ \E stale \in SUBSET Names : dir = [n \in Names |-> IF n \in stale THEN Stale(n) ELSE Absent]
    /\ owns = [p \in Procs |-> FALSE]
    /\ alive = Procs

-----------------------------------------------------------------------------

At(p, stages, s) == p \in alive /\ stage[p] \in stages /\ step[p] = s
Here(p) == dir[Name(stage[p])]
SetHere(p, d) == dir' = [dir EXCEPT ![Name(stage[p])] = d]
Goto(p, s) == step' = [step EXCEPT ![p] = s] /\ UNCHANGED stage
Enter(p, st, s) ==
    /\ stage' = [stage EXCEPT ![p] = st]
    /\ step' = [step EXCEPT ![p] = s]
    /\ attempt' = [attempt EXCEPT ![p] = 0]
    /\ expected' = [expected EXCEPT ![p] = NoToken]

(* acquireDirectory returns. *)
Acquired(p) ==
    CASE stage[p] = "guard"   -> Enter(p, "lock", "mkdir") /\ UNCHANGED owns
      [] stage[p] = "lock"    -> Enter(p, "unguard", "read") /\ owns' = [owns EXCEPT ![p] = TRUE]
      [] stage[p] = "reguard" -> Enter(p, "unlock", "read") /\ UNCHANGED owns

(* acquireDirectory throws; a failed lock still releases the guard. *)
NotAcquired(p) ==
    /\ IF stage[p] = "lock" THEN Enter(p, "unguard", "read") ELSE Enter(p, "failed", "rest")
    /\ UNCHANGED owns

(* releaseDirectory returns, whether it removed the directory or not. *)
Released(p) ==
    CASE stage[p] = "unlock"    -> Enter(p, "reunguard", "read")
      [] stage[p] = "reunguard" -> Enter(p, "done", "rest")
      [] stage[p] = "unguard"   -> Enter(p, IF owns[p] THEN "held" ELSE "failed", "rest")

-----------------------------------------------------------------------------
(* acquireDirectory. *)

Mkdir(p) ==
    /\ At(p, AcquireStages, "mkdir")
    /\ IF Here(p).there
       THEN Goto(p, "read") /\ UNCHANGED dir
       ELSE Goto(p, "ensure") /\ SetHere(p, Fresh)
    /\ UNCHANGED <<attempt, expected, moved, owns, alive>>

(* writeJsonAtomic: mkdir -p, the temporary file, the rename.  All three   *)
(* go by path: they find whatever directory has the name by then.          *)
Ensure(p) ==
    /\ At(p, AcquireStages, "ensure")
    /\ IF Here(p).there THEN UNCHANGED dir ELSE SetHere(p, Fresh)
    /\ Goto(p, "write")
    /\ UNCHANGED <<attempt, expected, moved, owns, alive>>

WriteTemporary(p) ==
    /\ At(p, AcquireStages, "write")
    /\ IF Here(p).there
       THEN SetHere(p, [Here(p) EXCEPT !.tmps = @ \cup {p}]) /\ Goto(p, "rename")
       ELSE Goto(p, "clean") /\ UNCHANGED dir
    /\ UNCHANGED <<attempt, expected, moved, owns, alive>>

RenameOwner(p) ==
    /\ At(p, AcquireStages, "rename")
    /\ IF p \in Here(p).tmps
       THEN /\ SetHere(p, [Here(p) EXCEPT !.tmps = @ \ {p}, !.owner = Token(p)])
            /\ Acquired(p)
       ELSE /\ Goto(p, "clean")
            /\ UNCHANGED <<dir, attempt, expected, owns>>
    /\ UNCHANGED <<moved, alive>>

(* An error other than EEXIST: rm -rf of the path, then throw. *)
Clean(p) ==
    /\ At(p, AcquireStages, "clean")
    /\ SetHere(p, Absent)
    /\ NotAcquired(p)
    /\ UNCHANGED <<moved, alive>>

(* Seeded fault: a directory without owner.json is taken for a stale one. *)
ReadOwnerImpatient(p) ==
    /\ At(p, AcquireStages, "read")
    /\ LET current == Here(p).owner IN
        IF current # NoToken /\ current[1] \in alive
        THEN NotAcquired(p)
        ELSE /\ expected' = [expected EXCEPT ![p] = current]
             /\ Goto(p, "move")
             /\ UNCHANGED <<attempt, owns>>
    /\ UNCHANGED <<dir, moved, alive>>

(* EEXIST: read owner.json.  No owner yet, or one that lives: give up. *)
ReadOwner(p) ==
    /\ At(p, AcquireStages, "read")
    /\ LET current == Here(p).owner IN
        IF current = NoToken \/ current[1] \in alive
        THEN NotAcquired(p)
        ELSE /\ expected' = [expected EXCEPT ![p] = current]
             /\ Goto(p, "move")
             /\ UNCHANGED <<attempt, owns>>
    /\ UNCHANGED <<dir, moved, alive>>

(* Seeded fault: taking over a stale directory ends the acquisition. *)
RetryNever(p) == NotAcquired(p)

(* Seeded fault: one round too many. *)
RetryOnceMore(p) ==
    IF attempt[p] + 1 <= MaxAttempts
    THEN /\ attempt' = [attempt EXCEPT ![p] = @ + 1]
         /\ expected' = [expected EXCEPT ![p] = NoToken]
         /\ Goto(p, "mkdir")
         /\ UNCHANGED owns
    ELSE NotAcquired(p)

(* The next round of the loop, or the error after the last one. *)
Retry(p) ==
    IF attempt[p] + 1 < MaxAttempts
    THEN /\ attempt' = [attempt EXCEPT ![p] = @ + 1]
         /\ expected' = [expected EXCEPT ![p] = NoToken]
         /\ Goto(p, "mkdir")
         /\ UNCHANGED owns
    ELSE NotAcquired(p)

(* removeStaleDirectory. *)
MoveStale(p) ==
    /\ At(p, AcquireStages, "move")
    /\ IF Here(p).there
       THEN /\ moved' = [moved EXCEPT ![p] = Here(p)]
            /\ SetHere(p, Absent)
            /\ Goto(p, "check")
            /\ UNCHANGED <<attempt, expected, owns>>
       ELSE /\ Retry(p)
            /\ UNCHANGED <<moved, dir>>
    /\ UNCHANGED alive

(* Seeded fault: what was moved away is not looked at. *)
CheckStaleBlindly(p) ==
    /\ At(p, AcquireStages, "check")
    /\ Goto(p, "discard")
    /\ UNCHANGED <<attempt, expected, moved, dir, owns, alive>>

CheckStale(p) ==
    /\ At(p, AcquireStages, "check")
    /\ Goto(p, IF moved[p].owner = expected[p] THEN "discard" ELSE "restore")
    /\ UNCHANGED <<attempt, expected, moved, dir, owns, alive>>

(* rename onto an existing directory works only if that one is empty. *)
PutBack(p) ==
    /\ IF ~Here(p).there \/ (Here(p).owner = NoToken /\ Here(p).tmps = {})
       THEN SetHere(p, moved[p])
       ELSE UNCHANGED dir
    /\ moved' = [moved EXCEPT ![p] = Absent]

RestoreStale(p) ==
    /\ At(p, AcquireStages, "restore")
    /\ PutBack(p)
    /\ NotAcquired(p)
    /\ UNCHANGED alive

DiscardStale(p) ==
    /\ At(p, AcquireStages, "discard")
    /\ moved' = [moved EXCEPT ![p] = Absent]
    /\ Retry(p)
    /\ UNCHANGED <<dir, alive>>

-----------------------------------------------------------------------------
(* releaseDirectory. *)

ReadOwn(p) ==
    /\ At(p, ReleaseStages, "read")
    /\ IF Here(p).owner = Token(p)
       THEN Goto(p, "move") /\ UNCHANGED <<attempt, expected>>
       ELSE Released(p)
    /\ UNCHANGED <<moved, dir, owns, alive>>

MoveOwn(p) ==
    /\ At(p, ReleaseStages, "move")
    /\ IF Here(p).there
       THEN /\ moved' = [moved EXCEPT ![p] = Here(p)]
            /\ SetHere(p, Absent)
            /\ Goto(p, "check")
            /\ UNCHANGED <<attempt, expected>>
       ELSE /\ Released(p)
            /\ UNCHANGED <<moved, dir>>
    /\ UNCHANGED <<owns, alive>>

CheckOwn(p) ==
    /\ At(p, ReleaseStages, "check")
    /\ Goto(p, IF moved[p].owner = Token(p) THEN "discard" ELSE "restore")
    /\ UNCHANGED <<attempt, expected, moved, dir, owns, alive>>

RestoreOther(p) ==
    /\ At(p, ReleaseStages, "restore")
    /\ PutBack(p)
    /\ Released(p)
    /\ UNCHANGED <<owns, alive>>

DiscardOwn(p) ==
    /\ At(p, ReleaseStages, "discard")
    /\ moved' = [moved EXCEPT ![p] = Absent]
    /\ Released(p)
    /\ UNCHANGED <<dir, owns, alive>>

(* The holder calls release(). *)
BeginRelease(p) ==
    /\ At(p, {"held"}, "rest")
    /\ Enter(p, "reguard", "mkdir")
    /\ owns' = [owns EXCEPT ![p] = FALSE]
    /\ UNCHANGED <<moved, dir, alive>>

(* A process is killed; its directories stay. *)
Crash(p) ==
    /\ p \in alive
    /\ stage[p] \notin {"done", "failed"}
    /\ Cardinality(Procs \ alive) < MaxCrashes
    /\ alive' = alive \ {p}
    /\ owns' = [owns EXCEPT ![p] = FALSE]
    /\ UNCHANGED <<stage, step, attempt, expected, moved, dir>>

AcquireStep(p) ==
    \/ Mkdir(p) \/ Ensure(p) \/ WriteTemporary(p) \/ RenameOwner(p) \/ Clean(p)
    \/ ReadOwner(p) \/ MoveStale(p) \/ CheckStale(p) \/ RestoreStale(p) \/ DiscardStale(p)

ReleaseStep(p) ==
    ReadOwn(p) \/ MoveOwn(p) \/ CheckOwn(p) \/ RestoreOther(p) \/ DiscardOwn(p)

Next == \E p \in Procs : AcquireStep(p) \/ ReleaseStep(p) \/ BeginRelease(p) \/ Crash(p)

Spec == Init /\ [][Next]_vars

(* A process that runs goes on: each of its file system calls ends. *)
FairSpec == Spec /\ \A p \in Procs : WF_vars(AcquireStep(p) \/ ReleaseStep(p))

-----------------------------------------------------------------------------
(* Properties. *)

(* SECURITY.md: one data directory admits one process at a time. *)
OneProcess == \A p, q \in Procs : owns[p] /\ owns[q] => p = q

(* The processes that have taken a first step.                             *)
Started == {p \in Procs : stage[p] # "guard" \/ step[p] # "mkdir" \/ attempt[p] # 0}

(* While no third process takes part, the one that owns the data directory *)
(* keeps its lock under the name where every other process looks for it,   *)
(* through the takeovers and releases of the other; and one that released  *)
(* the lock leaves no lock of its own behind, not even one that the other  *)
(* moved away and put back in the meantime.                                *)
LockFollowsOwner ==
    Cardinality(Started) <= 2 => \A p \in Procs :
        /\ owns[p] => dir["lock"].owner = <<p, "lock">>
        /\ stage[p] = "done" => dir["lock"].owner # <<p, "lock">>

(* Processes that start over the lock of a killed daemon do not all lose:  *)
(* unless the guard is stale too or one of them is killed, one of them     *)
(* gets the data directory.                                                *)
RestartRecovers ==
    dir["guard"] = Absent /\ [](alive = Procs) => <>(\E p \in Procs : owns[p])
=============================================================================
