------------------------- MODULE InstanceLockProofs -------------------------
(***************************************************************************)
(* Proofs about InstanceLock for any processes, any number of crashes and  *)
(* any rounds of acquireDirectory: type correctness, and that the lock     *)
(* follows its owner while no third process takes part.                    *)
(*                                                                         *)
(* The guard does not exclude by itself: a process may move away a guard   *)
(* that another has just taken, believing it stale.  But then it finds a   *)
(* token that it did not expect, and after that it never takes the guard;  *)
(* the other of the two is alone (GivesUp, Left).  So one of the two has   *)
(* the guard at a time (GuardInv), which is what the lock needs (LockInv). *)
(* A third process is what this argument cannot bear: it would find the    *)
(* name free and take the guard beside its owner.                          *)
(***************************************************************************)
EXTENDS InstanceLock, FiniteSetTheorems, TLAPS

(* What is in a directory that is not there. *)
Sound(d) == d.there \/ d = Absent
SoundInv == (\A n \in Names : Sound(dir[n])) /\ \A p \in Procs : Sound(moved[p])

(* A process takes over only what a dead one owned. *)
Takes(p) == p \in alive /\ stage[p] \in AcquireStages /\ step[p] \in {"move", "check", "restore"}
ExpectInv == \A p \in Procs : Takes(p) => expected[p] # NoToken /\ expected[p][1] \notin alive

(* A process has the guard or is on its way to it with a directory that it *)
(* made.                                                                   *)
Enters(p) == stage[p] \in {"guard", "reguard"}
Makes(p) == p \in alive /\ Enters(p) /\ step[p] \in {"ensure", "write", "rename", "clean"}
Guards(p) ==
    /\ p \in alive
    /\ \/ stage[p] \in {"lock", "unlock"}
       \/ stage[p] \in {"unguard", "reunguard"} /\ step[p] \in {"read", "move"}
Busy(p) == Makes(p) \/ Guards(p)
GuardOf(p) == IF Makes(p) THEN NoToken
              ELSE <<p, IF stage[p] \in {"lock", "unguard"} THEN "guard" ELSE "reguard">>
GuardIs(p) == dir["guard"].there /\ dir["guard"].owner = GuardOf(p)

(* A process that will not take the guard any more: it has ended, or it    *)
(* has moved away a guard that it did not mean to.                         *)
GivesUp(p) ==
    /\ p \in Started
    /\ \/ p \notin alive
       \/ stage[p] \in {"done", "failed"}
       \/ Enters(p) /\ (step[p] = "restore" \/ (step[p] = "check" /\ moved[p].owner # expected[p]))
Left(p) == \E q \in Procs : q # p /\ GivesUp(q)

(* One process at a time has the guard, and finds it where it left it      *)
(* unless the other is out.                                                *)
GuardInv ==
    /\ \A p, q \in Procs : Busy(p) /\ Busy(q) => p = q
    /\ \A p \in Procs : Busy(p) => GuardIs(p) \/ Left(p)
    /\ \A p \in Procs : p \in alive /\ stage[p] \in {"unguard", "reunguard"} =>
         /\ step[p] = "check" => moved[p].owner = Token(p) \/ Left(p)
         /\ step[p] = "restore" => Left(p)

(* The lock changes only under the guard, and not while it has an owner;   *)
(* who takes it over or gives it back finds what it has read, and leaves   *)
(* nothing of its own.                                                     *)
LockOf(p) == <<p, "lock">>
InLock(p) == p \in alive /\ stage[p] \in {"lock", "unlock"}
Touches(p) == p \in alive /\ stage[p] = "lock" /\ step[p] \notin {"mkdir", "read"}
Gone(p) == stage[p] \in {"reunguard", "done"} \/ (stage[p] = "unlock" /\ step[p] \notin {"read", "move"})
Owned(p) == p \in alive /\ stage[p] \in {"unguard", "held"} /\ dir["lock"].owner = LockOf(p)
TakenOver(p) ==
    p \in alive /\ stage[p] = "lock" =>
        /\ step[p] = "move" => dir["lock"].owner = expected[p]
        /\ step[p] = "check" => moved[p].owner = expected[p]
        /\ step[p] # "restore"
GivenBack(p) ==
    p \in alive /\ stage[p] = "unlock" =>
        /\ step[p] = "move" => dir["lock"].owner = LockOf(p)
        /\ step[p] = "check" => moved[p].owner = LockOf(p)
        /\ step[p] # "restore"

LockInv ==
    /\ \A p \in Procs : owns[p] => Owned(p)
    /\ \A p, q \in Procs : Touches(p) => ~owns[q]
    /\ \A p \in Procs : TakenOver(p) /\ GivenBack(p)
    /\ \A p \in Procs : Gone(p) => dir["lock"].owner # LockOf(p)

Pair == Cardinality(Started) <= 2
PairInv == Pair => GuardInv /\ LockInv

IInv == TypeOK /\ SoundInv /\ ExpectInv /\ PairInv

-----------------------------------------------------------------------------
(* Tokens and directories. *)

LEMMA TokenFacts ==
    /\ NoToken \in Tokens
    /\ \A p \in Procs \cup {Dead}, n \in {"guard", "lock", "reguard"} :
            <<p, n>> \in Tokens /\ <<p, n>> # NoToken /\ <<p, n>>[1] = p
    /\ \A p, q : <<p, "lock">> = <<q, "lock">> => p = q
  BY DEF Tokens, NoToken

LEMMA TokenIs ==
    ASSUME NEW p \in Procs
    PROVE  /\ Token(p) \in Tokens
           /\ stage[p] \in {"guard", "unguard"} => Token(p) = <<p, "guard">>
           /\ stage[p] \in {"lock", "unlock"} => Token(p) = <<p, "lock">>
           /\ stage[p] \in {"reguard", "reunguard"} => Token(p) = <<p, "reguard">>
<1>1. stage[p] \in {"guard", "unguard"} => Token(p) = <<p, "guard">>
  BY DEF Token
<1>2. stage[p] \in {"lock", "unlock"} => Token(p) = <<p, "lock">>
  BY DEF Token
<1>3. stage[p] \notin {"guard", "unguard", "lock", "unlock"} => Token(p) = <<p, "reguard">>
  BY DEF Token
<1> QED BY <1>1, <1>2, <1>3, TokenFacts

LEMMA DirectoryFacts ==
    /\ Absent \in Directories /\ Sound(Absent) /\ Absent.owner = NoToken /\ Absent.tmps = {} /\ ~Absent.there
    /\ Fresh \in Directories /\ Sound(Fresh) /\ Fresh.owner = NoToken /\ Fresh.there
    /\ \A n \in Names : Stale(n) \in Directories /\ Sound(Stale(n))
  BY TokenFacts DEF Absent, Fresh, Stale, Directories, Sound, Names

-----------------------------------------------------------------------------
(* What the parts of the steps do.  Of the other processes a step changes  *)
(* nothing.                                                                *)
Others(p) ==
    \A q \in Procs : q # p =>
        /\ stage'[q] = stage[q] /\ step'[q] = step[q] /\ attempt'[q] = attempt[q]
        /\ expected'[q] = expected[q] /\ owns'[q] = owns[q]
Typed ==
    /\ stage \in [Procs -> Stages] /\ step \in [Procs -> Steps]
    /\ attempt \in [Procs -> 0..(MaxAttempts - 1)]
    /\ expected \in [Procs -> Tokens] /\ owns \in [Procs -> BOOLEAN]

(* Process p is at stage st and step s then. *)
Then(p, st, s) == stage'[p] = st /\ step'[p] = s

LEMMA GotoDoes ==
    ASSUME Typed, NEW p \in Procs, NEW s \in Steps, Goto(p, s), UNCHANGED <<attempt, expected, owns>>
    PROVE  /\ Typed' /\ Others(p) /\ Then(p, stage[p], s)
           /\ expected'[p] = expected[p] /\ owns'[p] = owns[p]
  BY DEF Typed, Goto, Others, Then

LEMMA EnterDoes ==
    ASSUME Typed, NEW p \in Procs, NEW st \in Stages, NEW s \in Steps, Enter(p, st, s),
           owns' = owns \/ \E b \in BOOLEAN : owns' = [owns EXCEPT ![p] = b]
    PROVE  Typed' /\ Others(p) /\ Then(p, st, s) /\ expected'[p] = NoToken
<1>1. 0 \in 0..(MaxAttempts - 1)
  BY LockBounds DEF LockBounds
<1> QED BY <1>1, TokenFacts DEF Typed, Enter, Others, Then

LEMMA StageFacts ==
    /\ AcquireStages \subseteq Stages /\ ReleaseStages \subseteq Stages
    /\ {"held", "done", "failed"} \subseteq Stages
    /\ Steps = {"mkdir", "ensure", "write", "rename", "clean", "read", "move", "check",
                "restore", "discard", "rest"}
    /\ Names = {"guard", "lock"}
    /\ AcquireStages = {"guard", "lock", "reguard"} /\ ReleaseStages = {"unguard", "unlock", "reunguard"}
    /\ \A s \in Stages : Name(s) \in Names
    /\ \A s \in {"guard", "reguard", "unguard", "reunguard"} : Name(s) = "guard"
    /\ \A s \in {"lock", "unlock"} : Name(s) = "lock"
  BY DEF AcquireStages, ReleaseStages, Stages, Steps, Names, Name

LEMMA AcquiredDoes ==
    ASSUME Typed, NEW p \in Procs, stage[p] \in AcquireStages, Acquired(p)
    PROVE  /\ Typed' /\ Others(p) /\ expected'[p] = NoToken
           /\ stage[p] = "guard" => Then(p, "lock", "mkdir") /\ owns'[p] = owns[p]
           /\ stage[p] = "lock" => Then(p, "unguard", "read") /\ owns'[p]
           /\ stage[p] = "reguard" => Then(p, "unlock", "read") /\ owns'[p] = owns[p]
<1>1. CASE stage[p] = "guard"
  <2>1. Enter(p, "lock", "mkdir") /\ UNCHANGED owns
    BY <1>1 DEF Acquired
  <2> QED BY <1>1, <2>1, EnterDoes, StageFacts
<1>2. CASE stage[p] = "lock"
  <2>1. Enter(p, "unguard", "read") /\ owns' = [owns EXCEPT ![p] = TRUE]
    BY <1>2 DEF Acquired
  <2>2. owns'[p]
    BY <2>1 DEF Typed
  <2>3. \E b \in BOOLEAN : owns' = [owns EXCEPT ![p] = b]
    BY <2>1
  <2> QED BY <1>2, <2>1, <2>2, <2>3, EnterDoes, StageFacts
<1>3. CASE stage[p] = "reguard"
  <2>1. Enter(p, "unlock", "read") /\ UNCHANGED owns
    BY <1>3 DEF Acquired
  <2> QED BY <1>3, <2>1, EnterDoes, StageFacts
<1> QED BY <1>1, <1>2, <1>3 DEF AcquireStages

LEMMA NotAcquiredDoes ==
    ASSUME Typed, NEW p \in Procs, NotAcquired(p)
    PROVE  /\ Typed' /\ Others(p) /\ expected'[p] = NoToken /\ owns'[p] = owns[p]
           /\ stage[p] = "lock" => Then(p, "unguard", "read")
           /\ stage[p] # "lock" => Then(p, "failed", "rest")
<1>1. CASE stage[p] = "lock"
  <2>1. Enter(p, "unguard", "read") /\ UNCHANGED owns
    BY <1>1 DEF NotAcquired
  <2> QED BY <1>1, <2>1, EnterDoes, StageFacts
<1>2. CASE stage[p] # "lock"
  <2>1. Enter(p, "failed", "rest") /\ UNCHANGED owns
    BY <1>2 DEF NotAcquired
  <2> QED BY <1>2, <2>1, EnterDoes, StageFacts
<1> QED BY <1>1, <1>2

LEMMA ReleasedDoes ==
    ASSUME Typed, NEW p \in Procs, stage[p] \in ReleaseStages, Released(p), UNCHANGED owns
    PROVE  /\ Typed' /\ Others(p) /\ expected'[p] = NoToken /\ owns'[p] = owns[p]
           /\ stage[p] = "unlock" => Then(p, "reunguard", "read")
           /\ stage[p] = "reunguard" => Then(p, "done", "rest")
           /\ stage[p] = "unguard" => Then(p, IF owns[p] THEN "held" ELSE "failed", "rest")
<1>1. CASE stage[p] = "unlock"
  <2>1. Enter(p, "reunguard", "read")
    BY <1>1 DEF Released
  <2> QED BY <1>1, <2>1, EnterDoes, StageFacts
<1>2. CASE stage[p] = "reunguard"
  <2>1. Enter(p, "done", "rest")
    BY <1>2 DEF Released
  <2> QED BY <1>2, <2>1, EnterDoes, StageFacts
<1>3. CASE stage[p] = "unguard"
  <2>1. PICK st \in {"held", "failed"} : st = IF owns[p] THEN "held" ELSE "failed"
    OBVIOUS
  <2>2. Enter(p, st, "rest")
    BY <1>3, <2>1 DEF Released
  <2> QED BY <1>3, <2>1, <2>2, EnterDoes, StageFacts
<1> QED BY <1>1, <1>2, <1>3 DEF ReleaseStages

LEMMA RetryDoes ==
    ASSUME Typed, NEW p \in Procs, Retry(p)
    PROVE  /\ Typed' /\ Others(p) /\ expected'[p] = NoToken /\ owns'[p] = owns[p]
           /\ \/ Then(p, stage[p], "mkdir") /\ attempt'[p] # 0
              \/ stage[p] = "lock" /\ Then(p, "unguard", "read")
              \/ stage[p] # "lock" /\ Then(p, "failed", "rest")
<1>1. CASE attempt[p] + 1 < MaxAttempts
  <2>1. /\ attempt' = [attempt EXCEPT ![p] = @ + 1] /\ expected' = [expected EXCEPT ![p] = NoToken]
        /\ step' = [step EXCEPT ![p] = "mkdir"] /\ UNCHANGED <<stage, owns>>
    BY <1>1 DEF Retry, Goto
  <2>2. attempt[p] + 1 \in 0..(MaxAttempts - 1) /\ attempt[p] + 1 # 0
    BY <1>1, LockBounds DEF Typed, LockBounds
  <2> QED BY <2>1, <2>2, TokenFacts, StageFacts DEF Typed, Others, Then
<1>2. CASE ~(attempt[p] + 1 < MaxAttempts)
  BY <1>2, NotAcquiredDoes DEF Retry
<1> QED BY <1>1, <1>2

-----------------------------------------------------------------------------
(* What every step of a process keeps. *)

Frame(p) ==
    /\ Others(p)
    /\ \A q \in Procs : q # p => moved'[q] = moved[q] /\ (q \in alive' <=> q \in alive)
    /\ alive' \subseteq alive

LEMMA SetHereDoes ==
    ASSUME TypeOK, NEW p \in Procs, NEW d \in Directories, SetHere(p, d)
    PROVE  /\ dir' \in [Names -> Directories] /\ Name(stage[p]) \in Names
           /\ dir'[Name(stage[p])] = d
           /\ \A n \in Names : n # Name(stage[p]) => dir'[n] = dir[n]
<1>1. Name(stage[p]) \in Names
  BY StageFacts DEF TypeOK
<1> QED BY <1>1 DEF SetHere, TypeOK

Begun(p) == stage[p] # "guard" \/ step[p] # "mkdir" \/ attempt[p] # 0

LEMMA StepTypes ==
    ASSUME IInv, NEW p \in Procs, Typed', Others(p), UNCHANGED alive, Begun(p)',
           UNCHANGED dir \/ \E d \in Directories : Sound(d) /\ SetHere(p, d),
           \/ UNCHANGED moved
           \/ \E d \in Directories : Sound(d) /\ moved' = [moved EXCEPT ![p] = d],
           Takes(p)' => expected'[p] # NoToken /\ expected'[p][1] \notin alive
    PROVE  TypeOK' /\ SoundInv' /\ ExpectInv' /\ Frame(p) /\ p \in Started'
<1>1. TypeOK /\ SoundInv /\ ExpectInv
  BY DEF IInv
<1>2. dir' \in [Names -> Directories] /\ \A n \in Names : Sound(dir'[n])
  <2>1. CASE UNCHANGED dir
    BY <1>1, <2>1 DEF TypeOK, SoundInv
  <2>2. ASSUME NEW d \in Directories, Sound(d), SetHere(p, d)
        PROVE  dir' \in [Names -> Directories] /\ \A n \in Names : Sound(dir'[n])
    <3>1. \A n \in Names : dir'[n] = d \/ dir'[n] = dir[n]
      BY <1>1, <2>2, SetHereDoes
    <3> QED BY <1>1, <2>2, <3>1, SetHereDoes DEF SoundInv
  <2> QED BY <2>1, <2>2
<1>3. /\ moved' \in [Procs -> Directories] /\ \A q \in Procs : Sound(moved'[q])
      /\ \A q \in Procs : q # p => moved'[q] = moved[q]
  <2>1. CASE UNCHANGED moved
    BY <1>1, <2>1 DEF TypeOK, SoundInv
  <2>2. ASSUME NEW d \in Directories, Sound(d), moved' = [moved EXCEPT ![p] = d]
        PROVE  /\ moved' \in [Procs -> Directories] /\ \A q \in Procs : Sound(moved'[q])
               /\ \A q \in Procs : q # p => moved'[q] = moved[q]
    <3>1. \A q \in Procs : moved'[q] = IF q = p THEN d ELSE moved[q]
      BY <1>1, <2>2 DEF TypeOK
    <3> QED BY <1>1, <2>2, <3>1 DEF TypeOK, SoundInv
  <2> QED BY <2>1, <2>2
<1>4. TypeOK'
  BY <1>1, <1>2, <1>3 DEF TypeOK, Typed
<1>5. ExpectInv'
  BY <1>1 DEF ExpectInv, Takes, Others
<1>6. Frame(p) /\ p \in Started'
  BY <1>3 DEF Frame, Started, Begun
<1> QED BY <1>2, <1>3, <1>4, <1>5, <1>6 DEF SoundInv

-----------------------------------------------------------------------------
(* Two processes. *)

LEMMA NotThree ==
    ASSUME NEW S, IsFiniteSet(S), Cardinality(S) <= 2, NEW p \in S, NEW q \in S, NEW r \in S,
           q # p, r # p
    PROVE  q = r
<1> SUFFICES ASSUME q # r PROVE FALSE
  OBVIOUS
<1>1. IsFiniteSet({}) /\ Cardinality({}) = 0
  BY FS_EmptySet
<1>2. IsFiniteSet({p}) /\ Cardinality({p}) = 1
  BY FS_Singleton
<1>3. IsFiniteSet({p} \cup {q}) /\ Cardinality({p} \cup {q}) = 2
  <2>1. PICK T : T = {p}
    OBVIOUS
  <2>2. q \notin T /\ IsFiniteSet(T) /\ Cardinality(T) = 1
    BY <1>2, <2>1
  <2>3. IsFiniteSet(T \cup {q}) /\ Cardinality(T \cup {q}) = Cardinality(T) + 1
    BY <2>2, FS_AddElement
  <2> QED BY <2>1, <2>2, <2>3
<1>4. r \notin {p} \cup {q}
  OBVIOUS
<1>5. IsFiniteSet({p} \cup {q} \cup {r}) /\ Cardinality({p} \cup {q} \cup {r}) = 3
  <2>1. PICK T : T = {p} \cup {q}
    OBVIOUS
  <2>2. IsFiniteSet(T \cup {r}) /\ Cardinality(T \cup {r}) = 3
    <3>1. r \notin T /\ IsFiniteSet(T) /\ Cardinality(T) = 2
      BY <1>3, <1>4, <2>1
    <3>2. IsFiniteSet(T \cup {r}) /\ Cardinality(T \cup {r}) = Cardinality(T) + 1
      BY <3>1, FS_AddElement
    <3> QED BY <3>1, <3>2
  <2> QED BY <2>1, <2>2
<1>6. {p} \cup {q} \cup {r} \subseteq S
  OBVIOUS
<1>7. Cardinality({p} \cup {q} \cup {r}) <= Cardinality(S)
  BY <1>6, FS_Subset
<1>8. Cardinality(S) \in Nat
  BY FS_CardinalityType
<1> QED BY <1>5, <1>7, <1>8

LEMMA OnlyTwo ==
    ASSUME Pair', NEW p \in Started', Frame(p), NEW q \in Started, NEW r \in Started, q # p, r # p
    PROVE  q = r
<1>1. Started' \subseteq Procs /\ IsFiniteSet(Started')
  BY LockBounds, FS_Subset DEF LockBounds, Started
<1>2. q \in Started' /\ r \in Started'
  BY DEF Started, Frame, Others
<1>3. PICK S : S = Started'
  OBVIOUS
<1> QED BY <1>1, <1>2, <1>3, NotThree DEF Pair

LEMMA StillPair ==
    ASSUME Pair', NEW p \in Procs, Frame(p), p \in Started' \/ p \notin Started PROVE Pair
<1>1. Started \subseteq Started' /\ IsFiniteSet(Started')
  BY LockBounds, FS_Subset DEF LockBounds, Started, Frame, Others
<1>2. PICK S, T : S = Started /\ T = Started'
  OBVIOUS
<1>3. IsFiniteSet(T) /\ S \subseteq T /\ Cardinality(T) <= 2
  BY <1>1, <1>2 DEF Pair
<1>4. IsFiniteSet(S) /\ Cardinality(S) <= Cardinality(T) /\ Cardinality(S) \in Nat /\ Cardinality(T) \in Nat
  BY <1>3, FS_Subset, FS_CardinalityType
<1>5. Cardinality(S) <= 2
  BY <1>3, <1>4
<1> QED BY <1>2, <1>5 DEF Pair

LEMMA BusyStarted == ASSUME NEW p \in Procs, Busy(p) PROVE p \in Started /\ ~GivesUp(p)
  BY DEF Busy, Makes, Guards, Enters, GivesUp, Started

(* What a step of p has to show for GuardInv and LockInv. *)
GuardStep(p) ==
    /\ Busy(p)' => Busy(p) \/ \A q \in Procs : q # p => ~Busy(q)
    /\ Busy(p)' => GuardIs(p)' \/ Left(p)
    /\ dir'["guard"] = dir["guard"] \/ GivesUp(p)' \/ \A q \in Procs : q # p => ~Busy(q)
    /\ GivesUp(p) => GivesUp(p)'
    /\ p \in alive' /\ stage'[p] \in {"unguard", "reunguard"} =>
        /\ step'[p] = "check" => moved'[p].owner = Token(p)' \/ Left(p)
        /\ step'[p] = "restore" => Left(p)

LockStep(p) ==
    /\ owns'[p] => Owned(p)' /\ (owns[p] \/ \A q \in Procs : q # p => ~InLock(q))
    /\ Touches(p)' => \A q \in Procs : q # p => ~owns[q]
    /\ dir'["lock"] = dir["lock"] \/ \A q \in Procs : q # p => ~owns[q] /\ ~InLock(q)
    /\ TakenOver(p)' /\ GivenBack(p)'
    /\ dir'["lock"].owner \in {dir["lock"].owner, NoToken, LockOf(p)}
    /\ Gone(p)' => dir'["lock"].owner # LockOf(p)

LEMMA GuardKept ==
    ASSUME GuardInv, NEW p \in Procs, Frame(p), GuardStep(p) PROVE GuardInv'
<1>1. ASSUME NEW q \in Procs, q # p
      PROVE  /\ Busy(q)' <=> Busy(q)
             /\ GuardOf(q)' = GuardOf(q)
             /\ Token(q)' = Token(q)
             /\ GivesUp(q) <=> GivesUp(q)'
  BY <1>1 DEF Frame, Others, Busy, Makes, Guards, Enters, GuardOf, Token, GivesUp, Started
<1>2. Left(p)' <=> Left(p)
  BY <1>1 DEF Left
<1>3. ASSUME NEW q \in Procs, q # p, Left(q) PROVE Left(q)'
  BY <1>1, <1>3 DEF Left, GuardStep
<1>4. ASSUME NEW q \in Procs, NEW r \in Procs, Busy(q)', Busy(r)' PROVE q = r
  BY <1>1, <1>4 DEF GuardInv, GuardStep
<1>5. ASSUME NEW q \in Procs, Busy(q)' PROVE GuardIs(q)' \/ Left(q)'
  <2>1. CASE q = p
    BY <1>2, <1>5, <2>1 DEF GuardStep
  <2>2. CASE q # p
    <3>1. Busy(q)
      BY <1>1, <1>5, <2>2
    <3>2. CASE GivesUp(p)'
      BY <2>2, <3>2 DEF Left
    <3>3. CASE dir'["guard"] = dir["guard"]
      BY <1>1, <1>3, <2>2, <3>1, <3>3 DEF GuardInv, GuardIs
    <3> QED BY <2>2, <3>1, <3>2, <3>3 DEF GuardStep
  <2> QED BY <2>1, <2>2
<1>6. ASSUME NEW q \in Procs, q \in alive', stage'[q] \in {"unguard", "reunguard"}
      PROVE  /\ step'[q] = "check" => moved'[q].owner = Token(q)' \/ Left(q)'
             /\ step'[q] = "restore" => Left(q)'
  <2>1. CASE q = p
    BY <1>2, <1>6, <2>1 DEF GuardStep
  <2>2. CASE q # p
    BY <1>1, <1>3, <1>6, <2>2 DEF GuardInv, Frame, Others
  <2> QED BY <2>1, <2>2
<1> QED BY <1>4, <1>5, <1>6 DEF GuardInv

LEMMA LockKept ==
    ASSUME LockInv, NEW p \in Procs, Frame(p), LockStep(p) PROVE LockInv'
<1>1. ASSUME NEW q \in Procs, q # p
      PROVE  /\ owns'[q] = owns[q] /\ (Touches(q)' <=> Touches(q)) /\ (Gone(q)' <=> Gone(q))
             /\ (InLock(q)' <=> InLock(q)) /\ (Touches(q) => InLock(q))
             /\ stage'[q] = stage[q] /\ step'[q] = step[q] /\ expected'[q] = expected[q]
             /\ moved'[q] = moved[q] /\ (q \in alive' <=> q \in alive)
  BY <1>1 DEF Frame, Others, Touches, Gone, InLock
<1>2. ASSUME NEW q \in Procs, owns'[q] PROVE Owned(q)'
  BY <1>1, <1>2 DEF LockInv, LockStep, Owned, LockOf
<1>3. ASSUME NEW q \in Procs, NEW r \in Procs, Touches(q)', owns'[r] PROVE FALSE
  <2>1. CASE q = p /\ r = p
    BY <1>2, <1>3, <2>1 DEF Touches, Owned
  <2>2. CASE q = p /\ r # p
    BY <1>1, <1>3, <2>2 DEF LockStep
  <2>3. CASE q # p /\ r = p
    BY <1>1, <1>3, <2>3 DEF LockStep, LockInv
  <2>4. CASE q # p /\ r # p
    BY <1>1, <1>3, <2>4 DEF LockInv
  <2> QED BY <2>1, <2>2, <2>3, <2>4
<1>4. ASSUME NEW q \in Procs PROVE TakenOver(q)' /\ GivenBack(q)'
  <2>1. CASE q # p /\ dir'["lock"] = dir["lock"]
    BY <1>1, <2>1 DEF LockInv, TakenOver, GivenBack, LockOf
  <2>2. CASE q # p /\ ~InLock(q)
    BY <1>1, <2>2 DEF TakenOver, GivenBack, InLock
  <2> QED BY <2>1, <2>2 DEF LockStep
<1>5. ASSUME NEW q \in Procs, Gone(q)' PROVE dir'["lock"].owner # LockOf(q)
  <2>1. CASE q # p
    <3>1. dir["lock"].owner # LockOf(q)
      BY <1>1, <1>5, <2>1 DEF LockInv
    <3>2. LockOf(q) # NoToken /\ LockOf(q) # LockOf(p)
      BY <2>1, TokenFacts DEF LockOf
    <3> QED BY <3>1, <3>2 DEF LockStep
  <2> QED BY <1>5, <2>1 DEF LockStep
<1> QED BY <1>2, <1>3, <1>4, <1>5 DEF LockInv, LockOf

Moves(p) == TypeOK' /\ SoundInv' /\ ExpectInv' /\ Frame(p) /\ p \in Started'

(* A process that is not out itself finds the guard as another left it; if *)
(* one is out, nobody but p is left.                                       *)
LEMMA Found ==
    ASSUME GuardInv, Pair', NEW p \in Procs, Moves(p), ~GivesUp(p), NEW q \in Procs, q # p, Busy(q)
    PROVE  GuardIs(q)
<1> SUFFICES ASSUME Left(q) PROVE FALSE
  BY DEF GuardInv
<1>1. PICK r \in Procs : r # q /\ GivesUp(r)
  BY DEF Left
<1>2. r \in Started /\ q \in Started
  BY <1>1, BusyStarted DEF GivesUp
<1> QED BY <1>1, <1>2, OnlyTwo DEF Moves

LEMMA LeftAlone ==
    ASSUME Pair', NEW p \in Procs, Moves(p), Left(p), NEW q \in Procs, q # p PROVE ~Busy(q)
<1>1. PICK r \in Procs : r # p /\ GivesUp(r)
  BY DEF Left
<1>2. r \in Started
  BY <1>1 DEF GivesUp
<1> QED BY <1>1, <1>2, BusyStarted, OnlyTwo DEF Moves

(* Steps that leave the lock, or the guard, alone. *)
LEMMA LockUntouched ==
    ASSUME LockInv, NEW p \in Procs, dir'["lock"] = dir["lock"], p \in alive',
           owns'[p] => owns[p] /\ stage'[p] \in {"unguard", "held"},
           stage'[p] \in {"lock", "unlock"} => step'[p] \in {"mkdir", "read"},
           Gone(p)' => Gone(p)
    PROVE  LockStep(p)
  BY DEF LockInv, LockStep, Owned, Touches, TakenOver, GivenBack, LockOf

LEMMA GuardUntouched ==
    ASSUME GuardInv, NEW p \in Procs, Moves(p), p \in alive', dir'["guard"] = dir["guard"], InLock(p),
           \/ stage'[p] = stage[p]
           \/ stage[p] = "lock" /\ Then(p, "unguard", "read")
           \/ stage[p] = "unlock" /\ Then(p, "reunguard", "read")
    PROVE  GuardStep(p)
<1>1. Busy(p) /\ Busy(p)' /\ ~Makes(p) /\ ~Makes(p)'
  BY DEF Busy, Guards, Makes, Enters, InLock, Then
<1>2. GuardOf(p)' = GuardOf(p)
  BY <1>1 DEF GuardOf, InLock, Then
<1>3. GuardIs(p) \/ Left(p)
  BY <1>1 DEF GuardInv
<1>4. GuardIs(p) => GuardIs(p)'
  BY <1>2 DEF GuardIs
<1>5. ~GivesUp(p)
  BY <1>1, BusyStarted
<1> QED BY <1>1, <1>3, <1>4, <1>5 DEF GuardStep, InLock, Then

LEMMA OthersOut ==
    ASSUME GuardInv, NEW p \in Procs, Busy(p) PROVE \A q \in Procs : q # p => ~Busy(q) /\ ~InLock(q)
  BY DEF GuardInv, Busy, Guards, InLock

(* The process at a file system call. *)
LEMMA AtFacts ==
    ASSUME IInv, NEW p \in Procs, NEW stages, NEW s, At(p, stages, s)
    PROVE  /\ p \in alive /\ stage[p] \in stages /\ step[p] = s /\ stage[p] \in Stages
           /\ Typed /\ TypeOK /\ Here(p) \in Directories /\ Sound(Here(p))
           /\ moved[p] \in Directories /\ Sound(moved[p])
           /\ stage[p] \in {"lock", "unlock"} => Name(stage[p]) = "lock" /\ Here(p) = dir["lock"]
           /\ stage[p] \in {"guard", "reguard", "unguard", "reunguard"} =>
                Name(stage[p]) = "guard" /\ Here(p) = dir["guard"]
           /\ Token(p) \in Tokens
<1>1. TypeOK /\ SoundInv
  BY DEF IInv
<1>2. stage[p] \in Stages /\ Name(stage[p]) \in Names
  BY <1>1, StageFacts DEF TypeOK
<1>3. Here(p) \in Directories /\ Sound(Here(p))
  BY <1>1, <1>2 DEF Here, TypeOK, SoundInv
<1>4. moved[p] \in Directories /\ Sound(moved[p]) /\ Typed
  BY <1>1 DEF TypeOK, SoundInv, Typed
<1> QED BY <1>1, <1>2, <1>3, <1>4, StageFacts, TokenIs DEF At, Here

LEMMA MkdirMoves == ASSUME IInv, NEW p \in Procs, Mkdir(p) PROVE Moves(p)
<1>1. At(p, AcquireStages, "mkdir") /\ UNCHANGED <<attempt, expected, moved, owns, alive>>
  BY DEF Mkdir
<1>2. PICK s \in {"read", "ensure"} : Goto(p, s)
  BY DEF Mkdir
<1>3. Typed' /\ Others(p) /\ Then(p, stage[p], s)
  BY <1>1, <1>2, AtFacts, GotoDoes, StageFacts
<1>4. UNCHANGED dir \/ \E d \in Directories : Sound(d) /\ SetHere(p, d)
  BY DirectoryFacts DEF Mkdir
<1>5. Begun(p)' /\ ~Takes(p)'
  BY <1>3 DEF Begun, Takes, Then
<1> QED BY <1>1, <1>3, <1>4, <1>5, StepTypes DEF Moves

LEMMA MkdirSafe ==
    ASSUME IInv, GuardInv, LockInv, Pair', NEW p \in Procs, Mkdir(p) PROVE GuardStep(p) /\ LockStep(p)
<1>1. /\ At(p, AcquireStages, "mkdir") /\ Moves(p)
      /\ UNCHANGED <<attempt, expected, moved, owns, alive>>
  BY MkdirMoves DEF Mkdir
<1>2. /\ p \in alive /\ p \in alive' /\ stage[p] \in AcquireStages /\ step[p] = "mkdir" /\ Typed /\ TypeOK
      /\ stage[p] = "lock" => Name(stage[p]) = "lock" /\ Here(p) = dir["lock"]
      /\ stage[p] # "lock" => Name(stage[p]) = "guard" /\ Here(p) = dir["guard"]
  BY <1>1, AtFacts, StageFacts
<1>3. \A q \in Procs : owns'[q] = owns[q]
  BY <1>1
<1>4. owns[p] => FALSE
  BY <1>2, StageFacts DEF LockInv, Owned
<1>5. CASE Here(p).there
  <2>1. Then(p, stage[p], "read") /\ UNCHANGED dir
    BY <1>1, <1>2, <1>5, GotoDoes, StageFacts DEF Mkdir
  <2>2. LockStep(p)
    BY <1>2, <1>3, <1>4, <2>1, LockUntouched, StageFacts DEF Then, Gone
  <2>3. CASE stage[p] = "lock"
    BY <1>1, <1>2, <2>1, <2>2, <2>3, GuardUntouched DEF InLock, Then
  <2>4. CASE stage[p] # "lock"
    BY <1>2, <2>1, <2>2, <2>4, StageFacts DEF GuardStep, Busy, Makes, Guards, Then, GivesUp, Enters
  <2> QED BY <2>3, <2>4
<1>6. CASE ~Here(p).there
  <2>1. Then(p, stage[p], "ensure") /\ SetHere(p, Fresh)
    BY <1>1, <1>2, <1>6, GotoDoes, StageFacts DEF Mkdir
  <2>2. /\ dir'[Name(stage[p])] = Fresh
        /\ \A n \in Names : n # Name(stage[p]) => dir'[n] = dir[n]
    BY <1>2, <2>1, SetHereDoes, DirectoryFacts
  <2>3. CASE stage[p] = "lock"
    <3>1. dir'["guard"] = dir["guard"] /\ dir'["lock"] = Fresh /\ ~dir["lock"].there
      BY <1>2, <1>6, <2>2, <2>3, StageFacts
    <3>2. GuardStep(p)
      BY <1>1, <1>2, <2>1, <2>3, <3>1, GuardUntouched DEF InLock, Then
    <3>3. dir["lock"].owner = NoToken
      BY <3>1, DirectoryFacts, StageFacts DEF IInv, SoundInv, Sound
    <3>4. \A q \in Procs : ~owns[q]
      BY <3>3, TokenFacts DEF LockInv, Owned, LockOf
    <3>5. \A q \in Procs : q # p => ~InLock(q)
      BY <1>2, <2>3, OthersOut DEF Busy, Guards
    <3> QED BY <1>3, <2>1, <2>3, <3>1, <3>2, <3>4, <3>5, DirectoryFacts, TokenFacts
            DEF LockStep, TakenOver, GivenBack, Gone, Then
  <2>4. CASE stage[p] # "lock"
    <3>1. dir'["lock"] = dir["lock"] /\ dir'["guard"] = Fresh /\ ~dir["guard"].there
      BY <1>2, <1>6, <2>2, <2>4, StageFacts
    <3>2. LockStep(p)
      BY <1>2, <1>3, <1>4, <2>1, <2>4, <3>1, LockUntouched, StageFacts DEF Then, Gone
    <3>3. ~GivesUp(p)
      BY <1>2, StageFacts DEF GivesUp, Enters
    <3>4. \A q \in Procs : q # p => ~Busy(q)
      BY <1>1, <3>1, <3>3, Found DEF GuardIs
    <3>5. Makes(p)'
      BY <1>2, <2>1, <2>4, StageFacts DEF Makes, Enters, Then
    <3>6. GuardIs(p)'
      BY <3>1, <3>5, DirectoryFacts DEF GuardIs, GuardOf
    <3> QED BY <1>2, <2>1, <2>4, <3>2, <3>3, <3>4, <3>6, StageFacts DEF GuardStep, Then
  <2> QED BY <2>3, <2>4
<1> QED BY <1>5, <1>6

-----------------------------------------------------------------------------
(* The rest of acquireDirectory. *)

LEMMA AcquireAt ==
    ASSUME IInv, NEW p \in Procs, NEW s, At(p, AcquireStages, s)
    PROVE  /\ p \in alive /\ stage[p] \in {"guard", "lock", "reguard"} /\ step[p] = s /\ Typed /\ TypeOK
           /\ stage[p] = "lock" => Name(stage[p]) = "lock" /\ Here(p) = dir["lock"] /\ InLock(p) /\ Busy(p)
           /\ stage[p] # "lock" => Name(stage[p]) = "guard" /\ Here(p) = dir["guard"] /\ Enters(p)
           /\ Here(p) \in Directories /\ Sound(Here(p))
           /\ stage[p] # "lock" /\ s \in {"ensure", "write", "rename", "clean"} => Makes(p) /\ Busy(p)
           /\ LockInv => ~owns[p] /\ ~Gone(p)
<1>1. stage[p] \in {"guard", "lock", "reguard"}
  BY AtFacts, StageFacts
<1>2. LockInv => ~owns[p] /\ ~Gone(p)
  BY <1>1 DEF LockInv, Owned, Gone
<1> QED BY <1>1, <1>2, AtFacts DEF InLock, Busy, Guards, Makes, Enters

(* Whoever is busy changes the guard alone. *)
LEMMA GuardOwn ==
    ASSUME GuardInv, NEW p \in Procs, Busy(p), Busy(p)' => GuardIs(p)' \/ Left(p),
           p \in alive' /\ stage'[p] \in {"unguard", "reunguard"} =>
             /\ step'[p] = "check" => moved'[p].owner = Token(p)' \/ Left(p)
             /\ step'[p] = "restore" => Left(p)
    PROVE  GuardStep(p)
  BY OthersOut, BusyStarted DEF GuardStep

(* Whoever is at the lock changes it alone. *)
LEMMA LockOwn ==
    ASSUME GuardInv, NEW p \in Procs, InLock(p), \A q \in Procs : q # p => ~owns[q],
           owns'[p] => Owned(p)', TakenOver(p)', GivenBack(p)',
           dir'["lock"].owner \in {dir["lock"].owner, NoToken, LockOf(p)},
           Gone(p)' => dir'["lock"].owner # LockOf(p)
    PROVE  LockStep(p)
<1>1. Busy(p)
  BY DEF Busy, Guards, InLock
<1> QED BY <1>1, OthersOut DEF LockStep

LEMMA EnsureMoves == ASSUME IInv, NEW p \in Procs, Ensure(p) PROVE Moves(p)
<1>1. At(p, AcquireStages, "ensure") /\ Goto(p, "write") /\ UNCHANGED <<attempt, expected, moved, owns, alive>>
  BY DEF Ensure
<1>2. Typed' /\ Others(p) /\ Then(p, stage[p], "write")
  BY <1>1, AtFacts, GotoDoes, StageFacts
<1>3. UNCHANGED dir \/ \E d \in Directories : Sound(d) /\ SetHere(p, d)
  BY DirectoryFacts DEF Ensure
<1>4. Begun(p)' /\ ~Takes(p)'
  BY <1>2 DEF Begun, Takes, Then
<1> QED BY <1>1, <1>2, <1>3, <1>4, StepTypes DEF Moves

LEMMA EnsureSafe ==
    ASSUME IInv, GuardInv, LockInv, Pair', NEW p \in Procs, Ensure(p) PROVE GuardStep(p) /\ LockStep(p)
<1>1. /\ At(p, AcquireStages, "ensure") /\ Moves(p) /\ Goto(p, "write")
      /\ UNCHANGED <<attempt, expected, moved, owns, alive>>
  BY EnsureMoves DEF Ensure
<1>2. Then(p, stage[p], "write")
  BY <1>1, AtFacts, GotoDoes, StageFacts
<1>3. /\ dir'[Name(stage[p])] = IF Here(p).there THEN Here(p) ELSE Fresh
      /\ \A n \in Names : n # Name(stage[p]) => dir'[n] = dir[n]
  <2>1. CASE Here(p).there
    BY <2>1 DEF Ensure, Here
  <2>2. CASE ~Here(p).there
    <3>1. SetHere(p, Fresh)
      BY <2>2 DEF Ensure
    <3> QED BY <1>1, <2>2, <3>1, AcquireAt, SetHereDoes, DirectoryFacts
  <2> QED BY <2>1, <2>2
<1>4. CASE stage[p] = "lock"
  <2>1. InLock(p) /\ ~owns'[p] /\ Touches(p) /\ dir'["guard"] = dir["guard"] /\ p \in alive'
    BY <1>1, <1>3, <1>4, AcquireAt, StageFacts DEF Touches
  <2>2. GuardStep(p)
    BY <1>1, <1>2, <2>1, GuardUntouched DEF Then
  <2>3. dir'["lock"].owner \in {dir["lock"].owner, NoToken}
    BY <1>1, <1>3, <1>4, AcquireAt, DirectoryFacts
  <2>4. \A q \in Procs : q # p => ~owns[q]
    BY <2>1 DEF LockInv
  <2>5. TakenOver(p)' /\ GivenBack(p)' /\ ~Gone(p)'
    BY <1>2, <1>4 DEF TakenOver, GivenBack, Gone, Then
  <2> QED BY <2>1, <2>2, <2>3, <2>4, <2>5, LockOwn
<1>5. CASE stage[p] # "lock"
  <2>1. /\ Makes(p) /\ Busy(p) /\ Makes(p)' /\ ~owns'[p] /\ dir'["lock"] = dir["lock"] /\ p \in alive'
        /\ dir'["guard"] = IF dir["guard"].there THEN dir["guard"] ELSE Fresh
    BY <1>1, <1>2, <1>3, <1>5, AcquireAt, StageFacts DEF Makes, Enters, Then
  <2>2. GuardIs(p)' \/ Left(p)
    BY <2>1, DirectoryFacts DEF GuardInv, GuardIs, GuardOf
  <2>3. GuardStep(p)
    BY <1>1, <1>2, <1>5, <2>1, <2>2, GuardOwn, AcquireAt DEF Then
  <2>4. LockStep(p)
    BY <1>1, <1>2, <1>5, <2>1, AcquireAt, LockUntouched DEF Then, Gone
  <2> QED BY <2>3, <2>4
<1> QED BY <1>4, <1>5

LEMMA WriteMoves == ASSUME IInv, NEW p \in Procs, WriteTemporary(p) PROVE Moves(p)
<1>1. At(p, AcquireStages, "write") /\ UNCHANGED <<attempt, expected, moved, owns, alive>>
  BY DEF WriteTemporary
<1>2. PICK s \in {"rename", "clean"} : Goto(p, s)
  BY DEF WriteTemporary
<1>3. Typed' /\ Others(p) /\ Then(p, stage[p], s)
  BY <1>1, <1>2, AtFacts, GotoDoes, StageFacts
<1>4. UNCHANGED dir \/ \E d \in Directories : Sound(d) /\ SetHere(p, d)
  <2>1. CASE Here(p).there
    <3>1. SetHere(p, [Here(p) EXCEPT !.tmps = @ \cup {p}])
      BY <2>1 DEF WriteTemporary
    <3>2. [Here(p) EXCEPT !.tmps = @ \cup {p}] \in Directories /\ Sound([Here(p) EXCEPT !.tmps = @ \cup {p}])
      BY <1>1, <2>1, AcquireAt DEF Directories, Sound
    <3> QED BY <3>1, <3>2
  <2>2. CASE ~Here(p).there
    BY <2>2 DEF WriteTemporary
  <2> QED BY <2>1, <2>2
<1>5. Begun(p)' /\ ~Takes(p)'
  BY <1>3 DEF Begun, Takes, Then
<1> QED BY <1>1, <1>3, <1>4, <1>5, StepTypes DEF Moves

LEMMA WriteSafe ==
    ASSUME IInv, GuardInv, LockInv, Pair', NEW p \in Procs, WriteTemporary(p)
    PROVE  GuardStep(p) /\ LockStep(p)
<1>1. At(p, AcquireStages, "write") /\ Moves(p) /\ UNCHANGED <<attempt, expected, moved, owns, alive>>
  BY WriteMoves DEF WriteTemporary
<1>2. PICK s \in {"rename", "clean"} : Goto(p, s)
  BY DEF WriteTemporary
<1>3. Then(p, stage[p], s)
  BY <1>1, <1>2, AtFacts, GotoDoes, StageFacts
<1>4. /\ dir'[Name(stage[p])].owner = Here(p).owner /\ dir'[Name(stage[p])].there = Here(p).there
      /\ \A n \in Names : n # Name(stage[p]) => dir'[n] = dir[n]
  <2>1. CASE ~Here(p).there
    BY <2>1 DEF WriteTemporary, Here
  <2>2. CASE Here(p).there
    <3>1. PICK d : d = [Here(p) EXCEPT !.tmps = @ \cup {p}]
      OBVIOUS
    <3>2. d \in Directories /\ d.owner = Here(p).owner /\ d.there = Here(p).there
      BY <1>1, <3>1, AcquireAt DEF Directories
    <3>3. SetHere(p, d)
      BY <2>2, <3>1 DEF WriteTemporary
    <3> QED BY <1>1, <3>2, <3>3, AcquireAt, SetHereDoes
  <2> QED BY <2>1, <2>2
<1>5. CASE stage[p] = "lock"
  <2>1. InLock(p) /\ ~owns'[p] /\ Touches(p) /\ dir'["guard"] = dir["guard"] /\ p \in alive'
    BY <1>1, <1>4, <1>5, AcquireAt, StageFacts DEF Touches
  <2>2. GuardStep(p)
    BY <1>1, <1>3, <2>1, GuardUntouched DEF Then
  <2>3. dir'["lock"].owner = dir["lock"].owner
    BY <1>1, <1>4, <1>5, AcquireAt
  <2>4. \A q \in Procs : q # p => ~owns[q]
    BY <2>1 DEF LockInv
  <2>5. TakenOver(p)' /\ GivenBack(p)' /\ ~Gone(p)'
    BY <1>3, <1>5 DEF TakenOver, GivenBack, Gone, Then
  <2> QED BY <2>1, <2>2, <2>3, <2>4, <2>5, LockOwn
<1>6. CASE stage[p] # "lock"
  <2>1. /\ Makes(p) /\ Busy(p) /\ Makes(p)' /\ ~owns'[p] /\ dir'["lock"] = dir["lock"] /\ p \in alive'
        /\ dir'["guard"].owner = dir["guard"].owner /\ dir'["guard"].there = dir["guard"].there
    BY <1>1, <1>3, <1>4, <1>6, AcquireAt, StageFacts DEF Makes, Enters, Then
  <2>2. GuardIs(p)' \/ Left(p)
    BY <2>1 DEF GuardInv, GuardIs, GuardOf
  <2>3. GuardStep(p)
    BY <1>1, <1>3, <1>6, <2>1, <2>2, GuardOwn, AcquireAt DEF Then
  <2>4. LockStep(p)
    BY <1>1, <1>3, <1>6, <2>1, AcquireAt, LockUntouched DEF Then, Gone
  <2> QED BY <2>3, <2>4
<1> QED BY <1>5, <1>6

(* The directory with owner.json renamed into place. *)
Named(p) == [Here(p) EXCEPT !.tmps = @ \ {p}, !.owner = Token(p)]

LEMMA NamedDirectory ==
    ASSUME NEW p, Here(p) \in Directories, Token(p) \in Tokens
    PROVE  /\ Named(p) \in Directories /\ Named(p).owner = Token(p)
           /\ Named(p).there = Here(p).there
<1>1. PICK h \in Directories, t \in Tokens : h = Here(p) /\ t = Token(p)
  OBVIOUS
<1>2. Named(p) = [h EXCEPT !.tmps = @ \ {p}, !.owner = t]
  BY <1>1 DEF Named
<1>3. h.tmps \ {p} \in SUBSET Procs
  BY DEF Directories
<1> QED BY <1>1, <1>2, <1>3 DEF Directories

LEMMA RenameMoves == ASSUME IInv, NEW p \in Procs, RenameOwner(p) PROVE Moves(p)
<1>1. At(p, AcquireStages, "rename") /\ UNCHANGED <<moved, alive>>
  BY DEF RenameOwner
<1>2. CASE p \in Here(p).tmps
  <2>1. SetHere(p, [Here(p) EXCEPT !.tmps = @ \ {p}, !.owner = Token(p)]) /\ Acquired(p)
    BY <1>2 DEF RenameOwner
  <2>2. Here(p).there
    BY <1>1, <1>2, AcquireAt, DirectoryFacts DEF Sound
  <2>3. Named(p) \in Directories /\ Sound(Named(p)) /\ SetHere(p, Named(p))
    BY <1>1, <2>1, <2>2, AtFacts, NamedDirectory DEF Sound, Named
  <2>5. Typed' /\ Others(p) /\ Begun(p)' /\ ~Takes(p)'
    BY <1>1, <2>1, AcquireAt, AcquiredDoes, StageFacts DEF Begun, Takes, Then
  <2> QED BY <1>1, <2>3, <2>5, StepTypes DEF Moves
<1>3. CASE p \notin Here(p).tmps
  <2>1. Goto(p, "clean") /\ UNCHANGED <<dir, attempt, expected, owns>>
    BY <1>3 DEF RenameOwner
  <2>2. Typed' /\ Others(p) /\ Begun(p)' /\ ~Takes(p)'
    BY <1>1, <2>1, AcquireAt, GotoDoes, StageFacts DEF Begun, Takes, Then
  <2> QED BY <1>1, <2>1, <2>2, StepTypes DEF Moves
<1> QED BY <1>2, <1>3

LEMMA RenameSafe ==
    ASSUME IInv, GuardInv, LockInv, Pair', NEW p \in Procs, RenameOwner(p)
    PROVE  GuardStep(p) /\ LockStep(p)
<1>1. At(p, AcquireStages, "rename") /\ Moves(p) /\ UNCHANGED <<moved, alive>>
  BY RenameMoves DEF RenameOwner
<1>2. /\ p \in alive /\ p \in alive' /\ stage[p] \in {"guard", "lock", "reguard"} /\ step[p] = "rename"
      /\ Typed /\ ~owns[p]
  BY <1>1, AcquireAt
<1>3. CASE p \in Here(p).tmps
  <2>1. Here(p).there
    BY <1>1, <1>3, AcquireAt, DirectoryFacts DEF Sound
  <2>2. PICK d \in Directories : d = Named(p) /\ d.owner = Token(p) /\ d.there
    BY <1>1, <2>1, AtFacts, NamedDirectory
  <2>3. d.owner = Token(p) /\ d.there
    BY <2>2
  <2>4. SetHere(p, d) /\ Acquired(p)
    BY <1>3, <2>2 DEF RenameOwner, Named
  <2>5. dir'[Name(stage[p])] = d /\ \A n \in Names : n # Name(stage[p]) => dir'[n] = dir[n]
    BY <1>1, <2>3, <2>4, AcquireAt, SetHereDoes
  <2>6. /\ stage[p] = "guard" => Then(p, "lock", "mkdir") /\ owns'[p] = owns[p]
        /\ stage[p] = "lock" => Then(p, "unguard", "read") /\ owns'[p]
        /\ stage[p] = "reguard" => Then(p, "unlock", "read") /\ owns'[p] = owns[p]
    BY <1>2, <2>4, AcquiredDoes, StageFacts
  <2>7. CASE stage[p] = "lock"
    <3>1. InLock(p) /\ Touches(p) /\ dir'["guard"] = dir["guard"] /\ dir'["lock"] = d
      BY <1>1, <1>2, <2>5, <2>7, AcquireAt, StageFacts DEF Touches
    <3>2. GuardStep(p)
      BY <1>1, <1>2, <2>6, <2>7, <3>1, GuardUntouched
    <3>3. dir'["lock"].owner = LockOf(p)
      BY <2>3, <2>7, <3>1, TokenIs DEF LockOf
    <3>4. \A q \in Procs : q # p => ~owns[q]
      BY <3>1 DEF LockInv
    <3>5. Owned(p)' /\ TakenOver(p)' /\ GivenBack(p)' /\ ~Gone(p)'
      BY <1>2, <2>6, <2>7, <3>3 DEF Owned, TakenOver, GivenBack, Gone, Then, LockOf
    <3> QED BY <3>1, <3>2, <3>3, <3>4, <3>5, LockOwn
  <2>8. CASE stage[p] # "lock"
    <3>1. Busy(p) /\ dir'["lock"] = dir["lock"] /\ dir'["guard"] = d
      BY <1>1, <2>5, <2>8, AcquireAt, StageFacts
    <3>2. GuardIs(p)'
      BY <1>2, <2>3, <2>6, <2>8, <3>1, TokenIs DEF GuardIs, GuardOf, Makes, Enters, Then
    <3>3. GuardStep(p)
      BY <1>2, <2>6, <2>8, <3>1, <3>2, GuardOwn DEF Then
    <3>4. LockStep(p)
      BY <1>2, <2>6, <2>8, <3>1, LockUntouched DEF Then, Gone
    <3> QED BY <3>3, <3>4
  <2> QED BY <2>7, <2>8
<1>4. CASE p \notin Here(p).tmps
  <2>1. Goto(p, "clean") /\ UNCHANGED <<dir, attempt, expected, owns>>
    BY <1>4 DEF RenameOwner
  <2>2. Then(p, stage[p], "clean") /\ owns'[p] = owns[p]
    BY <1>2, <2>1, GotoDoes, StageFacts
  <2>3. CASE stage[p] = "lock"
    <3>1. InLock(p) /\ Touches(p)
      BY <1>1, <1>2, <2>3, AcquireAt DEF Touches
    <3>2. GuardStep(p)
      BY <1>1, <1>2, <2>1, <2>2, <3>1, GuardUntouched DEF Then
    <3>3. \A q \in Procs : q # p => ~owns[q]
      BY <3>1 DEF LockInv
    <3>4. TakenOver(p)' /\ GivenBack(p)' /\ ~Gone(p)'
      BY <2>2, <2>3 DEF TakenOver, GivenBack, Gone, Then
    <3> QED BY <1>2, <2>1, <2>2, <3>1, <3>2, <3>3, <3>4, LockOwn
  <2>4. CASE stage[p] # "lock"
    <3>1. Makes(p) /\ Busy(p) /\ Makes(p)'
      BY <1>1, <1>2, <2>2, <2>4, AcquireAt DEF Makes, Enters, Then
    <3>2. GuardIs(p)' \/ Left(p)
      BY <2>1, <3>1 DEF GuardInv, GuardIs, GuardOf
    <3>3. GuardStep(p)
      BY <1>2, <2>2, <2>4, <3>1, <3>2, GuardOwn DEF Then
    <3>4. LockStep(p)
      BY <1>2, <2>1, <2>2, <2>4, LockUntouched DEF Then, Gone
    <3> QED BY <3>3, <3>4
  <2> QED BY <2>3, <2>4
<1> QED BY <1>3, <1>4

LEMMA CleanMoves == ASSUME IInv, NEW p \in Procs, Clean(p) PROVE Moves(p)
<1>1. At(p, AcquireStages, "clean") /\ SetHere(p, Absent) /\ NotAcquired(p) /\ UNCHANGED <<moved, alive>>
  BY DEF Clean
<1>2. Typed' /\ Others(p) /\ Begun(p)' /\ ~Takes(p)'
  BY <1>1, AcquireAt, NotAcquiredDoes, StageFacts DEF Begun, Takes, Then
<1> QED BY <1>1, <1>2, StepTypes, DirectoryFacts DEF Moves

LEMMA CleanSafe ==
    ASSUME IInv, GuardInv, LockInv, Pair', NEW p \in Procs, Clean(p) PROVE GuardStep(p) /\ LockStep(p)
<1>1. /\ At(p, AcquireStages, "clean") /\ SetHere(p, Absent) /\ NotAcquired(p) /\ Moves(p)
      /\ UNCHANGED <<moved, alive>>
  BY CleanMoves DEF Clean
<1>2. /\ p \in alive /\ p \in alive' /\ stage[p] \in {"guard", "lock", "reguard"} /\ step[p] = "clean"
      /\ Typed /\ ~owns[p]
  BY <1>1, AcquireAt
<1>3. /\ owns'[p] = owns[p]
      /\ stage[p] = "lock" => Then(p, "unguard", "read")
      /\ stage[p] # "lock" => Then(p, "failed", "rest")
  BY <1>1, <1>2, NotAcquiredDoes
<1>4. dir'[Name(stage[p])] = Absent /\ \A n \in Names : n # Name(stage[p]) => dir'[n] = dir[n]
  BY <1>1, AcquireAt, SetHereDoes, DirectoryFacts
<1>5. CASE stage[p] = "lock"
  <2>1. InLock(p) /\ Touches(p) /\ dir'["guard"] = dir["guard"] /\ dir'["lock"].owner = NoToken
    BY <1>1, <1>2, <1>4, <1>5, AcquireAt, StageFacts, DirectoryFacts DEF Touches
  <2>2. GuardStep(p)
    BY <1>1, <1>2, <1>3, <1>5, <2>1, GuardUntouched
  <2>3. \A q \in Procs : q # p => ~owns[q]
    BY <2>1 DEF LockInv
  <2>4. TakenOver(p)' /\ GivenBack(p)' /\ ~Gone(p)'
    BY <1>3, <1>5 DEF TakenOver, GivenBack, Gone, Then
  <2> QED BY <1>2, <1>3, <2>1, <2>2, <2>3, <2>4, LockOwn
<1>6. CASE stage[p] # "lock"
  <2>1. Busy(p) /\ dir'["lock"] = dir["lock"] /\ ~Busy(p)'
    BY <1>1, <1>3, <1>4, <1>6, AcquireAt, StageFacts DEF Busy, Makes, Guards, Enters, Then
  <2>2. GuardStep(p)
    BY <1>3, <1>6, <2>1, GuardOwn DEF Then
  <2>3. LockStep(p)
    BY <1>2, <1>3, <1>6, <2>1, LockUntouched DEF Then, Gone
  <2> QED BY <2>2, <2>3
<1> QED BY <1>5, <1>6

LEMMA ReadOwnerMoves == ASSUME IInv, NEW p \in Procs, ReadOwner(p) PROVE Moves(p)
<1>1. At(p, AcquireStages, "read") /\ UNCHANGED <<dir, moved, alive>>
  BY DEF ReadOwner
<1>2. CASE NotAcquired(p)
  <2>1. Typed' /\ Others(p) /\ Begun(p)' /\ ~Takes(p)'
    BY <1>1, <1>2, AcquireAt, NotAcquiredDoes, StageFacts DEF Begun, Takes, Then
  <2> QED BY <1>1, <2>1, StepTypes DEF Moves
<1>3. CASE ~NotAcquired(p)
  <2>1. PICK c : c = Here(p).owner
    OBVIOUS
  <2>2. /\ c # NoToken /\ c[1] \notin alive /\ expected' = [expected EXCEPT ![p] = c]
        /\ step' = [step EXCEPT ![p] = "move"] /\ UNCHANGED <<stage, attempt, owns>>
    BY <1>3, <2>1 DEF ReadOwner, Goto
  <2>3. c \in Tokens
    BY <1>1, <2>1, AcquireAt DEF Directories
  <2>4. Typed' /\ Others(p) /\ Begun(p)' /\ expected'[p] = c
    BY <1>1, <2>2, <2>3, AcquireAt, StageFacts DEF Typed, Others, Begun
  <2> QED BY <1>1, <2>2, <2>4, StepTypes DEF Moves
<1> QED BY <1>2, <1>3

LEMMA ReadOwnerSafe ==
    ASSUME IInv, GuardInv, LockInv, Pair', NEW p \in Procs, ReadOwner(p)
    PROVE  GuardStep(p) /\ LockStep(p)
<1>1. At(p, AcquireStages, "read") /\ Moves(p) /\ UNCHANGED <<dir, moved, alive>>
  BY ReadOwnerMoves DEF ReadOwner
<1>2. /\ p \in alive /\ p \in alive' /\ stage[p] \in {"guard", "lock", "reguard"} /\ step[p] = "read"
      /\ Typed /\ ~owns[p]
  BY <1>1, AcquireAt
<1>3. stage[p] # "lock" => ~Busy(p) /\ ~GivesUp(p)
  BY <1>2 DEF Busy, Makes, Guards, Enters, GivesUp
<1>4. CASE NotAcquired(p)
  <2>1. /\ owns'[p] = owns[p]
        /\ stage[p] = "lock" => Then(p, "unguard", "read")
        /\ stage[p] # "lock" => Then(p, "failed", "rest")
    BY <1>2, <1>4, NotAcquiredDoes
  <2>2. LockStep(p)
    BY <1>1, <1>2, <2>1, LockUntouched DEF Then, Gone
  <2>3. CASE stage[p] = "lock"
    BY <1>1, <1>2, <2>1, <2>2, <2>3, GuardUntouched DEF InLock
  <2>4. CASE stage[p] # "lock"
    BY <1>1, <1>2, <1>3, <2>1, <2>2, <2>4 DEF GuardStep, Busy, Makes, Guards, Enters, Then
  <2> QED BY <2>3, <2>4
<1>5. CASE ~NotAcquired(p)
  <2>1. PICK c : c = Here(p).owner
    OBVIOUS
  <2>2. /\ c # NoToken /\ c[1] \notin alive /\ expected' = [expected EXCEPT ![p] = c]
        /\ step' = [step EXCEPT ![p] = "move"] /\ UNCHANGED <<stage, attempt, owns>>
    BY <1>5, <2>1 DEF ReadOwner, Goto
  <2>3. Then(p, stage[p], "move") /\ expected'[p] = c /\ owns'[p] = owns[p]
    BY <1>2, <2>2 DEF Typed, Then
  <2>4. CASE stage[p] = "lock"
    <3>1. GuardStep(p)
      BY <1>1, <1>2, <2>3, <2>4, GuardUntouched DEF InLock, Then
    <3>2. c = dir["lock"].owner
      BY <1>1, <2>1, <2>4, AcquireAt
    <3>3. ASSUME NEW q \in Procs, owns[q] PROVE FALSE
      <4>1. c = <<q, "lock">> /\ q \in alive
        BY <3>2, <3>3 DEF LockInv, Owned, LockOf
      <4> QED BY <2>2, <4>1
    <3>4. LockStep(p)
      BY <1>1, <1>2, <2>3, <2>4, <3>2, <3>3 DEF LockStep, TakenOver, GivenBack, Gone, Then
    <3> QED BY <3>1, <3>4
  <2>5. CASE stage[p] # "lock"
    <3>1. LockStep(p)
      BY <1>1, <1>2, <2>3, <2>5, LockUntouched DEF Then, Gone
    <3> QED BY <1>1, <1>2, <1>3, <2>3, <2>5, <3>1 DEF GuardStep, Busy, Makes, Guards, Enters, Then
  <2> QED BY <2>4, <2>5
<1> QED BY <1>4, <1>5

LEMMA RetryMoves ==
    ASSUME IInv, NEW p \in Procs, NEW s, At(p, AcquireStages, s), Retry(p), UNCHANGED <<dir, alive>>,
           UNCHANGED moved \/ moved' = [moved EXCEPT ![p] = Absent]
    PROVE  Moves(p)
<1>1. Typed' /\ Others(p) /\ Begun(p)' /\ ~Takes(p)'
  BY AcquireAt, RetryDoes, StageFacts DEF Begun, Takes, Then
<1> QED BY <1>1, StepTypes, DirectoryFacts DEF Moves

LEMMA RetrySafe ==
    ASSUME IInv, GuardInv, LockInv, NEW p \in Procs, NEW s \in {"move", "discard"},
           At(p, AcquireStages, s), Moves(p), Retry(p), UNCHANGED <<dir, alive>>
    PROVE  GuardStep(p) /\ LockStep(p)
<1>1. /\ p \in alive /\ p \in alive' /\ stage[p] \in {"guard", "lock", "reguard"} /\ step[p] = s
      /\ Typed /\ ~owns[p]
  BY AcquireAt
<1>2. /\ owns'[p] = owns[p]
      /\ \/ Then(p, stage[p], "mkdir")
         \/ stage[p] = "lock" /\ Then(p, "unguard", "read")
         \/ stage[p] # "lock" /\ Then(p, "failed", "rest")
  BY <1>1, RetryDoes
<1>3. LockStep(p)
  BY <1>1, <1>2, LockUntouched DEF Then, Gone
<1>4. CASE stage[p] = "lock"
  BY <1>1, <1>2, <1>3, <1>4, GuardUntouched DEF InLock, Then
<1>5. CASE stage[p] # "lock"
  <2>1. ~Busy(p)' /\ ~GivesUp(p) /\ stage'[p] \notin {"unguard", "reunguard"}
    BY <1>1, <1>2, <1>5 DEF Busy, Makes, Guards, Enters, GivesUp, Then
  <2> QED BY <1>3, <2>1 DEF GuardStep
<1> QED BY <1>4, <1>5

LEMMA MoveStaleMoves == ASSUME IInv, NEW p \in Procs, MoveStale(p) PROVE Moves(p)
<1>1. At(p, AcquireStages, "move") /\ UNCHANGED alive
  BY DEF MoveStale
<1>2. CASE Here(p).there
  <2>1. /\ moved' = [moved EXCEPT ![p] = Here(p)] /\ SetHere(p, Absent) /\ Goto(p, "check")
        /\ UNCHANGED <<attempt, expected, owns>>
    BY <1>2 DEF MoveStale
  <2>2. Typed' /\ Others(p) /\ Then(p, stage[p], "check") /\ expected'[p] = expected[p]
    BY <1>1, <2>1, AcquireAt, GotoDoes, StageFacts
  <2>3. Takes(p) /\ Begun(p)'
    BY <1>1, <2>2, AcquireAt, StageFacts DEF Takes, Begun, Then
  <2>4. expected'[p] # NoToken /\ expected'[p][1] \notin alive
    BY <2>2, <2>3 DEF IInv, ExpectInv
  <2> QED BY <1>1, <2>1, <2>2, <2>3, <2>4, AcquireAt, StepTypes, DirectoryFacts DEF Moves
<1>3. CASE ~Here(p).there
  BY <1>1, <1>3, RetryMoves DEF MoveStale
<1> QED BY <1>2, <1>3

LEMMA MoveStaleSafe ==
    ASSUME IInv, GuardInv, LockInv, Pair', NEW p \in Procs, MoveStale(p)
    PROVE  GuardStep(p) /\ LockStep(p)
<1>1. At(p, AcquireStages, "move") /\ Moves(p) /\ UNCHANGED alive
  BY MoveStaleMoves DEF MoveStale
<1>2. /\ p \in alive /\ p \in alive' /\ stage[p] \in {"guard", "lock", "reguard"} /\ step[p] = "move"
      /\ Typed /\ TypeOK /\ ~owns[p]
  BY <1>1, AcquireAt
<1>3. CASE ~Here(p).there
  BY <1>1, <1>3, RetrySafe DEF MoveStale
<1>4. CASE Here(p).there
  <2>1. /\ moved' = [moved EXCEPT ![p] = Here(p)] /\ SetHere(p, Absent) /\ Goto(p, "check")
        /\ UNCHANGED <<attempt, expected, owns>>
    BY <1>4 DEF MoveStale
  <2>2. /\ Then(p, stage[p], "check") /\ expected'[p] = expected[p] /\ moved'[p] = Here(p)
        /\ owns'[p] = owns[p]
    BY <1>2, <2>1, GotoDoes, StageFacts DEF TypeOK
  <2>3. dir'[Name(stage[p])] = Absent /\ \A n \in Names : n # Name(stage[p]) => dir'[n] = dir[n]
    BY <1>2, <2>1, SetHereDoes, DirectoryFacts
  <2>4. CASE stage[p] = "lock"
    <3>1. /\ InLock(p) /\ Touches(p) /\ dir'["guard"] = dir["guard"] /\ dir'["lock"].owner = NoToken
          /\ Here(p) = dir["lock"]
      BY <1>1, <1>2, <2>3, <2>4, AcquireAt, StageFacts, DirectoryFacts DEF Touches
    <3>2. GuardStep(p)
      BY <1>1, <1>2, <2>2, <2>4, <3>1, GuardUntouched DEF Then
    <3>3. \A q \in Procs : q # p => ~owns[q]
      BY <3>1 DEF LockInv
    <3>4. dir["lock"].owner = expected[p]
      BY <1>2, <2>4 DEF LockInv, TakenOver
    <3>5. TakenOver(p)' /\ GivenBack(p)' /\ ~Gone(p)'
      BY <2>2, <2>4, <3>1, <3>4 DEF TakenOver, GivenBack, Gone, Then
    <3> QED BY <1>2, <2>2, <3>1, <3>2, <3>3, <3>5, LockOwn
  <2>5. CASE stage[p] # "lock"
    <3>1. dir'["lock"] = dir["lock"] /\ Here(p) = dir["guard"] /\ Enters(p)
      BY <1>1, <1>2, <2>3, <2>5, AcquireAt, StageFacts
    <3>2. LockStep(p)
      BY <1>2, <2>2, <2>5, <3>1, LockUntouched DEF Then, Gone
    <3>3. ~Busy(p)' /\ ~GivesUp(p)
      BY <1>2, <2>2, <2>5, <3>1 DEF Busy, Makes, Guards, Enters, GivesUp, Then
    <3>4. Takes(p)
      BY <1>1, <1>2, StageFacts DEF Takes
    <3>5. ASSUME NEW q \in Procs, q # p, Busy(q) PROVE GivesUp(p)'
      <4>1. GuardIs(q) /\ q \in alive
        BY <1>1, <3>3, <3>5, Found DEF Busy, Makes, Guards
      <4>2. dir["guard"].owner = NoToken \/ dir["guard"].owner[1] = q
        BY <4>1 DEF GuardIs, GuardOf
      <4>3. moved'[p].owner # expected'[p]
        BY <2>2, <3>1, <3>4, <4>1, <4>2 DEF IInv, ExpectInv
      <4> QED BY <1>1, <2>2, <3>1, <4>3 DEF GivesUp, Moves, Enters, Then
    <3> QED BY <2>2, <2>5, <3>1, <3>2, <3>3, <3>5 DEF GuardStep, Enters, Then
  <2> QED BY <2>4, <2>5
<1> QED BY <1>3, <1>4

LEMMA CheckStaleMoves == ASSUME IInv, NEW p \in Procs, CheckStale(p) PROVE Moves(p)
<1>1. At(p, AcquireStages, "check") /\ UNCHANGED <<attempt, expected, moved, dir, owns, alive>>
  BY DEF CheckStale
<1>2. PICK s \in {"discard", "restore"} : Goto(p, s)
  BY DEF CheckStale
<1>3. Typed' /\ Others(p) /\ Then(p, stage[p], s) /\ expected'[p] = expected[p]
  BY <1>1, <1>2, AcquireAt, GotoDoes, StageFacts
<1>4. Takes(p) /\ Begun(p)'
  BY <1>1, <1>3, AcquireAt, StageFacts DEF Takes, Begun, Then
<1>5. expected'[p] # NoToken /\ expected'[p][1] \notin alive
  BY <1>3, <1>4 DEF IInv, ExpectInv
<1> QED BY <1>1, <1>3, <1>4, <1>5, StepTypes DEF Moves

LEMMA CheckStaleSafe ==
    ASSUME IInv, GuardInv, LockInv, Pair', NEW p \in Procs, CheckStale(p)
    PROVE  GuardStep(p) /\ LockStep(p)
<1>1. /\ At(p, AcquireStages, "check") /\ Moves(p)
      /\ UNCHANGED <<attempt, expected, moved, dir, owns, alive>>
  BY CheckStaleMoves DEF CheckStale
<1>2. /\ p \in alive /\ p \in alive' /\ stage[p] \in {"guard", "lock", "reguard"} /\ step[p] = "check"
      /\ Typed /\ ~owns[p]
  BY <1>1, AcquireAt
<1>3. PICK s \in {"discard", "restore"} :
         Goto(p, s) /\ s = IF moved[p].owner = expected[p] THEN "discard" ELSE "restore"
  BY DEF CheckStale
<1>4. Then(p, stage[p], s) /\ owns'[p] = owns[p]
  BY <1>1, <1>2, <1>3, GotoDoes, StageFacts
<1>5. CASE stage[p] = "lock"
  <2>1. InLock(p) /\ Touches(p)
    BY <1>1, <1>2, <1>5, AcquireAt DEF Touches
  <2>2. GuardStep(p)
    BY <1>1, <1>2, <1>4, <1>5, <2>1, GuardUntouched DEF Then
  <2>3. \A q \in Procs : q # p => ~owns[q]
    BY <2>1 DEF LockInv
  <2>4. s = "discard"
    BY <1>2, <1>3, <1>5 DEF LockInv, TakenOver
  <2>5. TakenOver(p)' /\ GivenBack(p)' /\ ~Gone(p)'
    BY <1>4, <1>5, <2>4 DEF TakenOver, GivenBack, Gone, Then
  <2> QED BY <1>1, <1>2, <1>4, <2>1, <2>2, <2>3, <2>5, LockOwn
<1>6. CASE stage[p] # "lock"
  <2>1. LockStep(p)
    BY <1>1, <1>2, <1>4, <1>6, LockUntouched DEF Then, Gone
  <2>2. ~Busy(p)' /\ Enters(p)
    BY <1>2, <1>4, <1>6 DEF Busy, Makes, Guards, Enters, Then
  <2>3. GivesUp(p) => GivesUp(p)'
    <3>1. GivesUp(p) => s = "restore"
      BY <1>2, <1>3, <2>2 DEF GivesUp, Enters
    <3> QED BY <1>1, <1>4, <2>2, <3>1 DEF GivesUp, Moves, Enters, Then
  <2> QED BY <1>1, <1>4, <1>6, <2>1, <2>2, <2>3 DEF GuardStep, Enters, Then
<1> QED BY <1>5, <1>6

LEMMA PutBackDoes ==
    ASSUME IInv, NEW p \in Procs, PutBack(p)
    PROVE  /\ UNCHANGED dir \/ \E d \in Directories : Sound(d) /\ SetHere(p, d)
           /\ UNCHANGED dir \/ (Here(p).owner = NoToken /\ SetHere(p, moved[p]))
           /\ moved' = [moved EXCEPT ![p] = Absent]
           /\ \A n \in Names : n # Name(stage[p]) => dir'[n] = dir[n]
<1>1. moved[p] \in Directories /\ Sound(moved[p]) /\ TypeOK
  BY DEF IInv, TypeOK, SoundInv
<1>2. Sound(Here(p))
  BY <1>1, StageFacts DEF Here, IInv, SoundInv, TypeOK
<1>3. UNCHANGED dir \/ SetHere(p, moved[p])
  BY DEF PutBack
<1>4. UNCHANGED dir \/ Here(p).owner = NoToken
  BY <1>2, DirectoryFacts DEF PutBack, Sound
<1> QED BY <1>1, <1>3, <1>4, SetHereDoes DEF PutBack

LEMMA RestoreStaleMoves == ASSUME IInv, NEW p \in Procs, RestoreStale(p) PROVE Moves(p)
<1>1. At(p, AcquireStages, "restore") /\ PutBack(p) /\ NotAcquired(p) /\ UNCHANGED alive
  BY DEF RestoreStale
<1>2. Typed' /\ Others(p) /\ Begun(p)' /\ ~Takes(p)'
  BY <1>1, AcquireAt, NotAcquiredDoes, StageFacts DEF Begun, Takes, Then
<1> QED BY <1>1, <1>2, PutBackDoes, StepTypes, DirectoryFacts DEF Moves

LEMMA RestoreStaleSafe ==
    ASSUME IInv, GuardInv, LockInv, Pair', NEW p \in Procs, RestoreStale(p)
    PROVE  GuardStep(p) /\ LockStep(p)
<1>1. /\ At(p, AcquireStages, "restore") /\ PutBack(p) /\ NotAcquired(p) /\ UNCHANGED alive
      /\ Moves(p)
  BY RestoreStaleMoves DEF RestoreStale
<1>2. /\ p \in alive /\ p \in alive' /\ stage[p] \in {"guard", "lock", "reguard"} /\ step[p] = "restore"
      /\ Typed /\ ~owns[p]
  BY <1>1, AcquireAt
<1>3. stage[p] # "lock"
  BY <1>2 DEF LockInv, TakenOver
<1>4. Then(p, "failed", "rest") /\ owns'[p] = owns[p]
  BY <1>1, <1>2, <1>3, NotAcquiredDoes
<1>5. dir'["lock"] = dir["lock"]
  BY <1>1, <1>3, AcquireAt, PutBackDoes, StageFacts
<1>6. LockStep(p)
  BY <1>2, <1>4, <1>5, LockUntouched DEF Then, Gone
<1>7. GivesUp(p)' /\ ~Busy(p)'
  BY <1>1, <1>4 DEF GivesUp, Moves, Busy, Makes, Guards, Enters, Then
<1> QED BY <1>4, <1>6, <1>7 DEF GuardStep, Then

LEMMA DiscardStaleMoves == ASSUME IInv, NEW p \in Procs, DiscardStale(p) PROVE Moves(p)
  BY RetryMoves DEF DiscardStale

LEMMA DiscardStaleSafe ==
    ASSUME IInv, GuardInv, LockInv, Pair', NEW p \in Procs, DiscardStale(p)
    PROVE  GuardStep(p) /\ LockStep(p)
  BY DiscardStaleMoves, RetrySafe DEF DiscardStale

-----------------------------------------------------------------------------
(* releaseDirectory, release and a crash. *)

LEMMA ReleaseAt ==
    ASSUME IInv, NEW p \in Procs, NEW s, At(p, ReleaseStages, s)
    PROVE  /\ p \in alive /\ stage[p] \in {"unguard", "unlock", "reunguard"} /\ step[p] = s /\ Typed /\ TypeOK
           /\ stage[p] = "unlock" => Name(stage[p]) = "lock" /\ Here(p) = dir["lock"] /\ InLock(p) /\ Busy(p)
           /\ stage[p] # "unlock" => Name(stage[p]) = "guard" /\ Here(p) = dir["guard"]
           /\ Here(p) \in Directories /\ Sound(Here(p))
           /\ s \in {"read", "move"} => Busy(p)
           /\ ~GivesUp(p) /\ ~Makes(p)
           /\ LockInv => (owns[p] => stage[p] = "unguard")
<1>1. stage[p] \in {"unguard", "unlock", "reunguard"}
  BY AtFacts, StageFacts
<1>2. LockInv => (owns[p] => stage[p] = "unguard")
  BY <1>1 DEF LockInv, Owned
<1> QED BY <1>1, <1>2, AtFacts DEF InLock, Busy, Guards, Makes, Enters, GivesUp

LEMMA ReleasedMoves ==
    ASSUME IInv, NEW p \in Procs, NEW s, At(p, ReleaseStages, s), Released(p), UNCHANGED <<owns, alive>>,
           UNCHANGED dir \/ \E d \in Directories : Sound(d) /\ SetHere(p, d),
           UNCHANGED moved \/ moved' = [moved EXCEPT ![p] = Absent]
    PROVE  Moves(p)
<1>1. Typed' /\ Others(p) /\ Begun(p)' /\ ~Takes(p)'
  BY ReleaseAt, ReleasedDoes, StageFacts DEF Begun, Takes, Then
<1> QED BY <1>1, StepTypes, DirectoryFacts DEF Moves

LEMMA ReleasedSafe ==
    ASSUME IInv, GuardInv, LockInv, NEW p \in Procs, NEW s, At(p, ReleaseStages, s),
           Moves(p), Released(p), UNCHANGED <<owns, alive>>,
           \/ dir'["guard"] = dir["guard"]
           \/ stage[p] # "unlock" /\ \A q \in Procs : q # p => ~Busy(q),
           dir'["lock"] = dir["lock"],
           stage[p] = "unlock" => dir["lock"].owner # LockOf(p)
    PROVE  GuardStep(p) /\ LockStep(p)
<1>1. /\ p \in alive /\ p \in alive' /\ stage[p] \in {"unguard", "unlock", "reunguard"} /\ step[p] = s
      /\ Typed /\ ~GivesUp(p) /\ (owns[p] => stage[p] = "unguard")
  BY ReleaseAt
<1>2. /\ owns'[p] = owns[p]
      /\ stage[p] = "unlock" => Then(p, "reunguard", "read")
      /\ stage[p] = "reunguard" => Then(p, "done", "rest")
      /\ stage[p] = "unguard" => Then(p, IF owns[p] THEN "held" ELSE "failed", "rest")
  BY <1>1, ReleasedDoes, StageFacts
<1>3. CASE stage[p] = "unlock"
  <2>1. GuardStep(p)
    BY <1>1, <1>2, <1>3, GuardUntouched DEF InLock
  <2>2. LockStep(p)
    BY <1>1, <1>2, <1>3 DEF LockStep, Touches, TakenOver, GivenBack, Then
  <2> QED BY <2>1, <2>2
<1>4. CASE stage[p] # "unlock"
  <2>1. LockStep(p)
    BY <1>1, <1>2, <1>4, LockUntouched DEF Then, Gone
  <2>2. ~Busy(p)'
    BY <1>1, <1>2, <1>4 DEF Busy, Makes, Guards, Enters, Then
  <2> QED BY <1>1, <1>2, <1>4, <2>1, <2>2 DEF GuardStep, Then
<1> QED BY <1>3, <1>4

LEMMA ReadOwnMoves == ASSUME IInv, NEW p \in Procs, ReadOwn(p) PROVE Moves(p)
<1>1. At(p, ReleaseStages, "read") /\ UNCHANGED <<moved, dir, owns, alive>>
  BY DEF ReadOwn
<1>2. CASE Here(p).owner = Token(p)
  <2>1. Goto(p, "move") /\ UNCHANGED <<attempt, expected>>
    BY <1>2 DEF ReadOwn
  <2>2. Typed' /\ Others(p) /\ Begun(p)' /\ ~Takes(p)'
    BY <1>1, <2>1, ReleaseAt, GotoDoes, StageFacts DEF Begun, Takes, Then
  <2> QED BY <1>1, <2>2, StepTypes DEF Moves
<1>3. CASE Here(p).owner # Token(p)
  BY <1>1, <1>3, ReleasedMoves DEF ReadOwn
<1> QED BY <1>2, <1>3

LEMMA ReadOwnSafe ==
    ASSUME IInv, GuardInv, LockInv, Pair', NEW p \in Procs, ReadOwn(p) PROVE GuardStep(p) /\ LockStep(p)
<1>1. At(p, ReleaseStages, "read") /\ Moves(p) /\ UNCHANGED <<moved, dir, owns, alive>>
  BY ReadOwnMoves DEF ReadOwn
<1>2. /\ p \in alive /\ p \in alive' /\ stage[p] \in {"unguard", "unlock", "reunguard"} /\ step[p] = "read"
      /\ Typed /\ Busy(p) /\ (owns[p] => stage[p] = "unguard")
  BY <1>1, ReleaseAt
<1>3. CASE Here(p).owner = Token(p)
  <2>1. Goto(p, "move") /\ UNCHANGED <<attempt, expected>>
    BY <1>3 DEF ReadOwn
  <2>2. Then(p, stage[p], "move") /\ owns'[p] = owns[p]
    BY <1>1, <1>2, <2>1, GotoDoes, StageFacts
  <2>3. CASE stage[p] = "unlock"
    <3>1. dir["lock"].owner = LockOf(p)
      BY <1>1, <1>3, <2>3, ReleaseAt, TokenIs DEF LockOf
    <3>2. LockStep(p)
      BY <1>1, <1>2, <2>2, <2>3, <3>1 DEF LockStep, Touches, TakenOver, GivenBack, Gone, Then, LockOf
    <3> QED BY <1>1, <1>2, <2>2, <2>3, <3>2, GuardUntouched DEF InLock, Then
  <2>4. CASE stage[p] # "unlock"
    <3>1. LockStep(p)
      BY <1>1, <1>2, <2>2, <2>4, LockUntouched DEF Then, Gone
    <3>2. GuardOf(p)' = GuardOf(p)
      BY <1>2, <2>2, <2>4 DEF GuardOf, Makes, Enters, Then
    <3>3. GuardIs(p)' \/ Left(p)
      BY <1>1, <1>2, <3>2 DEF GuardInv, GuardIs
    <3> QED BY <1>2, <2>2, <3>1, <3>3, GuardOwn DEF Then
  <2> QED BY <2>3, <2>4
<1>4. CASE Here(p).owner # Token(p)
  <2>1. stage[p] = "unlock" => dir["lock"].owner # LockOf(p)
    BY <1>1, <1>4, ReleaseAt, TokenIs DEF LockOf
  <2> QED BY <1>1, <1>4, <2>1, ReleasedSafe DEF ReadOwn
<1> QED BY <1>3, <1>4

LEMMA MoveOwnMoves == ASSUME IInv, NEW p \in Procs, MoveOwn(p) PROVE Moves(p)
<1>1. At(p, ReleaseStages, "move") /\ UNCHANGED <<owns, alive>>
  BY DEF MoveOwn
<1>2. CASE Here(p).there
  <2>1. /\ moved' = [moved EXCEPT ![p] = Here(p)] /\ SetHere(p, Absent) /\ Goto(p, "check")
        /\ UNCHANGED <<attempt, expected>>
    BY <1>2 DEF MoveOwn
  <2>2. Typed' /\ Others(p) /\ Begun(p)' /\ ~Takes(p)'
    BY <1>1, <2>1, ReleaseAt, GotoDoes, StageFacts DEF Begun, Takes, Then
  <2> QED BY <1>1, <2>1, <2>2, ReleaseAt, StepTypes, DirectoryFacts DEF Moves
<1>3. CASE ~Here(p).there
  BY <1>1, <1>3, ReleasedMoves DEF MoveOwn
<1> QED BY <1>2, <1>3

LEMMA MoveOwnSafe ==
    ASSUME IInv, GuardInv, LockInv, Pair', NEW p \in Procs, MoveOwn(p) PROVE GuardStep(p) /\ LockStep(p)
<1>1. At(p, ReleaseStages, "move") /\ Moves(p) /\ UNCHANGED <<owns, alive>>
  BY MoveOwnMoves DEF MoveOwn
<1>2. /\ p \in alive /\ p \in alive' /\ stage[p] \in {"unguard", "unlock", "reunguard"} /\ step[p] = "move"
      /\ Typed /\ TypeOK /\ Busy(p) /\ ~Makes(p) /\ (owns[p] => stage[p] = "unguard")
  BY <1>1, ReleaseAt
<1>3. CASE ~Here(p).there
  <2>1. stage[p] = "unlock" => dir["lock"].owner # LockOf(p)
    <3>1. Here(p).owner = NoToken
      BY <1>1, <1>3, ReleaseAt, DirectoryFacts DEF Sound
    <3>2. LockOf(p) # NoToken
      BY TokenFacts DEF LockOf
    <3> QED BY <1>1, <3>1, <3>2, ReleaseAt
  <2> QED BY <1>1, <1>3, <2>1, ReleasedSafe DEF MoveOwn
<1>4. CASE Here(p).there
  <2>1. /\ moved' = [moved EXCEPT ![p] = Here(p)] /\ SetHere(p, Absent) /\ Goto(p, "check")
        /\ UNCHANGED <<attempt, expected>>
    BY <1>4 DEF MoveOwn
  <2>2. Then(p, stage[p], "check") /\ moved'[p] = Here(p) /\ owns'[p] = owns[p]
    BY <1>1, <1>2, <2>1, GotoDoes, StageFacts DEF TypeOK
  <2>3. dir'[Name(stage[p])] = Absent /\ \A n \in Names : n # Name(stage[p]) => dir'[n] = dir[n]
    BY <1>2, <2>1, SetHereDoes, DirectoryFacts
  <2>4. CASE stage[p] = "unlock"
    <3>1. /\ InLock(p) /\ dir'["guard"] = dir["guard"] /\ dir'["lock"].owner = NoToken /\ Here(p) = dir["lock"]
      BY <1>1, <2>3, <2>4, ReleaseAt, StageFacts, DirectoryFacts
    <3>2. GuardStep(p)
      BY <1>1, <1>2, <2>2, <2>4, <3>1, GuardUntouched DEF Then
    <3>3. dir["lock"].owner = LockOf(p)
      BY <1>2, <2>4 DEF LockInv, GivenBack
    <3>4. \A q \in Procs : q # p => ~owns[q]
      BY <3>3, TokenFacts DEF LockInv, Owned, LockOf
    <3>5. TakenOver(p)' /\ GivenBack(p)' /\ LockOf(p) # NoToken
      BY <2>2, <2>4, <3>1, <3>3, TokenFacts DEF TakenOver, GivenBack, Then, LockOf
    <3> QED BY <1>2, <2>2, <2>4, <3>1, <3>2, <3>4, <3>5, LockOwn
  <2>5. CASE stage[p] # "unlock"
    <3>1. dir'["lock"] = dir["lock"] /\ Here(p) = dir["guard"]
      BY <1>1, <2>3, <2>5, ReleaseAt, StageFacts
    <3>2. LockStep(p)
      BY <1>2, <2>2, <2>5, <3>1, LockUntouched DEF Then, Gone
    <3>3. ~Busy(p)'
      BY <1>2, <2>2, <2>5 DEF Busy, Makes, Guards, Enters, Then
    <3>4. Token(p)' = GuardOf(p)
      BY <1>2, <2>2, <2>5 DEF Token, GuardOf, Then
    <3>5. moved'[p].owner = Token(p)' \/ Left(p)
      BY <1>2, <2>2, <3>1, <3>4 DEF GuardInv, GuardIs
    <3> QED BY <1>2, <2>2, <3>2, <3>3, <3>5, GuardOwn DEF Then
  <2> QED BY <2>4, <2>5
<1> QED BY <1>3, <1>4

LEMMA CheckOwnMoves == ASSUME IInv, NEW p \in Procs, CheckOwn(p) PROVE Moves(p)
<1>1. At(p, ReleaseStages, "check") /\ UNCHANGED <<attempt, expected, moved, dir, owns, alive>>
  BY DEF CheckOwn
<1>2. PICK s \in {"discard", "restore"} : Goto(p, s)
  BY DEF CheckOwn
<1>3. Typed' /\ Others(p) /\ Begun(p)' /\ ~Takes(p)'
  BY <1>1, <1>2, ReleaseAt, GotoDoes, StageFacts DEF Begun, Takes, Then
<1> QED BY <1>1, <1>3, StepTypes DEF Moves

LEMMA CheckOwnSafe ==
    ASSUME IInv, GuardInv, LockInv, Pair', NEW p \in Procs, CheckOwn(p) PROVE GuardStep(p) /\ LockStep(p)
<1>1. /\ At(p, ReleaseStages, "check") /\ Moves(p)
      /\ UNCHANGED <<attempt, expected, moved, dir, owns, alive>>
  BY CheckOwnMoves DEF CheckOwn
<1>2. /\ p \in alive /\ p \in alive' /\ stage[p] \in {"unguard", "unlock", "reunguard"} /\ step[p] = "check"
      /\ Typed /\ ~GivesUp(p) /\ (owns[p] => stage[p] = "unguard")
  BY <1>1, ReleaseAt
<1>3. PICK s \in {"discard", "restore"} :
         Goto(p, s) /\ s = IF moved[p].owner = Token(p) THEN "discard" ELSE "restore"
  BY DEF CheckOwn
<1>4. Then(p, stage[p], s) /\ owns'[p] = owns[p]
  BY <1>1, <1>2, <1>3, GotoDoes, StageFacts
<1>5. CASE stage[p] = "unlock"
  <2>1. s = "discard" /\ dir["lock"].owner # LockOf(p)
    BY <1>2, <1>3, <1>5, TokenIs DEF LockInv, GivenBack, Gone, LockOf
  <2>2. LockStep(p)
    BY <1>1, <1>2, <1>4, <1>5, <2>1 DEF LockStep, Touches, TakenOver, GivenBack, Then
  <2> QED BY <1>1, <1>2, <1>4, <1>5, <2>2, GuardUntouched DEF InLock, Then
<1>6. CASE stage[p] # "unlock"
  <2>1. LockStep(p)
    BY <1>1, <1>2, <1>4, <1>6, LockUntouched DEF Then, Gone
  <2>2. ~Busy(p)'
    BY <1>2, <1>4, <1>6 DEF Busy, Makes, Guards, Enters, Then
  <2>3. s = "restore" => Left(p)
    BY <1>2, <1>3, <1>6 DEF GuardInv
  <2> QED BY <1>1, <1>2, <1>4, <2>1, <2>2, <2>3 DEF GuardStep, Then
<1> QED BY <1>5, <1>6

LEMMA RestoreOtherMoves == ASSUME IInv, NEW p \in Procs, RestoreOther(p) PROVE Moves(p)
  BY PutBackDoes, ReleasedMoves DEF RestoreOther

LEMMA RestoreOtherSafe ==
    ASSUME IInv, GuardInv, LockInv, Pair', NEW p \in Procs, RestoreOther(p)
    PROVE  GuardStep(p) /\ LockStep(p)
<1>1. /\ At(p, ReleaseStages, "restore") /\ Moves(p) /\ PutBack(p) /\ Released(p)
      /\ UNCHANGED <<owns, alive>>
  BY RestoreOtherMoves DEF RestoreOther
<1>2. /\ p \in alive /\ stage[p] \in {"unguard", "unlock", "reunguard"} /\ step[p] = "restore"
  BY <1>1, ReleaseAt
<1>3. stage[p] # "unlock"
  BY <1>2 DEF LockInv, GivenBack
<1>4. dir'["lock"] = dir["lock"]
  BY <1>1, <1>3, ReleaseAt, PutBackDoes, StageFacts
<1>5. \A q \in Procs : q # p => ~Busy(q)
  BY <1>1, <1>2, <1>3, LeftAlone DEF GuardInv
<1> QED BY <1>1, <1>3, <1>4, <1>5, ReleasedSafe

LEMMA DiscardOwnMoves == ASSUME IInv, NEW p \in Procs, DiscardOwn(p) PROVE Moves(p)
  BY ReleasedMoves DEF DiscardOwn

LEMMA DiscardOwnSafe ==
    ASSUME IInv, GuardInv, LockInv, Pair', NEW p \in Procs, DiscardOwn(p)
    PROVE  GuardStep(p) /\ LockStep(p)
<1>1. /\ At(p, ReleaseStages, "discard") /\ Moves(p) /\ Released(p) /\ UNCHANGED <<dir, owns, alive>>
  BY DiscardOwnMoves DEF DiscardOwn
<1>2. stage[p] = "unlock" => dir["lock"].owner # LockOf(p)
  BY <1>1, ReleaseAt DEF LockInv, Gone
<1> QED BY <1>1, <1>2, ReleasedSafe

LEMMA BeginMoves == ASSUME IInv, NEW p \in Procs, BeginRelease(p) PROVE Moves(p)
<1>1. /\ At(p, {"held"}, "rest") /\ Enter(p, "reguard", "mkdir") /\ owns' = [owns EXCEPT ![p] = FALSE]
      /\ UNCHANGED <<moved, dir, alive>>
  BY DEF BeginRelease
<1>2. Typed
  BY <1>1, AtFacts
<1>3. \E b \in BOOLEAN : owns' = [owns EXCEPT ![p] = b]
  BY <1>1
<1>4. Typed' /\ Others(p) /\ Then(p, "reguard", "mkdir")
  BY <1>1, <1>2, <1>3, EnterDoes, StageFacts
<1>5. Begun(p)' /\ ~Takes(p)'
  BY <1>4 DEF Begun, Takes, Then
<1> QED BY <1>1, <1>4, <1>5, StepTypes DEF Moves

LEMMA BeginSafe ==
    ASSUME IInv, GuardInv, LockInv, Pair', NEW p \in Procs, BeginRelease(p)
    PROVE  GuardStep(p) /\ LockStep(p)
<1>1. /\ At(p, {"held"}, "rest") /\ Enter(p, "reguard", "mkdir") /\ owns' = [owns EXCEPT ![p] = FALSE]
      /\ UNCHANGED <<moved, dir, alive>>
  BY DEF BeginRelease
<1>2. /\ p \in alive /\ p \in alive' /\ stage[p] = "held" /\ Typed
  BY <1>1, AtFacts
<1>3. Then(p, "reguard", "mkdir") /\ ~owns'[p]
  <2>1. \E b \in BOOLEAN : owns' = [owns EXCEPT ![p] = b]
    BY <1>1
  <2> QED BY <1>1, <1>2, <2>1, EnterDoes, StageFacts DEF Typed
<1>4. LockStep(p)
  BY <1>1, <1>2, <1>3, LockUntouched DEF Then, Gone
<1>5. ~Busy(p)' /\ ~GivesUp(p)
  BY <1>2, <1>3 DEF Busy, Makes, Guards, Enters, GivesUp, Then
<1> QED BY <1>1, <1>3, <1>4, <1>5 DEF GuardStep, Then

LEMMA CrashSafe ==
    ASSUME IInv, NEW p \in Procs, Crash(p)
    PROVE  /\ TypeOK' /\ SoundInv' /\ ExpectInv' /\ Frame(p) /\ (p \in Started' \/ p \notin Started)
           /\ GuardStep(p) /\ (LockInv => LockStep(p))
<1>1. /\ alive' = alive \ {p} /\ owns' = [owns EXCEPT ![p] = FALSE]
      /\ UNCHANGED <<stage, step, attempt, expected, moved, dir>>
  BY DEF Crash
<1>2. TypeOK /\ SoundInv /\ ExpectInv
  BY DEF IInv
<1>3. TypeOK' /\ SoundInv'
  BY <1>1, <1>2 DEF TypeOK, SoundInv, Sound
<1>4. ExpectInv'
  BY <1>1, <1>2 DEF ExpectInv, Takes
<1>5. Frame(p) /\ (p \in Started' \/ p \notin Started) /\ ~owns'[p]
  BY <1>1, <1>2 DEF Frame, Others, Started, TypeOK
<1>6. GuardStep(p)
  BY <1>1 DEF GuardStep, Busy, Makes, Guards, GivesUp, Started
<1>7. LockInv => LockStep(p)
  BY <1>1, <1>5 DEF LockInv, LockStep, Touches, TakenOver, GivenBack, Gone, LockOf
<1> QED BY <1>3, <1>4, <1>5, <1>6, <1>7

-----------------------------------------------------------------------------
(* All steps. *)

LEMMA StepKeeps ==
    ASSUME IInv, NEW p \in Procs,
           TypeOK', SoundInv', ExpectInv', Frame(p), p \in Started' \/ p \notin Started,
           GuardInv /\ LockInv /\ Pair' => GuardStep(p) /\ LockStep(p)
    PROVE  IInv'
<1>1. ASSUME Pair' PROVE GuardInv' /\ LockInv'
  <2>1. GuardInv /\ LockInv
    BY <1>1, StillPair DEF IInv, PairInv
  <2> QED BY <1>1, <2>1, GuardKept, LockKept
<1> QED BY <1>1 DEF IInv, PairInv

LEMMA AcquireKeeps == ASSUME IInv, NEW p \in Procs, AcquireStep(p) PROVE IInv'
<1>1. Moves(p)
  BY MkdirMoves, EnsureMoves, WriteMoves, RenameMoves, CleanMoves, ReadOwnerMoves, MoveStaleMoves,
     CheckStaleMoves, RestoreStaleMoves, DiscardStaleMoves DEF AcquireStep
<1>2. GuardInv /\ LockInv /\ Pair' => GuardStep(p) /\ LockStep(p)
  BY MkdirSafe, EnsureSafe, WriteSafe, RenameSafe, CleanSafe, ReadOwnerSafe, MoveStaleSafe,
     CheckStaleSafe, RestoreStaleSafe, DiscardStaleSafe DEF AcquireStep
<1> QED BY <1>1, <1>2, StepKeeps DEF Moves

LEMMA ReleaseKeeps == ASSUME IInv, NEW p \in Procs, ReleaseStep(p) \/ BeginRelease(p) PROVE IInv'
<1>1. Moves(p)
  BY ReadOwnMoves, MoveOwnMoves, CheckOwnMoves, RestoreOtherMoves, DiscardOwnMoves, BeginMoves DEF ReleaseStep
<1>2. GuardInv /\ LockInv /\ Pair' => GuardStep(p) /\ LockStep(p)
  BY ReadOwnSafe, MoveOwnSafe, CheckOwnSafe, RestoreOtherSafe, DiscardOwnSafe, BeginSafe DEF ReleaseStep
<1> QED BY <1>1, <1>2, StepKeeps DEF Moves

LEMMA NextKeeps == IInv /\ [Next]_vars => IInv'
<1> SUFFICES ASSUME IInv, [Next]_vars PROVE IInv'
  OBVIOUS
<1>1. ASSUME NEW p \in Procs, AcquireStep(p) PROVE IInv'
  BY <1>1, AcquireKeeps
<1>2. ASSUME NEW p \in Procs, ReleaseStep(p) \/ BeginRelease(p) PROVE IInv'
  BY <1>2, ReleaseKeeps
<1>3. ASSUME NEW p \in Procs, Crash(p) PROVE IInv'
  BY <1>3, CrashSafe, StepKeeps
<1>4. CASE UNCHANGED vars
  BY <1>4 DEF vars, IInv, TypeOK, SoundInv, Sound, ExpectInv, Takes, PairInv, Pair, Started, GuardInv, LockInv,
      Busy, Makes, Guards, Enters, GuardIs, GuardOf, Left, GivesUp, Token, Touches, Gone, Owned, TakenOver,
      GivenBack, LockOf
<1> QED BY <1>1, <1>2, <1>3, <1>4 DEF Next

LEMMA InitKeeps == Init => IInv
<1> SUFFICES ASSUME Init PROVE IInv
  OBVIOUS
<1>1. PICK stale \in SUBSET Names : dir = [n \in Names |-> IF n \in stale THEN Stale(n) ELSE Absent]
  BY DEF Init
<1>2. /\ stage = [p \in Procs |-> "guard"] /\ step = [p \in Procs |-> "mkdir"]
      /\ attempt = [p \in Procs |-> 0] /\ expected = [p \in Procs |-> NoToken]
      /\ moved = [p \in Procs |-> Absent] /\ owns = [p \in Procs |-> FALSE] /\ alive = Procs
  BY DEF Init
<1>3. TypeOK
  <2>1. dir \in [Names -> Directories]
    BY <1>1, DirectoryFacts
  <2>2. 0 \in 0..(MaxAttempts - 1)
    BY LockBounds DEF LockBounds
  <2> QED BY <1>2, <2>1, <2>2, DirectoryFacts, TokenFacts DEF TypeOK, Stages, AcquireStages, Steps
<1>4. SoundInv
  BY <1>1, <1>2, DirectoryFacts DEF SoundInv
<1>5. ExpectInv
  BY <1>2 DEF ExpectInv, Takes
<1>6. GuardInv
  BY <1>2 DEF GuardInv, Busy, Makes, Guards
<1>7. LockInv
  BY <1>2 DEF LockInv, Touches, TakenOver, GivenBack, Gone
<1> QED BY <1>3, <1>4, <1>5, <1>6, <1>7 DEF IInv, PairInv

(* Of two processes one has the guard at a time, only it changes the lock, *)
(* and a process takes over only what a dead one owned.                    *)
THEOREM LockInductive == Spec => []IInv
  BY InitKeeps, NextKeeps, PTL DEF Spec

(* The type invariant: every process is at one of the file system calls of *)
(* acquireDirectory and releaseDirectory, within the four rounds.          *)
THEOREM LockTyped == Spec => []TypeOK
<1>1. IInv => TypeOK
  BY DEF IInv
<1> QED BY <1>1, LockInductive, PTL

(* While no third process takes part, whatever locks a killed process left *)
(* and wherever the two are killed: the owner's lock is where acquire      *)
(* looks for it, and release leaves no lock of its own behind.             *)
THEOREM LockFollows == Spec => []LockFollowsOwner
<1>1. IInv => LockFollowsOwner
  BY DEF IInv, PairInv, Pair, LockInv, LockFollowsOwner, Owned, Gone, LockOf
<1> QED BY <1>1, LockInductive, PTL

(* SECURITY.md promises that one data directory admits one process at a    *)
(* time.  Two processes never own it together, whatever they take over     *)
(* and wherever they are killed.                                           *)
THEOREM OneOfTwo == Spec => [](Cardinality(Started) <= 2 => OneProcess)
<1>1. ASSUME LockFollowsOwner, Cardinality(Started) <= 2, NEW p \in Procs, NEW q \in Procs, owns[p], owns[q]
      PROVE  p = q
  <2>1. dir["lock"].owner = <<p, "lock">> /\ dir["lock"].owner = <<q, "lock">>
    BY <1>1 DEF LockFollowsOwner
  <2> QED BY <2>1, TokenFacts
<1>2. LockFollowsOwner => (Cardinality(Started) <= 2 => OneProcess)
  BY <1>1 DEF OneProcess
<1> QED BY <1>2, LockFollows, PTL
=============================================================================
