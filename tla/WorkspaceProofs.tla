---------------------------- MODULE WorkspaceProofs ---------------------------
(***************************************************************************)
(* Proofs about Workspace for any roots, files, edits, calls and limits:   *)
(* type correctness with the slots of the commands, no process survives a  *)
(* shutdown, and files follow the edits.                                   *)
(*                                                                         *)
(* That files follow the edits is proved for roots that share no file: the *)
(* locks of applyEdits are one for each root, and edits of overlapping     *)
(* roots exclude each other no more than edits of other programs.          *)
(*                                                                         *)
(* The inductive invariant says that the calls of a root queue behind each *)
(* other (QueueInv), so that one of them acts; what texts in files and in  *)
(* plans are made from (TextsInv); and which signals processes were sent   *)
(* once the shutdown has begun (CommandsInv).                              *)
(***************************************************************************)
EXTENDS Workspace, FiniteSetTheorems, TLAPS

(* Edits of different roots touch different files. *)
RootsApart ==
    \A e, f \in Edits : \A i \in DOMAIN e[2], j \in DOMAIN f[2] :
        e[2][i] = f[2][j] => e[1] = f[1]

EditSteps == {"none", "waiting", "planning", "committing", "undoing"} \cup Over
Acting == {"planning", "committing", "undoing"}
Live == Acting \cup {"waiting"}
Left == {"applied", "conflict", "lost"}
EditRecords ==
    [step : EditSteps, root : Roots \cup {None}, paths : Seq(Paths), waits : Calls \cup {None},
     plan : Seq(Texts), done : Nat, looked : BOOLEAN, conflict : BOOLEAN]
ProcRecords ==
    [step : {"none", "asked", "running", "refused", "ended", "orphan"}, root : Roots \cup {None},
     kind : {"batch", "interactive"}, alive : BOOLEAN, held : BOOLEAN,
     sent : {"nothing", "SIGTERM", "SIGKILL"}, session : {"none", "open", "done"}]

(* How far a call is says what it holds in memory. *)
Shaped(e) ==
    /\ e.step = "none" => e = NoEdit
    /\ e.step # "none" => <<e.root, e.paths>> \in Edits
    /\ Len(e.plan) <= Len(e.paths) /\ e.done <= Len(e.plan)
    /\ e.step \in Over \cup {"waiting"} => e.plan = <<>> /\ ~e.looked
    /\ e.step = "planning" => Len(e.plan) < Len(e.paths) /\ e.done = 0 /\ ~e.looked
    /\ e.step = "committing" => Len(e.plan) = Len(e.paths) /\ e.done < Len(e.plan)
    /\ e.step = "undoing" /\ e.looked => e.done > 0

EditsInv ==
    /\ files \in [Paths -> Texts]
    /\ edits \in [Calls -> EditRecords]
    /\ written \in [Paths -> SUBSET (Calls \cup Foreign)]
    /\ raced \in [Paths -> SUBSET (Calls \cup Foreign)]
    /\ \A c \in Calls : Shaped(edits[c])

(* A call that has not ended makes the later ones of its root wait, each   *)
(* for one that is not before it; and the lock names none before it.       *)
Behind(c, e, d) == e \in Calls /\ c <= e /\ e < d /\ edits[e].root = edits[d].root

QueueInv ==
    /\ locks \in [Roots -> Calls \cup {None}]
    /\ \A c, d \in Calls : c < d /\ Made(d) => Made(c)
    /\ \A c, d \in Calls :
        c < d /\ edits[c].step \in Live /\ edits[d].step # "none" /\ edits[c].root = edits[d].root =>
            edits[d].step = "waiting" /\ Behind(c, edits[d].waits, d)
    /\ \A r \in Roots : locks[r] \in Calls => edits[locks[r]].step # "none" /\ edits[locks[r]].root = r
    /\ \A c \in Calls : edits[c].step \in Live =>
        locks[edits[c].root] \in Calls /\ c <= locks[edits[c].root]

TextOf(t) == IF t = None THEN {} ELSE t
On(e, p) == \E i \in DOMAIN e.paths : e.paths[i] = p
DoneOn(e, p) == \E i \in 1..e.done : e.paths[i] = p

(* A file shows a call that has written it; one that is at work, or puts   *)
(* everything back, has it among the files done.                           *)
ShownInv ==
    \A p \in Paths : \A c \in Calls \cap Shown(p) :
        /\ edits[c].step \in {"committing", "undoing"} \cup Left
        /\ On(edits[c], p)
        /\ edits[c].step = "committing" \/ (edits[c].step = "undoing" /\ ~edits[c].conflict)
                => DoneOn(edits[c], p)

(* Plans are made from calls that have ended. *)
PlansInv ==
    \A c \in Calls : \A i \in DOMAIN edits[c].plan : \A d \in Calls \cap TextOf(edits[c].plan[i]) :
        edits[d].step \in Left /\ On(edits[d], edits[c].paths[i])

(* What was written and is not there, or will not be after the next write, *)
(* was raced.                                                              *)
WrittenInv ==
    /\ \A p \in Paths : written[p] \ Shown(p) \subseteq raced[p] \cap Foreign
    /\ \A c \in Calls : edits[c].looked =>
        /\ edits[c].step = "committing" =>
                written[At(c)] \ TextOf(Original(c)) \subseteq raced[At(c)] \cap Foreign
        /\ edits[c].step = "undoing" =>
                written[Last(c)] \ With(LastOriginal(c), c) \subseteq raced[Last(c)] \cap Foreign

TextsInv == ShownInv /\ PlansInv /\ WrittenInv

CommandsInv ==
    /\ procs \in [Calls -> ProcRecords]
    /\ \A c \in Calls : procs[c].step = "none" <=> procs[c] = NoProc
    /\ \A c \in Calls : procs[c].step # "none" => procs[c].root \in Roots
    /\ \A c \in Calls : procs[c].step = "asked" => procs[c].sent = "nothing"
    /\ slots \in [Roots -> Nat] /\ total \in Nat
    /\ total = Cardinality(Running) /\ total <= MaxTotal
    /\ \A r \in Roots :
        slots[r] = Cardinality({c \in Running : procs[c].root = r}) /\ slots[r] <= MaxPerRoot
    /\ daemon \in {"up", "closing", "closed", "down"}
    /\ faults \in 0..MaxFaults

ClosingInv ==
    /\ \A c \in Running : procs[c].sent = "SIGKILL" => ~procs[c].alive
    /\ daemon \in {"closing", "closed"} => \A c \in Running : procs[c].sent # "nothing"
    /\ daemon = "closed" => \A c \in Running : procs[c].sent # "SIGTERM"

WInv == EditsInv /\ QueueInv /\ (RootsApart => TextsInv) /\ CommandsInv /\ ClosingInv
-----------------------------------------------------------------------------
(* Constants, and records that change in one field. *)

LEMMA ConstantFacts ==
    /\ MaxTotal \in Nat /\ MaxPerRoot \in Nat /\ MaxCalls \in Nat /\ MaxForeign \in Nat /\ MaxFaults \in Nat
    /\ Edits \subseteq Roots \X Seq(Paths)
    /\ None \notin Nat /\ None \notin Calls /\ \A t \in SUBSET (Calls \cup Foreign) : t # None
    /\ \A c \in Calls : c \in Nat \ {0} /\ c \notin Foreign
    /\ IsFiniteSet(Calls)
<1>1. MaxCalls \in Int /\ 1 \in Int
  BY WorkspaceBounds
<1>2. IsFiniteSet(1..MaxCalls)
  BY <1>1, FS_Interval
<1>3. IsFiniteSet(Calls)
  BY <1>2 DEF Calls
<1>4. \A c \in Calls : c \in Nat \ {0} /\ c \notin Foreign
  BY WorkspaceBounds DEF Calls, Foreign
<1> QED
  BY <1>3, <1>4, WorkspaceBounds

SetStep(x, v) == [x EXCEPT !.step = v]
SetAlive(x, v) == [x EXCEPT !.alive = v]
SetHeld(x, v) == [x EXCEPT !.held = v]
SetSent(x, v) == [x EXCEPT !.sent = v]
SetSession(x, v) == [x EXCEPT !.session = v]

LEMMA SetStepFits ==
    ASSUME NEW x \in ProcRecords, NEW v \in {"none", "asked", "running", "refused", "ended", "orphan"}
    PROVE  /\ SetStep(x, v) \in ProcRecords /\ SetStep(x, v).step = v
           /\ SetStep(x, v).root = x.root /\ SetStep(x, v).kind = x.kind /\ SetStep(x, v).alive = x.alive
           /\ SetStep(x, v).held = x.held /\ SetStep(x, v).sent = x.sent /\ SetStep(x, v).session = x.session
<1>1. SetStep(x, v) = [step |-> v, root |-> x.root, kind |-> x.kind, alive |-> x.alive, held |-> x.held, sent |-> x.sent, session |-> x.session]
  BY DEF ProcRecords, SetStep
<1> QED
  BY <1>1 DEF ProcRecords

LEMMA SetAliveFits ==
    ASSUME NEW x \in ProcRecords, NEW v \in BOOLEAN
    PROVE  /\ SetAlive(x, v) \in ProcRecords /\ SetAlive(x, v).alive = v
           /\ SetAlive(x, v).step = x.step /\ SetAlive(x, v).root = x.root /\ SetAlive(x, v).kind = x.kind
           /\ SetAlive(x, v).held = x.held /\ SetAlive(x, v).sent = x.sent /\ SetAlive(x, v).session = x.session
<1>1. SetAlive(x, v) = [step |-> x.step, root |-> x.root, kind |-> x.kind, alive |-> v, held |-> x.held, sent |-> x.sent, session |-> x.session]
  BY DEF ProcRecords, SetAlive
<1> QED
  BY <1>1 DEF ProcRecords

LEMMA SetHeldFits ==
    ASSUME NEW x \in ProcRecords, NEW v \in BOOLEAN
    PROVE  /\ SetHeld(x, v) \in ProcRecords /\ SetHeld(x, v).held = v
           /\ SetHeld(x, v).step = x.step /\ SetHeld(x, v).root = x.root /\ SetHeld(x, v).kind = x.kind
           /\ SetHeld(x, v).alive = x.alive /\ SetHeld(x, v).sent = x.sent /\ SetHeld(x, v).session = x.session
<1>1. SetHeld(x, v) = [step |-> x.step, root |-> x.root, kind |-> x.kind, alive |-> x.alive, held |-> v, sent |-> x.sent, session |-> x.session]
  BY DEF ProcRecords, SetHeld
<1> QED
  BY <1>1 DEF ProcRecords

LEMMA SetSentFits ==
    ASSUME NEW x \in ProcRecords, NEW v \in {"nothing", "SIGTERM", "SIGKILL"}
    PROVE  /\ SetSent(x, v) \in ProcRecords /\ SetSent(x, v).sent = v
           /\ SetSent(x, v).step = x.step /\ SetSent(x, v).root = x.root /\ SetSent(x, v).kind = x.kind
           /\ SetSent(x, v).alive = x.alive /\ SetSent(x, v).held = x.held /\ SetSent(x, v).session = x.session
<1>1. SetSent(x, v) = [step |-> x.step, root |-> x.root, kind |-> x.kind, alive |-> x.alive, held |-> x.held, sent |-> v, session |-> x.session]
  BY DEF ProcRecords, SetSent
<1> QED
  BY <1>1 DEF ProcRecords

LEMMA SetSessionFits ==
    ASSUME NEW x \in ProcRecords, NEW v \in {"none", "open", "done"}
    PROVE  /\ SetSession(x, v) \in ProcRecords /\ SetSession(x, v).session = v
           /\ SetSession(x, v).step = x.step /\ SetSession(x, v).root = x.root /\ SetSession(x, v).kind = x.kind
           /\ SetSession(x, v).alive = x.alive /\ SetSession(x, v).held = x.held /\ SetSession(x, v).sent = x.sent
<1>1. SetSession(x, v) = [step |-> x.step, root |-> x.root, kind |-> x.kind, alive |-> x.alive, held |-> x.held, sent |-> x.sent, session |-> v]
  BY DEF ProcRecords, SetSession
<1> QED
  BY <1>1 DEF ProcRecords

LEMMA ProcTypes ==
    ASSUME CommandsInv, NEW c \in Calls
    PROVE  /\ procs[c] \in ProcRecords
           /\ procs[c].step \in {"none", "asked", "running", "refused", "ended", "orphan"}
           /\ procs[c].root \in Roots \cup {None} /\ procs[c].alive \in BOOLEAN /\ procs[c].held \in BOOLEAN
           /\ procs[c].sent \in {"nothing", "SIGTERM", "SIGKILL"}
           /\ procs[c].session \in {"none", "open", "done"}
  BY DEF CommandsInv, ProcRecords

LEMMA NoProcFits == NoProc \in ProcRecords /\ NoProc.step = "none" /\ NoProc.session = "none"
                    /\ NoProc.sent = "nothing"
  BY DEF NoProc, ProcRecords

-----------------------------------------------------------------------------
(* The slots are those of the processes that run. *)

OnRoot(r) == {c \in Running : procs[c].root = r}

LEMMA RunningFinite ==
    /\ IsFiniteSet(Running) /\ \A r : IsFiniteSet(OnRoot(r))
    /\ Cardinality(Running) \in Nat /\ \A r : Cardinality(OnRoot(r)) \in Nat
<1>1. IsFiniteSet(Calls)
  BY ConstantFacts
<1>2. Running \in SUBSET Calls
  BY DEF Running
<1>3. IsFiniteSet(Running)
  BY <1>1, <1>2, FS_Subset
<1>4. \A r : OnRoot(r) \in SUBSET Running
  BY DEF OnRoot
<1>5. \A r : IsFiniteSet(OnRoot(r))
  BY <1>3, <1>4, FS_Subset
<1> QED
  BY <1>3, <1>5, FS_CardinalityType

(* No process starts or ends. *)
LEMMA SlotsStay ==
    ASSUME CommandsInv, procs' \in [Calls -> ProcRecords], UNCHANGED <<slots, total>>,
           \A c \in Calls : /\ procs'[c].step = "running" <=> procs[c].step = "running"
                            /\ procs[c].step = "running" => procs'[c].root = procs[c].root
    PROVE  /\ slots' \in [Roots -> Nat] /\ total' \in Nat
           /\ total' = Cardinality(Running') /\ total' <= MaxTotal
           /\ \A r \in Roots : slots'[r] = Cardinality(OnRoot(r)') /\ slots'[r] <= MaxPerRoot
<1>1. Running' = Running
  BY DEF Running
<1>2. \A r : OnRoot(r)' = OnRoot(r)
  BY <1>1 DEF OnRoot, Running
<1> QED
  BY <1>1, <1>2 DEF CommandsInv, OnRoot

(* One process starts: its root had a slot. *)
LEMMA SlotTaken ==
    ASSUME CommandsInv, NEW c \in Calls, NEW x, procs' = [procs EXCEPT ![c] = x],
           procs[c].step # "running", x.step = "running", x.root = procs[c].root, x.root \in Roots,
           total < MaxTotal, slots[x.root] < MaxPerRoot,
           slots' = [slots EXCEPT ![x.root] = @ + 1], total' = total + 1
    PROVE  /\ slots' \in [Roots -> Nat] /\ total' \in Nat
           /\ total' = Cardinality(Running') /\ total' <= MaxTotal
           /\ \A r \in Roots : slots'[r] = Cardinality(OnRoot(r)') /\ slots'[r] <= MaxPerRoot
<1>1. procs \in [Calls -> ProcRecords]
  BY DEF CommandsInv
<1>2. Running' = Running \cup {c} /\ c \notin Running
  BY <1>1 DEF Running
<1>3. OnRoot(x.root)' = OnRoot(x.root) \cup {c} /\ c \notin OnRoot(x.root)
  BY <1>1, <1>2 DEF OnRoot
<1>4. \A r \in Roots \ {x.root} : OnRoot(r)' = OnRoot(r)
  BY <1>1, <1>2 DEF OnRoot, Running
<1>5. Cardinality(Running \cup {c}) = IF c \in Running THEN Cardinality(Running) ELSE Cardinality(Running) + 1
  BY RunningFinite, FS_AddElement
<1>6. Cardinality(OnRoot(x.root) \cup {c}) = IF c \in OnRoot(x.root) THEN Cardinality(OnRoot(x.root))
                                             ELSE Cardinality(OnRoot(x.root)) + 1
  BY RunningFinite, FS_AddElement
<1>7. total' = Cardinality(Running') /\ total' \in Nat /\ total' <= MaxTotal
  BY <1>2, <1>5, ConstantFacts DEF CommandsInv
<1>8. /\ slots' \in [Roots -> Nat] /\ slots'[x.root] = slots[x.root] + 1 /\ slots'[x.root] <= MaxPerRoot
      /\ \A r \in Roots \ {x.root} : slots'[r] = slots[r]
  BY ConstantFacts DEF CommandsInv
<1>9. slots[x.root] = Cardinality(OnRoot(x.root))
  BY DEF CommandsInv, OnRoot
<1>10. slots'[x.root] = Cardinality(OnRoot(x.root)')
  BY <1>3, <1>6, <1>8, <1>9
<1>11. \A r \in Roots \ {x.root} : slots'[r] = Cardinality(OnRoot(r)') /\ slots'[r] <= MaxPerRoot
  BY <1>4, <1>8 DEF CommandsInv, OnRoot
<1> QED
  BY <1>7, <1>8, <1>10, <1>11

(* One process ends, and gives its slot back. *)
LEMMA SlotFreed ==
    ASSUME CommandsInv, NEW c \in Running, NEW x, procs' = [procs EXCEPT ![c] = x], x.step # "running",
           slots' = [slots EXCEPT ![procs[c].root] = @ - 1], total' = total - 1
    PROVE  /\ slots' \in [Roots -> Nat] /\ total' \in Nat
           /\ total' = Cardinality(Running') /\ total' <= MaxTotal
           /\ \A r \in Roots : slots'[r] = Cardinality(OnRoot(r)') /\ slots'[r] <= MaxPerRoot
<1>1. procs \in [Calls -> ProcRecords] /\ c \in Calls /\ procs[c].step = "running"
  BY DEF CommandsInv, Running
<1>2. PICK q \in Roots : q = procs[c].root
  BY <1>1 DEF CommandsInv
<1>3. Running' = Running \ {c}
  BY <1>1 DEF Running
<1>4. OnRoot(q)' = OnRoot(q) \ {c} /\ c \in OnRoot(q)
  BY <1>1, <1>2, <1>3 DEF OnRoot
<1>5. \A r \in Roots \ {q} : OnRoot(r)' = OnRoot(r)
  BY <1>1, <1>2, <1>3 DEF OnRoot, Running
<1>6. Cardinality(Running \ {c}) = IF c \in Running THEN Cardinality(Running) - 1 ELSE Cardinality(Running)
  BY RunningFinite, FS_RemoveElement
<1>7. Cardinality(OnRoot(q) \ {c}) = IF c \in OnRoot(q) THEN Cardinality(OnRoot(q)) - 1
                                     ELSE Cardinality(OnRoot(q))
  BY RunningFinite, FS_RemoveElement
<1>8. Cardinality(Running') \in Nat /\ Cardinality(OnRoot(q)') \in Nat
  <2>1. IsFiniteSet(Running \ {c}) /\ IsFiniteSet(OnRoot(q) \ {c})
    BY RunningFinite, FS_RemoveElement
  <2>2. Cardinality(Running \ {c}) \in Nat /\ Cardinality(OnRoot(q) \ {c}) \in Nat
    BY <2>1, FS_CardinalityType
  <2> QED
    BY <1>3, <1>4, <2>2
<1>9. total = Cardinality(Running) /\ total \in Nat /\ total <= MaxTotal /\ MaxTotal \in Nat
  BY ConstantFacts DEF CommandsInv
<1>10. total' = Cardinality(Running') /\ total' \in Nat /\ total' <= MaxTotal
  BY <1>3, <1>6, <1>8, <1>9
<1>11. slots[q] = Cardinality(OnRoot(q)) /\ slots[q] \in Nat /\ slots[q] <= MaxPerRoot
  BY <1>2 DEF CommandsInv, OnRoot
<1>12. /\ slots'[q] = slots[q] - 1 /\ \A r \in Roots \ {q} : slots'[r] = slots[r]
  BY <1>2 DEF CommandsInv
<1>13. slots'[q] = Cardinality(OnRoot(q)')
  BY <1>4, <1>7, <1>11, <1>12
<1>14. slots'[q] \in Nat /\ slots'[q] <= MaxPerRoot
  BY <1>8, <1>11, <1>12, <1>13, ConstantFacts
<1>15. slots' \in [Roots -> Nat]
  BY <1>2, <1>14 DEF CommandsInv
<1>16. \A r \in Roots \ {q} : slots'[r] = Cardinality(OnRoot(r)') /\ slots'[r] <= MaxPerRoot
  BY <1>5, <1>12 DEF CommandsInv, OnRoot
<1> QED
  BY <1>10, <1>13, <1>14, <1>15, <1>16

-----------------------------------------------------------------------------
(* The steps of the commands. *)

FilesInv == EditsInv /\ QueueInv /\ (RootsApart => TextsInv)

(* Which calls were made, as edits or as commands. *)
LEMMA MadeFacts ==
    ASSUME EditsInv, CommandsInv, NEW c \in Calls
    PROVE  /\ Made(c) <=> edits[c].step # "none" \/ procs[c].step # "none"
           /\ edits[c].step # "none" => Made(c)
<1>1. NoEdit.step = "none"
  BY DEF NoEdit
<1>2. edits[c].step = "none" <=> edits[c] = NoEdit
  BY <1>1 DEF EditsInv, Shaped
<1> QED
  BY <1>2 DEF CommandsInv, Made

(* The files and the edits are left as they are, and calls stay made. *)
LEMMA FilesStay ==
    ASSUME FilesInv, UNCHANGED fileVars, \A c \in Calls : Made(c) => Made(c)',
           \A c, d \in Calls : c < d /\ Made(d)' => Made(c)'
    PROVE  FilesInv'
<1>1. /\ files' = files /\ edits' = edits /\ locks' = locks /\ written' = written /\ raced' = raced
  BY DEF fileVars
<1>2. EditsInv'
  BY <1>1 DEF FilesInv, EditsInv
<1>3. QueueInv'
  BY <1>1 DEF FilesInv, QueueInv, Behind
<1>4. TextsInv => TextsInv'
  BY <1>1 DEF TextsInv, ShownInv, PlansInv, WrittenInv, Shown, At, Original, Last, LastOriginal
<1> QED
  BY <1>2, <1>3, <1>4 DEF FilesInv

LEMMA FaultFits == CommandsInv /\ Fault => faults' \in 0..MaxFaults
  BY ConstantFacts DEF CommandsInv, Fault

LEMMA CommandsStay ==
    ASSUME CommandsInv, ClosingInv, UNCHANGED commandVars, UNCHANGED daemon, faults' \in 0..MaxFaults
    PROVE  CommandsInv' /\ ClosingInv'
<1>1. procs' = procs /\ slots' = slots /\ total' = total
  BY DEF commandVars
<1>2. Running' = Running
  BY <1>1 DEF Running
<1> QED
  BY <1>1, <1>2 DEF CommandsInv, ClosingInv

(* Whether the shutdown lets process x run. *)
Closes(x) ==
    /\ x.sent = "SIGKILL" => ~x.alive
    /\ daemon \in {"closing", "closed"} => x.sent # "nothing"
    /\ daemon = "closed" => x.sent # "SIGTERM"

LEMMA RunningCloses == ClosingInv => \A c \in Running : Closes(procs[c])
  BY DEF ClosingInv, Closes

(* A step of one process that was made. *)
LEMMA ProcStep ==
    ASSUME CommandsInv, ClosingInv, NEW c \in Calls, NEW x \in ProcRecords,
           procs' = [procs EXCEPT ![c] = x], x.step # "none", x.root \in Roots,
           slots' \in [Roots -> Nat], total' \in Nat,
           total' = Cardinality(Running'), total' <= MaxTotal,
           \A r \in Roots : slots'[r] = Cardinality(OnRoot(r)') /\ slots'[r] <= MaxPerRoot,
           UNCHANGED daemon, faults' \in 0..MaxFaults, x.step = "running" => Closes(x),
           x.step = "asked" => x.sent = "nothing"
    PROVE  CommandsInv' /\ ClosingInv'
<1>1. procs \in [Calls -> ProcRecords]
  BY DEF CommandsInv
<1>2. procs' \in [Calls -> ProcRecords] /\ procs'[c] = x
      /\ \A d \in Calls \ {c} : procs'[d] = procs[d]
  BY <1>1
<1>3. x # NoProc
  BY NoProcFits
<1>4. /\ \A d \in Calls : procs'[d].step = "none" <=> procs'[d] = NoProc
      /\ \A d \in Calls : procs'[d].step # "none" => procs'[d].root \in Roots
      /\ \A d \in Calls : procs'[d].step = "asked" => procs'[d].sent = "nothing"
  BY <1>2, <1>3 DEF CommandsInv
<1>5. CommandsInv'
  BY <1>2, <1>4 DEF CommandsInv, OnRoot
<1>6. \A d \in Running' : d = c \/ d \in Running
  BY <1>2 DEF Running
<1>7. \A d \in Running' : Closes(procs'[d])
  BY <1>2, <1>6, RunningCloses DEF Running
<1>8. ClosingInv'
  BY <1>7 DEF ClosingInv, Closes
<1> QED
  BY <1>5, <1>8

(* The other calls stay as they were. *)
LEMMA ProcMade ==
    ASSUME WInv, NEW c \in Calls, NEW x, procs' = [procs EXCEPT ![c] = x], procs[c].step # "none",
           x.step # "none", UNCHANGED fileVars
    PROVE  FilesInv'
<1>1. procs \in [Calls -> ProcRecords] /\ FilesInv /\ edits' = edits
  BY DEF WInv, CommandsInv, FilesInv, fileVars
<1>2. procs'[c] = x /\ \A d \in Calls \ {c} : procs'[d] = procs[d]
  BY <1>1
<1>3. x # NoProc /\ procs[c] # NoProc
  BY NoProcFits
<1>4. \A d \in Calls : Made(d)' <=> Made(d)
  BY <1>1, <1>2, <1>3 DEF Made
<1>5. \A d, e \in Calls : d < e /\ Made(e)' => Made(d)'
  BY <1>4 DEF WInv, QueueInv
<1> QED
  BY <1>1, <1>4, <1>5, FilesStay

(* A process moves without starting or ending. *)
LEMMA ProcMoves ==
    ASSUME WInv, NEW c \in Calls, NEW x \in ProcRecords, procs' = [procs EXCEPT ![c] = x],
           procs[c].step # "none", x.step # "none", x.root = procs[c].root,
           x.step = "running" <=> procs[c].step = "running", x.step = "running" => Closes(x),
           x.step = "asked" => x.sent = "nothing",
           UNCHANGED <<fileVars, slots, total, daemon>>, faults' \in 0..MaxFaults
    PROVE  WInv'
<1>1. procs \in [Calls -> ProcRecords] /\ CommandsInv /\ ClosingInv
  BY DEF WInv, CommandsInv
<1>2. x.root \in Roots
  BY <1>1 DEF CommandsInv
<1>3. procs' \in [Calls -> ProcRecords]
      /\ \A d \in Calls : /\ procs'[d].step = "running" <=> procs[d].step = "running"
                          /\ procs[d].step = "running" => procs'[d].root = procs[d].root
  BY <1>1
<1>4. /\ slots' \in [Roots -> Nat] /\ total' \in Nat
      /\ total' = Cardinality(Running') /\ total' <= MaxTotal
      /\ \A r \in Roots : slots'[r] = Cardinality(OnRoot(r)') /\ slots'[r] <= MaxPerRoot
  BY <1>1, <1>3, SlotsStay
<1>5. CommandsInv' /\ ClosingInv'
  BY <1>1, <1>2, <1>4, ProcStep
<1>6. FilesInv'
  BY ProcMade
<1> QED
  BY <1>5, <1>6 DEF WInv, FilesInv

LEMMA StartStep ==
    ASSUME WInv, NEW c \in Calls, Start(c)
    PROVE  WInv'
<1>1. /\ CommandsInv /\ ClosingInv /\ procs[c].step = "asked" /\ procs[c] \in ProcRecords
      /\ procs[c].root \in Roots /\ UNCHANGED <<fileVars, daemon>> /\ procs[c].sent = "nothing"
  BY ProcTypes DEF WInv, CommandsInv, Start
<1>2. faults' \in 0..MaxFaults
  BY <1>1, FaultFits DEF Start, CommandsInv
<1>3. CASE procs' = [procs EXCEPT ![c].step = "refused"] /\ UNCHANGED <<slots, total>>
  <2>1. PICK x : x = SetStep(procs[c], "refused")
    OBVIOUS
  <2>2. procs' = [procs EXCEPT ![c] = x]
    BY <1>3, <2>1 DEF SetStep
  <2>3. x \in ProcRecords /\ x.step = "refused" /\ x.root = procs[c].root
    BY <1>1, <2>1, SetStepFits
  <2> QED
    BY <1>1, <1>2, <1>3, <2>2, <2>3, ProcMoves
<1>4. CASE /\ MayAcquire(procs[c].root)
           /\ procs' = [procs EXCEPT ![c].step = "running", ![c].alive = TRUE,
                            ![c].session = IF procs[c].kind = "interactive" THEN "open" ELSE "none"]
           /\ slots' = [slots EXCEPT ![procs[c].root] = @ + 1] /\ total' = total + 1
  <2>1. PICK kept \in {"none", "open", "done"} :
            kept = IF procs[c].kind = "interactive" THEN "open" ELSE "none"
    OBVIOUS
  <2>2. PICK y : y = SetStep(procs[c], "running")
    OBVIOUS
  <2>3. PICK z : z = SetAlive(y, TRUE)
    OBVIOUS
  <2>4. PICK x : x = SetSession(z, kept)
    OBVIOUS
  <2>5. procs' = [procs EXCEPT ![c] = x]
    BY <1>4, <2>1, <2>2, <2>3, <2>4 DEF SetStep, SetAlive, SetSession
  <2>6. y \in ProcRecords /\ y.step = "running" /\ y.root = procs[c].root /\ y.sent = "nothing"
    BY <1>1, <2>2, SetStepFits
  <2>7. z \in ProcRecords /\ z.step = "running" /\ z.root = procs[c].root /\ z.sent = "nothing"
    BY <2>3, <2>6, SetAliveFits
  <2>8. x \in ProcRecords /\ x.step = "running" /\ x.root = procs[c].root /\ x.sent = "nothing"
    BY <2>4, <2>7, SetSessionFits
  <2>9. daemon = "up" /\ total < MaxTotal /\ slots[x.root] < MaxPerRoot
    BY <1>4, <2>8 DEF MayAcquire
  <2>10. Closes(x)
    BY <2>8, <2>9 DEF Closes
  <2>11. /\ slots' \in [Roots -> Nat] /\ total' \in Nat
         /\ total' = Cardinality(Running') /\ total' <= MaxTotal
         /\ \A r \in Roots : slots'[r] = Cardinality(OnRoot(r)') /\ slots'[r] <= MaxPerRoot
    BY <1>1, <1>4, <2>5, <2>8, <2>9, SlotTaken
  <2>12. CommandsInv' /\ ClosingInv'
    BY <1>1, <1>2, <2>5, <2>8, <2>10, <2>11, ProcStep
  <2>13. FilesInv'
    BY <1>1, <2>5, <2>8, ProcMade
  <2> QED
    BY <2>12, <2>13 DEF WInv, FilesInv
<1> QED
  BY <1>3, <1>4 DEF Start, SpawnThrows, Refuse

(* A process ends: by the event that comes first. *)
LEMMA ProcEnds ==
    ASSUME WInv, NEW c \in Running, NEW kept \in {"none", "open", "done"}, NEW alive \in BOOLEAN,
           procs' = [procs EXCEPT ![c] = SetSession(SetAlive(SetStep(procs[c], "ended"), alive), kept)],
           slots' = [slots EXCEPT ![procs[c].root] = @ - 1], total' = total - 1,
           UNCHANGED <<fileVars, daemon>>, faults' \in 0..MaxFaults
    PROVE  WInv'
<1>1. /\ CommandsInv /\ ClosingInv /\ c \in Calls /\ procs[c].step = "running"
      /\ procs[c] \in ProcRecords
  BY ProcTypes DEF WInv, Running
<1>2. PICK y : y = SetStep(procs[c], "ended")
  OBVIOUS
<1>3. PICK z : z = SetAlive(y, alive)
  OBVIOUS
<1>4. PICK x : x = SetSession(z, kept)
  OBVIOUS
<1>5. procs' = [procs EXCEPT ![c] = x]
  BY <1>2, <1>3, <1>4
<1>6. y \in ProcRecords /\ y.step = "ended" /\ y.root = procs[c].root
  BY <1>1, <1>2, SetStepFits
<1>7. z \in ProcRecords /\ z.step = "ended" /\ z.root = procs[c].root
  BY <1>3, <1>6, SetAliveFits
<1>8. x \in ProcRecords /\ x.step = "ended" /\ x.root = procs[c].root
  BY <1>4, <1>7, SetSessionFits
<1>9. x.root \in Roots
  BY <1>1, <1>8 DEF CommandsInv
<1>10. /\ slots' \in [Roots -> Nat] /\ total' \in Nat
       /\ total' = Cardinality(Running') /\ total' <= MaxTotal
       /\ \A r \in Roots : slots'[r] = Cardinality(OnRoot(r)') /\ slots'[r] <= MaxPerRoot
  BY <1>1, <1>5, <1>8, SlotFreed
<1>11. CommandsInv' /\ ClosingInv'
  BY <1>1, <1>5, <1>8, <1>9, <1>10, ProcStep
<1>12. FilesInv'
  BY <1>1, <1>5, <1>8, ProcMade
<1> QED
  BY <1>11, <1>12 DEF WInv, FilesInv

LEMMA EndingStep ==
    ASSUME WInv, NEW c \in Calls, CloseEvent(c) \/ ErrorEvent(c)
    PROVE  WInv'
<1>1. /\ c \in Running /\ UNCHANGED <<fileVars, daemon>> /\ faults' \in 0..MaxFaults
      /\ slots' = [slots EXCEPT ![procs[c].root] = @ - 1] /\ total' = total - 1
      /\ procs[c].alive \in BOOLEAN /\ procs \in [Calls -> ProcRecords]
  BY FaultFits, ProcTypes DEF CloseEvent, ErrorEvent, FinishProcess, WInv, CommandsInv
<1>2. \A event : KeptAfter(c, event) \in {"none", "open", "done"}
  BY DEF KeptAfter
<1>3. CASE CloseEvent(c)
  <2>1. procs' = [procs EXCEPT ![c].step = "ended", ![c].session = KeptAfter(c, "close")]
        /\ ~procs[c].alive
    BY <1>3 DEF CloseEvent, FinishProcess
  <2>2. PICK kept \in {"none", "open", "done"} : kept = KeptAfter(c, "close")
    BY <1>2
  <2>3. c \in Calls /\ procs[c].step = "running" /\ procs[c] \in ProcRecords
    BY <1>1 DEF Running
  <2>4. SetAlive(SetStep(procs[c], "ended"), FALSE) = SetStep(procs[c], "ended")
    <3>1. PICK y : y = SetStep(procs[c], "ended")
      OBVIOUS
    <3>2. y \in ProcRecords /\ y.alive = FALSE
      BY <2>1, <2>3, <3>1, ProcTypes, SetStepFits DEF WInv
    <3>3. [y EXCEPT !.alive = FALSE] = y
      BY <3>2 DEF ProcRecords
    <3> QED
      BY <3>1, <3>3 DEF SetAlive
  <2>5. procs' = [procs EXCEPT ![c] = SetSession(SetStep(procs[c], "ended"), kept)]
    BY <2>1, <2>2 DEF SetStep, SetSession
  <2>6. procs' = [procs EXCEPT ![c] = SetSession(SetAlive(SetStep(procs[c], "ended"), FALSE), kept)]
    BY <2>4, <2>5
  <2> QED
    BY <1>1, <2>6, ProcEnds
<1>4. CASE ErrorEvent(c)
  <2>1. procs' = [procs EXCEPT ![c].step = "ended", ![c].alive = FALSE, ![c].session = KeptAfter(c, "error")]
    BY <1>4 DEF ErrorEvent
  <2>2. PICK kept \in {"none", "open", "done"} : kept = KeptAfter(c, "error")
    BY <1>2
  <2>3. procs' = [procs EXCEPT ![c] = SetSession(SetAlive(SetStep(procs[c], "ended"), FALSE), kept)]
    BY <2>1, <2>2 DEF SetStep, SetAlive, SetSession
  <2> QED
    BY <1>1, <2>3, ProcEnds
<1> QED
  BY <1>3, <1>4

(* SIGTERM is sent to one process. *)
LEMMA OneTerminated ==
    ASSUME CommandsInv, NEW c \in Running, procs[c].sent = "nothing", procs' = Terminated({c})
    PROVE  procs' = [procs EXCEPT ![c] = SetSent(procs[c], "SIGTERM")]
<1>1. procs \in [Calls -> ProcRecords] /\ c \in Calls
  BY DEF CommandsInv, Running
<1>2. \A d \in Calls : d \in {c} \cap Running /\ procs[d].sent = "nothing" <=> d = c
  OBVIOUS
<1>3. procs' = [d \in Calls |-> IF d = c THEN SetSent(procs[c], "SIGTERM") ELSE procs[d]]
  BY <1>2 DEF Terminated, SetSent
<1> QED
  BY <1>1, <1>3

LEMMA TerminatedFits ==
    ASSUME WInv, NEW c \in Running, procs[c].sent = "nothing", procs' = Terminated({c}),
           UNCHANGED <<fileVars, slots, total, daemon, faults>>
    PROVE  WInv'
<1>1. CommandsInv /\ ClosingInv /\ c \in Calls /\ procs[c].step = "running" /\ procs[c] \in ProcRecords
  BY ProcTypes DEF WInv, Running
<1>2. PICK x : x = SetSent(procs[c], "SIGTERM")
  OBVIOUS
<1>3. procs' = [procs EXCEPT ![c] = x]
  BY <1>1, <1>2, OneTerminated
<1>4. x \in ProcRecords /\ x.step = "running" /\ x.root = procs[c].root /\ x.sent = "SIGTERM"
  BY <1>1, <1>2, SetSentFits
<1>5. daemon # "closed"
  BY <1>1 DEF ClosingInv
<1>6. Closes(x)
  BY <1>4, <1>5 DEF Closes
<1>7. faults' \in 0..MaxFaults
  BY <1>1 DEF CommandsInv
<1> QED
  BY <1>1, <1>3, <1>4, <1>6, <1>7, ProcMoves

LEMMA ProcessSteps ==
    ASSUME WInv, NEW c \in Calls, Timeout(c) \/ Kill(c) \/ Cleanup(c) \/ Exit(c) \/ LetGo(c)
    PROVE  WInv'
<1>1. /\ CommandsInv /\ ClosingInv /\ procs[c] \in ProcRecords /\ procs \in [Calls -> ProcRecords]
      /\ procs[c].held \in BOOLEAN /\ procs[c].alive \in BOOLEAN
      /\ UNCHANGED <<fileVars, slots, total, daemon, faults>> /\ faults' \in 0..MaxFaults
  BY ProcTypes DEF WInv, CommandsInv, Timeout, Kill, Cleanup, Exit, LetGo
<1>2. procs[c].step # "none"
  <2>1. procs[c].step = "none" => procs[c] = NoProc
    BY <1>1 DEF CommandsInv
  <2>2. NoProc.session = "none" /\ NoProc.alive = FALSE /\ NoProc.held = FALSE /\ NoProc.step = "none"
    BY DEF NoProc
  <2> QED
    BY <2>1, <2>2 DEF Timeout, Kill, Cleanup, Exit, LetGo, Running
<1>3. procs[c].step = "running" => Closes(procs[c])
  BY <1>1, RunningCloses DEF Running
<1>4. procs[c].step = "asked" => procs[c].sent = "nothing"
  BY <1>1 DEF CommandsInv
<1>5. CASE Timeout(c)
  BY <1>5, TerminatedFits DEF Timeout
<1>6. CASE Kill(c)
  <2>1. PICK held \in BOOLEAN :
            procs' = [procs EXCEPT ![c].sent = "SIGKILL", ![c].alive = FALSE, ![c].held = held]
    BY <1>1, <1>6 DEF Kill
  <2>2. PICK y : y = SetSent(procs[c], "SIGKILL")
    OBVIOUS
  <2>3. PICK z : z = SetAlive(y, FALSE)
    OBVIOUS
  <2>4. PICK x : x = SetHeld(z, held)
    OBVIOUS
  <2>5. procs' = [procs EXCEPT ![c] = x]
    BY <2>1, <2>2, <2>3, <2>4 DEF SetSent, SetAlive, SetHeld
  <2>6. y \in ProcRecords /\ y.step = procs[c].step /\ y.root = procs[c].root /\ y.sent = "SIGKILL"
    BY <1>1, <2>2, SetSentFits
  <2>7. z \in ProcRecords /\ z.step = procs[c].step /\ z.root = procs[c].root /\ z.sent = "SIGKILL"
        /\ z.alive = FALSE
    BY <2>3, <2>6, SetAliveFits
  <2>8. x \in ProcRecords /\ x.step = procs[c].step /\ x.root = procs[c].root /\ x.sent = "SIGKILL"
        /\ x.alive = FALSE
    BY <2>4, <2>7, SetHeldFits
  <2>9. Closes(x) /\ procs[c].step = "running"
    BY <1>6, <2>8 DEF Closes, Kill, Running
  <2> QED
    BY <1>1, <1>2, <2>5, <2>8, <2>9, ProcMoves
<1>7. CASE Cleanup(c)
  <2>1. PICK x : x = SetSession(procs[c], "none")
    OBVIOUS
  <2>2. procs' = [procs EXCEPT ![c] = x]
    BY <1>7, <2>1 DEF Cleanup, SetSession
  <2>3. x \in ProcRecords /\ x.step = procs[c].step /\ x.root = procs[c].root
        /\ x.sent = procs[c].sent /\ x.alive = procs[c].alive
    BY <1>1, <2>1, SetSessionFits
  <2>4. x.step = "running" => Closes(x)
    BY <1>3, <2>3 DEF Closes
  <2> QED
    BY <1>1, <1>2, <1>4, <2>2, <2>3, <2>4, ProcMoves
<1>8. CASE Exit(c)
  <2>1. PICK held \in BOOLEAN : procs' = [procs EXCEPT ![c].alive = FALSE, ![c].held = held]
    <3>1. (c \in Running) \in BOOLEAN
      OBVIOUS
    <3> QED
      BY <1>8, <3>1 DEF Exit
  <2>2. PICK y : y = SetAlive(procs[c], FALSE)
    OBVIOUS
  <2>3. PICK x : x = SetHeld(y, held)
    OBVIOUS
  <2>4. procs' = [procs EXCEPT ![c] = x]
    BY <2>1, <2>2, <2>3 DEF SetAlive, SetHeld
  <2>5. y \in ProcRecords /\ y.step = procs[c].step /\ y.root = procs[c].root
        /\ y.sent = procs[c].sent /\ y.alive = FALSE
    BY <1>1, <2>2, SetAliveFits
  <2>6. x \in ProcRecords /\ x.step = procs[c].step /\ x.root = procs[c].root
        /\ x.sent = procs[c].sent /\ x.alive = FALSE
    BY <2>3, <2>5, SetHeldFits
  <2>7. x.step = "running" => Closes(x)
    BY <1>3, <2>6 DEF Closes
  <2> QED
    BY <1>1, <1>2, <1>4, <2>4, <2>6, <2>7, ProcMoves
<1>9. CASE LetGo(c)
  <2>1. PICK x : x = SetHeld(procs[c], FALSE)
    OBVIOUS
  <2>2. procs' = [procs EXCEPT ![c] = x]
    BY <1>9, <2>1 DEF LetGo, SetHeld
  <2>3. x \in ProcRecords /\ x.step = procs[c].step /\ x.root = procs[c].root
        /\ x.sent = procs[c].sent /\ x.alive = procs[c].alive
    BY <1>1, <2>1, SetHeldFits
  <2>4. x.step = "running" => Closes(x)
    BY <1>3, <2>3 DEF Closes
  <2> QED
    BY <1>1, <1>2, <1>4, <2>2, <2>3, <2>4, ProcMoves
<1> QED
  BY <1>5, <1>6, <1>7, <1>8, <1>9

(* The shutdown asks every process to end. *)
LEMMA ShutdownStep == WInv /\ Shutdown => WInv'
<1> SUFFICES ASSUME WInv, Shutdown PROVE WInv'
  OBVIOUS
<1>1. /\ CommandsInv /\ ClosingInv /\ FilesInv /\ procs \in [Calls -> ProcRecords]
      /\ UNCHANGED <<fileVars, slots, total>> /\ daemon' = "closing" /\ faults' \in 0..MaxFaults
  BY FaultFits DEF WInv, CommandsInv, FilesInv, Shutdown
<1>2. \A c \in Calls :
        /\ procs'[c] \in ProcRecords
        /\ procs'[c].step = procs[c].step /\ procs'[c].root = procs[c].root
        /\ procs'[c].alive = procs[c].alive
        /\ procs'[c].sent = IF c \in Running /\ procs[c].sent = "nothing" THEN "SIGTERM" ELSE procs[c].sent
        /\ procs[c] = NoProc => procs'[c] = NoProc
  <2> SUFFICES ASSUME NEW c \in Calls
               PROVE  /\ procs'[c] \in ProcRecords
                      /\ procs'[c].step = procs[c].step /\ procs'[c].root = procs[c].root
                      /\ procs'[c].alive = procs[c].alive
                      /\ procs'[c].sent = IF c \in Running /\ procs[c].sent = "nothing"
                                          THEN "SIGTERM" ELSE procs[c].sent
                      /\ procs[c] = NoProc => procs'[c] = NoProc
    OBVIOUS
  <2>1. PICK y : y = IF c \in Running /\ procs[c].sent = "nothing"
                     THEN SetSent(procs[c], "SIGTERM") ELSE procs[c]
    OBVIOUS
  <2>2. Terminated(Calls)[c] = y
    BY <2>1 DEF Terminated, SetSent
  <2>3. PICK session : session = IF y.session = "done" THEN "none" ELSE y.session
    OBVIOUS
  <2>4. procs'[c] = [Terminated(Calls)[c] EXCEPT !.session = IF @ = "done" THEN "none" ELSE @]
    BY DEF Shutdown
  <2>5. procs'[c] = [y EXCEPT !.session = IF y.session = "done" THEN "none" ELSE y.session]
    BY <2>2, <2>4
  <2>6. procs'[c] = SetSession(y, session)
    BY <2>3, <2>5 DEF SetSession
  <2>7. /\ y \in ProcRecords /\ y.step = procs[c].step /\ y.root = procs[c].root
        /\ y.alive = procs[c].alive
        /\ y.sent = IF c \in Running /\ procs[c].sent = "nothing" THEN "SIGTERM" ELSE procs[c].sent
    BY <1>1, <2>1, ProcTypes, SetSentFits
  <2>8. session \in {"none", "open", "done"}
    BY <2>3, <2>7 DEF ProcRecords
  <2>9. procs[c] = NoProc => procs'[c] = NoProc
    <3> SUFFICES ASSUME procs[c] = NoProc PROVE procs'[c] = NoProc
      OBVIOUS
    <3>1. c \notin Running
      BY NoProcFits DEF Running
    <3>2. y = NoProc /\ session = "none"
      BY <2>1, <2>3, <3>1, NoProcFits
    <3> QED
      BY <2>6, <3>2 DEF SetSession, NoProc
  <2> QED
    BY <2>6, <2>7, <2>8, <2>9, SetSessionFits
<1>3. procs' \in [Calls -> ProcRecords]
  <2>1. procs' = [c \in Calls |-> procs'[c]]
    BY DEF Shutdown
  <2> QED
    BY <1>2, <2>1
<1>4. /\ slots' \in [Roots -> Nat] /\ total' \in Nat
      /\ total' = Cardinality(Running') /\ total' <= MaxTotal
      /\ \A r \in Roots : slots'[r] = Cardinality(OnRoot(r)') /\ slots'[r] <= MaxPerRoot
  BY <1>1, <1>2, <1>3, SlotsStay
<1>5. /\ \A c \in Calls : procs'[c].step = "none" <=> procs'[c] = NoProc
      /\ \A c \in Calls : procs'[c].step # "none" => procs'[c].root \in Roots
      /\ \A c \in Calls : procs'[c].step = "asked" => procs'[c].sent = "nothing"
  BY <1>1, <1>2, NoProcFits DEF CommandsInv, Running
<1>6. CommandsInv'
  BY <1>1, <1>3, <1>4, <1>5 DEF CommandsInv, OnRoot
<1>7. Running' = Running
  BY <1>2 DEF Running
<1>8. ClosingInv'
  BY <1>1, <1>2, <1>7 DEF ClosingInv, Running
<1>9. \A c \in Calls : Made(c)' <=> Made(c)
  BY <1>1, <1>2, <1>5 DEF Made, CommandsInv, fileVars
<1>10. FilesInv'
  BY <1>1, <1>9, FilesStay DEF FilesInv, QueueInv
<1> QED
  BY <1>6, <1>8, <1>10 DEF WInv, FilesInv

LEMMA DaemonSteps == WInv /\ (ShutdownEnds \/ Restart) => WInv'
<1> SUFFICES ASSUME WInv, ShutdownEnds \/ Restart PROVE WInv'
  OBVIOUS
<1>1. /\ CommandsInv /\ ClosingInv /\ FilesInv
      /\ UNCHANGED fileVars /\ procs' = procs /\ slots' = slots /\ total' = total /\ faults' = faults
  BY DEF WInv, FilesInv, ShutdownEnds, Restart, commandVars
<1>2. Running' = Running
  BY <1>1 DEF Running
<1>3. CommandsInv'
  BY <1>1, <1>2 DEF CommandsInv, ShutdownEnds, Restart
<1>4. ClosingInv'
  BY <1>1, <1>2 DEF ClosingInv, ShutdownEnds, Restart
<1>5. \A c \in Calls : Made(c)' <=> Made(c)
  BY <1>1 DEF Made, fileVars
<1>6. FilesInv'
  BY <1>1, <1>5, FilesStay DEF FilesInv, QueueInv
<1> QED
  BY <1>3, <1>4, <1>6 DEF WInv, FilesInv

(* A call is made after all those that are before it. *)
LEMMA RunStep ==
    ASSUME WInv, NEW c \in Calls, Run(c)
    PROVE  WInv'
<1>1. /\ CommandsInv /\ ClosingInv /\ FilesInv /\ procs \in [Calls -> ProcRecords]
      /\ UNCHANGED <<fileVars, slots, total, daemon, faults>>
      /\ ~Made(c) /\ \A d \in Calls : d < c => Made(d)
  BY DEF WInv, CommandsInv, FilesInv, Run, May
<1>2. PICK root \in Roots, kind \in {"batch", "interactive"} :
        procs' = [procs EXCEPT ![c] = [NoProc EXCEPT !.step = "asked", !.root = root, !.kind = kind]]
  BY DEF Run
<1>3. PICK x : x = [NoProc EXCEPT !.step = "asked", !.root = root, !.kind = kind]
  OBVIOUS
<1>4. x = [step |-> "asked", root |-> root, kind |-> kind, alive |-> FALSE, held |-> FALSE,
           sent |-> "nothing", session |-> "none"]
  <2>1. NoProc = [step |-> "none", root |-> None, kind |-> "batch", alive |-> FALSE, held |-> FALSE,
                  sent |-> "nothing", session |-> "none"]
    BY DEF NoProc
  <2>2. x = [[step |-> "none", root |-> None, kind |-> "batch", alive |-> FALSE, held |-> FALSE,
              sent |-> "nothing", session |-> "none"]
                EXCEPT !.step = "asked", !.root = root, !.kind = kind]
    BY <1>3, <2>1, Zenon
  <2> QED
    BY <2>2
<1>5. x \in ProcRecords /\ x.step = "asked" /\ x.root = root /\ x.sent = "nothing"
  BY <1>4 DEF ProcRecords
<1>6. procs' = [procs EXCEPT ![c] = x]
  BY <1>2, <1>3
<1>7. procs[c] = NoProc /\ procs[c].step = "none"
  BY <1>1, NoProcFits DEF Made
<1>8. procs' \in [Calls -> ProcRecords]
      /\ \A d \in Calls : /\ procs'[d].step = "running" <=> procs[d].step = "running"
                          /\ procs[d].step = "running" => procs'[d].root = procs[d].root
  BY <1>1, <1>5, <1>6, <1>7
<1>9. /\ slots' \in [Roots -> Nat] /\ total' \in Nat
      /\ total' = Cardinality(Running') /\ total' <= MaxTotal
      /\ \A r \in Roots : slots'[r] = Cardinality(OnRoot(r)') /\ slots'[r] <= MaxPerRoot
  BY <1>1, <1>8, SlotsStay
<1>10. faults' \in 0..MaxFaults
  BY <1>1 DEF CommandsInv
<1>11. CommandsInv' /\ ClosingInv'
  BY <1>1, <1>5, <1>6, <1>9, <1>10, ProcStep
<1>12. \A d \in Calls : Made(d)' <=> Made(d) \/ d = c
  <2>1. procs'[c] = x /\ \A d \in Calls \ {c} : procs'[d] = procs[d]
    BY <1>1, <1>6
  <2>2. x # NoProc
    BY <1>5, NoProcFits
  <2> QED
    BY <1>1, <2>1, <2>2 DEF Made, fileVars
<1>13. \A d, e \in Calls : d < e /\ Made(e)' => Made(d)'
  BY <1>1, <1>12 DEF FilesInv, QueueInv
<1>14. FilesInv'
  BY <1>1, <1>12, <1>13, FilesStay
<1> QED
  BY <1>11, <1>14 DEF WInv, FilesInv

(* The daemon ends: no process is known to it any more. *)
LEMMA EndsCommands ==
    ASSUME WInv, Ends, faults' \in 0..MaxFaults
    PROVE  CommandsInv' /\ ClosingInv' /\ \A c \in Calls : procs'[c] = NoProc <=> procs[c] = NoProc
<1>1. /\ CommandsInv /\ procs \in [Calls -> ProcRecords] /\ daemon' = "down"
      /\ slots' = [r \in Roots |-> 0] /\ total' = 0
  BY DEF WInv, CommandsInv, Ends
<1>2. \A c \in Calls :
        /\ procs'[c] \in ProcRecords
        /\ procs'[c].step = IF procs[c].step = "asked" THEN "refused"
                            ELSE IF procs[c].step = "running" THEN "orphan" ELSE procs[c].step
        /\ procs'[c].root = procs[c].root
        /\ procs[c] = NoProc => procs'[c] = NoProc
  <2> SUFFICES ASSUME NEW c \in Calls
               PROVE  /\ procs'[c] \in ProcRecords
                      /\ procs'[c].step = IF procs[c].step = "asked" THEN "refused"
                                          ELSE IF procs[c].step = "running" THEN "orphan" ELSE procs[c].step
                      /\ procs'[c].root = procs[c].root
                      /\ procs[c] = NoProc => procs'[c] = NoProc
    OBVIOUS
  <2>1. PICK y : y = SetSession(procs[c], "none")
    OBVIOUS
  <2>2. PICK step : step = IF procs[c].step = "asked" THEN "refused"
                           ELSE IF procs[c].step = "running" THEN "orphan" ELSE procs[c].step
    OBVIOUS
  <2>3. procs'[c] = [procs[c] EXCEPT !.session = "none",
                        !.step = IF @ = "asked" THEN "refused" ELSE IF @ = "running" THEN "orphan" ELSE @]
    BY DEF Ends
  <2>4. procs'[c] = [procs[c] EXCEPT !.session = "none", !.step = step]
    BY <2>2, <2>3, Zenon
  <2>5. procs'[c] = SetStep(y, step)
    BY <2>1, <2>4 DEF SetStep, SetSession
  <2>6. y \in ProcRecords /\ y.step = procs[c].step /\ y.root = procs[c].root
    BY <1>1, <2>1, SetSessionFits
  <2>7. step \in {"none", "asked", "running", "refused", "ended", "orphan"}
    BY <1>1, <2>2, ProcTypes
  <2>8. procs[c] = NoProc => procs'[c] = NoProc
    <3> SUFFICES ASSUME procs[c] = NoProc PROVE procs'[c] = NoProc
      OBVIOUS
    <3>1. step = "none"
      BY <2>2, NoProcFits
    <3>2. procs'[c] = [NoProc EXCEPT !.session = "none", !.step = "none"]
      BY <2>4, <3>1, Zenon
    <3> QED
      BY <3>2 DEF NoProc
  <2> QED
    BY <2>2, <2>5, <2>6, <2>7, <2>8, SetStepFits
<1>3. procs' \in [Calls -> ProcRecords]
  <2>1. procs' = [c \in Calls |-> procs'[c]]
    BY DEF Ends
  <2> QED
    BY <1>2, <2>1
<1>4. Running' = {} /\ \A r \in Roots : OnRoot(r)' = {}
  BY <1>2 DEF Running, OnRoot
<1>5. Cardinality({}) = 0
  BY FS_EmptySet
<1>6. /\ \A c \in Calls : procs'[c].step = "none" <=> procs'[c] = NoProc
      /\ \A c \in Calls : procs'[c].step # "none" => procs'[c].root \in Roots
      /\ \A c \in Calls : procs'[c].step # "asked"
  BY <1>1, <1>2, NoProcFits DEF CommandsInv
<1>7. /\ slots' \in [Roots -> Nat] /\ total' \in Nat /\ total' = Cardinality(Running') /\ total' <= MaxTotal
      /\ \A r \in Roots : slots'[r] = Cardinality(OnRoot(r)') /\ slots'[r] <= MaxPerRoot
  <2>1. total' = Cardinality(Running') /\ total' \in Nat /\ total' <= MaxTotal
    BY <1>1, <1>4, <1>5, ConstantFacts
  <2>2. \A r \in Roots : Cardinality(OnRoot(r)') = 0
    BY <1>4, <1>5
  <2>3. slots' \in [Roots -> Nat] /\ \A r \in Roots : slots'[r] = 0
    BY <1>1
  <2>4. 0 <= MaxPerRoot
    BY ConstantFacts
  <2> QED
    BY <2>1, <2>2, <2>3, <2>4
<1>8. CommandsInv'
  BY <1>1, <1>3, <1>6, <1>7 DEF CommandsInv, OnRoot
<1>9. ClosingInv'
  BY <1>1, <1>4 DEF ClosingInv
<1>10. \A c \in Calls : procs'[c] = NoProc <=> procs[c] = NoProc
  BY <1>1, <1>2, <1>6 DEF CommandsInv
<1> QED
  BY <1>8, <1>9, <1>10

-----------------------------------------------------------------------------
(* The calls of edits: fields, and which calls act. *)

SetWaits(x, v) == [x EXCEPT !.waits = v]
SetPlan(x, v) == [x EXCEPT !.plan = v]
SetDone(x, v) == [x EXCEPT !.done = v]
SetLooked(x, v) == [x EXCEPT !.looked = v]
SetConflict(x, v) == [x EXCEPT !.conflict = v]

LEMMA EditSetStep ==
    ASSUME NEW x \in EditRecords, NEW v \in EditSteps
    PROVE  /\ SetStep(x, v) \in EditRecords /\ SetStep(x, v).step = v
           /\ SetStep(x, v).root = x.root /\ SetStep(x, v).paths = x.paths /\ SetStep(x, v).waits = x.waits
           /\ SetStep(x, v).plan = x.plan /\ SetStep(x, v).done = x.done
           /\ SetStep(x, v).looked = x.looked /\ SetStep(x, v).conflict = x.conflict
<1>1. SetStep(x, v) = [step |-> v, root |-> x.root, paths |-> x.paths, waits |-> x.waits, plan |-> x.plan,
                       done |-> x.done, looked |-> x.looked, conflict |-> x.conflict]
  BY SMTT(30) DEF EditRecords, SetStep
<1> QED
  BY <1>1 DEF EditRecords

LEMMA EditSetWaits ==
    ASSUME NEW x \in EditRecords, NEW v \in Calls \cup {None}
    PROVE  /\ SetWaits(x, v) \in EditRecords /\ SetWaits(x, v).waits = v
           /\ SetWaits(x, v).step = x.step /\ SetWaits(x, v).root = x.root
           /\ SetWaits(x, v).paths = x.paths /\ SetWaits(x, v).plan = x.plan /\ SetWaits(x, v).done = x.done
           /\ SetWaits(x, v).looked = x.looked /\ SetWaits(x, v).conflict = x.conflict
<1>1. SetWaits(x, v) = [step |-> x.step, root |-> x.root, paths |-> x.paths, waits |-> v,
            plan |-> x.plan, done |-> x.done, looked |-> x.looked, conflict |-> x.conflict]
  BY SMTT(30) DEF EditRecords, SetWaits
<1> QED
  BY <1>1 DEF EditRecords

LEMMA EditSetPlan ==
    ASSUME NEW x \in EditRecords, NEW v \in Seq(Texts)
    PROVE  /\ SetPlan(x, v) \in EditRecords /\ SetPlan(x, v).plan = v
           /\ SetPlan(x, v).step = x.step /\ SetPlan(x, v).root = x.root
           /\ SetPlan(x, v).paths = x.paths /\ SetPlan(x, v).waits = x.waits /\ SetPlan(x, v).done = x.done
           /\ SetPlan(x, v).looked = x.looked /\ SetPlan(x, v).conflict = x.conflict
<1>1. SetPlan(x, v) = [step |-> x.step, root |-> x.root, paths |-> x.paths, waits |-> x.waits,
            plan |-> v, done |-> x.done, looked |-> x.looked, conflict |-> x.conflict]
  BY DEF EditRecords, SetPlan
<1> QED
  BY <1>1 DEF EditRecords

LEMMA EditSetDone ==
    ASSUME NEW x \in EditRecords, NEW v \in Nat
    PROVE  /\ SetDone(x, v) \in EditRecords /\ SetDone(x, v).done = v
           /\ SetDone(x, v).step = x.step /\ SetDone(x, v).root = x.root
           /\ SetDone(x, v).paths = x.paths /\ SetDone(x, v).waits = x.waits /\ SetDone(x, v).plan = x.plan
           /\ SetDone(x, v).looked = x.looked /\ SetDone(x, v).conflict = x.conflict
<1>1. SetDone(x, v) = [step |-> x.step, root |-> x.root, paths |-> x.paths, waits |-> x.waits,
            plan |-> x.plan, done |-> v, looked |-> x.looked, conflict |-> x.conflict]
  BY DEF EditRecords, SetDone
<1> QED
  BY <1>1 DEF EditRecords

LEMMA EditSetLooked ==
    ASSUME NEW x \in EditRecords, NEW v \in BOOLEAN
    PROVE  /\ SetLooked(x, v) \in EditRecords /\ SetLooked(x, v).looked = v
           /\ SetLooked(x, v).step = x.step /\ SetLooked(x, v).root = x.root
           /\ SetLooked(x, v).paths = x.paths /\ SetLooked(x, v).waits = x.waits /\ SetLooked(x, v).plan = x.plan
           /\ SetLooked(x, v).done = x.done /\ SetLooked(x, v).conflict = x.conflict
<1>1. SetLooked(x, v) = [step |-> x.step, root |-> x.root, paths |-> x.paths, waits |-> x.waits,
            plan |-> x.plan, done |-> x.done, looked |-> v, conflict |-> x.conflict]
  BY DEF EditRecords, SetLooked
<1> QED
  BY <1>1 DEF EditRecords

LEMMA EditSetConflict ==
    ASSUME NEW x \in EditRecords, NEW v \in BOOLEAN
    PROVE  /\ SetConflict(x, v) \in EditRecords /\ SetConflict(x, v).conflict = v
           /\ SetConflict(x, v).step = x.step /\ SetConflict(x, v).root = x.root
           /\ SetConflict(x, v).paths = x.paths /\ SetConflict(x, v).waits = x.waits /\ SetConflict(x, v).plan = x.plan
           /\ SetConflict(x, v).done = x.done /\ SetConflict(x, v).looked = x.looked
<1>1. SetConflict(x, v) = [step |-> x.step, root |-> x.root, paths |-> x.paths, waits |-> x.waits,
            plan |-> x.plan, done |-> x.done, looked |-> x.looked, conflict |-> v]
  BY DEF EditRecords, SetConflict
<1> QED
  BY <1>1 DEF EditRecords

LEMMA EditTypes ==
    ASSUME EditsInv, NEW c \in Calls
    PROVE  /\ edits[c] \in EditRecords /\ Shaped(edits[c])
           /\ edits[c].step \in EditSteps /\ edits[c].root \in Roots \cup {None}
           /\ edits[c].paths \in Seq(Paths) /\ edits[c].plan \in Seq(Texts) /\ edits[c].done \in Nat
           /\ edits[c].looked \in BOOLEAN /\ edits[c].conflict \in BOOLEAN
           /\ Len(edits[c].paths) \in Nat /\ Len(edits[c].plan) \in Nat
           /\ DOMAIN edits[c].paths = 1..Len(edits[c].paths) /\ DOMAIN edits[c].plan = 1..Len(edits[c].plan)
<1>1. edits[c] \in EditRecords /\ Shaped(edits[c])
  BY DEF EditsInv
<1>2. /\ edits[c].step \in EditSteps /\ edits[c].root \in Roots \cup {None}
      /\ edits[c].paths \in Seq(Paths) /\ edits[c].plan \in Seq(Texts) /\ edits[c].done \in Nat
      /\ edits[c].looked \in BOOLEAN /\ edits[c].conflict \in BOOLEAN
  BY <1>1 DEF EditRecords
<1> QED
  BY <1>1, <1>2

(* What a call that was made is about. *)
LEMMA EditFacts ==
    ASSUME EditsInv, NEW c \in Calls, edits[c].step # "none"
    PROVE  /\ <<edits[c].root, edits[c].paths>> \in Edits /\ edits[c].root \in Roots
           /\ \A i, j \in DOMAIN edits[c].paths : edits[c].paths[i] = edits[c].paths[j] => i = j
           /\ Made(c)
<1>1. <<edits[c].root, edits[c].paths>> \in Edits
  BY DEF EditsInv, Shaped
<1>2. IsInjective(edits[c].paths)
  BY <1>1, WorkspaceBounds
<1>3. NoEdit.step = "none"
  BY DEF NoEdit
<1> QED
  BY <1>1, <1>2, <1>3, ConstantFacts DEF IsInjective, Made

(* No call before c on its root is left to end. *)
First(c) == \A b \in Calls : b < c /\ edits[b].root = edits[c].root => edits[b].step \notin Live

LEMMA ActingIsFirst ==
    ASSUME QueueInv, NEW c \in Calls, edits[c].step \in Acting
    PROVE  First(c)
  BY DEF QueueInv, First, Acting

LEMMA StartsFirst ==
    ASSUME EditsInv, QueueInv, NEW c \in Calls, edits[c].step = "waiting", MayStart(c)
    PROVE  First(c)
<1> SUFFICES ASSUME NEW b \in Calls, b < c, edits[b].root = edits[c].root, edits[b].step \in Live
             PROVE  FALSE
  BY DEF First
<1>1. PICK e \in Calls : e = edits[c].waits /\ b <= e /\ e < c /\ edits[e].root = edits[c].root
  BY DEF QueueInv, Behind
<1>2. edits[e].step \in Over
  BY <1>1 DEF MayStart
<1>3. e # b
  BY <1>2 DEF Over, Live, Acting
<1>4. b < e
  BY <1>1, <1>3, ConstantFacts
<1>5. edits[e].step = "waiting"
  BY <1>1, <1>2, <1>4 DEF QueueInv, Over
<1> QED
  BY <1>2, <1>5 DEF Over

LEMMA OneActs ==
    ASSUME QueueInv, NEW c \in Calls, NEW d \in Calls, edits[c].step \in Acting, edits[d].step \in Acting,
           edits[c].root = edits[d].root
    PROVE  c = d
<1>1. ~(c < d) /\ ~(d < c)
  BY ActingIsFirst DEF First, Live
<1> QED
  BY <1>1, ConstantFacts

(* A call that is first on its root moves, or ends. *)
LEMMA EditMoves ==
    ASSUME EditsInv, QueueInv, NEW c \in Calls, NEW x \in EditRecords, First(c),
           edits' = [edits EXCEPT ![c] = x], edits[c].step \in Live, x.step # "none", Shaped(x),
           x.root = edits[c].root, x.paths = edits[c].paths,
           \/ x.step \in Acting /\ locks' = locks
           \/ x.step \in Over /\ locks' = Released(c),
           procs' = procs, files' \in [Paths -> Texts],
           written' \in [Paths -> SUBSET (Calls \cup Foreign)], raced' \in [Paths -> SUBSET (Calls \cup Foreign)]
    PROVE  EditsInv' /\ QueueInv'
<1>1. edits \in [Calls -> EditRecords] /\ locks \in [Roots -> Calls \cup {None}]
  BY DEF EditsInv, QueueInv
<1>2. edits'[c] = x /\ \A d \in Calls \ {c} : edits'[d] = edits[d]
  BY <1>1
<1>3. /\ edits' \in [Calls -> EditRecords]
      /\ \A d \in Calls : edits'[d].root = edits[d].root /\ (edits'[d].step = "none" <=> edits[d].step = "none")
  BY <1>1, <1>2 DEF Live, Acting
<1>4. \A d \in Calls : edits[d].step # "none" => edits[d].root \in Roots
  BY EditFacts
<1>5. PICK r \in Roots : r = edits[c].root
  BY <1>4 DEF Live, Acting
<1>6. EditsInv'
  BY <1>2, <1>3 DEF EditsInv
<1>7. locks' \in [Roots -> Calls \cup {None}] /\ \A q \in Roots : locks'[q] \in Calls => locks'[q] = locks[q]
  BY <1>1, ConstantFacts DEF Released
<1>8. \A d \in Calls : Made(d)' <=> Made(d)
  <2>1. x # NoEdit /\ edits[c] # NoEdit
    BY DEF NoEdit, Live, Acting
  <2> QED
    BY <1>2, <2>1 DEF Made
<1>9. \A d, e \in Calls : d < e /\ Made(e)' => Made(d)'
  BY <1>8 DEF QueueInv
<1>10. \A d, e \in Calls :
        d < e /\ edits'[d].step \in Live /\ edits'[e].step # "none" /\ edits'[d].root = edits'[e].root =>
            edits'[e].step = "waiting" /\ edits'[e].waits \in Calls /\ d <= edits'[e].waits
            /\ edits'[e].waits < e /\ edits'[edits'[e].waits].root = edits'[e].root
  <2> SUFFICES ASSUME NEW d \in Calls, NEW e \in Calls, d < e, edits'[d].step \in Live, edits'[e].step # "none",
                      edits'[d].root = edits'[e].root
               PROVE  edits'[e].step = "waiting" /\ edits'[e].waits \in Calls /\ d <= edits'[e].waits
                      /\ edits'[e].waits < e /\ edits'[edits'[e].waits].root = edits'[e].root
    OBVIOUS
  <2>1. edits[d].step \in Live /\ edits[d].root = edits[e].root /\ edits[e].step # "none"
    BY <1>2, <1>3
  <2>2. e # c
    <3> SUFFICES ASSUME e = c PROVE FALSE
      OBVIOUS
    <3> QED
      BY <2>1 DEF First
  <2>3. edits'[e] = edits[e]
    BY <1>2, <2>2
  <2>4. edits[e].step = "waiting" /\ edits[e].waits \in Calls /\ d <= edits[e].waits
        /\ edits[e].waits < e /\ edits[edits[e].waits].root = edits[e].root
    BY <2>1 DEF QueueInv, Behind
  <2> QED
    BY <1>3, <2>3, <2>4
<1>11. \A q \in Roots : locks'[q] \in Calls => edits'[locks'[q]].step # "none" /\ edits'[locks'[q]].root = q
  BY <1>3, <1>7 DEF QueueInv
<1>12. \A d \in Calls : edits'[d].step \in Live =>
        locks'[edits'[d].root] \in Calls /\ d <= locks'[edits'[d].root]
  <2> SUFFICES ASSUME NEW d \in Calls, edits'[d].step \in Live
               PROVE  locks'[edits'[d].root] \in Calls /\ d <= locks'[edits'[d].root]
    OBVIOUS
  <2>1. edits[d].step \in Live /\ edits'[d].root = edits[d].root
    BY <1>2, <1>3
  <2>2. PICK q \in Roots : q = edits[d].root
    BY <1>4, <2>1 DEF Live, Acting
  <2>3. locks[q] \in Calls /\ d <= locks[q]
    BY <2>1, <2>2 DEF QueueInv
  <2>4. locks'[q] = locks[q]
    <3> SUFFICES ASSUME locks'[q] # locks[q] PROVE FALSE
      OBVIOUS
    <3>1. locks' = Released(c) /\ x.step \in Over
      OBVIOUS
    <3>2. q = r /\ locks[r] = c
      BY <1>1, <1>5, <3>1 DEF Released
    <3>3. d # c
      BY <1>2, <3>1 DEF Over, Live, Acting
    <3>4. d < c
      BY <2>3, <3>2, <3>3, ConstantFacts
    <3> QED
      BY <1>5, <2>1, <2>2, <3>2, <3>4 DEF First
  <2> QED
    BY <2>1, <2>2, <2>3, <2>4
<1>13. QueueInv'
  BY <1>7, <1>9, <1>10, <1>11, <1>12 DEF QueueInv, Behind
<1> QED
  BY <1>6, <1>13

-----------------------------------------------------------------------------
(* What the step of a call has to say of the texts. *)

ShownFits(e, p) ==
    /\ e.step \in {"committing", "undoing"} \cup Left
    /\ On(e, p)
    /\ e.step = "committing" \/ (e.step = "undoing" /\ ~e.conflict) => DoneOn(e, p)
PlanFits(e) ==
    \A i \in DOMAIN e.plan : \A d \in Calls \cap TextOf(e.plan[i]) :
        edits[d].step \in Left /\ On(edits[d], e.paths[i])
LookFits(e, c) ==
    e.looked =>
        /\ e.step = "committing" =>
                written[e.paths[e.done + 1]] \ TextOf(e.plan[e.done + 1]) \subseteq raced[e.paths[e.done + 1]] \cap Foreign
        /\ e.step = "undoing" =>
                written[e.paths[e.done]] \ With(e.plan[e.done], c) \subseteq raced[e.paths[e.done]] \cap Foreign

LEMMA TextsSay ==
    TextsInv <=> /\ \A p \in Paths : \A c \in Calls \cap Shown(p) : ShownFits(edits[c], p)
                 /\ \A c \in Calls : PlanFits(edits[c])
                 /\ \A p \in Paths : written[p] \ Shown(p) \subseteq raced[p] \cap Foreign
                 /\ \A c \in Calls : LookFits(edits[c], c)
<1>1. ShownInv <=> \A p \in Paths : \A c \in Calls \cap Shown(p) : ShownFits(edits[c], p)
  BY DEF ShownInv, ShownFits
<1>2. PlansInv <=> \A c \in Calls : PlanFits(edits[c])
  BY DEF PlansInv, PlanFits
<1>3. WrittenInv <=> /\ \A p \in Paths : written[p] \ Shown(p) \subseteq raced[p] \cap Foreign
                     /\ \A c \in Calls : LookFits(edits[c], c)
  BY DEF WrittenInv, LookFits, At, Original, Last, LastOriginal
<1> QED
  BY <1>1, <1>2, <1>3 DEF TextsInv

(* A step that writes no file. *)
LEMMA TextsKept ==
    ASSUME EditsInv, TextsInv, NEW c \in Calls, NEW x, edits' = [edits EXCEPT ![c] = x],
           edits[c].step \notin Left, UNCHANGED <<files, written, raced>>,
           \A p \in Paths : c \in Shown(p) => ShownFits(x, p), PlanFits(x), LookFits(x, c)
    PROVE  TextsInv'
<1>1. edits'[c] = x /\ \A d \in Calls \ {c} : edits'[d] = edits[d]
  BY DEF EditsInv
<1>2. \A p \in Paths : Shown(p)' = Shown(p)
  BY DEF Shown
<1>3. ShownInv'
  <2> SUFFICES ASSUME NEW p \in Paths, NEW d \in Calls, d \in Shown(p)'
               PROVE  ShownFits(edits'[d], p)
    BY DEF ShownInv, ShownFits
  <2>1. CASE d = c
    BY <1>1, <1>2, <2>1
  <2>2. CASE d # c
    BY <1>1, <1>2, <2>2, TextsSay
  <2> QED
    BY <2>1, <2>2
<1>4. PlansInv'
  <2> SUFFICES ASSUME NEW d \in Calls, NEW i \in DOMAIN edits'[d].plan, NEW e \in Calls, e \in TextOf(edits'[d].plan[i])
               PROVE  edits'[e].step \in Left /\ On(edits'[e], edits'[d].paths[i])
    BY DEF PlansInv
  <2>1. PlanFits(edits'[d])
    BY <1>1, TextsSay
  <2>2. edits[e].step \in Left /\ On(edits[e], edits'[d].paths[i])
    BY <2>1 DEF PlanFits
  <2> QED
    BY <1>1, <2>2
<1>5. \A d \in Calls : LookFits(edits'[d], d)
  BY <1>1, TextsSay
<1>6. WrittenInv'
  <2>1. \A p \in Paths : written'[p] \ Shown(p)' \subseteq raced'[p] \cap Foreign
    BY <1>2, TextsSay
  <2> QED
    BY <1>5, <2>1 DEF WrittenInv, LookFits, At, Original, Last, LastOriginal
<1> QED
  BY <1>3, <1>4, <1>6 DEF TextsInv

(* A step that writes one file, which no other call is about to write. *)
LEMMA TextsWritten ==
    ASSUME EditsInv, TextsInv, NEW c \in Calls, NEW x, NEW q \in Paths, NEW text \in Texts, NEW w,
           edits' = [edits EXCEPT ![c] = x], files' = [files EXCEPT ![q] = text],
           written' = [written EXCEPT ![q] = w], raced' = raced, edits[c].step \notin Left, ~x.looked,
           \A p \in Paths \ {q} : c \in Shown(p) => ShownFits(x, p), c \in TextOf(text) => ShownFits(x, q),
           \A d \in (Calls \ {c}) \cap TextOf(text) : ShownFits(edits[d], q),
           PlanFits(x), w \ TextOf(text) \subseteq raced[q] \cap Foreign,
           \A d \in Calls \ {c} : edits[d].looked =>
                /\ edits[d].step = "committing" => At(d) \in Paths /\ At(d) # q
                /\ edits[d].step = "undoing" => Last(d) \in Paths /\ Last(d) # q
    PROVE  TextsInv'
<1>1. edits'[c] = x /\ \A d \in Calls \ {c} : edits'[d] = edits[d]
  BY DEF EditsInv
<1>2. /\ files'[q] = text /\ \A p \in Paths \ {q} : files'[p] = files[p]
      /\ written'[q] = w /\ \A p \in Paths \ {q} : written'[p] = written[p]
  BY DEF EditsInv
<1>3. Shown(q)' = TextOf(text) /\ \A p \in Paths \ {q} : Shown(p)' = Shown(p)
  BY <1>2 DEF Shown, TextOf
<1>4. ShownInv'
  <2> SUFFICES ASSUME NEW p \in Paths, NEW d \in Calls, d \in Shown(p)'
               PROVE  ShownFits(edits'[d], p)
    BY DEF ShownInv, ShownFits
  <2>1. CASE p = q /\ d = c
    BY <1>1, <1>3, <2>1
  <2>2. CASE p = q /\ d # c
    BY <1>1, <1>3, <2>2
  <2>3. CASE p # q /\ d = c
    BY <1>1, <1>3, <2>3
  <2>4. CASE p # q /\ d # c
    BY <1>1, <1>3, <2>4, TextsSay
  <2> QED
    BY <2>1, <2>2, <2>3, <2>4
<1>5. PlansInv'
  <2> SUFFICES ASSUME NEW d \in Calls, NEW i \in DOMAIN edits'[d].plan, NEW e \in Calls, e \in TextOf(edits'[d].plan[i])
               PROVE  edits'[e].step \in Left /\ On(edits'[e], edits'[d].paths[i])
    BY DEF PlansInv
  <2>1. PlanFits(edits'[d])
    BY <1>1, TextsSay
  <2>2. edits[e].step \in Left /\ On(edits[e], edits'[d].paths[i])
    BY <2>1 DEF PlanFits
  <2> QED
    BY <1>1, <2>2
<1>6. \A p \in Paths : written'[p] \ Shown(p)' \subseteq raced'[p] \cap Foreign
  <2> SUFFICES ASSUME NEW p \in Paths PROVE written'[p] \ Shown(p)' \subseteq raced'[p] \cap Foreign
    OBVIOUS
  <2>1. CASE p = q
    BY <1>2, <1>3, <2>1
  <2>2. CASE p # q
    BY <1>2, <1>3, <2>2, TextsSay
  <2> QED
    BY <2>1, <2>2
<1>7. \A d \in Calls \ {c} : edits'[d].looked =>
        /\ edits'[d].step = "committing" =>
                written'[At(d)] \ TextOf(Original(d)) \subseteq raced'[At(d)] \cap Foreign
        /\ edits'[d].step = "undoing" =>
                written'[Last(d)] \ With(LastOriginal(d), d) \subseteq raced'[Last(d)] \cap Foreign
  BY <1>1, <1>2 DEF TextsInv, WrittenInv
<1>8. WrittenInv'
  BY <1>1, <1>6, <1>7 DEF WrittenInv, At, Original, Last, LastOriginal
<1> QED
  BY <1>4, <1>5, <1>8 DEF TextsInv

-----------------------------------------------------------------------------
(* The steps of the edits. *)

(* A call moves, and the files stay as they are. *)
LEMMA EditKeeps ==
    ASSUME WInv, NEW c \in Calls, NEW x \in EditRecords, First(c),
           edits' = [edits EXCEPT ![c] = x], edits[c].step \in Live, x.step # "none", Shaped(x),
           x.root = edits[c].root, x.paths = edits[c].paths,
           \/ x.step \in Acting /\ locks' = locks
           \/ x.step \in Over /\ locks' = Released(c),
           UNCHANGED <<files, written, raced, commandVars, daemon>>, faults' \in 0..MaxFaults,
           RootsApart => /\ \A p \in Paths : c \in Shown(p) => ShownFits(x, p)
                         /\ PlanFits(x) /\ LookFits(x, c)
    PROVE  WInv'
<1>1. /\ EditsInv /\ QueueInv /\ CommandsInv /\ ClosingInv /\ procs' = procs
      /\ UNCHANGED <<files, written, raced>> /\ UNCHANGED commandVars /\ UNCHANGED daemon
  BY DEF WInv, commandVars
<1>2. /\ files' \in [Paths -> Texts] /\ written' \in [Paths -> SUBSET (Calls \cup Foreign)]
      /\ raced' \in [Paths -> SUBSET (Calls \cup Foreign)]
  BY <1>1 DEF EditsInv
<1>3. EditsInv' /\ QueueInv'
  BY <1>1, <1>2, EditMoves
<1>4. CommandsInv' /\ ClosingInv'
  BY <1>1, CommandsStay
<1>5. edits[c].step \notin Left
  BY DEF Live, Acting, Left
<1>6. RootsApart => TextsInv'
  BY <1>1, <1>5, TextsKept DEF WInv
<1> QED
  BY <1>3, <1>4, <1>6 DEF WInv

(* What the step of a call that writes one file has to say. *)
WriteFits(c, x, q, text, w) ==
    /\ \A p \in Paths \ {q} : c \in Shown(p) => ShownFits(x, p)
    /\ c \in TextOf(text) => ShownFits(x, q)
    /\ \A d \in (Calls \ {c}) \cap TextOf(text) : ShownFits(edits[d], q)
    /\ PlanFits(x) /\ w \ TextOf(text) \subseteq raced[q] \cap Foreign
    /\ \A d \in Calls \ {c} : edits[d].looked =>
            /\ edits[d].step = "committing" => At(d) \in Paths /\ At(d) # q
            /\ edits[d].step = "undoing" => Last(d) \in Paths /\ Last(d) # q

(* A call writes one file and moves. *)
LEMMA EditWrites ==
    ASSUME WInv, NEW c \in Calls, NEW x \in EditRecords, First(c),
           NEW q \in Paths, NEW text \in Texts, NEW w \in SUBSET (Calls \cup Foreign),
           edits' = [edits EXCEPT ![c] = x], files' = [files EXCEPT ![q] = text],
           written' = [written EXCEPT ![q] = w], raced' = raced,
           edits[c].step \in Live, x.step # "none", Shaped(x), ~x.looked,
           x.root = edits[c].root, x.paths = edits[c].paths,
           \/ x.step \in Acting /\ locks' = locks
           \/ x.step \in Over /\ locks' = Released(c),
           UNCHANGED <<commandVars, daemon, faults>>,
           RootsApart => WriteFits(c, x, q, text, w)
    PROVE  WInv'
<1>1. /\ EditsInv /\ QueueInv /\ CommandsInv /\ ClosingInv /\ procs' = procs
      /\ UNCHANGED commandVars /\ UNCHANGED daemon /\ faults' \in 0..MaxFaults
  BY DEF WInv, commandVars, CommandsInv
<1>2. /\ files' \in [Paths -> Texts] /\ written' \in [Paths -> SUBSET (Calls \cup Foreign)]
      /\ raced' \in [Paths -> SUBSET (Calls \cup Foreign)]
  BY <1>1 DEF EditsInv
<1>3. EditsInv' /\ QueueInv'
  BY <1>1, <1>2, EditMoves
<1>4. CommandsInv' /\ ClosingInv'
  BY <1>1, CommandsStay
<1>5. edits[c].step \notin Left
  BY DEF Live, Acting, Left
<1>6. RootsApart => TextsInv'
  <2> SUFFICES ASSUME RootsApart PROVE TextsInv'
    OBVIOUS
  <2> QED
    BY <1>1, <1>5, TextsWritten DEF WInv, WriteFits
<1> QED
  BY <1>3, <1>4, <1>6 DEF WInv

LEMMA StartEditsStep ==
    ASSUME WInv, NEW c \in Calls, StartEdits(c)
    PROVE  WInv'
<1>1. /\ EditsInv /\ QueueInv /\ edits[c].step = "waiting" /\ MayStart(c)
      /\ edits' = [edits EXCEPT ![c].step = "planning", ![c].waits = None]
      /\ locks' = locks /\ UNCHANGED <<files, written, raced, commandVars, daemon>> /\ faults' \in 0..MaxFaults
  BY DEF WInv, StartEdits, CommandsInv
<1>2. First(c)
  BY <1>1, StartsFirst
<1>3. PICK y : y = SetStep(edits[c], "planning")
  OBVIOUS
<1>4. PICK x : x = SetWaits(y, None)
  OBVIOUS
<1>5. edits' = [edits EXCEPT ![c] = x]
  BY <1>1, <1>3, <1>4 DEF SetStep, SetWaits
<1>6. "planning" \in EditSteps /\ "planning" \in Acting /\ "planning" \notin Over /\ "waiting" \in Live
  BY DEF EditSteps, Acting, Over, Live
<1>7. /\ y \in EditRecords /\ y.step = "planning" /\ y.root = edits[c].root /\ y.paths = edits[c].paths
      /\ y.plan = edits[c].plan /\ y.done = edits[c].done /\ y.looked = edits[c].looked
  BY <1>1, <1>3, <1>6, EditTypes, EditSetStep
<1>8. /\ x \in EditRecords /\ x.step = "planning" /\ x.root = edits[c].root /\ x.paths = edits[c].paths
      /\ x.plan = edits[c].plan /\ x.done = edits[c].done /\ x.looked = edits[c].looked
  BY <1>4, <1>7, EditSetWaits
<1>9. edits[c].plan = <<>> /\ ~edits[c].looked /\ edits[c].done = 0 /\ Len(edits[c].plan) = 0
  <2>1. Shaped(edits[c]) /\ edits[c].done \in Nat /\ Len(edits[c].plan) \in Nat
    BY <1>1, EditTypes
  <2>2. edits[c].plan = <<>> /\ ~edits[c].looked
    BY <1>1, <2>1 DEF Shaped
  <2>3. Len(edits[c].plan) = 0
    BY <2>2
  <2>4. edits[c].done <= Len(edits[c].plan)
    BY <2>1 DEF Shaped
  <2> QED
    BY <2>1, <2>2, <2>3, <2>4
<1>10. Len(x.plan) < Len(x.paths) /\ <<x.root, x.paths>> \in Edits
  <2>1. <<edits[c].root, edits[c].paths>> \in Edits
    BY <1>1, EditFacts
  <2>2. edits[c].paths # <<>>
    BY <2>1, WorkspaceBounds
  <2>3. edits[c].paths \in Seq(Paths) /\ Len(edits[c].paths) \in Nat
    BY <1>1, EditTypes
  <2>4. Len(edits[c].paths) # 0
    BY <2>2, <2>3
  <2> QED
    BY <1>8, <1>9, <2>1, <2>3, <2>4
<1>11. Shaped(x)
  BY <1>6, <1>8, <1>9, <1>10 DEF Shaped
<1>12. RootsApart => \A p \in Paths : c \in Shown(p) => ShownFits(x, p)
  BY <1>1, TextsSay DEF WInv, ShownFits, Left
<1>13. PlanFits(x) /\ LookFits(x, c)
  BY <1>8, <1>9 DEF PlanFits, LookFits
<1> QED
  BY <1>1, <1>2, <1>5, <1>6, <1>8, <1>11, <1>12, <1>13, EditKeeps

(* Calls that are about one file are of one root. *)
LEMMA SameRoot ==
    ASSUME RootsApart, EditsInv, NEW c \in Calls, NEW d \in Calls, NEW p,
           edits[c].step # "none", edits[d].step # "none", On(edits[c], p), On(edits[d], p)
    PROVE  edits[c].root = edits[d].root
<1>1. PICK i \in DOMAIN edits[c].paths : edits[c].paths[i] = p
  BY DEF On
<1>2. PICK j \in DOMAIN edits[d].paths : edits[d].paths[j] = p
  BY DEF On
<1>3. PICK e \in Edits : e = <<edits[c].root, edits[c].paths>>
  BY EditFacts
<1>4. PICK f \in Edits : f = <<edits[d].root, edits[d].paths>>
  BY EditFacts
<1>5. i \in DOMAIN e[2] /\ j \in DOMAIN f[2] /\ e[2][i] = f[2][j]
  BY <1>1, <1>2, <1>3, <1>4
<1>6. e[1] = f[1]
  BY <1>5 DEF RootsApart
<1> QED
  BY <1>3, <1>4, <1>6

LEMMA EndedFits ==
    ASSUME EditsInv, NEW c \in Calls, edits[c].step # "none", NEW step \in Over
    PROVE  /\ Ended(c, step) \in EditRecords /\ Ended(c, step).step = step /\ step # "none"
           /\ Ended(c, step).root = edits[c].root /\ Ended(c, step).paths = edits[c].paths
           /\ Ended(c, step).plan = <<>> /\ Ended(c, step).done = 0 /\ ~Ended(c, step).looked
           /\ Shaped(Ended(c, step))
<1>1. /\ edits[c].root \in Roots \cup {None} /\ edits[c].paths \in Seq(Paths)
      /\ Len(edits[c].paths) \in Nat /\ <<edits[c].root, edits[c].paths>> \in Edits
  BY EditTypes, EditFacts
<1>2. PICK x : x = Ended(c, step)
  OBVIOUS
<1>3. x = [step |-> step, root |-> edits[c].root, paths |-> edits[c].paths, waits |-> None,
           plan |-> <<>>, done |-> 0, looked |-> FALSE, conflict |-> FALSE]
  <2>1. x = [[step |-> "none", root |-> None, paths |-> <<>>, waits |-> None, plan |-> <<>>, done |-> 0,
              looked |-> FALSE, conflict |-> FALSE]
                EXCEPT !.step = step, !.root = edits[c].root, !.paths = edits[c].paths]
    BY <1>2, Zenon DEF Ended, NoEdit
  <2> QED
    BY <2>1
<1>4. step \in EditSteps /\ <<>> \in Seq(Texts)
  BY DEF EditSteps
<1>5. x \in EditRecords
  BY <1>1, <1>3, <1>4 DEF EditRecords
<1>6. step \notin {"none", "planning", "committing", "undoing"}
  BY DEF Over
<1>7. Shaped(x)
  BY <1>1, <1>3, <1>6 DEF Shaped
<1> QED
  BY <1>2, <1>3, <1>5, <1>6, <1>7

(* A call ends, and the files stay as they are. *)
LEMMA EditsEnd ==
    ASSUME WInv, NEW c \in Calls, NEW step \in Over, edits[c].step \in Acting, EndEdits(c, step),
           UNCHANGED <<files, written, raced, commandVars, daemon, faults>>,
           RootsApart => \A p \in Paths : c \in Shown(p) => step \in Left
    PROVE  WInv'
<1>1. EditsInv /\ QueueInv /\ faults' \in 0..MaxFaults
  BY DEF WInv, CommandsInv
<1>2. edits[c].step # "none" /\ edits[c].step \in Live
  BY DEF Acting, Live
<1>3. First(c)
  BY <1>1, ActingIsFirst
<1>4. PICK x : x = Ended(c, step)
  OBVIOUS
<1>5. /\ x \in EditRecords /\ x.step = step /\ step # "none" /\ Shaped(x)
      /\ x.root = edits[c].root /\ x.paths = edits[c].paths /\ x.plan = <<>> /\ ~x.looked
  BY <1>1, <1>2, <1>4, EndedFits
<1>6. edits' = [edits EXCEPT ![c] = x] /\ locks' = Released(c)
  BY <1>4 DEF EndEdits
<1>7. RootsApart => \A p \in Paths : c \in Shown(p) => ShownFits(x, p)
  <2> SUFFICES ASSUME RootsApart, NEW p \in Paths, c \in Shown(p) PROVE ShownFits(x, p)
    OBVIOUS
  <2>1. On(edits[c], p)
    BY TextsSay DEF WInv, ShownFits
  <2>2. On(x, p)
    BY <1>5, <2>1 DEF On
  <2> QED
    BY <1>5, <2>2 DEF ShownFits, Left
<1>8. PlanFits(x) /\ LookFits(x, c)
  BY <1>5 DEF PlanFits, LookFits
<1> QED
  BY <1>1, <1>2, <1>3, <1>5, <1>6, <1>7, <1>8, EditKeeps

(* The text that is read was made by calls that have ended. *)
LEMMA PlanEditStep ==
    ASSUME WInv, NEW c \in Calls, PlanEdit(c)
    PROVE  WInv'
<1>1. /\ EditsInv /\ QueueInv /\ edits[c].step = "planning" /\ edits[c].step \in Acting
      /\ edits[c].step \in Live /\ edits[c].step # "none"
      /\ UNCHANGED <<files, written, raced, commandVars, daemon, faults>> /\ faults' \in 0..MaxFaults
  BY DEF WInv, PlanEdit, CommandsInv, Acting, Live
<1>2. First(c)
  BY <1>1, ActingIsFirst
<1>3. \A p \in Paths : RootsApart => c \notin Shown(p)
  BY <1>1, TextsSay DEF WInv, ShownFits, Left
<1>4. PICK n \in Nat : n = Len(edits[c].plan)
  BY <1>1, EditTypes
<1>5. /\ n < Len(edits[c].paths) /\ Len(edits[c].paths) \in Nat /\ edits[c].done = 0 /\ ~edits[c].looked
      /\ edits[c].paths \in Seq(Paths) /\ edits[c].plan \in Seq(Texts) /\ <<edits[c].root, edits[c].paths>> \in Edits
  BY <1>1, <1>4, EditTypes, EditFacts DEF Shaped
<1>6. PICK p \in Paths : p = edits[c].paths[n + 1]
  BY <1>5
<1>7. ASSUME edits' = [edits EXCEPT ![c].plan = Append(@, files[p]),
                        ![c].step = IF n + 1 = Len(edits[c].paths) THEN "committing" ELSE @],
             locks' = locks
      PROVE  WInv'
  <2>1. PICK s \in {"planning", "committing"} : s = IF n + 1 = Len(edits[c].paths) THEN "committing" ELSE "planning"
    OBVIOUS
  <2>2. PICK plan : plan = Append(edits[c].plan, files[p])
    OBVIOUS
  <2>3. /\ plan \in Seq(Texts) /\ Len(plan) = n + 1 /\ plan[n + 1] = files[p]
        /\ \A i \in 1..n : plan[i] = edits[c].plan[i]
    <3>1. files[p] \in Texts
      BY <1>1 DEF EditsInv
    <3> QED
      BY <1>4, <1>5, <2>2, <3>1
  <2>4. PICK y : y = SetPlan(edits[c], plan)
    OBVIOUS
  <2>5. PICK x : x = SetStep(y, s)
    OBVIOUS
  <2>6. s \in EditSteps /\ s \in Acting /\ s # "none" /\ s \notin Over
    BY DEF EditSteps, Acting, Over
  <2>7. /\ y \in EditRecords /\ y.step = "planning" /\ y.root = edits[c].root /\ y.paths = edits[c].paths
        /\ y.plan = plan /\ y.done = edits[c].done /\ y.looked = edits[c].looked
    BY <1>1, <2>3, <2>4, EditTypes, EditSetPlan
  <2>8. /\ x \in EditRecords /\ x.step = s /\ x.root = edits[c].root /\ x.paths = edits[c].paths
        /\ x.plan = plan /\ x.done = edits[c].done /\ x.looked = edits[c].looked
    BY <2>5, <2>6, <2>7, EditSetStep
  <2>9. edits' = [edits EXCEPT ![c] = x]
    <3>1. edits' = [edits EXCEPT ![c] = [y EXCEPT !.step = IF n + 1 = Len(edits[c].paths) THEN "committing" ELSE @]]
      BY <1>7, <2>2, <2>4 DEF SetPlan
    <3>2. [y EXCEPT !.step = IF n + 1 = Len(edits[c].paths) THEN "committing" ELSE @] = x
      BY <2>1, <2>5, <2>7 DEF SetStep
    <3> QED
      BY <3>1, <3>2
  <2>10. Shaped(x)
    <3>1. x.step = "planning" => n + 1 < Len(x.paths)
      BY <1>5, <2>1, <2>8
    <3>2. x.step = "committing" => n + 1 = Len(x.paths)
      BY <2>1, <2>8
    <3> QED
      BY <1>5, <2>3, <2>6, <2>8, <3>1, <3>2 DEF Shaped
  <2>11. ASSUME RootsApart PROVE PlanFits(x)
    <3> SUFFICES ASSUME NEW i \in DOMAIN plan, NEW d \in Calls, d \in TextOf(plan[i])
                 PROVE  edits[d].step \in Left /\ On(edits[d], edits[c].paths[i])
      BY <2>8 DEF PlanFits
    <3>1. i \in 1..n \/ i = n + 1
      BY <2>3
    <3>2. CASE i \in 1..n
      <4>1. PlanFits(edits[c])
        BY <2>11, TextsSay DEF WInv
      <4>2. i \in DOMAIN edits[c].plan /\ d \in TextOf(edits[c].plan[i])
        BY <1>4, <1>5, <2>3, <3>2
      <4> QED
        BY <4>1, <4>2 DEF PlanFits
    <3>3. CASE i = n + 1
      <4>1. d \in Shown(p)
        BY <2>3, <3>3 DEF TextOf, Shown
      <4>2. ShownFits(edits[d], p)
        BY <2>11, <4>1, TextsSay DEF WInv
      <4>3. edits[d].step # "none" /\ On(edits[d], p)
        BY <4>2 DEF ShownFits, Left
      <4>4. n + 1 \in DOMAIN edits[c].paths
        BY <1>5
      <4>5. On(edits[c], p)
        BY <1>6, <4>4 DEF On
      <4>6. edits[d].root = edits[c].root
        BY <1>1, <2>11, <4>3, <4>5, SameRoot
      <4>7. edits[d].step \notin Acting
        <5> SUFFICES ASSUME edits[d].step \in Acting PROVE FALSE
          OBVIOUS
        <5>1. d = c
          BY <1>1, <4>6, OneActs
        <5> QED
          BY <1>1, <4>2, <5>1 DEF ShownFits, Left
      <4> QED
        BY <1>6, <3>3, <4>2, <4>7 DEF ShownFits, Acting
    <3> QED
      BY <3>1, <3>2, <3>3
  <2>12. LookFits(x, c)
    BY <1>5, <2>8 DEF LookFits
  <2> QED
    BY <1>1, <1>2, <1>3, <1>7, <2>6, <2>8, <2>9, <2>10, <2>11, <2>12, EditKeeps
<1>8. CASE EndEdits(c, "refused")
  <2>1. "refused" \in Over
    BY DEF Over
  <2> QED
    BY <1>1, <1>3, <1>8, <2>1, EditsEnd
<1> QED
  BY <1>4, <1>6, <1>7, <1>8 DEF PlanEdit

LEMMA WithFacts ==
    ASSUME NEW text \in Texts, NEW c \in Calls
    PROVE  /\ With(text, c) \in SUBSET (Calls \cup Foreign) /\ With(text, c) \in Texts
           /\ With(text, c) = TextOf(text) \cup {c} /\ TextOf(With(text, c)) = With(text, c)
<1>1. With(text, c) \in SUBSET (Calls \cup Foreign) /\ With(text, c) = TextOf(text) \cup {c}
  <2>1. CASE text = None
    BY <2>1 DEF With, TextOf
  <2>2. CASE text \in SUBSET (Calls \cup Foreign)
    <3>1. text # None
      BY <2>2, ConstantFacts
    <3>2. With(text, c) = text \cup {c} /\ TextOf(text) = text
      BY <3>1 DEF With, TextOf
    <3> QED
      BY <2>2, <3>2
  <2> QED
    BY <2>1, <2>2 DEF Texts
<1>2. With(text, c) # None
  BY <1>1, ConstantFacts
<1> QED
  BY <1>1, <1>2 DEF TextOf, Texts

(* The file whose turn it is. *)
LEMMA AtFacts ==
    ASSUME EditsInv, NEW c \in Calls, edits[c].step = "committing"
    PROVE  /\ edits[c].done \in Nat /\ edits[c].done < Len(edits[c].paths) /\ Len(edits[c].paths) \in Nat
           /\ Len(edits[c].plan) = Len(edits[c].paths) /\ edits[c].done + 1 \in DOMAIN edits[c].paths
           /\ edits[c].done + 1 \in DOMAIN edits[c].plan
           /\ At(c) \in Paths /\ Original(c) \in Texts /\ On(edits[c], At(c))
<1>1. /\ edits[c].done \in Nat /\ edits[c].done < Len(edits[c].paths) /\ Len(edits[c].paths) \in Nat
      /\ Len(edits[c].plan) = Len(edits[c].paths)
      /\ edits[c].paths \in Seq(Paths) /\ edits[c].plan \in Seq(Texts)
      /\ DOMAIN edits[c].paths = 1..Len(edits[c].paths) /\ DOMAIN edits[c].plan = 1..Len(edits[c].plan)
  BY EditTypes DEF Shaped
<1>2. edits[c].done + 1 \in 1..Len(edits[c].paths)
  BY <1>1
<1>3. edits[c].paths[edits[c].done + 1] \in Paths /\ edits[c].plan[edits[c].done + 1] \in Texts
  BY <1>1, <1>2
<1> QED
  BY <1>1, <1>2, <1>3 DEF At, Original, On

LEMMA LastFacts ==
    ASSUME EditsInv, NEW c \in Calls, edits[c].step = "undoing", edits[c].done > 0
    PROVE  /\ edits[c].done \in Nat /\ edits[c].done \in DOMAIN edits[c].paths
           /\ edits[c].done \in DOMAIN edits[c].plan
           /\ Last(c) \in Paths /\ LastOriginal(c) \in Texts /\ On(edits[c], Last(c))
<1>1. /\ edits[c].done \in Nat /\ edits[c].done <= Len(edits[c].plan) /\ Len(edits[c].paths) \in Nat
      /\ Len(edits[c].plan) <= Len(edits[c].paths) /\ Len(edits[c].plan) \in Nat
      /\ edits[c].paths \in Seq(Paths) /\ edits[c].plan \in Seq(Texts)
      /\ DOMAIN edits[c].paths = 1..Len(edits[c].paths) /\ DOMAIN edits[c].plan = 1..Len(edits[c].plan)
  BY EditTypes DEF Shaped
<1>2. edits[c].done \in 1..Len(edits[c].paths) /\ edits[c].done \in 1..Len(edits[c].plan)
  BY <1>1
<1>3. edits[c].paths[edits[c].done] \in Paths /\ edits[c].plan[edits[c].done] \in Texts
  BY <1>1, <1>2
<1> QED
  BY <1>1, <1>2, <1>3 DEF Last, LastOriginal, On

(* A call that has looked commits or undoes. *)
LEMMA LookedActs ==
    ASSUME EditsInv, NEW c \in Calls, edits[c].looked
    PROVE  edits[c].step \in {"committing", "undoing"} /\ (edits[c].step = "undoing" => edits[c].done > 0)
<1>1. Shaped(edits[c]) /\ edits[c].step \in EditSteps
  BY EditTypes
<1>2. edits[c].step # "none"
  <2> SUFFICES ASSUME edits[c].step = "none" PROVE FALSE
    OBVIOUS
  <2>1. edits[c] = NoEdit
    BY <1>1 DEF Shaped
  <2> QED
    BY <2>1 DEF NoEdit
<1> QED
  BY <1>1, <1>2 DEF Shaped, EditSteps

(* The files of a call that acts are not those another one looks at. *)
LEMMA OthersLookElsewhere ==
    ASSUME EditsInv, QueueInv, RootsApart, NEW c \in Calls, edits[c].step \in Acting, NEW q, On(edits[c], q),
           NEW d \in Calls \ {c}, edits[d].looked
    PROVE  /\ edits[d].step = "committing" => At(d) \in Paths /\ At(d) # q
           /\ edits[d].step = "undoing" => Last(d) \in Paths /\ Last(d) # q
<1>1. /\ edits[d].step \in {"committing", "undoing"} /\ edits[d].step \in Acting
      /\ edits[d].step = "undoing" => edits[d].done > 0
  BY LookedActs DEF Acting
<1>2. edits[c].step # "none" /\ edits[d].step # "none"
  BY <1>1 DEF Acting
<1>3. ~On(edits[d], q)
  <2> SUFFICES ASSUME On(edits[d], q) PROVE FALSE
    OBVIOUS
  <2>1. edits[c].root = edits[d].root
    BY <1>2, SameRoot
  <2> QED
    BY <1>1, <2>1, OneActs
<1>4. edits[d].step = "committing" => At(d) \in Paths /\ On(edits[d], At(d))
  BY AtFacts
<1>5. edits[d].step = "undoing" => Last(d) \in Paths /\ On(edits[d], Last(d))
  BY <1>1, LastFacts
<1> QED
  BY <1>3, <1>4, <1>5

LEMMA LookBeforeCommitStep ==
    ASSUME WInv, NEW c \in Calls, LookBeforeCommit(c)
    PROVE  WInv'
<1>1. /\ EditsInv /\ QueueInv /\ edits[c].step = "committing" /\ ~edits[c].looked
      /\ locks' = locks /\ UNCHANGED <<files, written, raced, commandVars, daemon>> /\ faults' \in 0..MaxFaults
  BY DEF WInv, LookBeforeCommit, CommandsInv
<1>2. /\ {"committing", "undoing"} \subseteq EditSteps \cap Acting \cap Live
      /\ "committing" \notin Over /\ "undoing" \notin Over
  BY DEF EditSteps, Acting, Live, Over
<1>3. First(c)
  BY <1>1, <1>2, ActingIsFirst
<1>4. Shaped(edits[c]) /\ edits[c] \in EditRecords /\ <<edits[c].root, edits[c].paths>> \in Edits
  BY <1>1, EditTypes, EditFacts
<1>5. RootsApart => PlanFits(edits[c]) /\ \A p \in Paths : c \in Shown(p) => ShownFits(edits[c], p)
  BY TextsSay DEF WInv
<1>6. ASSUME UnchangedSince(c), edits' = [edits EXCEPT ![c].looked = TRUE] PROVE WInv'
  <2>1. PICK x : x = SetLooked(edits[c], TRUE)
    OBVIOUS
  <2>2. edits' = [edits EXCEPT ![c] = x]
    BY <1>6, <2>1 DEF SetLooked
  <2>3. /\ x \in EditRecords /\ x.step = "committing" /\ x.root = edits[c].root /\ x.paths = edits[c].paths
        /\ x.plan = edits[c].plan /\ x.done = edits[c].done /\ x.looked /\ x.conflict = edits[c].conflict
    BY <1>1, <1>4, <2>1, EditSetLooked
  <2>4. Shaped(x)
    BY <1>1, <1>2, <1>4, <2>3 DEF Shaped
  <2>5. ASSUME RootsApart
        PROVE  (\A p \in Paths : c \in Shown(p) => ShownFits(x, p)) /\ PlanFits(x) /\ LookFits(x, c)
    <3>1. PlanFits(x) /\ \A p \in Paths : c \in Shown(p) => ShownFits(x, p)
      BY <1>1, <1>5, <2>3, <2>5 DEF PlanFits, ShownFits, On, DoneOn
    <3>2. At(c) \in Paths /\ files[At(c)] = Original(c)
      BY <1>1, <1>6, AtFacts DEF UnchangedSince
    <3>3. written[At(c)] \ Shown(At(c)) \subseteq raced[At(c)] \cap Foreign
      BY <2>5, <3>2, TextsSay DEF WInv
    <3>4. Shown(At(c)) = TextOf(Original(c))
      BY <3>2 DEF Shown, TextOf
    <3>5. LookFits(x, c)
      BY <2>3, <3>3, <3>4 DEF LookFits, At, Original
    <3> QED
      BY <3>1, <3>5
  <2> QED
    BY <1>1, <1>2, <1>3, <2>2, <2>3, <2>4, <2>5, EditKeeps
<1>7. ASSUME Change(c, "undoing") PROVE WInv'
  <2>1. PICK x : x = SetStep(edits[c], "undoing")
    OBVIOUS
  <2>2. edits' = [edits EXCEPT ![c] = x]
    BY <1>7, <2>1 DEF SetStep, Change
  <2>3. /\ x \in EditRecords /\ x.step = "undoing" /\ x.root = edits[c].root /\ x.paths = edits[c].paths
        /\ x.plan = edits[c].plan /\ x.done = edits[c].done /\ ~x.looked /\ x.conflict = edits[c].conflict
    BY <1>1, <1>2, <1>4, <2>1, EditSetStep
  <2>4. Shaped(x)
    BY <1>1, <1>2, <1>4, <2>3 DEF Shaped
  <2>5. RootsApart => PlanFits(x) /\ \A p \in Paths : c \in Shown(p) => ShownFits(x, p)
    BY <1>1, <1>5, <2>3 DEF PlanFits, ShownFits, On, DoneOn
  <2>6. LookFits(x, c)
    BY <2>3 DEF LookFits
  <2> QED
    BY <1>1, <1>2, <1>3, <2>2, <2>3, <2>4, <2>5, <2>6, EditKeeps
<1> QED
  BY <1>6, <1>7 DEF LookBeforeCommit

LEMMA CommitFailsStep ==
    ASSUME WInv, NEW c \in Calls, CommitFails(c)
    PROVE  WInv'
<1>1. /\ EditsInv /\ QueueInv /\ edits[c].step = "committing"
      /\ edits' = [edits EXCEPT ![c].step = "undoing", ![c].looked = FALSE]
      /\ locks' = locks /\ UNCHANGED <<files, written, raced, commandVars, daemon>> /\ faults' \in 0..MaxFaults
  BY FaultFits DEF WInv, CommitFails
<1>2. /\ {"committing", "undoing"} \subseteq EditSteps \cap Acting \cap Live
      /\ "committing" \notin Over /\ "undoing" \notin Over
  BY DEF EditSteps, Acting, Live, Over
<1>3. First(c)
  BY <1>1, <1>2, ActingIsFirst
<1>4. Shaped(edits[c]) /\ edits[c] \in EditRecords /\ <<edits[c].root, edits[c].paths>> \in Edits
  BY <1>1, EditTypes, EditFacts
<1>5. RootsApart => PlanFits(edits[c]) /\ \A p \in Paths : c \in Shown(p) => ShownFits(edits[c], p)
  BY TextsSay DEF WInv
<1>6. PICK y : y = SetStep(edits[c], "undoing")
  OBVIOUS
<1>7. PICK x : x = SetLooked(y, FALSE)
  OBVIOUS
<1>8. edits' = [edits EXCEPT ![c] = x]
  BY <1>1, <1>6, <1>7 DEF SetStep, SetLooked
<1>9. /\ y \in EditRecords /\ y.step = "undoing" /\ y.root = edits[c].root /\ y.paths = edits[c].paths
      /\ y.plan = edits[c].plan /\ y.done = edits[c].done /\ y.conflict = edits[c].conflict
  BY <1>2, <1>4, <1>6, EditSetStep
<1>10. /\ x \in EditRecords /\ x.step = "undoing" /\ x.root = edits[c].root /\ x.paths = edits[c].paths
       /\ x.plan = edits[c].plan /\ x.done = edits[c].done /\ ~x.looked /\ x.conflict = edits[c].conflict
  BY <1>7, <1>9, EditSetLooked
<1>11. Shaped(x)
  BY <1>1, <1>2, <1>4, <1>10 DEF Shaped
<1>12. RootsApart => PlanFits(x) /\ \A p \in Paths : c \in Shown(p) => ShownFits(x, p)
  BY <1>1, <1>5, <1>10 DEF PlanFits, ShownFits, On, DoneOn
<1>13. LookFits(x, c)
  BY <1>10 DEF LookFits
<1> QED
  BY <1>1, <1>2, <1>3, <1>8, <1>10, <1>11, <1>12, <1>13, EditKeeps

(* The texts of the file written, but for what was raced, are those of the *)
(* plan and of the call.                                                   *)
LEMMA CommitStep ==
    ASSUME WInv, NEW c \in Calls, Commit(c)
    PROVE  WInv'
<1>1. /\ EditsInv /\ QueueInv /\ edits[c].step = "committing" /\ edits[c].looked
      /\ files' = [files EXCEPT ![At(c)] = With(Original(c), c)]
      /\ written' = [written EXCEPT ![At(c)] = written[At(c)] \cup {c}]
      /\ raced' = raced /\ UNCHANGED <<commandVars, daemon, faults>>
  BY DEF WInv, Commit
<1>2. /\ {"committing", "undoing"} \subseteq EditSteps \cap Acting \cap Live
      /\ "committing" \notin Over /\ "undoing" \notin Over /\ "applied" \in Over /\ "applied" \in Left
      /\ "applied" # "committing" /\ "applied" # "undoing" /\ "committing" \notin Left
  BY DEF EditSteps, Acting, Live, Over, Left
<1>3. First(c)
  BY <1>1, <1>2, ActingIsFirst
<1>4. /\ Shaped(edits[c]) /\ edits[c] \in EditRecords /\ <<edits[c].root, edits[c].paths>> \in Edits
      /\ edits[c].step # "none"
  BY <1>1, EditTypes, EditFacts
<1>5. PICK n \in Nat : n = edits[c].done
  BY <1>4, EditTypes, <1>1
<1>6. PICK q \in Paths : q = At(c)
  BY <1>1, AtFacts
<1>7. PICK o \in Texts : o = Original(c)
  BY <1>1, AtFacts
<1>8. /\ n + 1 \in DOMAIN edits[c].paths /\ n + 1 \in DOMAIN edits[c].plan /\ q = edits[c].paths[n + 1]
      /\ o = edits[c].plan[n + 1] /\ On(edits[c], q) /\ Len(edits[c].paths) \in Nat /\ n < Len(edits[c].paths)
      /\ Len(edits[c].plan) = Len(edits[c].paths)
  BY <1>1, <1>5, <1>6, <1>7, AtFacts DEF At, Original
<1>9. PICK text : text = With(o, c)
  OBVIOUS
<1>10. text \in Texts /\ TextOf(text) = TextOf(o) \cup {c}
  BY <1>9, WithFacts
<1>11. PICK w : w = written[q] \cup {c}
  OBVIOUS
<1>12. w \in SUBSET (Calls \cup Foreign)
  BY <1>1, <1>11 DEF EditsInv
<1>13. files' = [files EXCEPT ![q] = text] /\ written' = [written EXCEPT ![q] = w]
  BY <1>1, <1>6, <1>7, <1>9, <1>11
<1>14. ASSUME RootsApart
       PROVE  /\ \A d \in (Calls \ {c}) \cap TextOf(text) : ShownFits(edits[d], q)
              /\ w \ TextOf(text) \subseteq raced[q] \cap Foreign
              /\ \A d \in Calls \ {c} : edits[d].looked =>
                        /\ edits[d].step = "committing" => At(d) \in Paths /\ At(d) # q
                        /\ edits[d].step = "undoing" => Last(d) \in Paths /\ Last(d) # q
  <2>1. PlanFits(edits[c]) /\ LookFits(edits[c], c)
    BY <1>14, TextsSay DEF WInv
  <2>2. ASSUME NEW d \in (Calls \ {c}) \cap TextOf(text) PROVE ShownFits(edits[d], q)
    <3>1. d \in TextOf(edits[c].plan[n + 1])
      BY <1>8, <1>10
    <3>2. edits[d].step \in Left /\ On(edits[d], q)
      BY <1>8, <2>1, <3>1 DEF PlanFits
    <3> QED
      BY <3>2 DEF ShownFits, Left
  <2>3. written[q] \ TextOf(o) \subseteq raced[q] \cap Foreign
    BY <1>1, <1>5, <1>8, <2>1 DEF LookFits
  <2>4. w \ TextOf(text) \subseteq raced[q] \cap Foreign
    BY <1>10, <1>11, <2>3
  <2>5. \A d \in Calls \ {c} : edits[d].looked =>
                        /\ edits[d].step = "committing" => At(d) \in Paths /\ At(d) # q
                        /\ edits[d].step = "undoing" => Last(d) \in Paths /\ Last(d) # q
    BY <1>1, <1>2, <1>8, <1>14, OthersLookElsewhere
  <2> QED
    BY <2>2, <2>4, <2>5
<1>15. RootsApart => PlanFits(edits[c]) /\ \A p \in Paths : c \in Shown(p) => ShownFits(edits[c], p)
  BY TextsSay DEF WInv
<1>16. CASE n + 1 = Len(edits[c].paths)
  <2>1. EndEdits(c, "applied")
    BY <1>5, <1>16 DEF Commit
  <2>2. PICK x : x = Ended(c, "applied")
    OBVIOUS
  <2>3. /\ x \in EditRecords /\ x.step = "applied" /\ Shaped(x) /\ x.root = edits[c].root
        /\ x.paths = edits[c].paths /\ x.plan = <<>> /\ ~x.looked
    BY <1>1, <1>2, <1>4, <2>2, EndedFits
  <2>4. edits' = [edits EXCEPT ![c] = x] /\ locks' = Released(c)
    BY <2>1, <2>2 DEF EndEdits
  <2>5. ASSUME RootsApart
        PROVE  (\A p \in Paths \ {q} : c \in Shown(p) => ShownFits(x, p)) /\ ShownFits(x, q) /\ PlanFits(x)
    <3>1. \A p \in Paths : On(edits[c], p) => ShownFits(x, p)
      BY <1>2, <2>3 DEF ShownFits, On
    <3>2. \A p \in Paths : c \in Shown(p) => On(edits[c], p)
      BY <1>15, <2>5 DEF ShownFits
    <3>3. PlanFits(x)
      BY <2>3 DEF PlanFits
    <3> QED
      BY <1>8, <3>1, <3>2, <3>3
  <2>6. x.step # "none"
    BY <2>3
  <2>7. ASSUME RootsApart PROVE WriteFits(c, x, q, text, w)
    BY <1>14, <2>5, <2>7 DEF WriteFits
  <2>8. /\ edits[c].step \in Live /\ x.step # "none" /\ x.step \in Over /\ ~x.looked
        /\ x.root = edits[c].root /\ x.paths = edits[c].paths /\ raced' = raced
        /\ UNCHANGED <<commandVars, daemon, faults>>
    BY <1>1, <1>2, <2>3
  <2> QED
    BY <1>3, <1>10, <1>12, <1>13, <2>3, <2>4, <2>7, <2>8, EditWrites
<1>17. CASE n + 1 # Len(edits[c].paths)
  <2>1. edits' = [edits EXCEPT ![c].done = n + 1, ![c].looked = FALSE] /\ locks' = locks
    BY <1>5, <1>17 DEF Commit
  <2>2. PICK y : y = SetDone(edits[c], n + 1)
    OBVIOUS
  <2>3. PICK x : x = SetLooked(y, FALSE)
    OBVIOUS
  <2>4. edits' = [edits EXCEPT ![c] = x]
    BY <2>1, <2>2, <2>3 DEF SetDone, SetLooked
  <2>5. /\ y \in EditRecords /\ y.step = "committing" /\ y.root = edits[c].root /\ y.paths = edits[c].paths
        /\ y.plan = edits[c].plan /\ y.done = n + 1 /\ y.conflict = edits[c].conflict
    BY <1>1, <1>4, <2>2, n + 1 \in Nat, EditSetDone
  <2>6. /\ x \in EditRecords /\ x.step = "committing" /\ x.root = edits[c].root /\ x.paths = edits[c].paths
        /\ x.plan = edits[c].plan /\ x.done = n + 1 /\ ~x.looked /\ x.conflict = edits[c].conflict
    BY <2>3, <2>5, EditSetLooked
  <2>7. Shaped(x)
    <3>1. n + 1 < Len(edits[c].paths)
      BY <1>8, <1>17
    <3> QED
      BY <1>2, <1>4, <1>8, <2>6, <3>1 DEF Shaped
  <2>8. ASSUME RootsApart
        PROVE  (\A p \in Paths \ {q} : c \in Shown(p) => ShownFits(x, p)) /\ ShownFits(x, q) /\ PlanFits(x)
    <3>1. PlanFits(x)
      BY <1>15, <2>6, <2>8 DEF PlanFits
    <3>2. ShownFits(x, q)
      <4>1. n + 1 \in 1..(n + 1)
        OBVIOUS
      <4> QED
        BY <1>8, <2>6, <4>1 DEF ShownFits, On, DoneOn
    <3>3. \A p \in Paths : ShownFits(edits[c], p) => ShownFits(x, p)
      <4>1. 1..n \subseteq 1..(n + 1)
        OBVIOUS
      <4> QED
        BY <1>1, <1>5, <2>6, <4>1 DEF ShownFits, On, DoneOn
    <3> QED
      BY <1>15, <2>8, <3>1, <3>2, <3>3
  <2>9. ASSUME RootsApart PROVE WriteFits(c, x, q, text, w)
    BY <1>14, <2>8, <2>9 DEF WriteFits
  <2>10. /\ edits[c].step \in Live /\ x.step # "none" /\ x.step \in Acting /\ ~x.looked
         /\ x.root = edits[c].root /\ x.paths = edits[c].paths /\ raced' = raced
         /\ UNCHANGED <<commandVars, daemon, faults>>
    BY <1>1, <1>2, <2>6
  <2> QED
    BY <1>3, <1>10, <1>12, <1>13, <2>1, <2>4, <2>6, <2>7, <2>9, <2>10, EditWrites
<1> QED
  BY <1>16, <1>17

(* A file that is left alone: its call has met a conflict. *)
LEMMA LeftAlone ==
    ASSUME WInv, NEW c \in Calls, edits[c].step = "undoing", edits[c].done > 0,
           edits' = [edits EXCEPT ![c] = SetConflict(SetLooked(SetDone(edits[c], edits[c].done - 1), FALSE), TRUE)],
           locks' = locks, UNCHANGED <<files, written, raced, commandVars, daemon>>, faults' \in 0..MaxFaults
    PROVE  WInv'
<1>1. EditsInv /\ QueueInv /\ edits[c].step = "undoing" /\ edits[c].done > 0
  BY DEF WInv
<1>2. "undoing" \in EditSteps /\ "undoing" \in Acting /\ "undoing" \in Live /\ "undoing" \notin Over /\ "undoing" \notin Left
  BY DEF EditSteps, Acting, Live, Over, Left
<1>3. First(c)
  BY <1>1, <1>2, ActingIsFirst
<1>4. /\ Shaped(edits[c]) /\ edits[c] \in EditRecords /\ <<edits[c].root, edits[c].paths>> \in Edits
      /\ edits[c].done \in Nat /\ edits[c].done - 1 \in Nat /\ Len(edits[c].plan) \in Nat
      /\ Len(edits[c].paths) \in Nat
  BY <1>1, EditTypes, EditFacts, SMTT(30)
<1>5. RootsApart => PlanFits(edits[c]) /\ \A p \in Paths : c \in Shown(p) => ShownFits(edits[c], p)
  BY TextsSay DEF WInv
<1>6. PICK y : y = SetDone(edits[c], edits[c].done - 1)
  OBVIOUS
<1>7. PICK z : z = SetLooked(y, FALSE)
  OBVIOUS
<1>8. PICK x : x = SetConflict(z, TRUE)
  OBVIOUS
<1>9. edits' = [edits EXCEPT ![c] = x]
  BY <1>6, <1>7, <1>8
<1>10. /\ y \in EditRecords /\ y.step = "undoing" /\ y.root = edits[c].root /\ y.paths = edits[c].paths
       /\ y.plan = edits[c].plan /\ y.done = edits[c].done - 1
  BY <1>1, <1>4, <1>6, EditSetDone
<1>11. /\ z \in EditRecords /\ z.step = "undoing" /\ z.root = edits[c].root /\ z.paths = edits[c].paths
       /\ z.plan = edits[c].plan /\ z.done = edits[c].done - 1 /\ ~z.looked
  BY <1>7, <1>10, EditSetLooked
<1>12. /\ x \in EditRecords /\ x.step = "undoing" /\ x.root = edits[c].root /\ x.paths = edits[c].paths
       /\ x.plan = edits[c].plan /\ x.done = edits[c].done - 1 /\ ~x.looked /\ x.conflict
  BY <1>8, <1>11, EditSetConflict
<1>13. Shaped(x)
  BY <1>1, <1>2, <1>4, <1>12 DEF Shaped
<1>14. RootsApart => PlanFits(x) /\ \A p \in Paths : c \in Shown(p) => ShownFits(x, p)
  BY <1>1, <1>5, <1>12 DEF PlanFits, ShownFits, On
<1>15. LookFits(x, c)
  BY <1>12 DEF LookFits
<1> QED
  BY <1>1, <1>2, <1>3, <1>9, <1>12, <1>13, <1>14, <1>15, EditKeeps

LEMMA UndoFailsStep ==
    ASSUME WInv, NEW c \in Calls, UndoFails(c)
    PROVE  WInv'
<1>1. /\ edits[c].step = "undoing" /\ edits[c].done > 0
      /\ edits' = [edits EXCEPT ![c].done = @ - 1, ![c].looked = FALSE, ![c].conflict = TRUE]
      /\ locks' = locks /\ UNCHANGED <<files, written, raced, commandVars, daemon>> /\ faults' \in 0..MaxFaults
  BY FaultFits DEF WInv, UndoFails
<1>2. edits' = [edits EXCEPT ![c] = SetConflict(SetLooked(SetDone(edits[c], edits[c].done - 1), FALSE), TRUE)]
  BY <1>1 DEF SetConflict, SetLooked, SetDone
<1> QED
  BY <1>1, <1>2, LeftAlone

LEMMA LookBeforeUndoStep ==
    ASSUME WInv, NEW c \in Calls, LookBeforeUndo(c)
    PROVE  WInv'
<1>1. /\ EditsInv /\ QueueInv /\ edits[c].step = "undoing" /\ edits[c].done > 0 /\ ~edits[c].looked
      /\ locks' = locks /\ UNCHANGED <<files, written, raced, commandVars, daemon>> /\ faults' \in 0..MaxFaults
  BY DEF WInv, LookBeforeUndo, CommandsInv
<1>2. "undoing" \in EditSteps /\ "undoing" \in Acting /\ "undoing" \in Live /\ "undoing" \notin Over /\ "undoing" \notin Left
  BY DEF EditSteps, Acting, Live, Over, Left
<1>3. First(c)
  BY <1>1, <1>2, ActingIsFirst
<1>4. /\ Shaped(edits[c]) /\ edits[c] \in EditRecords /\ <<edits[c].root, edits[c].paths>> \in Edits
      /\ edits[c].done \in Nat /\ edits[c].done - 1 \in Nat /\ Len(edits[c].plan) \in Nat
      /\ Len(edits[c].paths) \in Nat
  BY <1>1, EditTypes, EditFacts
<1>5. RootsApart => PlanFits(edits[c]) /\ \A p \in Paths : c \in Shown(p) => ShownFits(edits[c], p)
  BY TextsSay DEF WInv
<1>6. ASSUME MayPutBack(c), edits' = [edits EXCEPT ![c].looked = TRUE] PROVE WInv'
  <2>1. PICK x : x = SetLooked(edits[c], TRUE)
    OBVIOUS
  <2>2. edits' = [edits EXCEPT ![c] = x]
    BY <1>6, <2>1 DEF SetLooked
  <2>3. /\ x \in EditRecords /\ x.step = "undoing" /\ x.root = edits[c].root /\ x.paths = edits[c].paths
        /\ x.plan = edits[c].plan /\ x.done = edits[c].done /\ x.looked /\ x.conflict = edits[c].conflict
    BY <1>1, <1>4, <2>1, EditSetLooked
  <2>4. Shaped(x)
    BY <1>1, <1>2, <1>4, <2>3 DEF Shaped
  <2>5. ASSUME RootsApart
        PROVE  (\A p \in Paths : c \in Shown(p) => ShownFits(x, p)) /\ PlanFits(x) /\ LookFits(x, c)
    <3>1. PlanFits(x) /\ \A p \in Paths : c \in Shown(p) => ShownFits(x, p)
      BY <1>1, <1>5, <2>3, <2>5 DEF PlanFits, ShownFits, On, DoneOn
    <3>2. Last(c) \in Paths /\ LastOriginal(c) \in Texts /\ files[Last(c)] = With(LastOriginal(c), c)
      BY <1>1, <1>6, LastFacts DEF MayPutBack
    <3>3. written[Last(c)] \ Shown(Last(c)) \subseteq raced[Last(c)] \cap Foreign
      BY <2>5, <3>2, TextsSay DEF WInv
    <3>4. Shown(Last(c)) = With(LastOriginal(c), c)
      BY <3>2, WithFacts DEF Shown, TextOf
    <3>5. LookFits(x, c)
      BY <2>3, <3>3, <3>4 DEF LookFits, Last, LastOriginal
    <3> QED
      BY <3>1, <3>5
  <2> QED
    BY <1>1, <1>2, <1>3, <2>2, <2>3, <2>4, <2>5, EditKeeps
<1>7. ASSUME edits' = [edits EXCEPT ![c].conflict = TRUE, ![c].done = @ - 1] PROVE WInv'
  <2>1. [edits[c] EXCEPT !.conflict = TRUE, !.done = edits[c].done - 1]
            = SetConflict(SetLooked(SetDone(edits[c], edits[c].done - 1), FALSE), TRUE)
    BY <1>1, <1>4 DEF SetConflict, SetLooked, SetDone, EditRecords
  <2>2. edits' = [edits EXCEPT ![c] = [edits[c] EXCEPT !.conflict = TRUE, !.done = edits[c].done - 1]]
    BY <1>4, <1>7 DEF EditRecords
  <2>3. edits' = [edits EXCEPT ![c] = SetConflict(SetLooked(SetDone(edits[c], edits[c].done - 1), FALSE), TRUE)]
    BY <2>1, <2>2
  <2> QED
    BY <1>1, <2>3, LeftAlone
<1> QED
  BY <1>6, <1>7 DEF LookBeforeUndo

LEMMA NothingDone ==
    ASSUME NEW c, edits[c].done = 0, NEW p
    PROVE  ~DoneOn(edits[c], p)
<1>1. \A n \in Nat : n = 0 => \A j \in 1..n : FALSE
  OBVIOUS
<1> QED
  BY <1>1 DEF DoneOn

LEMMA UndoneStep ==
    ASSUME WInv, NEW c \in Calls, Undone(c)
    PROVE  WInv'
<1>1. /\ EditsInv /\ edits[c].step = "undoing" /\ edits[c].done = 0 /\ edits[c].step \in Acting
      /\ UNCHANGED <<files, written, raced, commandVars, daemon, faults>>
  BY DEF WInv, Undone, Acting
<1>2. PICK step \in {"conflict", "rolled back"} : step = IF edits[c].conflict THEN "conflict" ELSE "rolled back"
  OBVIOUS
<1>3. EndEdits(c, step) /\ step \in Over
  BY <1>2 DEF Undone, Over
<1>4. ASSUME RootsApart, NEW p \in Paths, c \in Shown(p) PROVE step \in Left
  <2>1. ShownFits(edits[c], p)
    BY <1>4, TextsSay DEF WInv
  <2>2. ~DoneOn(edits[c], p)
    BY <1>1, NothingDone
  <2>3. edits[c].conflict
    BY <1>1, <2>1, <2>2 DEF ShownFits
  <2> QED
    BY <1>2, <2>3 DEF Left
<1> QED
  BY <1>1, <1>3, <1>4, EditsEnd

(* What was written before is put back; only what was raced goes with it. *)
LEMMA UndoStep ==
    ASSUME WInv, NEW c \in Calls, Undo(c)
    PROVE  WInv'
<1>1. /\ EditsInv /\ QueueInv /\ edits[c].step = "undoing" /\ edits[c].looked /\ edits[c].done > 0
      /\ files' = [files EXCEPT ![Last(c)] = LastOriginal(c)]
      /\ written' = [written EXCEPT ![Last(c)] = written[Last(c)] \ {c}]
      /\ edits' = [edits EXCEPT ![c].done = @ - 1, ![c].looked = FALSE,
                        ![c].conflict = @ \/ (LastOriginal(c) = None /\ files[Last(c)] = None)]
      /\ locks' = locks /\ raced' = raced /\ UNCHANGED <<commandVars, daemon, faults>>
  BY DEF WInv, Undo
<1>2. "undoing" \in EditSteps /\ "undoing" \in Acting /\ "undoing" \in Live /\ "undoing" \notin Over /\ "undoing" \notin Left
  BY DEF EditSteps, Acting, Live, Over, Left
<1>3. First(c)
  BY <1>1, <1>2, ActingIsFirst
<1>4. /\ Shaped(edits[c]) /\ edits[c] \in EditRecords /\ <<edits[c].root, edits[c].paths>> \in Edits
      /\ edits[c].done \in Nat /\ edits[c].done - 1 \in Nat /\ Len(edits[c].plan) \in Nat
      /\ Len(edits[c].paths) \in Nat
  <2>1. EditsInv /\ edits[c].step = "undoing" /\ edits[c].step # "none" /\ edits[c].done > 0
    BY <1>1
  <2> QED
    BY <2>1, EditTypes, EditFacts, SMTT(30)
<1>5. RootsApart => PlanFits(edits[c]) /\ \A p \in Paths : c \in Shown(p) => ShownFits(edits[c], p)
  BY TextsSay DEF WInv
<1>6. PICK n \in Nat : n = edits[c].done /\ n - 1 \in Nat
  BY <1>4
<1>7. PICK q \in Paths : q = Last(c)
  BY <1>1, LastFacts
<1>8. PICK o \in Texts : o = LastOriginal(c)
  BY <1>1, LastFacts
<1>9. /\ n \in DOMAIN edits[c].paths /\ n \in DOMAIN edits[c].plan /\ q = edits[c].paths[n]
      /\ o = edits[c].plan[n] /\ On(edits[c], q)
  BY <1>1, <1>6, <1>7, <1>8, LastFacts DEF Last, LastOriginal
<1>10. PICK w : w = written[q] \ {c}
  OBVIOUS
<1>11. w \in SUBSET (Calls \cup Foreign)
  BY <1>1, <1>10 DEF EditsInv
<1>12. files' = [files EXCEPT ![q] = o] /\ written' = [written EXCEPT ![q] = w]
  BY <1>1, <1>7, <1>8, <1>10
<1>13. PICK conflict \in BOOLEAN : conflict = (edits[c].conflict \/ (LastOriginal(c) = None /\ files[Last(c)] = None))
  OBVIOUS
<1>14. PICK y : y = SetDone(edits[c], n - 1)
  OBVIOUS
<1>15. PICK z : z = SetLooked(y, FALSE)
  OBVIOUS
<1>16. PICK x : x = SetConflict(z, conflict)
  OBVIOUS
<1>17. /\ y \in EditRecords /\ y.step = "undoing" /\ y.root = edits[c].root /\ y.paths = edits[c].paths
       /\ y.plan = edits[c].plan /\ y.done = n - 1 /\ y.conflict = edits[c].conflict
  BY <1>1, <1>4, <1>6, <1>14, EditSetDone
<1>18. /\ z \in EditRecords /\ z.step = "undoing" /\ z.root = edits[c].root /\ z.paths = edits[c].paths
       /\ z.plan = edits[c].plan /\ z.done = n - 1 /\ ~z.looked /\ z.conflict = edits[c].conflict
  BY <1>15, <1>17, EditSetLooked
<1>19. /\ x \in EditRecords /\ x.step = "undoing" /\ x.root = edits[c].root /\ x.paths = edits[c].paths
       /\ x.plan = edits[c].plan /\ x.done = n - 1 /\ ~x.looked /\ x.conflict = conflict
  BY <1>16, <1>18, EditSetConflict
<1>20. edits' = [edits EXCEPT ![c] = x]
  <2>1. edits' = [edits EXCEPT ![c] = [z EXCEPT !.conflict = @ \/ (LastOriginal(c) = None /\ files[Last(c)] = None)]]
    BY <1>1, <1>6, <1>14, <1>15 DEF SetDone, SetLooked
  <2>2. [z EXCEPT !.conflict = @ \/ (LastOriginal(c) = None /\ files[Last(c)] = None)]
        = [z EXCEPT !.conflict = edits[c].conflict \/ (LastOriginal(c) = None /\ files[Last(c)] = None)]
    BY <1>18, Zenon
  <2>3. [z EXCEPT !.conflict = edits[c].conflict \/ (LastOriginal(c) = None /\ files[Last(c)] = None)] = x
    BY <1>13, <1>16, Zenon DEF SetConflict
  <2> QED
    BY <2>1, <2>2, <2>3
<1>21. Shaped(x)
  BY <1>1, <1>2, <1>4, <1>6, <1>19 DEF Shaped
<1>22. ASSUME RootsApart PROVE WriteFits(c, x, q, o, w)
  <2>1. PlanFits(edits[c]) /\ LookFits(edits[c], c)
    BY <1>22, TextsSay DEF WInv
  <2>2. PlanFits(x)
    BY <1>19, <2>1 DEF PlanFits
  <2>3. \A d \in Calls \cap TextOf(o) : edits[d].step \in Left /\ On(edits[d], q)
    BY <1>9, <2>1 DEF PlanFits
  <2>4. c \notin TextOf(o)
    BY <1>1, <1>2, <2>3
  <2>5. \A d \in (Calls \ {c}) \cap TextOf(o) : ShownFits(edits[d], q)
    BY <2>3 DEF ShownFits, Left
  <2>6. ASSUME NEW p \in Paths \ {q}, c \in Shown(p) PROVE ShownFits(x, p)
    <3>1. ShownFits(edits[c], p)
      BY <1>5, <1>22, <2>6
    <3>2. On(x, p)
      BY <1>19, <3>1 DEF ShownFits, On
    <3>3. ASSUME ~x.conflict PROVE DoneOn(x, p)
      <4>1. ~edits[c].conflict
        BY <1>13, <1>19, <3>3
      <4>2. PICK i \in 1..n : edits[c].paths[i] = p
        BY <1>1, <1>6, <3>1, <4>1 DEF ShownFits, DoneOn
      <4>3. i # n
        BY <1>9, <2>6, <4>2
      <4>4. i \in 1..(n - 1)
        BY <1>6, <4>3
      <4> QED
        BY <1>19, <4>2, <4>4 DEF DoneOn
    <3> QED
      BY <1>19, <3>2, <3>3 DEF ShownFits
  <2>7. written[q] \ With(o, c) \subseteq raced[q] \cap Foreign
    BY <1>1, <1>6, <1>9, <2>1 DEF LookFits
  <2>8. w \ TextOf(o) \subseteq raced[q] \cap Foreign
    BY <1>10, <2>7, WithFacts
  <2>9. \A d \in Calls \ {c} : edits[d].looked =>
                        /\ edits[d].step = "committing" => At(d) \in Paths /\ At(d) # q
                        /\ edits[d].step = "undoing" => Last(d) \in Paths /\ Last(d) # q
    BY <1>1, <1>2, <1>9, <1>22, OthersLookElsewhere
  <2> QED
    BY <2>2, <2>4, <2>5, <2>6, <2>8, <2>9 DEF WriteFits
<1>23. /\ edits[c].step \in Live /\ x.step # "none" /\ x.step \in Acting /\ ~x.looked
       /\ x.root = edits[c].root /\ x.paths = edits[c].paths /\ raced' = raced /\ locks' = locks
       /\ UNCHANGED <<commandVars, daemon, faults>>
  BY <1>1, <1>2, <1>19
<1> QED
  BY <1>3, <1>11, <1>12, <1>19, <1>20, <1>21, <1>22, <1>23, EditWrites

-----------------------------------------------------------------------------
(* Other programs, new calls and the end of the daemon. *)

LEMMA CallsStay ==
    ASSUME WInv, UNCHANGED <<edits, locks, commandVars, daemon>>, faults' \in 0..MaxFaults
    PROVE  QueueInv' /\ CommandsInv' /\ ClosingInv'
<1>1. edits' = edits /\ locks' = locks /\ procs' = procs
  BY DEF commandVars
<1>2. QueueInv'
  BY <1>1 DEF WInv, QueueInv, Behind, Made
<1> QED
  BY <1>2, CommandsStay DEF WInv

(* A foreign change to a file that a call has looked at is a race. *)
LEMMA ForeignChangeStep ==
    ASSUME WInv, NEW p \in Paths, ForeignChange(p)
    PROVE  WInv'
<1>1. PICK f \in Foreign :
        /\ files' = [files EXCEPT ![p] = Shown(p) \cup {f}]
        /\ written' = [written EXCEPT ![p] = written[p] \cup {f}]
        /\ raced' = IF Watched(p) THEN [raced EXCEPT ![p] = raced[p] \cup {f}] ELSE raced
  BY DEF ForeignChange
<1>2. /\ EditsInv /\ UNCHANGED <<edits, locks, commandVars, daemon>> /\ edits' = edits /\ faults' \in 0..MaxFaults
  BY DEF ForeignChange, WInv, CommandsInv
<1>3. QueueInv' /\ CommandsInv' /\ ClosingInv'
  BY <1>2, CallsStay
<1>4. PICK text : text = Shown(p) \cup {f}
  OBVIOUS
<1>5. text \in SUBSET (Calls \cup Foreign) /\ text \in Texts /\ text # None
  <2>1. Shown(p) \in SUBSET (Calls \cup Foreign)
    BY <1>2 DEF Shown, EditsInv, Texts
  <2>2. text \in SUBSET (Calls \cup Foreign)
    BY <1>4, <2>1
  <2> QED
    BY <2>2, ConstantFacts DEF Texts
<1>6. /\ files'[p] = text /\ \A q \in Paths \ {p} : files'[q] = files[q]
      /\ written'[p] = written[p] \cup {f} /\ \A q \in Paths \ {p} : written'[q] = written[q]
      /\ files' \in [Paths -> Texts] /\ written' \in [Paths -> SUBSET (Calls \cup Foreign)]
  BY <1>1, <1>2, <1>4, <1>5 DEF EditsInv
<1>7. /\ raced' \in [Paths -> SUBSET (Calls \cup Foreign)] /\ raced[p] \subseteq raced'[p]
      /\ Watched(p) => f \in raced'[p]
      /\ \A q \in Paths \ {p} : raced'[q] = raced[q]
  <2>1. CASE Watched(p)
    BY <1>1, <1>2, <2>1 DEF EditsInv
  <2>2. CASE ~Watched(p)
    BY <1>1, <1>2, <2>2 DEF EditsInv
  <2> QED
    BY <2>1, <2>2
<1>8. EditsInv'
  BY <1>2, <1>6, <1>7 DEF EditsInv
<1>9. Shown(p)' = Shown(p) \cup {f} /\ \A q \in Paths \ {p} : Shown(q)' = Shown(q)
  BY <1>4, <1>5, <1>6 DEF Shown
<1>10. ASSUME TextsInv PROVE TextsInv'
  <2>1. \A q \in Paths : Calls \cap Shown(q)' = Calls \cap Shown(q)
    <3>1. f \notin Calls
      BY ConstantFacts
    <3> QED
      BY <1>9, <3>1
  <2>2. ShownInv'
    BY <1>2, <1>10, <2>1 DEF TextsInv, ShownInv
  <2>3. PlansInv'
    BY <1>2, <1>10 DEF TextsInv, PlansInv
  <2>4. \A q \in Paths : written'[q] \ Shown(q)' \subseteq raced'[q] \cap Foreign
    <3> SUFFICES ASSUME NEW q \in Paths PROVE written'[q] \ Shown(q)' \subseteq raced'[q] \cap Foreign
      OBVIOUS
    <3>1. written[q] \ Shown(q) \subseteq raced[q] \cap Foreign
      BY <1>10 DEF TextsInv, WrittenInv
    <3>2. CASE q = p
      BY <1>6, <1>7, <1>9, <3>1, <3>2
    <3>3. CASE q # p
      BY <1>6, <1>7, <1>9, <3>1, <3>3
    <3> QED
      BY <3>2, <3>3
  <2>5. ASSUME NEW c \in Calls, edits[c].looked, NEW q \in Paths, NEW t,
               q = (IF edits[c].step = "committing" THEN At(c) ELSE Last(c)),
               written[q] \ t \subseteq raced[q] \cap Foreign
        PROVE  written'[q] \ t \subseteq raced'[q] \cap Foreign
    <3>1. CASE q = p
      <4>1. Watched(p)
        BY <2>5, <3>1 DEF Watched
      <4> QED
        BY <1>6, <1>7, <2>5, <3>1, <4>1
    <3>2. CASE q # p
      BY <1>6, <1>7, <2>5, <3>2
    <3> QED
      BY <3>1, <3>2
  <2>6. ASSUME NEW c \in Calls, edits[c].looked, edits[c].step = "committing"
        PROVE  written'[At(c)] \ TextOf(Original(c)) \subseteq raced'[At(c)] \cap Foreign
    <3>1. At(c) \in Paths
      BY <1>2, <2>6, AtFacts
    <3>2. written[At(c)] \ TextOf(Original(c)) \subseteq raced[At(c)] \cap Foreign
      BY <1>10, <2>6 DEF TextsInv, WrittenInv
    <3> QED
      BY <2>5, <2>6, <3>1, <3>2
  <2>7. ASSUME NEW c \in Calls, edits[c].looked, edits[c].step = "undoing"
        PROVE  written'[Last(c)] \ With(LastOriginal(c), c) \subseteq raced'[Last(c)] \cap Foreign
    <3>1. Last(c) \in Paths
      BY <1>2, <2>7, LastFacts, LookedActs
    <3>2. written[Last(c)] \ With(LastOriginal(c), c) \subseteq raced[Last(c)] \cap Foreign
      BY <1>10, <2>7 DEF TextsInv, WrittenInv
    <3> QED
      BY <2>5, <2>7, <3>1, <3>2
  <2>8. WrittenInv'
    BY <1>2, <2>4, <2>6, <2>7 DEF WrittenInv, At, Original, Last, LastOriginal
  <2> QED
    BY <2>2, <2>3, <2>8 DEF TextsInv
<1> QED
  BY <1>3, <1>8, <1>10 DEF WInv

LEMMA ForeignRemovalStep ==
    ASSUME WInv, NEW p \in Paths, ForeignRemoval(p)
    PROVE  WInv'
<1>1. /\ EditsInv /\ UNCHANGED <<edits, locks, commandVars, daemon>> /\ faults' \in 0..MaxFaults
      /\ edits' = edits /\ raced' = raced
      /\ files' = [files EXCEPT ![p] = None] /\ written' = [written EXCEPT ![p] = {}]
  BY FaultFits DEF ForeignRemoval, WInv
<1>2. QueueInv' /\ CommandsInv' /\ ClosingInv'
  BY <1>1, CallsStay
<1>3. /\ files'[p] = None /\ \A q \in Paths \ {p} : files'[q] = files[q]
      /\ written'[p] = {} /\ \A q \in Paths \ {p} : written'[q] = written[q]
      /\ files' \in [Paths -> Texts] /\ written' \in [Paths -> SUBSET (Calls \cup Foreign)]
  BY <1>1 DEF EditsInv, Texts
<1>4. EditsInv'
  BY <1>1, <1>3 DEF EditsInv
<1>5. Shown(p)' = {} /\ \A q \in Paths \ {p} : Shown(q)' = Shown(q)
  BY <1>3 DEF Shown
<1>6. ASSUME TextsInv PROVE TextsInv'
  <2>1. \A q \in Paths : Shown(q)' \subseteq Shown(q)
    BY <1>5
  <2>2. ShownInv'
    BY <1>1, <1>6, <2>1 DEF TextsInv, ShownInv
  <2>3. PlansInv'
    BY <1>1, <1>6 DEF TextsInv, PlansInv
  <2>4. \A q \in Paths : written'[q] \ Shown(q)' \subseteq raced'[q] \cap Foreign
    <3> SUFFICES ASSUME NEW q \in Paths PROVE written'[q] \ Shown(q)' \subseteq raced'[q] \cap Foreign
      OBVIOUS
    <3>1. written[q] \ Shown(q) \subseteq raced[q] \cap Foreign
      BY <1>6 DEF TextsInv, WrittenInv
    <3> QED
      BY <1>1, <1>3, <1>5, <3>1
  <2>5. \A q \in Paths : written'[q] \subseteq written[q]
    BY <1>3
  <2>6. ASSUME NEW c \in Calls, edits[c].looked, edits[c].step = "committing"
        PROVE  written'[At(c)] \ TextOf(Original(c)) \subseteq raced[At(c)] \cap Foreign
    <3>1. At(c) \in Paths
      BY <1>1, <2>6, AtFacts
    <3>2. written[At(c)] \ TextOf(Original(c)) \subseteq raced[At(c)] \cap Foreign
      BY <1>6, <2>6 DEF TextsInv, WrittenInv
    <3> QED
      BY <2>5, <3>1, <3>2
  <2>7. ASSUME NEW c \in Calls, edits[c].looked, edits[c].step = "undoing"
        PROVE  written'[Last(c)] \ With(LastOriginal(c), c) \subseteq raced[Last(c)] \cap Foreign
    <3>1. Last(c) \in Paths
      BY <1>1, <2>7, LastFacts, LookedActs
    <3>2. written[Last(c)] \ With(LastOriginal(c), c) \subseteq raced[Last(c)] \cap Foreign
      BY <1>6, <2>7 DEF TextsInv, WrittenInv
    <3> QED
      BY <2>5, <3>1, <3>2
  <2>8. WrittenInv'
    BY <1>1, <2>4, <2>6, <2>7 DEF WrittenInv, At, Original, Last, LastOriginal
  <2> QED
    BY <2>2, <2>3, <2>8 DEF TextsInv
<1> QED
  BY <1>2, <1>4, <1>6 DEF WInv

(* A new call waits for the last one of its root, which is not before any  *)
(* call of that root that has not ended.                                   *)
LEMMA ApplyEditsStep ==
    ASSUME WInv, NEW c \in Calls, ApplyEdits(c)
    PROVE  WInv'
<1>1. /\ EditsInv /\ QueueInv /\ CommandsInv /\ ClosingInv /\ edits \in [Calls -> EditRecords]
      /\ locks \in [Roots -> Calls \cup {None}] /\ faults' \in 0..MaxFaults
      /\ UNCHANGED <<files, written, raced>> /\ UNCHANGED commandVars /\ UNCHANGED daemon /\ procs' = procs
      /\ ~Made(c) /\ \A d \in Calls : d < c => Made(d)
  BY DEF WInv, EditsInv, QueueInv, CommandsInv, ApplyEdits, May, commandVars
<1>2. PICK e \in Edits :
        /\ edits' = [edits EXCEPT ![c] = [NoEdit EXCEPT !.step = "waiting", !.root = e[1], !.paths = e[2],
                                                        !.waits = locks[e[1]]]]
        /\ locks' = [locks EXCEPT ![e[1]] = c]
  BY DEF ApplyEdits
<1>3. PICK r \in Roots, paths \in Seq(Paths) : e = <<r, paths>>
  BY ConstantFacts
<1>4. e[1] = r /\ e[2] = paths
  BY <1>3
<1>5. PICK waits \in Calls \cup {None} : waits = locks[r]
  BY <1>1
<1>6. PICK x : x = [NoEdit EXCEPT !.step = "waiting", !.root = r, !.paths = paths, !.waits = waits]
  OBVIOUS
<1>7. edits' = [edits EXCEPT ![c] = x] /\ locks' = [locks EXCEPT ![r] = c]
  <2>1. x = [NoEdit EXCEPT !.step = "waiting", !.root = e[1], !.paths = e[2], !.waits = locks[e[1]]]
    BY <1>4, <1>5, <1>6, Zenon
  <2> QED
    BY <1>2, <1>4, <2>1
<1>8. /\ x \in EditRecords /\ x.step = "waiting" /\ x.root = r /\ x.paths = paths /\ x.waits = waits
      /\ x.plan = <<>> /\ x.done = 0 /\ ~x.looked
  <2>1. "waiting" \in EditSteps /\ <<>> \in Seq(Texts)
    BY DEF EditSteps
  <2>2. x = [[step |-> "none", root |-> None, paths |-> <<>>, waits |-> None, plan |-> <<>>, done |-> 0,
              looked |-> FALSE, conflict |-> FALSE]
                EXCEPT !.step = "waiting", !.root = r, !.paths = paths, !.waits = waits]
    BY <1>6, Zenon DEF NoEdit
  <2>3. x = [step |-> "waiting", root |-> r, paths |-> paths, waits |-> waits, plan |-> <<>>,
             done |-> 0, looked |-> FALSE, conflict |-> FALSE]
    BY <2>2
  <2> QED
    BY <2>1, <2>3 DEF EditRecords
<1>9. Shaped(x)
  <2>1. Len(x.plan) = 0 /\ Len(x.paths) \in Nat
    BY <1>8
  <2> QED
    BY <1>3, <1>8, <2>1 DEF Shaped
<1>10. edits'[c] = x /\ \A d \in Calls \ {c} : edits'[d] = edits[d]
  BY <1>1, <1>7
<1>11. EditsInv'
  BY <1>1, <1>7, <1>8, <1>9, <1>10 DEF EditsInv
<1>12. edits[c].step = "none" /\ procs[c].step = "none"
  BY <1>1, MadeFacts
<1>13. \A d \in Calls : edits[d].step # "none" => d < c /\ d # c
  <2> SUFFICES ASSUME NEW d \in Calls, edits[d].step # "none" PROVE d < c /\ d # c
    OBVIOUS
  <2>1. Made(d) /\ d # c
    BY <1>1, <1>12, MadeFacts
  <2>2. ~(c < d)
    BY <1>1, <2>1 DEF QueueInv
  <2> QED
    BY <2>1, <2>2, ConstantFacts
<1>14. \A d, f \in Calls : d < f /\ Made(f)' => Made(d)'
  <2>1. x # NoEdit
    BY <1>8 DEF NoEdit
  <2>2. \A d \in Calls : Made(d)' <=> Made(d) \/ d = c
    BY <1>1, <1>10, <2>1 DEF Made
  <2> QED
    BY <1>1, <2>2 DEF QueueInv
<1>15. locks' \in [Roots -> Calls \cup {None}] /\ locks'[r] = c /\ \A q \in Roots \ {r} : locks'[q] = locks[q]
  BY <1>1, <1>7
<1>16. \A d, f \in Calls :
        d < f /\ edits'[d].step \in Live /\ edits'[f].step # "none" /\ edits'[d].root = edits'[f].root =>
            edits'[f].step = "waiting" /\ edits'[f].waits \in Calls /\ d <= edits'[f].waits
            /\ edits'[f].waits < f /\ edits'[edits'[f].waits].root = edits'[f].root
  <2> SUFFICES ASSUME NEW d \in Calls, NEW f \in Calls, d < f, edits'[d].step \in Live, edits'[f].step # "none",
                      edits'[d].root = edits'[f].root
               PROVE  edits'[f].step = "waiting" /\ edits'[f].waits \in Calls /\ d <= edits'[f].waits
                      /\ edits'[f].waits < f /\ edits'[edits'[f].waits].root = edits'[f].root
    OBVIOUS
  <2>1. CASE f = c
    <3>1. d # c
      BY <2>1, ConstantFacts
    <3>2. edits[d].step \in Live /\ edits[d].root = r
      BY <1>8, <1>10, <2>1, <3>1
    <3>3. locks[r] \in Calls /\ d <= locks[r]
      BY <1>1, <3>2 DEF QueueInv
    <3>4. edits[locks[r]].step # "none" /\ edits[locks[r]].root = r
      BY <1>1, <3>3 DEF QueueInv
    <3>5. locks[r] < c /\ locks[r] # c
      BY <1>13, <3>3, <3>4
    <3> QED
      BY <1>5, <1>8, <1>10, <2>1, <3>3, <3>4, <3>5
  <2>2. CASE f # c
    <3>1. edits'[f] = edits[f] /\ edits[f].step # "none"
      BY <1>10, <2>2
    <3>2. f < c
      BY <1>13, <3>1
    <3>3. d # c
      BY <3>2, ConstantFacts
    <3>4. edits'[d] = edits[d]
      BY <1>10, <3>3
    <3>5. edits[f].step = "waiting" /\ Behind(d, edits[f].waits, f)
      BY <1>1, <3>1, <3>4 DEF QueueInv
    <3>6. edits[f].waits \in Calls /\ edits[f].waits < f /\ d <= edits[f].waits
          /\ edits[edits[f].waits].root = edits[f].root
      BY <3>5 DEF Behind
    <3>7. edits[f].waits # c
      BY <3>2, <3>6, ConstantFacts
    <3> QED
      BY <1>10, <3>1, <3>5, <3>6, <3>7
  <2> QED
    BY <2>1, <2>2
<1>17. \A q \in Roots : locks'[q] \in Calls => edits'[locks'[q]].step # "none" /\ edits'[locks'[q]].root = q
  <2> SUFFICES ASSUME NEW q \in Roots, locks'[q] \in Calls
               PROVE  edits'[locks'[q]].step # "none" /\ edits'[locks'[q]].root = q
    OBVIOUS
  <2>1. CASE q = r
    BY <1>8, <1>10, <1>15, <2>1
  <2>2. CASE q # r
    <3>1. locks'[q] = locks[q] /\ edits[locks[q]].step # "none" /\ edits[locks[q]].root = q
      BY <1>1, <1>15, <2>2 DEF QueueInv
    <3> QED
      BY <1>10, <1>12, <3>1
  <2> QED
    BY <2>1, <2>2
<1>18. \A d \in Calls : edits'[d].step \in Live =>
        locks'[edits'[d].root] \in Calls /\ d <= locks'[edits'[d].root]
  <2> SUFFICES ASSUME NEW d \in Calls, edits'[d].step \in Live
               PROVE  locks'[edits'[d].root] \in Calls /\ d <= locks'[edits'[d].root]
    OBVIOUS
  <2>1. CASE d = c
    BY <1>8, <1>10, <1>15, <2>1, ConstantFacts
  <2>2. CASE d # c
    <3>1. edits'[d] = edits[d] /\ edits[d].step \in Live /\ edits[d].step # "none"
      BY <1>10, <2>2 DEF Live, Acting
    <3>2. d < c /\ edits[d].root \in Roots
      BY <1>1, <1>13, <3>1, EditFacts
    <3>3. locks[edits[d].root] \in Calls /\ d <= locks[edits[d].root]
      BY <1>1, <3>1 DEF QueueInv
    <3>4. d <= c
      BY <3>2, ConstantFacts
    <3> QED
      BY <1>15, <3>1, <3>2, <3>3, <3>4
  <2> QED
    BY <2>1, <2>2
<1>19. QueueInv'
  BY <1>14, <1>15, <1>16, <1>17, <1>18 DEF QueueInv, Behind
<1>20. ASSUME RootsApart PROVE TextsInv'
  <2>1. TextsInv
    BY <1>20 DEF WInv
  <2>2. \A p \in Paths : c \notin Shown(p)
    BY <1>12, <2>1, TextsSay DEF ShownFits, Left
  <2>3. PlanFits(x) /\ LookFits(x, c)
    BY <1>8 DEF PlanFits, LookFits
  <2>4. edits[c].step \notin Left
    BY <1>12 DEF Left
  <2> QED
    BY <1>1, <1>7, <2>1, <2>2, <2>3, <2>4, TextsKept
<1>21. CommandsInv' /\ ClosingInv'
  BY <1>1, CommandsStay
<1> QED
  BY <1>11, <1>19, <1>20, <1>21 DEF WInv

(* The daemon ends: every call that has not ended is lost. *)
LEMMA EndsStep ==
    ASSUME WInv, Ends, faults' \in 0..MaxFaults
    PROVE  WInv'
<1>1. /\ EditsInv /\ QueueInv /\ edits \in [Calls -> EditRecords] /\ locks' = [r \in Roots |-> None]
      /\ UNCHANGED <<files, written, raced>>
      /\ edits' = [c \in Calls |-> IF edits[c].step \in {"none"} \cup Over THEN edits[c] ELSE Ended(c, "lost")]
  BY DEF WInv, EditsInv, Ends
<1>2. CommandsInv' /\ ClosingInv' /\ \A c \in Calls : procs'[c] = NoProc <=> procs[c] = NoProc
  BY EndsCommands
<1>3. "lost" \in Over /\ "lost" \in Left /\ "lost" \notin Live /\ "lost" # "none"
  BY DEF Over, Left, Live, Acting
<1>4. \A c \in Calls :
        \/ edits[c].step \in {"none"} \cup Over /\ edits'[c] = edits[c]
        \/ /\ edits[c].step \in Live /\ edits'[c].step = "lost" /\ edits'[c].paths = edits[c].paths
           /\ edits'[c].plan = <<>> /\ ~edits'[c].looked /\ edits'[c] \in EditRecords /\ Shaped(edits'[c])
  <2> SUFFICES ASSUME NEW c \in Calls, edits[c].step \notin {"none"} \cup Over
               PROVE  /\ edits[c].step \in Live /\ edits'[c].step = "lost" /\ edits'[c].paths = edits[c].paths
                      /\ edits'[c].plan = <<>> /\ ~edits'[c].looked /\ edits'[c] \in EditRecords /\ Shaped(edits'[c])
    BY <1>1
  <2>1. edits'[c] = Ended(c, "lost")
    BY <1>1
  <2>2. edits[c].step \in Live
    BY <1>1, EditTypes DEF EditSteps, Live, Acting
  <2> QED
    BY <1>1, <1>3, <2>1, <2>2, EndedFits
<1>5. edits' \in [Calls -> EditRecords]
  <2>1. \A c \in Calls : edits'[c] \in EditRecords
    BY <1>1, <1>4
  <2>2. edits' = [c \in Calls |-> edits'[c]]
    BY <1>1
  <2> QED
    BY <2>1, <2>2
<1>6. EditsInv'
  BY <1>1, <1>4, <1>5 DEF EditsInv
<1>7. \A c \in Calls : edits'[c].step \notin Live
  BY <1>3, <1>4 DEF Over, Live, Acting
<1>8. \A c \in Calls : Made(c)' <=> Made(c)
  <2>1. \A c \in Calls : edits'[c] = NoEdit <=> edits[c] = NoEdit
    <3>1. NoEdit.step = "none"
      BY DEF NoEdit
    <3> QED
      BY <1>3, <1>4, <3>1 DEF Live, Acting
  <2> QED
    BY <1>2, <2>1 DEF Made
<1>9. \A c, d \in Calls : c < d /\ Made(d)' => Made(c)'
  BY <1>1, <1>8 DEF QueueInv
<1>10. locks' \in [Roots -> Calls \cup {None}] /\ \A r \in Roots : locks'[r] \notin Calls
  BY <1>1, ConstantFacts
<1>11. QueueInv'
  BY <1>7, <1>9, <1>10 DEF QueueInv
<1>12. ASSUME TextsInv PROVE TextsInv'
  <2>1. \A c \in Calls : /\ edits[c].step \in Left => edits'[c].step \in Left
                         /\ edits'[c].paths = edits[c].paths
                         /\ edits[c].step \in {"committing", "undoing"} => edits'[c].step \in Left
                         /\ edits'[c].step \notin {"committing", "undoing"} /\ ~edits'[c].looked
    <3>1. \A c \in Calls : edits[c].step \in {"none"} \cup Over => ~edits[c].looked
      BY <1>1, LookedActs DEF Over
    <3> QED
      BY <1>3, <1>4, <3>1 DEF Over
  <2>2. ShownInv'
    <3> SUFFICES ASSUME NEW p \in Paths, NEW c \in Calls, c \in Shown(p)'
                 PROVE  ShownFits(edits'[c], p)
      BY DEF ShownInv, ShownFits
    <3>1. ShownFits(edits[c], p)
      BY <1>1, <1>12, TextsSay DEF Shown
    <3>2. edits'[c].step \in Left /\ On(edits'[c], p)
      BY <2>1, <3>1 DEF ShownFits, On
    <3> QED
      BY <2>1, <3>2 DEF ShownFits
  <2>3. PlansInv'
    <3> SUFFICES ASSUME NEW c \in Calls, NEW i \in DOMAIN edits'[c].plan, NEW d \in Calls, d \in TextOf(edits'[c].plan[i])
                 PROVE  edits'[d].step \in Left /\ On(edits'[d], edits'[c].paths[i])
      BY DEF PlansInv
    <3>1. edits'[c] = edits[c]
      BY <1>4
    <3>2. PlanFits(edits[c])
      BY <1>12, TextsSay
    <3>3. edits[d].step \in Left /\ On(edits[d], edits[c].paths[i])
      BY <3>1, <3>2 DEF PlanFits
    <3> QED
      BY <2>1, <3>1, <3>3 DEF On
  <2>4. WrittenInv'
    BY <1>1, <1>12, <2>1 DEF TextsInv, WrittenInv, Shown
  <2> QED
    BY <2>2, <2>3, <2>4 DEF TextsInv
<1> QED
  BY <1>2, <1>6, <1>11, <1>12 DEF WInv

LEMMA EndingSteps ==
    ASSUME WInv, Crash \/ Exits
    PROVE  WInv'
<1>1. Ends /\ faults' \in 0..MaxFaults
  BY FaultFits DEF WInv, CommandsInv, Crash, Exits
<1> QED
  BY <1>1, EndsStep

LEMMA WriteStep ==
    ASSUME WInv, NEW c \in Calls, Write(c)
    PROVE  WInv'
<1>1. c \in Running
  BY DEF Write
<1>2. CASE Fault /\ Ends
  BY <1>2, FaultFits, EndsStep DEF WInv
<1>3. ASSUME procs[c].sent = "nothing", procs' = Terminated({c}),
             UNCHANGED <<fileVars, slots, total, daemon, faults>>
      PROVE  WInv'
  BY <1>1, <1>3, TerminatedFits
<1> QED
  BY <1>2, <1>3 DEF Write

-----------------------------------------------------------------------------
(* The invariant, and what it is for. *)

LEMMA InitFits == Init => WInv
<1> SUFFICES ASSUME Init PROVE WInv
  OBVIOUS
<1>1. NoEdit \in EditRecords /\ NoEdit.step = "none" /\ NoEdit.plan = <<>> /\ ~NoEdit.looked
  <2>1. <<>> \in Seq(Paths) /\ <<>> \in Seq(Texts)
    OBVIOUS
  <2> QED
    BY <2>1 DEF NoEdit, EditRecords, EditSteps
<1>2. Shaped(NoEdit)
  <2>1. NoEdit.paths = <<>> /\ NoEdit.plan = <<>> /\ NoEdit.done = 0 /\ Len(<<>>) = 0
    BY DEF NoEdit
  <2> QED
    BY <1>1, <2>1 DEF Shaped, Over
<1>3. \A p \in Paths : files[p] \in Texts /\ Shown(p) = {}
  BY DEF Init, Texts, Shown
<1>4. files \in [Paths -> Texts]
  <2>1. files = [p \in Paths |-> files[p]]
    BY DEF Init
  <2> QED
    BY <1>3, <2>1
<1>5. EditsInv
  BY <1>1, <1>2, <1>4 DEF Init, EditsInv
<1>6. \A c \in Calls : edits[c] = NoEdit /\ edits[c].step = "none" /\ procs[c] = NoProc /\ ~Made(c)
  BY <1>1 DEF Init, Made
<1>7. QueueInv
  <2>1. \A r \in Roots : locks[r] \notin Calls
    BY ConstantFacts DEF Init
  <2> QED
    BY <1>6, <2>1 DEF Init, QueueInv, Live, Acting
<1>8. TextsInv
  BY <1>1, <1>3, <1>6 DEF Init, TextsInv, ShownInv, PlansInv, WrittenInv
<1>9. Running = {} /\ \A r : {c \in Running : procs[c].root = r} = {}
  BY <1>6, NoProcFits DEF Running
<1>10. procs \in [Calls -> ProcRecords]
  BY NoProcFits DEF Init
<1>11. /\ total = Cardinality(Running) /\ total <= MaxTotal /\ total \in Nat
       /\ slots \in [Roots -> Nat]
       /\ \A r \in Roots : slots[r] = Cardinality({c \in Running : procs[c].root = r}) /\ slots[r] <= MaxPerRoot
  BY <1>9, FS_EmptySet, ConstantFacts DEF Init
<1>12. CommandsInv
  BY <1>6, <1>10, <1>11, NoProcFits, ConstantFacts, SMTT(30) DEF Init, CommandsInv
<1>13. ClosingInv
  BY <1>9 DEF Init, ClosingInv
<1> QED
  BY <1>5, <1>7, <1>8, <1>12, <1>13 DEF WInv

LEMMA NextKeeps == WInv /\ [Next]_vars => WInv'
<1> SUFFICES ASSUME WInv, [Next]_vars PROVE WInv'
  OBVIOUS
<1>1. ASSUME NEW c \in Calls, ApplyEdits(c) \/ EditStep(c) \/ CommitFails(c) \/ UndoFails(c) PROVE WInv'
  BY <1>1, ApplyEditsStep, StartEditsStep, PlanEditStep, LookBeforeCommitStep, CommitStep, LookBeforeUndoStep,
     UndoStep, UndoneStep, CommitFailsStep, UndoFailsStep DEF EditStep
<1>2. ASSUME NEW c \in Calls, Run(c) \/ Process(c) \/ ErrorEvent(c) \/ Exit(c) \/ LetGo(c) \/ Write(c) PROVE WInv'
  BY <1>2, RunStep, StartStep, ProcessSteps, EndingStep, WriteStep DEF Process
<1>3. ASSUME NEW p \in Paths, ForeignChange(p) \/ ForeignRemoval(p) PROVE WInv'
  BY <1>3, ForeignChangeStep, ForeignRemovalStep
<1>4. CASE Shutdown \/ ShutdownEnds \/ Exits \/ Crash \/ Restart
  BY <1>4, ShutdownStep, DaemonSteps, EndingSteps
<1>5. CASE UNCHANGED vars
  <2>1. /\ UNCHANGED fileVars /\ UNCHANGED commandVars /\ UNCHANGED daemon /\ faults' = faults
        /\ edits' = edits /\ procs' = procs
    BY <1>5 DEF vars, fileVars, commandVars
  <2>2. FilesInv'
    BY <2>1, FilesStay DEF WInv, FilesInv, QueueInv, Made
  <2>3. CommandsInv' /\ ClosingInv'
    BY <2>1, CommandsStay DEF WInv, CommandsInv
  <2> QED
    BY <2>2, <2>3 DEF WInv, FilesInv
<1> QED
  BY <1>1, <1>2, <1>3, <1>4, <1>5 DEF Next

(* The calls of each root queue and one of them acts, the slots counted    *)
(* are those of the processes that run, and the signals of a shutdown have *)
(* been sent, whatever calls of FileTools and CommandManager are made.     *)
THEOREM WorkspaceInductive == Spec => []WInv
  BY InitFits, NextKeeps, PTL DEF Spec

(* The calls and processes are well formed, and acquireSlot and            *)
(* finishProcess keep the counts of slots those of the processes that run, *)
(* under both limits.                                                      *)
THEOREM WorkspaceTyped == Spec => []TypeOK
<1>1. WInv => TypeOK
  <2> SUFFICES ASSUME WInv PROVE TypeOK
    OBVIOUS
  <2>1. EditsInv /\ QueueInv /\ CommandsInv
    BY DEF WInv
  <2>2. ASSUME NEW c \in Calls
        PROVE  /\ edits[c].step \in {"none", "waiting", "planning", "committing", "undoing"} \cup Over
               /\ edits[c].plan \in Seq(Texts) /\ Len(edits[c].plan) <= Len(edits[c].paths)
               /\ edits[c].done \in 0..Len(edits[c].plan)
               /\ procs[c].step \in {"none", "asked", "running", "refused", "ended", "orphan"}
               /\ procs[c].sent \in {"nothing", "SIGTERM", "SIGKILL"}
               /\ procs[c].session \in {"none", "open", "done"}
    <3>1. edits[c].step \in EditSteps /\ Shaped(edits[c]) /\ edits[c].done \in Nat /\ edits[c].plan \in Seq(Texts)
          /\ Len(edits[c].plan) \in Nat
      BY <2>1, EditTypes
    <3>2. Len(edits[c].plan) <= Len(edits[c].paths) /\ edits[c].done <= Len(edits[c].plan)
      BY <3>1 DEF Shaped
    <3>3. edits[c].done \in 0..Len(edits[c].plan)
      BY <3>1, <3>2
    <3> QED
      BY <2>1, <3>1, <3>2, <3>3, ProcTypes DEF EditSteps
  <2> QED
    BY <2>1, <2>2 DEF TypeOK, EditsInv, QueueInv, CommandsInv
<1> QED
  BY <1>1, WorkspaceInductive, PTL

(* For roots that share no file: a transaction overwrites no change of     *)
(* another program, but for those made between a look and a write, loses   *)
(* nothing that an earlier one has written, and leaves nothing behind when *)
(* it is rolled back (commitAll and rollback of FileTools).                *)
THEOREM FilesFollow ==
    ASSUME RootsApart
    PROVE  Spec => []FilesFollowEdits
<1>1. WInv => FilesFollowEdits
  <2> SUFFICES ASSUME WInv, NEW p \in Paths
               PROVE  /\ written[p] \ Shown(p) \subseteq raced[p] \cap Foreign
                      /\ \A c \in Calls : edits[c].step = "rolled back" => c \notin Shown(p)
    BY DEF FilesFollowEdits
  <2>1. TextsInv
    BY DEF WInv
  <2>2. \A c \in Calls : c \in Shown(p) => edits[c].step # "rolled back"
    BY <2>1, TextsSay DEF ShownFits, Left
  <2> QED
    BY <2>1, <2>2, TextsSay
<1> QED
  BY <1>1, WorkspaceInductive, PTL

(* When shutdown has ended, every process that CommandManager still counts *)
(* was sent SIGKILL and is dead, for any number of commands.               *)
THEOREM ShutdownClean == Spec => []ShutdownLeavesNone
<1>1. WInv => ShutdownLeavesNone
  <2> SUFFICES ASSUME WInv, daemon = "closed", NEW c \in Running PROVE ~procs[c].alive
    BY DEF ShutdownLeavesNone
  <2>1. procs[c].sent \in {"nothing", "SIGTERM", "SIGKILL"}
    BY ProcTypes DEF WInv, Running
  <2> QED
    BY <2>1 DEF WInv, ClosingInv
<1> QED
  BY <1>1, WorkspaceInductive, PTL
===============================================================================
