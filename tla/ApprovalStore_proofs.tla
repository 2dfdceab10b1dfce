-------------------------- MODULE ApprovalStore_proofs --------------------------
(***************************************************************************)
(* Proofs about ApprovalStore for any number of processes: the verdict of  *)
(* a request is one, is kept, and is what everyone is told; the directory  *)
(* implements a register that is written once; and every operation on it   *)
(* ends, whoever races with it.                                            *)
(***************************************************************************)
EXTENDS ApprovalStore, TLAPS

\* Before the first link there is nothing to read; after it, the decision file
\* holds the verdict until the tombstone does.
StoreInvariant ==
    /\ verdict = None => decision = None
    /\ verdict # None => verdict \in {decision, tomb}
    /\ tomb \in {None, verdict}
    /\ tomb # None => tomb.n \in aged

\* A decision is a verdict or a straggler that a tombstone already overrules.
Sound(d) == verdict # None /\ (d = verdict \/ tomb # None)

SoundAfter(d) == verdict' # None /\ (d = verdict' \/ tomb' # None)

\* What a process holds between two of its steps.
ProcInvariant(p) ==
    /\ mem[p] \in {None, verdict}
    /\ view[p].decision # None => Sound(view[p].decision)
    /\ cut[p] \subseteq aged
    /\ part[p] \in {"decide poll", "look", "transition"} => draft[p] # None
    /\ part[p] \in Moving \cup Sweeping /\ pc[p] \in {"link", "confirm"} => draft[p] # None
    /\ part[p] \in Moving \cup Sweeping /\ pc[p] = "confirm" => Sound(draft[p])
    /\ pc[p] \in {"undo", "unlink", "erase"} => tomb # None

IInv ==
    /\ TypeOK
    /\ answers \subseteq {verdict} \ {None}
    /\ StoreInvariant
    /\ \A p \in Procs : ProcInvariant(p)

JobType ==
    /\ part \in [Procs -> Parts]
    /\ pc \in [Procs -> Steps]
    /\ late \in [Procs -> BOOLEAN]
    /\ cut \in [Procs -> SUBSET (1 .. MaxDecisions)]
    /\ view \in [Procs -> View]
    /\ draft \in [Procs -> Decisions \cup {None}]

DiskType ==
    /\ request \in BOOLEAN
    /\ decision \in Decisions \cup {None}
    /\ tomb \in Decisions \cup {None}
    /\ receipt \in Decisions \cup {None}

MemoryType ==
    /\ mem \in [Procs -> Decisions \cup {None}]
    /\ seen \in [Procs -> BOOLEAN]

WorldType ==
    /\ overdue \in BOOLEAN
    /\ aged \subseteq 1 .. MaxDecisions
    /\ asked \in 0 .. MaxHuman
    /\ crashes \in 0 .. MaxCrashes

HistoryType ==
    /\ verdict \in Decisions \cup {None}
    /\ answers \subseteq Decisions

(* ------------------------------------------------------------------- types *)

LEMMA TypeParts ==
    TypeOK <=> DiskType /\ JobType /\ MemoryType /\ WorldType /\ HistoryType
BY DEF TypeOK, DiskType, JobType, MemoryType, WorldType, HistoryType

LEMMA AfterType == ASSUME NEW q \in Parts PROVE After(q) \in Parts
BY DEF After, Parts

LEMMA BlankType == Blank \in View /\ Blank.decision = None
BY DEF Blank, View

\* The types of what a process keeps, after each way of moving on.
LEMMA StepType ==
    ASSUME JobType, NEW p \in Procs, NEW s \in Steps, Step(p, s),
           view' \in [Procs -> View], draft' \in [Procs -> Decisions \cup {None}]
    PROVE  JobType'
BY DEF JobType, Step

LEMMA GotoType ==
    ASSUME JobType, NEW p \in Procs, NEW s \in Steps, Goto(p, s)
    PROVE  JobType'
BY StepType DEF Goto, JobType

LEMMA ContinueType ==
    ASSUME JobType, NEW p \in Procs, NEW q \in Parts, Continue(p, q)
    PROVE  JobType'
<1>1. part' \in [Procs -> Parts] /\ pc' \in [Procs -> Steps]
  BY DEF JobType, Continue, Steps
<1>2. late' \in [Procs -> BOOLEAN]
  BY Zenon DEF JobType, Continue
<1>3. cut' \in [Procs -> SUBSET (1 .. MaxDecisions)]
  BY Zenon DEF JobType, Continue
<1>4. view' \in [Procs -> View]
  BY BlankType, Zenon DEF JobType, Continue
<1>5. draft' \in [Procs -> Decisions \cup {None}]
  BY Zenon DEF JobType, Continue
<1> QED BY <1>1, <1>2, <1>3, <1>4, <1>5 DEF JobType

LEMMA FinishType ==
    ASSUME JobType, NEW p \in Procs, Finish(p)
    PROVE  JobType'
<1>1. After(part[p]) \in Parts
  BY AfterType DEF JobType
<1> QED BY <1>1, ContinueType DEF Finish

LEMMA BeginType ==
    ASSUME JobType, WorldType, NEW p \in Procs, NEW q \in Parts, Begin(p, q),
           draft' \in [Procs -> Decisions \cup {None}]
    PROVE  JobType'
<1>1. part' \in [Procs -> Parts] /\ pc' \in [Procs -> Steps]
  BY DEF JobType, Begin, Steps
<1>2. late' \in [Procs -> BOOLEAN]
  BY Zenon DEF JobType, Begin
<1>3. cut' \in [Procs -> SUBSET (1 .. MaxDecisions)]
  BY Zenon DEF JobType, WorldType, Begin
<1>4. view' \in [Procs -> View]
  BY DEF JobType, Begin
<1> QED BY <1>1, <1>2, <1>3, <1>4 DEF JobType

LEMMA NewDraftType ==
    ASSUME JobType, WorldType, NEW p \in Procs, NEW kind \in Kinds, NewDraft(p, kind)
    PROVE  /\ draft' \in [Procs -> Decisions \cup {None}]
           /\ aged' \subseteq 1 .. MaxDecisions
           /\ draft'[p] \in Decisions
<1>1. PICK n \in 1 .. MaxDecisions :
         /\ draft' = [draft EXCEPT ![p] = [n |-> n, kind |-> kind]]
         /\ aged' = aged \ {n}
  BY DEF NewDraft
<1>2. [n |-> n, kind |-> kind] \in Decisions
  BY DEF Decisions
<1> QED BY <1>1, <1>2 DEF JobType, WorldType

LEMMA ListingType == ASSUME NEW p PROVE Listing(p) \in View
BY DEF Listing, Blank, View, Files

LEMMA ReadType ==
    ASSUME DiskType, JobType, NEW p \in Procs, NEW f
    PROVE  Read(p, f) \in View
BY DEF DiskType, JobType, Read, View

(* ------------------------------------------------- what one step leaves alone *)

\* What a process may rely on while others move: the verdict and the tombstone
\* stay, and what was old for a clock is not used for a new decision.
Kept ==
    /\ verdict # None => verdict' = verdict
    /\ tomb # None => tomb' = tomb
    /\ \A q \in Procs : cut[q] \subseteq aged'

Alone(p) ==
    \A q \in Procs \ {p} :
        /\ part'[q] = part[q] /\ pc'[q] = pc[q] /\ cut'[q] = cut[q]
        /\ view'[q] = view[q] /\ draft'[q] = draft[q] /\ mem'[q] = mem[q]

LEMMA StepAlone ==
    ASSUME JobType, NEW p \in Procs, NEW s, Step(p, s),
           \A q \in Procs \ {p} : view'[q] = view[q] /\ draft'[q] = draft[q] /\ mem'[q] = mem[q]
    PROVE  Alone(p)
BY DEF JobType, Step, Alone

LEMMA ContinueAlone ==
    ASSUME JobType, NEW p \in Procs, NEW q, Continue(p, q),
           \A r \in Procs \ {p} : mem'[r] = mem[r]
    PROVE  Alone(p)
BY DEF JobType, Continue, Alone

LEMMA OthersKeep ==
    ASSUME TypeOK, NEW p \in Procs, Kept, Alone(p),
           NEW q \in Procs \ {p}, ProcInvariant(q)
    PROVE  ProcInvariant(q)'
<1>1. \A d : Sound(d) => SoundAfter(d)
  BY DEF Sound, SoundAfter, Kept
<1>2. cut'[q] \subseteq aged'
  BY DEF Kept, Alone
<1>3. mem'[q] \in {None, verdict'}
  BY DEF Kept, Alone, ProcInvariant
<1> QED BY <1>1, <1>2, <1>3 DEF ProcInvariant, Alone, Kept, Sound, SoundAfter

LEMMA Assemble ==
    ASSUME IInv, NEW p \in Procs, Kept, Alone(p), TypeOK', StoreInvariant',
           answers' \subseteq {verdict'} \ {None}, ProcInvariant(p)'
    PROVE  IInv'
<1>1. ASSUME NEW q \in Procs PROVE ProcInvariant(q)'
  <2>1. CASE q = p BY <2>1
  <2>2. CASE q # p BY <2>2, OthersKeep DEF IInv
  <2> QED BY <2>1, <2>2
<1> QED BY <1>1 DEF IInv

(* --------------------------------- what the process that moves holds after it *)

LEMMA ContinueKeeps ==
    ASSUME TypeOK, NEW p \in Procs, ProcInvariant(p), Kept,
           NEW q \in Parts, Continue(p, q), q # "decide poll",
           q \in {"look", "transition"} => draft[p] # None,
           mem'[p] \in {None, verdict'}
    PROVE  ProcInvariant(p)'
<1>1. pc'[p] = "start" /\ part'[p] = q
  BY DEF Continue, TypeOK
<1>2. view'[p] \in {view[p], Blank}
  BY DEF Continue, TypeOK
<1>3. view'[p].decision # None => SoundAfter(view'[p].decision)
  <2>1. view'[p].decision # None => view'[p] = view[p]
    BY <1>2, BlankType
  <2> QED BY <2>1 DEF ProcInvariant, Sound, SoundAfter, Kept
<1>4. cut'[p] \subseteq aged'
  BY DEF Continue, TypeOK, Kept
<1>5. q \in {"look", "transition"} => draft'[p] # None
  BY DEF Continue, TypeOK, Looking, Moving
<1> QED BY <1>1, <1>3, <1>4, <1>5 DEF ProcInvariant, Sound, SoundAfter

\* The part after a part keeps a draft that is still needed.
LEMMA AfterNeedsDraft ==
    ASSUME TypeOK, NEW p \in Procs, ProcInvariant(p)
    PROVE  /\ After(part[p]) \in Parts
           /\ After(part[p]) # "decide poll"
           /\ After(part[p]) \in {"look", "transition"} => draft[p] # None
BY AfterType DEF TypeOK, ProcInvariant, After

LEMMA GotoKeeps ==
    ASSUME TypeOK, NEW p \in Procs, ProcInvariant(p), Kept,
           NEW s \in Steps, Goto(p, s),
           s \in {"link", "confirm"} => draft[p] # None,
           s = "confirm" => SoundAfter(draft[p]),
           s \in {"undo", "unlink", "erase"} => tomb' # None,
           mem'[p] \in {None, verdict'}
    PROVE  ProcInvariant(p)'
<1>1. pc'[p] = s /\ part'[p] = part[p] /\ cut'[p] = cut[p]
  BY DEF Goto, Step, TypeOK
<1>2. view'[p] = view[p] /\ draft'[p] = draft[p]
  BY DEF Goto
<1>3. view[p].decision # None => SoundAfter(view[p].decision)
  BY DEF ProcInvariant, Sound, SoundAfter, Kept
<1>4. cut[p] \subseteq aged'
  BY DEF Kept
<1>5. s = "confirm" => SoundAfter(draft'[p])
  BY <1>2 DEF Sound, SoundAfter
<1> QED BY <1>1, <1>2, <1>3, <1>4, <1>5 DEF ProcInvariant, Sound, SoundAfter

(* --------------------------------- steps that leave the files as they are *)

LEMMA QuietKeeps ==
    ASSUME IInv, UNCHANGED <<disk, aged, history>>
    PROVE  Kept /\ StoreInvariant' /\ DiskType' /\ HistoryType'
           /\ answers' \subseteq {verdict'} \ {None}
<1>1. Kept
  BY DEF IInv, ProcInvariant, Kept, disk, history
<1>2. StoreInvariant'
  BY DEF IInv, StoreInvariant, disk, history
<1>3. DiskType' /\ HistoryType'
  BY TypeParts DEF IInv, DiskType, HistoryType, disk, history
<1> QED BY <1>1, <1>2, <1>3 DEF IInv, history

LEMMA QuietStep ==
    ASSUME IInv, NEW p \in Procs, UNCHANGED <<disk, aged, history>>,
           JobType', MemoryType', WorldType', Alone(p), ProcInvariant(p)'
    PROVE  IInv'
<1>1. TypeOK'
  BY QuietKeeps, TypeParts DEF TypeOK, DiskType, JobType, MemoryType, WorldType, HistoryType
<1> QED BY <1>1, QuietKeeps, Assemble

LEMMA SameMemory ==
    ASSUME IInv, NEW p \in Procs, UNCHANGED <<memory, verdict>>
    PROVE  /\ MemoryType'
           /\ mem'[p] \in {None, verdict'}
           /\ \A r \in Procs \ {p} : mem'[r] = mem[r]
BY TypeParts DEF IInv, memory, ProcInvariant, MemoryType

LEMMA SameWorld == ASSUME TypeOK, UNCHANGED world PROVE WorldType'
BY TypeParts DEF world, WorldType

LEMMA QuietContinue ==
    ASSUME IInv, NEW p \in Procs, NEW q \in Parts, Continue(p, q),
           q # "decide poll", q \notin {"look", "transition"},
           UNCHANGED <<disk, memory, world, history>>
    PROVE  IInv'
<1>1. UNCHANGED aged /\ UNCHANGED verdict
  BY DEF world, history
<1>2. JobType' /\ WorldType'
  BY ContinueType, SameWorld, TypeParts DEF IInv
<1>3. Alone(p)
  BY <1>1, SameMemory, ContinueAlone, TypeParts DEF IInv
<1>4. ProcInvariant(p)'
  BY <1>1, SameMemory, QuietKeeps, ContinueKeeps DEF IInv
<1> QED BY <1>1, <1>2, <1>3, <1>4, SameMemory, QuietStep

LEMMA QuietFinish ==
    ASSUME IInv, NEW p \in Procs, Finish(p), UNCHANGED <<disk, memory, world, history>>
    PROVE  IInv'
<1>1. UNCHANGED aged /\ UNCHANGED verdict
  BY DEF world, history
<1>2. JobType' /\ WorldType'
  BY FinishType, SameWorld, TypeParts DEF IInv
<1>3. Alone(p)
  BY <1>1, SameMemory, ContinueAlone, TypeParts DEF IInv, Finish
<1>4. ProcInvariant(p)'
  BY <1>1, SameMemory, QuietKeeps, AfterNeedsDraft, ContinueKeeps DEF IInv, Finish
<1> QED BY <1>1, <1>2, <1>3, <1>4, SameMemory, QuietStep

LEMMA QuietGoto ==
    ASSUME IInv, NEW p \in Procs, NEW s \in Steps, Goto(p, s),
           s \in {"link", "confirm"} => draft[p] # None, s # "confirm",
           s \in {"undo", "unlink", "erase"} => tomb # None,
           UNCHANGED <<disk, memory, world, history>>
    PROVE  IInv'
<1>1. UNCHANGED aged /\ UNCHANGED verdict /\ UNCHANGED tomb
  BY DEF world, history, disk
<1>2. JobType' /\ WorldType'
  BY GotoType, SameWorld, TypeParts DEF IInv
<1>3. Alone(p)
  BY <1>1, SameMemory, StepAlone, TypeParts DEF IInv, Goto
<1>4. ProcInvariant(p)'
  BY <1>1, SameMemory, QuietKeeps, GotoKeeps DEF IInv
<1> QED BY <1>1, <1>2, <1>3, <1>4, SameMemory, QuietStep

(* -------------------------------------------- steps that write a file *)

\* A step that writes to the directory and goes on with the next part.
LEMMA WritingStep ==
    ASSUME IInv, NEW p \in Procs, UNCHANGED <<memory, world>>, DiskType', HistoryType',
           JobType', Kept, StoreInvariant', answers' \subseteq {verdict'} \ {None},
           Alone(p), ProcInvariant(p)'
    PROVE  IInv'
<1>1. MemoryType' /\ WorldType'
  BY TypeParts DEF IInv, memory, world, MemoryType, WorldType
<1>2. TypeOK'
  BY <1>1 DEF TypeOK, DiskType, JobType, MemoryType, WorldType, HistoryType
<1> QED BY <1>2, Assemble

LEMMA StillTrue ==
    ASSUME IInv, NEW p \in Procs, UNCHANGED <<memory, world>>,
           verdict # None => verdict' = verdict, tomb # None => tomb' = tomb
    PROVE  /\ Kept
           /\ mem'[p] \in {None, verdict'}
           /\ \A r \in Procs \ {p} : mem'[r] = mem[r]
<1>1. Kept
  BY DEF IInv, ProcInvariant, Kept, world
<1>2. mem'[p] \in {None, verdict'}
  BY DEF IInv, ProcInvariant, memory
<1> QED BY <1>1, <1>2 DEF memory

LEMMA WritingFinish ==
    ASSUME IInv, NEW p \in Procs, Finish(p), UNCHANGED <<memory, world>>,
           DiskType', HistoryType', Kept, StoreInvariant',
           answers' \subseteq {verdict'} \ {None}, mem'[p] \in {None, verdict'}
    PROVE  IInv'
<1>1. JobType'
  BY FinishType, TypeParts DEF IInv
<1>2. \A r \in Procs \ {p} : mem'[r] = mem[r]
  BY DEF memory
<1>3. Alone(p)
  BY <1>2, ContinueAlone, TypeParts DEF IInv, Finish
<1>4. ProcInvariant(p)'
  BY AfterNeedsDraft, ContinueKeeps DEF IInv, Finish
<1> QED BY <1>1, <1>3, <1>4, WritingStep

LEMMA WritingGoto ==
    ASSUME IInv, NEW p \in Procs, NEW s \in Steps, Goto(p, s), UNCHANGED <<memory, world>>,
           DiskType', HistoryType', Kept, StoreInvariant',
           answers' \subseteq {verdict'} \ {None}, mem'[p] \in {None, verdict'},
           s \in {"link", "confirm"} => draft[p] # None,
           s = "confirm" => SoundAfter(draft[p]),
           s \in {"undo", "unlink", "erase"} => tomb' # None
    PROVE  IInv'
<1>1. JobType'
  BY GotoType, TypeParts DEF IInv
<1>2. \A r \in Procs \ {p} : mem'[r] = mem[r]
  BY DEF memory
<1>3. Alone(p)
  BY <1>2, StepAlone, TypeParts DEF IInv, Goto
<1>4. ProcInvariant(p)'
  BY GotoKeeps DEF IInv
<1> QED BY <1>1, <1>3, <1>4, WritingStep

(* ------------------------------------------------------------ the operations *)

LEMMA SubmitsKeep == ASSUME IInv, NEW p \in Procs, Submits(p) PROVE IInv'
<1>1. CASE SubmitCheck(p)
  <2>1. CASE Goto(p, "file")
    BY <1>1, <2>1, QuietGoto DEF SubmitCheck, Steps
  <2>2. CASE Finish(p)
    BY <1>1, <2>2, QuietFinish DEF SubmitCheck
  <2> QED BY <1>1, <2>1, <2>2 DEF SubmitCheck
<1>2. CASE SubmitLink(p)
  <2>1. UNCHANGED <<memory, world, history, decision, tomb, receipt>> /\ request' = TRUE
    BY <1>2 DEF SubmitLink
  <2>2. DiskType' /\ HistoryType'
    BY <2>1, TypeParts DEF IInv, DiskType, HistoryType, history
  <2>3. StoreInvariant' /\ answers' \subseteq {verdict'} \ {None}
    BY <2>1 DEF IInv, StoreInvariant, history, world
  <2>4. Kept /\ mem'[p] \in {None, verdict'}
    BY <2>1, StillTrue DEF history
  <2> QED BY <1>2, <2>1, <2>2, <2>3, <2>4, WritingFinish DEF SubmitLink
<1> QED BY <1>1, <1>2 DEF Submits

LEMMA ViewStep ==
    ASSUME IInv, NEW p \in Procs, NEW w \in View, UNCHANGED <<disk, memory, world, history>>,
           view' = [view EXCEPT ![p] = w], JobType', Alone(p),
           w.decision # None => Sound(w.decision),
           part'[p] = part[p], cut'[p] = cut[p], draft'[p] = draft[p],
           pc'[p] \in {pc[p], "read", "reread", "check"}
    PROVE  IInv'
<1>1. UNCHANGED aged /\ UNCHANGED verdict /\ UNCHANGED tomb
  BY DEF world, history, disk
<1>2. view'[p] = w
  BY TypeParts DEF IInv, JobType
<1>3. Kept
  BY <1>1, QuietKeeps
<1>4. ProcInvariant(p)
  BY DEF IInv
<1>5. ProcInvariant(p)'
  BY <1>1, <1>2, <1>3, <1>4, SameMemory DEF ProcInvariant, Sound, Kept
<1> QED BY <1>1, <1>5, SameMemory, SameWorld, QuietStep DEF IInv

LEMMA ReadSound ==
    ASSUME IInv, NEW p \in Procs, NEW f
    PROVE  Read(p, f).decision # None => Sound(Read(p, f).decision)
<1>1. Read(p, f).decision \in {decision, view[p].decision}
  BY TypeParts DEF IInv, JobType, View, Read
<1>2. decision # None => Sound(decision)
  BY DEF IInv, StoreInvariant, Sound
<1>3. view[p].decision # None => Sound(view[p].decision)
  BY DEF IInv, ProcInvariant
<1> QED BY <1>1, <1>2, <1>3

LEMMA ListingEmpty == ASSUME NEW p PROVE Listing(p).decision = None
BY DEF Listing, Blank

LEMMA ScansKeep == ASSUME IInv, NEW p \in Procs, Scans(p) PROVE IInv'
<1>1. CASE ScanList(p)
  <2>1. PICK s \in {"read", "reread"} : Step(p, s)
    BY <1>1 DEF ScanList
  <2>2. /\ view' = [view EXCEPT ![p] = Listing(p)]
        /\ UNCHANGED draft /\ UNCHANGED <<disk, memory, world, history>>
    BY <1>1 DEF ScanList
  <2>3. view' \in [Procs -> View] /\ draft' \in [Procs -> Decisions \cup {None}]
    BY <2>2, ListingType, TypeParts DEF IInv, JobType
  <2>4. JobType'
    BY <2>1, <2>3, StepType, TypeParts DEF IInv, Steps
  <2>5. Alone(p)
    BY <2>1, <2>2, StepAlone, TypeParts DEF IInv, JobType, memory
  <2>6. /\ part'[p] = part[p] /\ cut'[p] = cut[p] /\ draft'[p] = draft[p]
        /\ pc'[p] \in {pc[p], "read", "reread", "check"}
    BY <2>1, <2>2, TypeParts DEF IInv, JobType, Step
  <2> QED BY <2>2, <2>4, <2>5, <2>6, ListingType, ListingEmpty, ViewStep
<1>2. CASE ScanRead(p)
  <2>1. PICK f \in view[p].unread : view' = [view EXCEPT ![p] = Read(p, f)]
    BY <1>2 DEF ScanRead
  <2>2. UNCHANGED <<part, pc, late, cut, draft>> /\ UNCHANGED <<disk, memory, world, history>>
    BY <1>2 DEF ScanRead
  <2>3. Read(p, f) \in View
    BY ReadType, TypeParts DEF IInv
  <2>4. JobType'
    BY <2>1, <2>2, <2>3, TypeParts DEF IInv, JobType
  <2>5. Alone(p)
    BY <2>1, <2>2, TypeParts DEF IInv, JobType, Alone, memory
  <2> QED BY <2>1, <2>2, <2>3, <2>4, <2>5, ReadSound, ViewStep
<1> QED BY <1>1, <1>2 DEF Scans

\* A link succeeds only before the verdict or after the retirement.
LEMMA LinkKeeps ==
    ASSUME IInv, NEW p \in Procs, LinkDecision(p), Goto(p, "confirm"),
           UNCHANGED <<memory, world>>, draft[p] # None
    PROVE  IInv'
<1>1. /\ decision = None /\ decision' = draft[p]
      /\ verdict' = IF verdict = None THEN draft[p] ELSE verdict
      /\ UNCHANGED <<request, tomb, receipt, answers>>
  BY DEF LinkDecision, NameFree
<1>2. draft[p] \in Decisions
  BY TypeParts DEF IInv, JobType
<1>3. DiskType' /\ HistoryType'
  BY <1>1, <1>2, TypeParts DEF IInv, DiskType, HistoryType
<1>4. StoreInvariant'
  BY <1>1 DEF IInv, StoreInvariant, world
<1>5. SoundAfter(draft[p])
  BY <1>1 DEF IInv, StoreInvariant, SoundAfter
<1>6. answers' \subseteq {verdict'} \ {None}
  BY <1>1 DEF IInv
<1>7. Kept /\ mem'[p] \in {None, verdict'}
  BY <1>1, StillTrue
<1>8. "confirm" \in Steps
  BY DEF Steps
<1>9. draft[p] # None
  OBVIOUS
<1> QED BY <1>3, <1>4, <1>5, <1>6, <1>7, <1>8, WritingGoto

LEMMA DecidesKeep == ASSUME IInv, NEW p \in Procs, Decides(p) PROVE IInv'
<1>1. CASE Look(p)
  BY <1>1, QuietFinish, QuietContinue DEF Look, Parts
<1>5. CASE CheckExpired(p)
  <2>1. Continue(p, "late sweep") \/ Continue(p, "idle")
    BY <1>5 DEF CheckExpired
  <2>2. UNCHANGED <<disk, memory, world, history>>
    BY <1>5 DEF CheckExpired
  <2> QED BY <2>1, <2>2, QuietContinue DEF Parts
<1>2. CASE TransitionChecks(p)
  <2>1. UNCHANGED <<disk, memory, world, history>>
    BY <1>2 DEF TransitionChecks
  <2>2. draft[p] # None
    BY <1>2 DEF TransitionChecks, At, Moving, IInv, ProcInvariant
  <2>3. \/ Continue(p, "late sweep") \/ Goto(p, "link") \/ Continue(p, "poll")
    BY <1>2 DEF TransitionChecks
  <2> QED BY <2>1, <2>2, <2>3, QuietContinue, QuietGoto DEF Parts, Steps
<1>3. CASE TransitionLinks(p)
  <2>1. UNCHANGED <<memory, world>>
    BY <1>3 DEF TransitionLinks
  <2>2. draft[p] # None
    BY <1>3 DEF TransitionLinks, At, IInv, ProcInvariant
  <2>3. CASE LinkDecision(p) /\ Goto(p, "confirm")
    BY <2>1, <2>2, <2>3, LinkKeeps
  <2>4. CASE Continue(p, "poll") /\ UNCHANGED <<disk, history>>
    BY <2>1, <2>4, QuietContinue DEF Parts
  <2> QED BY <1>3, <2>3, <2>4 DEF TransitionLinks
<1>4. CASE TransitionConfirms(p)
  <2>1. UNCHANGED disk /\ UNCHANGED world /\ UNCHANGED verdict
    BY <1>4 DEF TransitionConfirms
  <2>2. CASE tomb # None
    <3>1. Goto(p, "undo") /\ UNCHANGED <<disk, memory, world, history>>
      BY <1>4, <2>1, <2>2 DEF TransitionConfirms, Retired, history
    <3> QED BY <2>2, <3>1, QuietGoto DEF Steps
  <2>3. CASE tomb = None
    <3>1. /\ Finish(p)
          /\ mem' = [mem EXCEPT ![p] = draft[p]]
          /\ seen' = [seen EXCEPT ![p] = TRUE]
          /\ answers' = answers \cup {draft[p]}
      BY <1>4, <2>3 DEF TransitionConfirms, Retired
    <3>2. draft[p] = verdict /\ draft[p] # None
      BY <1>4, <2>3 DEF TransitionConfirms, At, IInv, ProcInvariant, Sound
    <3>3. draft[p] \in Decisions
      BY <3>2, TypeParts DEF IInv, JobType
    <3>4. DiskType' /\ WorldType' /\ MemoryType' /\ HistoryType'
      BY <2>1, <3>1, <3>3, TypeParts DEF IInv, disk, world, DiskType, WorldType, MemoryType, HistoryType
    <3>5. JobType'
      BY <3>1, FinishType, TypeParts DEF IInv
    <3>6. TypeOK'
      BY <3>4, <3>5 DEF TypeOK, DiskType, JobType, MemoryType, WorldType, HistoryType
    <3>7. StoreInvariant' /\ answers' \subseteq {verdict'} \ {None}
      BY <2>1, <3>1, <3>2 DEF IInv, StoreInvariant, disk, world
    <3>8. Kept
      BY <2>1 DEF Kept, IInv, ProcInvariant, disk, world
    <3>9. mem'[p] \in {None, verdict'} /\ \A r \in Procs \ {p} : mem'[r] = mem[r]
      BY <2>1, <3>1, <3>2, TypeParts DEF IInv, MemoryType
    <3>10. Alone(p)
      BY <3>1, <3>9, ContinueAlone, TypeParts DEF IInv, Finish
    <3>11. ProcInvariant(p)'
      BY <3>1, <3>8, <3>9, AfterNeedsDraft, ContinueKeeps DEF IInv, Finish
    <3> QED BY <3>6, <3>7, <3>8, <3>10, <3>11, Assemble
  <2> QED BY <2>2, <2>3
<1> QED BY <1>1, <1>2, <1>3, <1>4, <1>5 DEF Decides

LEMMA UndoKeeps == ASSUME IInv, NEW p \in Procs, Undo(p) PROVE IInv'
<1>1. /\ decision' = None /\ UNCHANGED <<request, tomb, receipt>>
      /\ UNCHANGED <<memory, world>> /\ UNCHANGED verdict /\ UNCHANGED answers
  BY DEF Undo, history
<1>2. tomb # None
  BY DEF Undo, At, IInv, ProcInvariant
<1>3. DiskType' /\ HistoryType'
  BY <1>1, TypeParts DEF IInv, DiskType, HistoryType
<1>4. StoreInvariant' /\ answers' \subseteq {verdict'} \ {None}
  BY <1>1, <1>2 DEF IInv, StoreInvariant, world
<1>5. Kept /\ mem'[p] \in {None, verdict'}
  BY <1>1, StillTrue
<1>6. CASE Goto(p, "relist")
  BY <1>1, <1>3, <1>4, <1>5, <1>6, WritingGoto DEF Steps
<1>7. CASE Continue(p, "poll")
  <2>1. "poll" \in Parts
    BY DEF Parts
  <2>2. JobType'
    BY <1>7, <2>1, ContinueType, TypeParts DEF IInv
  <2>3. \A r \in Procs \ {p} : mem'[r] = mem[r]
    BY <1>1 DEF memory
  <2>4. Alone(p)
    BY <1>7, <2>3, ContinueAlone, TypeParts DEF IInv
  <2>5. ProcInvariant(p)'
    BY <1>5, <1>7, <2>1, ContinueKeeps DEF IInv
  <2> QED BY <1>1, <1>3, <1>4, <1>5, <2>2, <2>4, <2>5, WritingStep
<1> QED BY <1>6, <1>7 DEF Undo

\* A new number is neither that of the tombstone nor in any process's cutoff.
LEMMA DraftIsFresh ==
    ASSUME IInv, NEW p \in Procs, NEW kind \in Kinds, NewDraft(p, kind)
    PROVE  /\ tomb # None => tomb.n \in aged'
           /\ \A q \in Procs : cut[q] \subseteq aged'
           /\ \A q \in Procs \ {p} : draft'[q] = draft[q]
<1>1. PICK n \in (1 .. MaxDecisions) \ InUse :
         /\ draft' = [draft EXCEPT ![p] = [n |-> n, kind |-> kind]]
         /\ aged' = aged \ {n}
  BY DEF NewDraft
<1>2. tomb # None => tomb.n \in InUse
  BY Zenon DEF InUse
<1>3. ASSUME NEW q \in Procs PROVE cut[q] \subseteq InUse
  BY Zenon DEF InUse
<1>4. tomb # None => tomb.n \in aged
  BY DEF IInv, StoreInvariant
<1>5. \A q \in Procs : cut[q] \subseteq aged
  BY DEF IInv, ProcInvariant
<1> QED BY <1>1, <1>2, <1>3, <1>4, <1>5, TypeParts DEF IInv, JobType

LEMMA SweepClosesKeeps == ASSUME IInv, NEW p \in Procs, SweepCloses(p) PROVE IInv'
<1>1. /\ NewDraft(p, "ttl") /\ Step(p, "link")
      /\ UNCHANGED <<view, disk, memory, overdue, asked, crashes, history>>
  BY DEF SweepCloses
<1>2. "ttl" \in Kinds /\ "link" \in Steps
  BY DEF Kinds, Steps
<1>3. /\ draft' \in [Procs -> Decisions \cup {None}] /\ aged' \subseteq 1 .. MaxDecisions
      /\ draft'[p] # None
  BY <1>1, <1>2, NewDraftType, TypeParts, NoneAssumption DEF IInv
<1>4. JobType'
  BY <1>1, <1>2, <1>3, StepType, TypeParts DEF IInv, JobType
<1>5. DiskType' /\ MemoryType' /\ WorldType' /\ HistoryType'
  BY <1>1, <1>3, TypeParts
     DEF IInv, disk, memory, history, DiskType, MemoryType, WorldType, HistoryType
<1>6. TypeOK'
  BY <1>4, <1>5 DEF TypeOK, DiskType, JobType, MemoryType, WorldType, HistoryType
<1>7. StoreInvariant' /\ answers' \subseteq {verdict'} \ {None}
  BY <1>1, <1>2, DraftIsFresh DEF IInv, StoreInvariant, disk, history
<1>8. Kept
  BY <1>1, <1>2, DraftIsFresh DEF Kept, disk, history
<1>9. Alone(p)
  BY <1>1, <1>2, DraftIsFresh, StepAlone, TypeParts DEF IInv, memory
<1>10. pc'[p] = "link" /\ part'[p] = part[p] /\ cut'[p] = cut[p] /\ view'[p] = view[p]
  BY <1>1, TypeParts DEF IInv, JobType, Step
<1>11. ProcInvariant(p)'
  BY <1>1, <1>3, <1>8, <1>10 DEF IInv, ProcInvariant, Kept, Sound, disk, memory, history
<1> QED BY <1>6, <1>7, <1>8, <1>9, <1>11, Assemble

\* A step that only writes the receipt.
LEMMA ReceiptKeeps ==
    ASSUME IInv, NEW p \in Procs, UNCHANGED <<request, decision, tomb, memory, world, history>>,
           receipt' \in Decisions \cup {None}
    PROVE  /\ DiskType' /\ HistoryType' /\ StoreInvariant' /\ Kept
           /\ answers' \subseteq {verdict'} \ {None} /\ mem'[p] \in {None, verdict'}
<1>1. DiskType' /\ HistoryType'
  BY TypeParts DEF IInv, DiskType, HistoryType, history
<1>2. StoreInvariant' /\ answers' \subseteq {verdict'} \ {None}
  BY DEF IInv, StoreInvariant, world, history
<1> QED BY <1>1, <1>2, StillTrue DEF history

LEMMA SweepsKeep == ASSUME IInv, NEW p \in Procs, Sweeps(p) PROVE IInv'
<1>1. CASE SweepCloses(p)
  BY <1>1, SweepClosesKeeps
<1>2. CASE SweepRepairs(p)
  <2>1. /\ UNCHANGED <<request, decision, tomb, memory, world, history>> /\ Finish(p)
        /\ receipt' = IF receipt = None THEN view[p].decision ELSE receipt
    BY <1>2 DEF SweepRepairs
  <2>2. receipt' \in Decisions \cup {None}
    BY <2>1, TypeParts DEF IInv, DiskType, JobType, View
  <2>3. UNCHANGED <<memory, world>>
    BY <2>1
  <2> QED BY <2>1, <2>2, <2>3, ReceiptKeeps, WritingFinish
<1>3. CASE SweepSkips(p)
  BY <1>3, QuietFinish DEF SweepSkips
<1>4. CASE SweepLinks(p)
  <2>1. UNCHANGED <<memory, world>>
    BY <1>4 DEF SweepLinks
  <2>2. draft[p] # None
    BY <1>4 DEF SweepLinks, At, IInv, ProcInvariant
  <2>3. CASE LinkDecision(p) /\ Goto(p, "confirm")
    BY <2>1, <2>2, <2>3, LinkKeeps
  <2>4. CASE Goto(p, "relist") /\ UNCHANGED <<disk, history>>
    BY <2>1, <2>4, QuietGoto DEF Steps
  <2> QED BY <1>4, <2>3, <2>4 DEF SweepLinks
<1>5. CASE SweepConfirms(p)
  <2>1. UNCHANGED <<disk, memory, world, history>>
    BY <1>5 DEF SweepConfirms
  <2>2. CASE tomb # None
    BY <1>5, <2>1, <2>2, QuietGoto DEF SweepConfirms, Retired, Steps
  <2>3. CASE tomb = None
    BY <1>5, <2>1, <2>3, QuietGoto DEF SweepConfirms, Retired, Steps
  <2> QED BY <2>2, <2>3
<1>6. CASE SweepReceipts(p)
  <2>1. /\ UNCHANGED <<request, decision, tomb, memory, world, history>> /\ Goto(p, "relist")
        /\ receipt' = IF receipt = None THEN draft[p] ELSE receipt
    BY <1>6 DEF SweepReceipts
  <2>2. receipt' \in Decisions \cup {None}
    BY <2>1, TypeParts DEF IInv, DiskType, JobType
  <2>3. UNCHANGED <<memory, world>>
    BY <2>1
  <2> QED BY <2>1, <2>2, <2>3, ReceiptKeeps, WritingGoto DEF Steps
<1>7. CASE SweepEnds(p)
  BY <1>7, QuietFinish DEF SweepEnds
<1> QED BY <1>1, <1>2, <1>3, <1>4, <1>5, <1>6, <1>7 DEF Sweeps

(* ------------------------------------------------------------- the brokers *)

\* A step that tells a broker the verdict, or tells it nothing.
LEMMA ToldType ==
    ASSUME IInv, NEW p \in Procs, NEW d \in {None, verdict},
           mem' = [mem EXCEPT ![p] = d], seen' \in [Procs -> BOOLEAN],
           UNCHANGED <<disk, world, history>>
    PROVE  /\ MemoryType' /\ WorldType' /\ UNCHANGED <<disk, aged, history>>
           /\ mem'[p] \in {None, verdict'}
           /\ \A r \in Procs \ {p} : mem'[r] = mem[r]
<1>1. d \in Decisions \cup {None}
  BY TypeParts DEF IInv, HistoryType
<1>2. MemoryType'
  BY <1>1, TypeParts DEF IInv, MemoryType
<1>3. mem'[p] = d /\ \A r \in Procs \ {p} : mem'[r] = mem[r]
  BY TypeParts DEF IInv, MemoryType
<1> QED BY <1>2, <1>3, SameWorld DEF IInv, world, history

LEMMA ToldFinish ==
    ASSUME IInv, NEW p \in Procs, NEW d \in {None, verdict}, Finish(p),
           mem' = [mem EXCEPT ![p] = d], seen' \in [Procs -> BOOLEAN],
           UNCHANGED <<disk, world, history>>
    PROVE  IInv'
<1>1. /\ MemoryType' /\ WorldType' /\ UNCHANGED <<disk, aged, history>>
      /\ mem'[p] \in {None, verdict'} /\ \A r \in Procs \ {p} : mem'[r] = mem[r]
  BY ToldType
<1>2. JobType'
  BY FinishType, TypeParts DEF IInv
<1>3. Alone(p)
  BY <1>1, ContinueAlone, TypeParts DEF IInv, Finish
<1>4. ProcInvariant(p)'
  BY <1>1, QuietKeeps, AfterNeedsDraft, ContinueKeeps DEF IInv, Finish
<1> QED BY <1>1, <1>2, <1>3, <1>4, QuietStep

LEMMA ToldGoto ==
    ASSUME IInv, NEW p \in Procs, NEW d \in {None, verdict}, Goto(p, "read"),
           mem' = [mem EXCEPT ![p] = d], seen' \in [Procs -> BOOLEAN],
           UNCHANGED <<disk, world, history>>
    PROVE  IInv'
<1>1. /\ MemoryType' /\ WorldType' /\ UNCHANGED <<disk, aged, history>>
      /\ mem'[p] \in {None, verdict'} /\ \A r \in Procs \ {p} : mem'[r] = mem[r]
  BY ToldType
<1>2. "read" \in Steps
  BY DEF Steps
<1>3. JobType'
  BY <1>2, GotoType, TypeParts DEF IInv
<1>4. Alone(p)
  BY <1>1, StepAlone, TypeParts DEF IInv, Goto
<1>5. ProcInvariant(p)'
  BY <1>1, <1>2, QuietKeeps, GotoKeeps DEF IInv
<1> QED BY <1>1, <1>3, <1>4, <1>5, QuietStep

LEMMA SameMemIsTold ==
    ASSUME IInv, NEW p \in Procs, UNCHANGED mem
    PROVE  mem' = [mem EXCEPT ![p] = mem[p]] /\ mem[p] \in {None, verdict}
BY TypeParts DEF IInv, MemoryType, ProcInvariant

LEMMA PollsKeep == ASSUME IInv, NEW p \in Procs, Polls(p) PROVE IInv'
<1>1. CASE PollList(p)
  <2> DEFINE d == IF mem[p] = None THEN tomb ELSE mem[p]
  <2>1. d \in {None, verdict}
    BY DEF IInv, StoreInvariant, ProcInvariant
  <2>2. mem' = [mem EXCEPT ![p] = d] /\ UNCHANGED <<disk, world, history>>
    BY <1>1, Zenon DEF PollList
  <2>3. seen' \in [Procs -> BOOLEAN]
    BY <1>1, TypeParts, Zenon DEF PollList, IInv, MemoryType
  <2>4. Goto(p, "read") \/ Finish(p)
    BY <1>1 DEF PollList
  <2> HIDE DEF d
  <2> QED BY <2>1, <2>2, <2>3, <2>4, ToldGoto, ToldFinish
<1>2. CASE PollRead(p)
  <2>1. UNCHANGED <<disk, memory, world, history>>
    BY <1>2 DEF PollRead
  <2>2. CASE decision = None
    BY <1>2, <2>1, <2>2, QuietFinish DEF PollRead
  <2>3. CASE decision # None
    <3> DEFINE w == [Blank EXCEPT !.decision = decision]
    <3>1. view' = [view EXCEPT ![p] = w] /\ Step(p, "check") /\ UNCHANGED draft
      BY <1>2, <2>3 DEF PollRead
    <3>2. w \in View /\ w.decision = decision
      BY TypeParts DEF IInv, DiskType, Blank, View
    <3>3. Sound(w.decision)
      BY <2>3, <3>2 DEF IInv, StoreInvariant, Sound
    <3> HIDE DEF w
    <3>4. view' \in [Procs -> View] /\ draft' \in [Procs -> Decisions \cup {None}]
      BY <3>1, <3>2, TypeParts DEF IInv, JobType
    <3>5. JobType'
      BY <3>1, <3>4, StepType, TypeParts DEF IInv, Steps
    <3>6. Alone(p)
      BY <2>1, <3>1, StepAlone, TypeParts DEF IInv, JobType, memory
    <3>7. /\ part'[p] = part[p] /\ cut'[p] = cut[p] /\ draft'[p] = draft[p]
          /\ pc'[p] \in {pc[p], "read", "reread", "check"}
      BY <3>1, TypeParts DEF IInv, JobType, Step
    <3> QED BY <2>1, <3>1, <3>2, <3>3, <3>5, <3>6, <3>7, ViewStep
  <2> QED BY <2>2, <2>3
<1>3. CASE PollSettles(p)
  <2>1. Finish(p) /\ UNCHANGED <<disk, world, history>>
    BY <1>3 DEF PollSettles
  <2>2. seen' \in [Procs -> BOOLEAN]
    BY <1>3, TypeParts DEF PollSettles, Settle, IInv, MemoryType
  <2>3. CASE Live /\ mem[p] = None
    <3>1. mem' = [mem EXCEPT ![p] = view[p].decision]
      BY <1>3, <2>3 DEF PollSettles, Settle
    <3>2. view[p].decision \in {None, verdict}
      BY <2>3 DEF Live, IInv, ProcInvariant, Sound
    <3> QED BY <2>1, <2>2, <3>1, <3>2, ToldFinish
  <2>4. CASE ~(Live /\ mem[p] = None)
    <3>1. UNCHANGED mem
      BY <1>3, <2>4 DEF PollSettles
    <3> QED BY <2>1, <2>2, <3>1, SameMemIsTold, ToldFinish
  <2> QED BY <2>3, <2>4
<1> QED BY <1>1, <1>2, <1>3 DEF Polls

LEMMA HydratesKeep == ASSUME IInv, NEW p \in Procs, Hydrates(p) PROVE IInv'
<1>1. CASE HydrateList(p)
  <2>1. /\ view' = [view EXCEPT ![p] = Listing(p)] /\ mem' = [mem EXCEPT ![p] = tomb]
        /\ Step(p, "read") /\ UNCHANGED <<draft, disk, seen, world, history>>
    BY <1>1 DEF HydrateList
  <2>2. tomb \in {None, verdict} /\ seen' \in [Procs -> BOOLEAN]
    BY <2>1, TypeParts DEF IInv, StoreInvariant, MemoryType
  <2>3. /\ MemoryType' /\ WorldType' /\ UNCHANGED <<disk, aged, history>>
        /\ mem'[p] \in {None, verdict'} /\ \A r \in Procs \ {p} : mem'[r] = mem[r]
    BY <2>1, <2>2, ToldType
  <2>4. view' \in [Procs -> View] /\ draft' \in [Procs -> Decisions \cup {None}]
    BY <2>1, ListingType, TypeParts DEF IInv, JobType
  <2>5. JobType'
    BY <2>1, <2>4, StepType, TypeParts DEF IInv, Steps
  <2>6. Alone(p)
    BY <2>1, <2>3, StepAlone, TypeParts DEF IInv, JobType
  <2>7. /\ part'[p] = part[p] /\ cut'[p] = cut[p] /\ draft'[p] = draft[p]
        /\ pc'[p] = "read" /\ view'[p].decision = None
    BY <2>1, ListingEmpty, TypeParts DEF IInv, JobType, Step
  <2>8. Kept
    BY <2>3, QuietKeeps
  <2>9. ProcInvariant(p)'
    BY <2>3, <2>7, <2>8 DEF IInv, ProcInvariant, Kept
  <2> QED BY <2>3, <2>5, <2>6, <2>9, QuietStep
<1>2. CASE HydrateRead(p)
  <2>1. PICK f \in view[p].unread :
          view' = [view EXCEPT ![p] = [Read(p, f) EXCEPT
                     !.request = IF f = "request" THEN Live ELSE @]]
    BY <1>2 DEF HydrateRead
  <2> DEFINE w == [Read(p, f) EXCEPT !.request = IF f = "request" THEN Live ELSE @]
  <2>2. UNCHANGED <<part, pc, late, cut, draft>> /\ UNCHANGED <<disk, memory, world, history>>
    BY <1>2 DEF HydrateRead
  <2>3. Read(p, f) \in View
    BY ReadType, TypeParts DEF IInv
  <2>4. w \in View /\ w.decision = Read(p, f).decision
    BY <2>3, TypeParts DEF View, Live, IInv, DiskType
  <2>5. w.decision # None => Sound(w.decision)
    BY <2>4, ReadSound
  <2>6. view' = [view EXCEPT ![p] = w]
    BY <2>1
  <2> HIDE DEF w
  <2>7. JobType'
    BY <2>2, <2>4, <2>6, TypeParts DEF IInv, JobType
  <2>8. Alone(p)
    BY <2>2, <2>6, TypeParts DEF IInv, JobType, Alone, memory
  <2> QED BY <2>2, <2>4, <2>5, <2>6, <2>7, <2>8, ViewStep
<1>3. CASE HydrateSettles(p)
  <2>1. Finish(p) /\ UNCHANGED <<disk, world, history>>
    BY <1>3 DEF HydrateSettles
  <2>2. seen' \in [Procs -> BOOLEAN]
    BY <1>3, TypeParts DEF HydrateSettles, Settle, IInv, MemoryType, memory
  <2>3. CASE view[p].decision # None /\ tomb = None /\ view[p].request
    <3>1. mem' = [mem EXCEPT ![p] = view[p].decision]
      BY <1>3, <2>3 DEF HydrateSettles, Settle
    <3>2. view[p].decision \in {None, verdict}
      BY <2>3 DEF IInv, ProcInvariant, Sound
    <3> QED BY <2>1, <2>2, <3>1, <3>2, ToldFinish
  <2>4. CASE ~(view[p].decision # None /\ tomb = None /\ view[p].request)
    <3>1. UNCHANGED mem
      BY <1>3, <2>4 DEF HydrateSettles, memory
    <3> QED BY <2>1, <2>2, <3>1, SameMemIsTold, ToldFinish
  <2> QED BY <2>3, <2>4
<1> QED BY <1>1, <1>2, <1>3 DEF Hydrates

(* ------------------------------------------------------------ the retirement *)

LEMMA RetireKeeps == ASSUME IInv, NEW p \in Procs, Retire(p) PROVE IInv'
<1>1. UNCHANGED <<memory, world>> /\ UNCHANGED <<request, decision, receipt, history>>
  BY DEF Retire
<1>2. CASE ~Retirable(p)
  <2>1. Finish(p) /\ UNCHANGED <<disk, memory, world, history>>
    BY <1>1, <1>2 DEF Retire, disk
  <2> QED BY <2>1, QuietFinish
<1>3. CASE Retirable(p) /\ tomb # None
  <2>1. UNCHANGED <<disk, memory, world, history>>
    BY <1>1, <1>3 DEF Retire, disk, TombstoneAfter
  <2>2. Goto(p, "unlink") \/ Continue(p, "idle")
    BY <1>3 DEF Retire, TombstoneAfter
  <2> QED BY <1>3, <2>1, <2>2, QuietGoto, QuietContinue DEF Steps, Parts
<1>4. CASE Retirable(p) /\ tomb = None
  <2>1. tomb' = view[p].decision /\ Goto(p, "unlink")
    BY <1>4 DEF Retire, TombstoneAfter
  <2>2. view[p].decision = verdict /\ verdict # None
    BY <1>4 DEF Retirable, IInv, ProcInvariant, Sound
  <2>3. verdict.n \in aged
    BY <1>4, <2>2 DEF Retirable, IInv, ProcInvariant
  <2>4. DiskType' /\ HistoryType'
    BY <1>1, <2>1, <2>2, TypeParts DEF IInv, DiskType, HistoryType, history
  <2>5. StoreInvariant' /\ answers' \subseteq {verdict'} \ {None}
    BY <1>1, <2>1, <2>2, <2>3 DEF IInv, StoreInvariant, history, world
  <2>6. Kept /\ mem'[p] \in {None, verdict'}
    BY <1>1, <1>4, StillTrue DEF history
  <2>7. tomb' # None
    BY <2>1, <2>2
  <2> QED BY <1>1, <2>1, <2>4, <2>5, <2>6, <2>7, WritingGoto DEF Steps
<1> QED BY <1>2, <1>3, <1>4

LEMMA PrunesKeep == ASSUME IInv, NEW p \in Procs, Prunes(p) PROVE IInv'
<1>1. CASE Deliver(p)
  BY <1>1, QuietFinish, QuietContinue DEF Deliver, Parts
<1>2. CASE Retire(p)
  BY <1>2, RetireKeeps
<1>3. CASE EraseRequest(p)
  <2>1. /\ request' = FALSE /\ Goto(p, "erase")
        /\ UNCHANGED <<decision, tomb, receipt, memory, world, history>>
    BY <1>3 DEF EraseRequest
  <2>2. tomb # None /\ "erase" \in Steps
    BY <1>3 DEF EraseRequest, At, IInv, ProcInvariant, Steps
  <2>3. DiskType' /\ HistoryType'
    BY <2>1, TypeParts DEF IInv, DiskType, HistoryType, history
  <2>4. StoreInvariant' /\ answers' \subseteq {verdict'} \ {None}
    BY <2>1 DEF IInv, StoreInvariant, history, world
  <2>5. Kept /\ mem'[p] \in {None, verdict'}
    BY <2>1, StillTrue DEF history
  <2> QED BY <2>1, <2>2, <2>3, <2>4, <2>5, WritingGoto
<1>4. CASE EraseDecision(p)
  <2>1. /\ decision' = None /\ Finish(p)
        /\ UNCHANGED <<request, tomb, receipt, memory, world, history>>
    BY <1>4 DEF EraseDecision
  <2>2. tomb # None
    BY <1>4 DEF EraseDecision, At, IInv, ProcInvariant
  <2>3. DiskType' /\ HistoryType'
    BY <2>1, TypeParts DEF IInv, DiskType, HistoryType, history
  <2>4. StoreInvariant' /\ answers' \subseteq {verdict'} \ {None}
    BY <2>1, <2>2 DEF IInv, StoreInvariant, history, world
  <2>5. Kept /\ mem'[p] \in {None, verdict'}
    BY <2>1, StillTrue DEF history
  <2> QED BY <2>1, <2>3, <2>4, <2>5, WritingFinish
<1> QED BY <1>1, <1>2, <1>3, <1>4 DEF Prunes

(* ---------------------------------------------- operations start; the world *)

LEMMA BeginKeeps ==
    ASSUME IInv, NEW p \in Procs, NEW q \in Parts, Begin(p, q), Kept,
           q \notin {"look", "transition"}, q = "decide poll" => draft'[p] # None,
           draft' \in [Procs -> Decisions \cup {None}],
           \A r \in Procs \ {p} : draft'[r] = draft[r],
           aged' \subseteq 1 .. MaxDecisions, q = "tick sweep" => UNCHANGED aged,
           tomb # None => tomb.n \in aged',
           UNCHANGED overdue, asked' \in 0 .. MaxHuman, UNCHANGED crashes
    PROVE  IInv'
<1>1. /\ part' = [part EXCEPT ![p] = q] /\ pc' = [pc EXCEPT ![p] = "start"]
      /\ UNCHANGED <<view, disk, memory, history>>
      /\ cut' = [cut EXCEPT ![p] = IF q = "tick sweep" THEN aged ELSE {}]
  BY DEF Begin
<1>2. JobType'
  BY BeginType, TypeParts DEF IInv
<1>3. DiskType' /\ MemoryType' /\ WorldType' /\ HistoryType'
  BY <1>1, TypeParts
     DEF IInv, disk, memory, history, DiskType, MemoryType, WorldType, HistoryType
<1>4. TypeOK'
  BY <1>2, <1>3 DEF TypeOK, DiskType, JobType, MemoryType, WorldType, HistoryType
<1>5. StoreInvariant' /\ answers' \subseteq {verdict'} \ {None}
  BY <1>1 DEF IInv, StoreInvariant, disk, history
<1>6. Alone(p)
  BY <1>1, TypeParts DEF IInv, JobType, Alone, memory
<1>7. part'[p] = q /\ cut'[p] \subseteq aged' /\ pc'[p] = "start"
  BY <1>1, TypeParts DEF IInv, JobType
<1>8. mem'[p] \in {None, verdict'} /\ view'[p] = view[p] /\ verdict' = verdict /\ tomb' = tomb
  BY <1>1 DEF IInv, ProcInvariant, memory, history, disk
<1>9. ProcInvariant(p)'
  BY <1>7, <1>8 DEF IInv, ProcInvariant, Sound
<1> QED BY <1>4, <1>5, <1>6, <1>9, Assemble

LEMMA StartsKeep == ASSUME IInv, NEW p \in Procs, Starts(p) PROVE IInv'
<1>1. ASSUME NEW q \in {"submit", "poll", "checked poll", "tick sweep"}, Begin(p, q),
             UNCHANGED <<draft, overdue, aged, crashes>>, asked' \in 0 .. MaxHuman
      PROVE  IInv'
  <2>1. /\ UNCHANGED draft /\ UNCHANGED aged /\ UNCHANGED overdue
        /\ UNCHANGED crashes
    BY <1>1
  <2>2. UNCHANGED <<disk, aged, history>>
    BY <1>1, <2>1 DEF Begin
  <2>3. Kept
    BY <2>2, QuietKeeps
  <2>4. q \in Parts /\ q \notin {"look", "transition", "decide poll"}
    BY DEF Parts
  <2>5. /\ draft' \in [Procs -> Decisions \cup {None}]
        /\ aged' \subseteq 1 .. MaxDecisions /\ asked' \in 0 .. MaxHuman
        /\ tomb # None => tomb.n \in aged'
    BY <1>1, <2>1, TypeParts DEF IInv, JobType, WorldType, StoreInvariant
  <2> QED BY <1>1, <2>1, <2>3, <2>4, <2>5, BeginKeeps
<1>0. asked < MaxHuman /\ asked' = asked + 1 => asked' \in 0 .. MaxHuman
  <2>1. asked \in 0 .. MaxHuman /\ MaxHuman \in Nat
    BY TypeParts, BoundsAssumption DEF IInv, WorldType
  <2> QED BY <2>1
<1>2. CASE StartDecide(p)
  <2>1. /\ Begin(p, "decide poll") /\ NewDraft(p, "human") /\ asked < MaxHuman
        /\ asked' = asked + 1 /\ UNCHANGED overdue /\ UNCHANGED crashes
    BY <1>2 DEF StartDecide
  <2>2. "human" \in Kinds /\ "decide poll" \in Parts
    BY DEF Kinds, Parts
  <2>3. /\ draft' \in [Procs -> Decisions \cup {None}] /\ draft'[p] # None
        /\ aged' \subseteq 1 .. MaxDecisions
    BY <2>1, <2>2, NewDraftType, TypeParts, NoneAssumption DEF IInv
  <2>4. /\ tomb # None => tomb.n \in aged'
        /\ \A q \in Procs : cut[q] \subseteq aged'
        /\ \A q \in Procs \ {p} : draft'[q] = draft[q]
    BY <2>1, <2>2, DraftIsFresh
  <2>5. Kept
    BY <2>1, <2>4 DEF Kept, Begin, disk, history
  <2>6. asked' \in 0 .. MaxHuman
    BY <1>0, <2>1
  <2> QED BY <2>1, <2>2, <2>3, <2>4, <2>5, <2>6, BeginKeeps
<1>3. CASE StartClose(p)
  <2>1. /\ Begin(p, "checked poll") /\ asked' \in 0 .. MaxHuman
        /\ UNCHANGED <<draft, overdue, aged, crashes>>
    BY <1>0, <1>3 DEF StartClose
  <2> QED BY <1>1, <2>1
<1>4. ASSUME NEW q \in {"submit", "poll", "tick sweep"}, Begin(p, q),
             UNCHANGED <<draft, world>>
      PROVE  IInv'
  <2>1. asked' \in 0 .. MaxHuman
    BY <1>4, TypeParts DEF IInv, WorldType, world
  <2> QED BY <1>1, <1>4, <2>1 DEF world
<1> QED BY <1>2, <1>3, <1>4 DEF Starts, StartSubmit, StartPoll, StartTick

LEMMA CrashKeeps == ASSUME IInv, NEW p \in Procs, Crash(p) PROVE IInv'
<1>1. /\ Continue(p, "off") /\ mem' = [mem EXCEPT ![p] = None]
      /\ seen' = [seen EXCEPT ![p] = FALSE] /\ crashes < MaxCrashes /\ crashes' = crashes + 1
      /\ UNCHANGED <<disk, overdue, aged, asked, history>>
  BY DEF Crash
<1>2. UNCHANGED <<disk, aged, history>>
  BY <1>1
<1>3. MemoryType' /\ WorldType'
  BY <1>1, TypeParts, BoundsAssumption DEF IInv, MemoryType, WorldType
<1>4. "off" \in Parts
  BY DEF Parts
<1>5. JobType'
  BY <1>1, <1>4, ContinueType, TypeParts DEF IInv
<1>6. mem'[p] = None /\ \A r \in Procs \ {p} : mem'[r] = mem[r]
  BY <1>1, TypeParts DEF IInv, MemoryType
<1>7. Alone(p)
  BY <1>1, <1>6, ContinueAlone, TypeParts DEF IInv
<1>8. ProcInvariant(p)'
  BY <1>1, <1>2, <1>4, <1>6, QuietKeeps, ContinueKeeps DEF IInv
<1> QED BY <1>2, <1>3, <1>5, <1>7, <1>8, QuietStep

LEMMA TimeKeeps == ASSUME IInv, Expire \/ Age PROVE IInv'
<1>1. /\ UNCHANGED <<disk, job, memory, asked, crashes, history>>
      /\ overdue' \in BOOLEAN /\ aged \subseteq aged' /\ aged' \subseteq 1 .. MaxDecisions
  <2>1. CASE Expire
    BY <2>1, TypeParts DEF Expire, IInv, WorldType
  <2>2. CASE Age
    <3>1. PICK d \in ({decision} \cup {draft[p] : p \in Procs}) \ {None} :
             aged' = aged \cup {d.n}
      BY <2>2 DEF Age
    <3>2. d \in Decisions
      BY TypeParts DEF IInv, DiskType, JobType
    <3> QED BY <2>2, <3>1, <3>2, TypeParts DEF Age, IInv, WorldType, Decisions
  <2> QED BY <2>1, <2>2
<1>2. TypeOK'
  BY <1>1, TypeParts DEF IInv, TypeOK, disk, job, memory, history, WorldType
<1>3. StoreInvariant' /\ answers' \subseteq {verdict'} \ {None}
  BY <1>1 DEF IInv, StoreInvariant, disk, history
<1>4. ASSUME NEW p \in Procs PROVE ProcInvariant(p)'
  BY <1>1 DEF IInv, ProcInvariant, Sound, disk, job, memory, history
<1> QED BY <1>2, <1>3, <1>4 DEF IInv

LEMMA StutterKeeps == ASSUME IInv, UNCHANGED vars PROVE IInv'
<1>1. TypeOK'
  BY DEF IInv, TypeOK, vars, disk, job, memory, world, history
<1>2. StoreInvariant' /\ answers' \subseteq {verdict'} \ {None}
  BY DEF IInv, StoreInvariant, vars, disk, world, history
<1>3. ASSUME NEW p \in Procs PROVE ProcInvariant(p)'
  BY DEF IInv, ProcInvariant, Sound, vars, disk, job, memory, world, history
<1> QED BY <1>1, <1>2, <1>3 DEF IInv

LEMMA InitHolds == Init => IInv
<1> SUFFICES ASSUME Init PROVE IInv
  OBVIOUS
<1>1. Blank.decision = None /\ Blank \in View
  BY BlankType
<1>2. TypeOK
  <2>1. DiskType /\ MemoryType /\ HistoryType
    BY DEF Init, DiskType, MemoryType, HistoryType
  <2>2. JobType
    BY <1>1 DEF Init, JobType, Parts, Steps
  <2>3. WorldType
    <3>1. MaxHuman \in Nat /\ MaxCrashes \in Nat
      BY BoundsAssumption
    <3>2. asked \in 0 .. MaxHuman /\ crashes \in 0 .. MaxCrashes
      BY <3>1 DEF Init
    <3>3. overdue \in BOOLEAN /\ aged \subseteq 1 .. MaxDecisions
      BY Zenon DEF Init
    <3> QED BY <3>2, <3>3 DEF WorldType
  <2> QED BY <2>1, <2>2, <2>3, TypeParts
<1>3. \A p \in Procs : ProcInvariant(p)
  BY <1>1 DEF Init, ProcInvariant
<1> QED BY <1>2, <1>3 DEF IInv, Init, StoreInvariant

LEMMA NextKeeps == IInv /\ [Next]_vars => IInv'
<1> SUFFICES ASSUME IInv, [Next]_vars PROVE IInv'
  OBVIOUS
<1>1. ASSUME NEW p \in Procs, Works(p) PROVE IInv'
  BY <1>1, SubmitsKeep, ScansKeep, DecidesKeep, UndoKeeps, SweepsKeep, PollsKeep,
     PrunesKeep, HydratesKeep DEF Works
<1>2. ASSUME NEW p \in Procs, Starts(p) PROVE IInv'
  BY <1>2, StartsKeep
<1>3. ASSUME NEW p \in Procs, Crash(p) PROVE IInv'
  BY <1>3, CrashKeeps
<1>4. ASSUME NEW p \in Procs, Restart(p) PROVE IInv'
  BY <1>4, QuietContinue DEF Restart, Parts
<1>5. CASE Expire \/ Age
  BY <1>5, TimeKeeps
<1>6. CASE UNCHANGED vars
  BY <1>6, StutterKeeps
<1> QED BY <1>1, <1>2, <1>3, <1>4, <1>5, <1>6 DEF Next

LEMMA Invariance == Spec => []IInv
BY InitHolds, NextKeeps, PTL DEF Spec

(* -------------------------------------------------------------- the theorems *)

\* The variables keep their types.
THEOREM StoreTypes == Spec => []TypeOK
<1>1. IInv => TypeOK
  BY DEF IInv
<1> QED BY <1>1, Invariance, PTL

\* Deciders, tombstones and brokers agree on one decision, for any number of
\* processes, of racing deciders and of crashes.
THEOREM VerdictIsOne == Spec => []OneVerdict
<1>1. IInv => OneVerdict
  BY DEF IInv, StoreInvariant, ProcInvariant, OneVerdict
<1> QED BY <1>1, Invariance, PTL

\* The directory never loses the verdict, in any step of the retirement.
THEOREM VerdictIsKept == Spec => []VerdictDurable
<1>1. IInv => VerdictDurable
  BY DEF IInv, StoreInvariant, VerdictDurable
<1> QED BY <1>1, Invariance, PTL

\* A step that removes the request leaves behind it a verdict that is old.
LEMMA OnlyEraseRemoves ==
    ASSUME IInv, Next, request, ~request'
    PROVE  \E p \in Procs : EraseRequest(p)
<1> SUFFICES ASSUME \A p \in Procs : ~EraseRequest(p) PROVE UNCHANGED request \/ request'
  OBVIOUS
<1>1. ASSUME NEW p \in Procs, Submits(p) \/ Scans(p) PROVE UNCHANGED request \/ request'
  BY <1>1 DEF Submits, SubmitCheck, SubmitLink, Scans, ScanList, ScanRead, disk
<1>2. ASSUME NEW p \in Procs, Decides(p) \/ Undo(p) PROVE UNCHANGED request
  BY <1>2 DEF Decides, Look, CheckExpired, TransitionChecks, TransitionLinks, TransitionConfirms,
              LinkDecision, Undo, disk
<1>3. ASSUME NEW p \in Procs, Sweeps(p) PROVE UNCHANGED request
  BY <1>3 DEF Sweeps, SweepCloses, SweepRepairs, SweepSkips, SweepLinks, SweepConfirms,
              SweepReceipts, SweepEnds, LinkDecision, disk
<1>4. ASSUME NEW p \in Procs, Polls(p) \/ Hydrates(p) PROVE UNCHANGED request
  BY <1>4 DEF Polls, PollList, PollRead, PollSettles, Hydrates, HydrateList, HydrateRead,
              HydrateSettles, disk
<1>5. ASSUME NEW p \in Procs, Prunes(p) PROVE UNCHANGED request
  BY <1>5 DEF Prunes, Deliver, Retire, EraseDecision, disk
<1>6. ASSUME NEW p \in Procs, Starts(p) PROVE UNCHANGED request
  BY <1>6 DEF Starts, StartSubmit, StartPoll, StartDecide, StartClose, StartTick, Begin, disk
<1>7. ASSUME NEW p \in Procs, Crash(p) \/ Restart(p) PROVE UNCHANGED request
  BY <1>7 DEF Crash, Restart, disk
<1>8. CASE Expire \/ Age
  BY <1>8 DEF Expire, Age, disk
<1> QED BY <1>1, <1>2, <1>3, <1>4, <1>5, <1>6, <1>7, <1>8 DEF Next, Works

\* Prune removes only what a verdict older than the retention has settled.
THEOREM PendingIsKept == Spec => PendingNeverPruned
<1> DEFINE Removal == request /\ ~request' => /\ verdict # None
                                            /\ tomb = verdict
                                            /\ verdict.n \in aged
<1>1. IInv /\ [Next]_vars => [Removal]_vars
  <2> SUFFICES ASSUME IInv, Next, request, ~request'
               PROVE  verdict # None /\ tomb = verdict /\ verdict.n \in aged
    OBVIOUS
  <2>1. PICK p \in Procs : EraseRequest(p)
    BY OnlyEraseRemoves
  <2>2. tomb # None
    BY <2>1 DEF EraseRequest, At, IInv, ProcInvariant
  <2> QED BY <2>2 DEF IInv, StoreInvariant
<1> QED BY <1>1, Invariance, PTL DEF Spec, PendingNeverPruned
(* ------------------------------------------------------------- the register *)

\* What lies behind a link: a request that its scan saw is there until it has a
\* verdict, and a timeout is drafted only by a clock that is past expiresAt.
Backed(p) ==
    /\ view[p].request => request \/ verdict # None
    /\ part[p] \in Moving \cup Sweeping /\ pc[p] = "link" => view[p].request
    /\ late[p] => overdue
    /\ draft[p] # None /\ draft[p].kind = "ttl" => overdue

RegisterInvariant == \A p \in Procs : Backed(p)

\* What a step must leave to the processes that do not move.
Onward ==
    /\ overdue => overdue'
    /\ request \/ verdict # None => request' \/ verdict' # None

Aside(p) ==
    \A q \in Procs \ {p} :
        /\ part'[q] = part[q] /\ pc'[q] = pc[q] /\ late'[q] = late[q]
        /\ view'[q] = view[q] /\ draft'[q] = draft[q]

LEMMA OnlyMoverMatters ==
    ASSUME RegisterInvariant, NEW p \in Procs, Onward, Aside(p), Backed(p)'
    PROVE  RegisterInvariant'
<1>1. ASSUME NEW q \in Procs \ {p} PROVE Backed(q)'
  BY <1>1 DEF RegisterInvariant, Backed, Onward, Aside
<1> QED BY <1>1 DEF RegisterInvariant

LEMMA BlankUnseen == ~Blank.request /\ \A p : ~Listing(p).request
BY DEF Blank, Listing

LEMMA ContinueBacked ==
    ASSUME JobType, RegisterInvariant, NEW p \in Procs, NEW q, Continue(p, q), Onward
    PROVE  RegisterInvariant'
<1>1. Aside(p)
  BY DEF JobType, Continue, Aside
<1>2. pc'[p] = "start" /\ view'[p] \in {view[p], Blank} /\ draft'[p] \in {draft[p], None}
  BY DEF JobType, Continue
<1>3. late'[p] => late[p]
  BY DEF JobType, Continue
<1>4. Backed(p)'
  BY <1>2, <1>3, BlankUnseen DEF RegisterInvariant, Backed, Onward
<1> QED BY <1>1, <1>4, OnlyMoverMatters

LEMMA FinishBacked ==
    ASSUME JobType, RegisterInvariant, NEW p \in Procs, Finish(p), Onward
    PROVE  RegisterInvariant'
BY ContinueBacked DEF Finish

LEMMA GotoBacked ==
    ASSUME JobType, RegisterInvariant, NEW p \in Procs, NEW s, Goto(p, s), Onward,
           s = "link" => view[p].request
    PROVE  RegisterInvariant'
<1>1. Aside(p)
  BY DEF JobType, Goto, Step, Aside
<1>2. /\ pc'[p] = s /\ view'[p] = view[p] /\ draft'[p] = draft[p]
      /\ late'[p] = late[p] /\ part'[p] = part[p]
  BY DEF JobType, Goto, Step
<1>3. Backed(p)'
  BY <1>2 DEF RegisterInvariant, Backed, Onward
<1> QED BY <1>1, <1>3, OnlyMoverMatters

\* A scan sees a request only where it is.
LEMMA ViewBacked ==
    ASSUME JobType, RegisterInvariant, NEW p \in Procs, NEW w, NEW s \in Steps \ {"link"},
           view' = [view EXCEPT ![p] = w], w.request => view[p].request \/ request,
           pc' = [pc EXCEPT ![p] = s], UNCHANGED <<part, late, draft>>, Onward
    PROVE  RegisterInvariant'
<1>1. Aside(p)
  BY DEF JobType, Aside
<1>2. /\ pc'[p] = s /\ view'[p] = w /\ draft'[p] = draft[p] /\ late'[p] = late[p]
  BY DEF JobType
<1>3. Backed(p)'
  BY <1>2 DEF RegisterInvariant, Backed, Onward
<1> QED BY <1>1, <1>3, OnlyMoverMatters

LEMMA BeginBacked ==
    ASSUME JobType, RegisterInvariant, NEW p \in Procs, NEW q, Begin(p, q), Onward,
           \A r \in Procs \ {p} : draft'[r] = draft[r],
           draft'[p] = draft[p] \/ draft'[p].kind # "ttl"
    PROVE  RegisterInvariant'
<1>a. /\ part' = [part EXCEPT ![p] = q] /\ pc' = [pc EXCEPT ![p] = "start"]
      /\ UNCHANGED view
  BY Zenon DEF Begin
<1>b. /\ \A r \in Procs \ {p} : late'[r] = late[r]
      /\ late'[p] => overdue
  BY Zenon DEF JobType, Begin
<1>1. Aside(p)
  BY <1>a, <1>b DEF JobType, Aside
<1>2. pc'[p] = "start" /\ view'[p] = view[p] /\ (late'[p] => overdue)
  BY <1>a, <1>b DEF JobType
<1>3. Backed(p)'
  BY <1>2 DEF RegisterInvariant, Backed, Onward
<1> QED BY <1>1, <1>3, OnlyMoverMatters

\* The files that the clock of an undecided request depends on.
Unmoved == UNCHANGED <<request, overdue, verdict>>

LEMMA UnmovedOnward == ASSUME Unmoved PROVE Onward
BY DEF Unmoved, Onward

LEMMA LinkOnward == ASSUME NEW p, LinkDecision(p), UNCHANGED world PROVE Onward
BY DEF LinkDecision, Onward, world

LEMMA DraftKind ==
    ASSUME JobType, NEW p \in Procs, NEW kind, NewDraft(p, kind)
    PROVE  draft'[p].kind = kind /\ \A r \in Procs \ {p} : draft'[r] = draft[r]
<1>1. PICK n \in 1 .. MaxDecisions : draft' = [draft EXCEPT ![p] = [n |-> n, kind |-> kind]]
  BY DEF NewDraft
<1>2. draft'[p] = [n |-> n, kind |-> kind]
  BY <1>1 DEF JobType
<1> QED BY <1>1, <1>2 DEF JobType

LEMMA SubmitsBacked ==
    ASSUME IInv, RegisterInvariant, NEW p \in Procs, Submits(p)
    PROVE  RegisterInvariant'
<1>1. Onward
  BY DEF Submits, SubmitCheck, SubmitLink, Onward, disk, world, history
<1>2. Goto(p, "file") \/ Finish(p)
  BY DEF Submits, SubmitCheck, SubmitLink
<1> QED BY <1>1, <1>2, GotoBacked, FinishBacked, TypeParts DEF IInv

LEMMA ScansBacked ==
    ASSUME IInv, RegisterInvariant, NEW p \in Procs, Scans(p)
    PROVE  RegisterInvariant'
<1>1. Onward
  BY UnmovedOnward DEF Scans, ScanList, ScanRead, Unmoved, disk, world, history
<1>2. CASE ScanList(p)
  <2>1. PICK s \in {"read", "reread"} : Step(p, s)
    BY <1>2 DEF ScanList
  <2>2. view' = [view EXCEPT ![p] = Listing(p)] /\ UNCHANGED draft
    BY <1>2 DEF ScanList
  <2> QED BY <1>1, <2>1, <2>2, BlankUnseen, ViewBacked, TypeParts DEF IInv, Step, Steps
<1>3. CASE ScanRead(p)
  <2>1. PICK f \in view[p].unread : view' = [view EXCEPT ![p] = Read(p, f)]
    BY <1>3 DEF ScanRead
  <2>2. pc[p] \in {"read", "reread"} /\ UNCHANGED <<part, pc, late, draft>>
    BY <1>3 DEF ScanRead, Scanning, At
  <2>3. Read(p, f).request => view[p].request \/ request
    BY TypeParts DEF IInv, JobType, View, Read
  <2>4. pc' = [pc EXCEPT ![p] = pc[p]] /\ pc[p] \in Steps \ {"link"}
    BY <2>2, TypeParts DEF IInv, JobType
  <2> QED BY <1>1, <2>1, <2>2, <2>3, <2>4, ViewBacked, TypeParts DEF IInv
<1> QED BY <1>2, <1>3 DEF Scans

LEMMA DecidesBacked ==
    ASSUME IInv, RegisterInvariant, NEW p \in Procs, Decides(p) \/ Undo(p)
    PROVE  RegisterInvariant'
<1>1. CASE Look(p)
  <2>1. Onward
    BY <1>1, UnmovedOnward DEF Look, Unmoved, disk, world, history
  <2> QED BY <1>1, <2>1, FinishBacked, ContinueBacked, TypeParts DEF IInv, Look
<1>6. CASE CheckExpired(p)
  <2>1. Onward
    BY <1>6, UnmovedOnward DEF CheckExpired, Unmoved, disk, world, history
  <2>2. Continue(p, "late sweep") \/ Continue(p, "idle")
    BY <1>6 DEF CheckExpired
  <2> QED BY <2>1, <2>2, ContinueBacked, TypeParts DEF IInv
<1>2. CASE TransitionChecks(p)
  <2>a. UNCHANGED <<disk, world, history>>
    BY <1>2, Zenon DEF TransitionChecks
  <2>1. Onward
    BY <2>a, UnmovedOnward DEF Unmoved, disk, world, history
  <2>2. \/ Continue(p, "late sweep") \/ Continue(p, "poll")
        \/ Goto(p, "link") /\ view[p].request
    BY <1>2, Zenon DEF TransitionChecks, Undecided, Present
  <2>3. CASE Continue(p, "late sweep") \/ Continue(p, "poll")
    BY <2>1, <2>3, ContinueBacked, TypeParts DEF IInv
  <2>4. CASE Goto(p, "link") /\ view[p].request
    BY <2>1, <2>4, GotoBacked, TypeParts DEF IInv
  <2> QED BY <2>2, <2>3, <2>4
<1>3. CASE TransitionLinks(p)
  <2>1. Onward
    BY <1>3, UnmovedOnward, LinkOnward DEF TransitionLinks, Unmoved, disk, world, history
  <2> QED BY <1>3, <2>1, GotoBacked, ContinueBacked, TypeParts DEF IInv, TransitionLinks
<1>4. CASE TransitionConfirms(p)
  <2>1. Onward
    BY <1>4, UnmovedOnward DEF TransitionConfirms, Unmoved, disk, world, history
  <2> QED BY <1>4, <2>1, GotoBacked, FinishBacked, TypeParts DEF IInv, TransitionConfirms
<1>5. CASE Undo(p)
  <2>1. Onward
    BY <1>5, UnmovedOnward DEF Undo, Unmoved, world, history
  <2> QED BY <1>5, <2>1, GotoBacked, ContinueBacked, TypeParts DEF IInv, Undo
<1> QED BY <1>1, <1>2, <1>3, <1>4, <1>5, <1>6 DEF Decides

LEMMA SweepsBacked ==
    ASSUME IInv, RegisterInvariant, NEW p \in Procs, Sweeps(p)
    PROVE  RegisterInvariant'
<1>1. CASE SweepCloses(p)
  <2>1. /\ NewDraft(p, "ttl") /\ Step(p, "link") /\ Expired(p) /\ Unmoved
        /\ UNCHANGED view
    BY <1>1 DEF SweepCloses, Unmoved, disk, history
  <2>2. overdue /\ view[p].request /\ overdue'
    BY <2>1 DEF Expired, Undecided, Present, RegisterInvariant, Backed, Unmoved
  <2>3. \A r \in Procs \ {p} : draft'[r] = draft[r]
    BY <2>1, DraftKind, TypeParts DEF IInv
  <2>4. Aside(p)
    BY <2>1, <2>3, TypeParts DEF IInv, JobType, Step, Aside
  <2>5. Backed(p)'
    BY <2>1, <2>2 DEF Backed, RegisterInvariant, Unmoved
  <2> QED BY <2>1, <2>4, <2>5, UnmovedOnward, OnlyMoverMatters
<1>2. CASE SweepRepairs(p) \/ SweepSkips(p) \/ SweepEnds(p)
  <2>1. Onward
    BY <1>2, UnmovedOnward DEF SweepRepairs, SweepSkips, SweepEnds, Unmoved, disk, world, history
  <2> QED BY <1>2, <2>1, FinishBacked, TypeParts DEF IInv, SweepRepairs, SweepSkips, SweepEnds
<1>3. CASE SweepLinks(p)
  <2>1. Onward
    BY <1>3, UnmovedOnward, LinkOnward DEF SweepLinks, Unmoved, disk, world, history
  <2> QED BY <1>3, <2>1, GotoBacked, TypeParts DEF IInv, SweepLinks
<1>4. CASE SweepConfirms(p) \/ SweepReceipts(p)
  <2>1. Onward
    BY <1>4, UnmovedOnward DEF SweepConfirms, SweepReceipts, Unmoved, disk, world, history
  <2>2. Goto(p, "undo") \/ Goto(p, "receipt") \/ Goto(p, "relist")
    BY <1>4 DEF SweepConfirms, SweepReceipts
  <2> QED BY <2>1, <2>2, GotoBacked, TypeParts DEF IInv
<1> QED BY <1>1, <1>2, <1>3, <1>4 DEF Sweeps

LEMMA PollsBacked ==
    ASSUME IInv, RegisterInvariant, NEW p \in Procs, Polls(p)
    PROVE  RegisterInvariant'
<1>1. Onward
  BY UnmovedOnward DEF Polls, PollList, PollRead, PollSettles, Unmoved, disk, world, history
<1>2. CASE PollRead(p) /\ decision # None
  <2>1. /\ view' = [view EXCEPT ![p] = [Blank EXCEPT !.decision = decision]]
        /\ Step(p, "check") /\ UNCHANGED draft
    BY <1>2 DEF PollRead
  <2>2. ~[Blank EXCEPT !.decision = decision].request
    BY DEF Blank
  <2> QED BY <1>1, <2>1, <2>2, ViewBacked, TypeParts DEF IInv, Step, Steps
<1>3. CASE ~(PollRead(p) /\ decision # None)
  <2>1. Goto(p, "read") \/ Finish(p)
    BY <1>3 DEF Polls, PollList, PollRead, PollSettles
  <2> QED BY <1>1, <2>1, GotoBacked, FinishBacked, TypeParts DEF IInv
<1> QED BY <1>2, <1>3

LEMMA PrunesBacked ==
    ASSUME IInv, RegisterInvariant, NEW p \in Procs, Prunes(p)
    PROVE  RegisterInvariant'
<1>1. Onward
  <2>1. CASE EraseRequest(p)
    <3>0. tomb # None
      BY <2>1 DEF EraseRequest, At, IInv, ProcInvariant
    <3>1. verdict # None
      BY <3>0 DEF IInv, StoreInvariant
    <3>2. overdue' = overdue /\ verdict' = verdict
      BY <2>1 DEF EraseRequest, world, history
    <3> QED BY <3>1, <3>2 DEF Onward
  <2>2. CASE ~EraseRequest(p)
    BY <2>2, UnmovedOnward DEF Prunes, Deliver, Retire, EraseDecision, Unmoved, disk, world, history
  <2> QED BY <2>1, <2>2
<1>2. Goto(p, "unlink") \/ Goto(p, "erase") \/ Finish(p) \/ Continue(p, "idle")
  BY DEF Prunes, Deliver, Retire, EraseRequest, EraseDecision
<1> QED BY <1>1, <1>2, GotoBacked, FinishBacked, ContinueBacked, TypeParts DEF IInv

LEMMA HydratesBacked ==
    ASSUME IInv, RegisterInvariant, NEW p \in Procs, Hydrates(p)
    PROVE  RegisterInvariant'
<1>1. Onward
  BY UnmovedOnward DEF Hydrates, HydrateList, HydrateRead, HydrateSettles, Unmoved, disk, world,
                       history
<1>2. CASE HydrateList(p)
  BY <1>1, <1>2, BlankUnseen, ViewBacked, TypeParts DEF IInv, HydrateList, Step, Steps
<1>3. CASE HydrateRead(p)
  <2>1. PICK f \in view[p].unread :
           view' = [view EXCEPT ![p] = [Read(p, f) EXCEPT
                        !.request = IF f = "request" THEN Live ELSE @]]
    BY <1>3 DEF HydrateRead
  <2> DEFINE w == [Read(p, f) EXCEPT !.request = IF f = "request" THEN Live ELSE @]
  <2>2. Read(p, f) \in View
    BY ReadType, TypeParts DEF IInv
  <2>3. w.request => view[p].request \/ request
    BY <2>2, TypeParts DEF IInv, JobType, View, Read, Live
  <2>4. pc' = [pc EXCEPT ![p] = "read"] /\ UNCHANGED <<part, late, draft>>
    BY <1>3, TypeParts DEF HydrateRead, At, IInv, JobType
  <2> QED BY <1>1, <2>1, <2>3, <2>4, ViewBacked, TypeParts DEF IInv, Steps
<1>4. CASE HydrateSettles(p)
  BY <1>1, <1>4, FinishBacked, TypeParts DEF IInv, HydrateSettles
<1> QED BY <1>2, <1>3, <1>4 DEF Hydrates

LEMMA StartsBacked ==
    ASSUME IInv, RegisterInvariant, NEW p \in Procs, Starts(p)
    PROVE  RegisterInvariant'
<1>2. CASE StartDecide(p)
  <2>1. Begin(p, "decide poll") /\ NewDraft(p, "human") /\ UNCHANGED overdue
    BY <1>2 DEF StartDecide
  <2>2. UNCHANGED disk /\ UNCHANGED history
    BY <2>1, Zenon DEF Begin
  <2>3. Onward
    BY <2>1, <2>2, UnmovedOnward DEF Unmoved, disk, history
  <2>4. draft'[p].kind = "human" /\ \A r \in Procs \ {p} : draft'[r] = draft[r]
    BY <2>1, DraftKind, TypeParts, Zenon DEF IInv
  <2> QED BY <2>1, <2>3, <2>4, BeginBacked, TypeParts DEF IInv
<1>3. CASE StartSubmit(p) \/ StartPoll(p) \/ StartClose(p) \/ StartTick(p)
  <2>1. PICK q \in {"submit", "poll", "checked poll", "tick sweep"} : Begin(p, q)
    BY <1>3 DEF StartSubmit, StartPoll, StartClose, StartTick
  <2>2. UNCHANGED <<draft, overdue, aged>>
    BY <1>3 DEF StartSubmit, StartPoll, StartClose, StartTick, world
  <2>3. UNCHANGED disk /\ UNCHANGED history
    BY <2>1, Zenon DEF Begin
  <2>4. Onward
    BY <2>2, <2>3, UnmovedOnward DEF Unmoved, disk, world, history
  <2> QED BY <2>1, <2>2, <2>4, BeginBacked, TypeParts DEF IInv
<1> QED BY <1>2, <1>3 DEF Starts

LEMMA RegisterKeeps == IInv /\ RegisterInvariant /\ [Next]_vars => RegisterInvariant'
<1> SUFFICES ASSUME IInv, RegisterInvariant, [Next]_vars PROVE RegisterInvariant'
  OBVIOUS
<1>1. ASSUME NEW p \in Procs, Works(p) \/ Starts(p) PROVE RegisterInvariant'
  BY <1>1, SubmitsBacked, ScansBacked, DecidesBacked, SweepsBacked, PollsBacked,
     PrunesBacked, HydratesBacked, StartsBacked DEF Works
<1>2. ASSUME NEW p \in Procs, Crash(p) \/ Restart(p) PROVE RegisterInvariant'
  <2>1. Onward
    BY <1>2, UnmovedOnward DEF Crash, Restart, Unmoved, disk, world, history
  <2> QED BY <1>2, <2>1, ContinueBacked, TypeParts DEF IInv, Crash, Restart
<1>3. CASE Expire \/ Age
  BY <1>3 DEF Expire, Age, RegisterInvariant, Backed, disk, job, history
<1>4. CASE UNCHANGED vars
  BY <1>4 DEF vars, RegisterInvariant, Backed, disk, job, world, history
<1> QED BY <1>1, <1>2, <1>3, <1>4 DEF Next

\* The value that the files hold is the verdict.
LEMMA HeldIsVerdict == IInv => Held = verdict
BY DEF IInv, StoreInvariant, Held

LEMMA HeldStaysVerdict == IInv /\ IInv' => Held = verdict /\ Held' = verdict'
BY DEF IInv, StoreInvariant, Held

\* What the register says changes only with these.
Facts == <<request, overdue, verdict, aged>>

LEMMA SameRegister ==
    ASSUME IInv, IInv', UNCHANGED <<overdue, verdict, aged>>
    PROVE  UNCHANGED <<overdue, Held, Held # None /\ Held.n \in aged>>
<1>1. Held = verdict /\ Held' = verdict'
  BY HeldStaysVerdict
<1> QED BY <1>1

LEMMA QuietIsStutter ==
    ASSUME IInv, IInv', UNCHANGED Facts, UNCHANGED mem, UNCHANGED answers
    PROVE  UNCHANGED Register!vars
BY SameRegister DEF Facts, Register!vars

\* A broker settles with the verdict, or has just lost its memory.
LEMMA BrokerTells ==
    ASSUME IInv, IInv', NEW p \in Procs, NEW d, UNCHANGED Facts, UNCHANGED answers,
           mem' = [mem EXCEPT ![p] = d]
    PROVE  Register!Tell(p) \/ Register!Forget(p)
<1>1. Held = verdict /\ UNCHANGED <<overdue, Held, Held # None /\ Held.n \in aged>>
  BY HeldIsVerdict, SameRegister DEF Facts
<1>2. mem'[p] = d
  BY TypeParts DEF IInv, MemoryType
<1>3. d \in {None, verdict}
  BY <1>2 DEF IInv, ProcInvariant, Facts
<1>4. CASE d = None
  BY <1>1, <1>4 DEF Register!Forget, Facts
<1>5. CASE d # None
  BY <1>1, <1>3, <1>5 DEF Register!Tell, Facts
<1> QED BY <1>4, <1>5

\* A draft that a process is about to link is of a request that is there.
LEMMA LinkDecides ==
    ASSUME IInv, IInv', RegisterInvariant, NEW p \in Procs, At(p, Moving \cup Sweeping, "link"),
           LinkDecision(p), UNCHANGED <<memory, world>>
    PROVE  Register!Decide(draft[p]) \/ UNCHANGED Register!vars
<1>1. Held = verdict /\ Held' = verdict'
  BY HeldStaysVerdict
<1>2. /\ verdict' = IF verdict = None THEN draft[p] ELSE verdict
      /\ UNCHANGED request /\ UNCHANGED answers
  BY DEF LinkDecision
<1>3. UNCHANGED overdue /\ UNCHANGED aged /\ UNCHANGED mem
  BY DEF memory, world
<1>4. CASE verdict # None
  BY <1>2, <1>3, <1>4, QuietIsStutter DEF Facts
<1>5. CASE verdict = None
  <2>1. draft[p] # None
    BY DEF At, IInv, ProcInvariant
  <2>2. request /\ (draft[p].kind = "ttl" => overdue)
    BY <1>5, <2>1 DEF At, RegisterInvariant, Backed
  <2>3. Held = None /\ Held' = draft[p]
    BY <1>1, <1>2, <1>5
  <2>4. (Held # None /\ Held.n \in aged)' \in BOOLEAN
    OBVIOUS
  <2> QED BY <1>2, <1>3, <2>2, <2>3, <2>4 DEF Register!Decide
<1> QED BY <1>4, <1>5

\* A new number is not that of the verdict, so the verdict keeps its age.
LEMMA DraftSparesVerdict ==
    ASSUME IInv, NEW p \in Procs, NEW kind, NewDraft(p, kind), verdict # None
    PROVE  verdict.n \in aged' <=> verdict.n \in aged
<1>1. PICK n \in (1 .. MaxDecisions) \ InUse : aged' = aged \ {n}
  BY DEF NewDraft
<1>2. verdict.n \in InUse
  BY Zenon DEF InUse
<1> QED BY <1>1, <1>2

LEMMA DraftIsStutter ==
    ASSUME IInv, IInv', NEW p \in Procs, NEW kind, NewDraft(p, kind),
           UNCHANGED <<request, overdue, verdict, mem, answers>>
    PROVE  UNCHANGED Register!vars
<1>1. Held = verdict /\ Held' = verdict'
  BY HeldStaysVerdict
<1>2. (Held # None /\ Held.n \in aged)' = (Held # None /\ Held.n \in aged)
  BY <1>1, DraftSparesVerdict
<1> QED BY <1>1, <1>2 DEF Register!vars

LEMMA WorksRefine ==
    ASSUME IInv, IInv', RegisterInvariant, NEW p \in Procs, Works(p)
    PROVE  [Register!Next]_(Register!vars)
<1>1. CASE Submits(p)
  <2>1. UNCHANGED <<overdue, verdict, aged, mem, answers>>
    BY <1>1 DEF Submits, SubmitCheck, SubmitLink, memory, world, history
  <2>2. CASE request' = TRUE
    BY <2>1, <2>2, SameRegister DEF Register!Next, Register!File
  <2>3. CASE UNCHANGED request
    BY <2>1, <2>3, QuietIsStutter DEF Facts
  <2> QED BY <1>1, <2>2, <2>3 DEF Submits, SubmitCheck, SubmitLink, disk
<1>2. CASE Scans(p) \/ Look(p) \/ CheckExpired(p) \/ TransitionChecks(p) \/ Undo(p)
  <2>1. UNCHANGED Facts /\ UNCHANGED mem /\ UNCHANGED answers
    BY <1>2, Zenon DEF Facts, Scans, ScanList, ScanRead, Look, CheckExpired, TransitionChecks,
                       Undo, disk, memory, world, history
  <2> QED BY <2>1, QuietIsStutter
<1>3. CASE TransitionLinks(p) \/ SweepLinks(p)
  <2>1. At(p, Moving \cup Sweeping, "link") /\ UNCHANGED <<memory, world>>
    BY <1>3 DEF TransitionLinks, SweepLinks, At
  <2>2. CASE LinkDecision(p)
    <3>1. CASE Register!Decide(draft[p])
      <4>1. draft[p] \in Decisions
        BY <2>1, TypeParts DEF At, IInv, ProcInvariant, JobType
      <4> QED BY <3>1, <4>1 DEF Register!Next
    <3> QED BY <2>1, <2>2, <3>1, LinkDecides
  <2>3. CASE UNCHANGED <<disk, history>>
    BY <2>1, <2>3, QuietIsStutter DEF Facts, disk, memory, world, history
  <2> QED BY <1>3, <2>2, <2>3 DEF TransitionLinks, SweepLinks
<1>4. CASE TransitionConfirms(p)
  <2>1. UNCHANGED Facts
    BY <1>4 DEF TransitionConfirms, Facts, disk, world
  <2>2. CASE UNCHANGED <<memory, answers>>
    BY <2>1, <2>2, QuietIsStutter DEF memory
  <2>3. CASE mem' = [mem EXCEPT ![p] = draft[p]] /\ answers' = answers \cup {draft[p]}
    <3>1. draft[p] = verdict /\ verdict # None
      BY <2>1, <2>3 DEF IInv, Facts
    <3>2. Held = verdict /\ UNCHANGED <<overdue, Held, Held # None /\ Held.n \in aged>>
      BY <2>1, HeldIsVerdict, SameRegister DEF Facts
    <3>3. Register!Accept(p)
      BY <2>1, <2>3, <3>1, <3>2 DEF Register!Accept, Facts
    <3> QED BY <3>3 DEF Register!Next
  <2> QED BY <1>4, <2>2, <2>3 DEF TransitionConfirms
<1>5. CASE SweepCloses(p)
  BY <1>5, DraftIsStutter DEF SweepCloses, disk, memory, history
<1>6. CASE SweepRepairs(p) \/ SweepSkips(p) \/ SweepConfirms(p) \/ SweepReceipts(p) \/ SweepEnds(p)
  <2>1. UNCHANGED Facts /\ UNCHANGED mem /\ UNCHANGED answers
    BY <1>6, Zenon DEF Facts, SweepRepairs, SweepSkips, SweepConfirms, SweepReceipts, SweepEnds,
                       disk, memory, world, history
  <2> QED BY <2>1, QuietIsStutter
<1>7. CASE Polls(p) \/ Hydrates(p)
  <2>1. UNCHANGED Facts /\ UNCHANGED answers
    BY <1>7, Zenon DEF Facts, Polls, PollList, PollRead, PollSettles, Hydrates, HydrateList,
                       HydrateRead, HydrateSettles, disk, world, history
  <2>2. UNCHANGED mem \/ \E d : mem' = [mem EXCEPT ![p] = d]
    BY <1>7, Zenon DEF Polls, PollList, PollRead, PollSettles, Hydrates, HydrateList, HydrateRead,
                       HydrateSettles, Settle, memory
  <2>3. CASE UNCHANGED mem
    BY <2>1, <2>3, QuietIsStutter
  <2>4. ASSUME NEW d, mem' = [mem EXCEPT ![p] = d] PROVE Register!Next
    BY <2>1, <2>4, BrokerTells DEF Register!Next
  <2> QED BY <2>2, <2>3, <2>4
<1>8. CASE Prunes(p)
  <2>1. UNCHANGED <<overdue, verdict, aged, mem, answers>>
    BY <1>8 DEF Prunes, Deliver, Retire, EraseRequest, EraseDecision, memory, world, history
  <2>2. CASE EraseRequest(p)
    <3>1. tomb # None /\ request' = FALSE
      BY <2>2 DEF EraseRequest, At, IInv, ProcInvariant
    <3>2. verdict # None /\ verdict.n \in aged /\ Held = verdict
      BY <3>1, HeldIsVerdict DEF IInv, StoreInvariant
    <3> QED BY <2>1, <3>1, <3>2, SameRegister DEF Register!Next, Register!Remove
  <2>3. CASE ~EraseRequest(p)
    <3>1. UNCHANGED request
      BY <1>8, <2>3 DEF Prunes, Deliver, Retire, EraseDecision, disk
    <3> QED BY <2>1, <3>1, QuietIsStutter DEF Facts
  <2> QED BY <2>2, <2>3
<1> QED BY <1>1, <1>2, <1>3, <1>4, <1>5, <1>6, <1>7, <1>8 DEF Works, Decides, Sweeps

LEMMA NextRefines ==
    ASSUME IInv, IInv', RegisterInvariant, [Next]_vars
    PROVE  [Register!Next]_(Register!vars)
<1>1. ASSUME NEW p \in Procs, Works(p) PROVE [Register!Next]_(Register!vars)
  BY <1>1, WorksRefine
<1>2. ASSUME NEW p \in Procs, Starts(p) PROVE [Register!Next]_(Register!vars)
  <2>1. PICK q : Begin(p, q) /\ UNCHANGED overdue
    BY <1>2, Zenon DEF Starts, StartSubmit, StartPoll, StartDecide, StartClose, StartTick, world
  <2>2. UNCHANGED disk /\ UNCHANGED memory /\ UNCHANGED history
    BY <2>1, Zenon DEF Begin
  <2>3. CASE StartDecide(p)
    BY <2>1, <2>2, <2>3, DraftIsStutter DEF StartDecide, disk, memory, history
  <2>5. CASE StartClose(p)
    <3>1. UNCHANGED aged
      BY <2>5 DEF StartClose
    <3> QED BY <2>1, <2>2, <3>1, QuietIsStutter DEF Facts, disk, memory, history
  <2>4. CASE UNCHANGED world
    BY <2>2, <2>4, QuietIsStutter DEF Facts, disk, memory, world, history
  <2> QED BY <1>2, <2>3, <2>4, <2>5 DEF Starts, StartSubmit, StartPoll, StartTick
<1>3. ASSUME NEW p \in Procs, Crash(p) PROVE Register!Next
  <2>1. UNCHANGED Facts /\ UNCHANGED answers /\ mem' = [mem EXCEPT ![p] = None]
    BY <1>3 DEF Crash, Facts, disk, history
  <2> QED BY <2>1, BrokerTells DEF Register!Next
<1>4. ASSUME NEW p \in Procs, Restart(p) PROVE UNCHANGED Register!vars
  BY <1>4, QuietIsStutter DEF Restart, Facts, disk, memory, world, history
<1>5. CASE Expire
  <2>1. UNCHANGED <<request, verdict, aged, mem, answers>> /\ overdue' = TRUE
    BY <1>5 DEF Expire, disk, memory, history
  <2>2. Held = verdict /\ Held' = verdict'
    BY HeldStaysVerdict
  <2> QED BY <2>1, <2>2 DEF Register!Next, Register!Expire
<1>6. CASE Age
  <2>1. UNCHANGED <<request, overdue, verdict, mem, answers>>
    BY <1>6 DEF Age, disk, memory, history
  <2>2. aged \subseteq aged'
    BY <1>6 DEF Age
  <2>3. Held = verdict /\ Held' = verdict'
    BY HeldStaysVerdict
  <2>4. CASE verdict # None /\ verdict.n \in aged'
    BY <2>1, <2>3, <2>4 DEF Register!Next, Register!Ripen
  <2>5. CASE ~(verdict # None /\ verdict.n \in aged')
    BY <2>1, <2>2, <2>3, <2>5 DEF Register!vars
  <2> QED BY <2>4, <2>5
<1>7. CASE UNCHANGED vars
  BY <1>7, QuietIsStutter DEF Facts, vars, disk, memory, world, history
<1> QED BY <1>1, <1>2, <1>3, <1>4, <1>5, <1>6, <1>7 DEF Next

\* The directory, for any number of processes, crashes and races, is a register
\* that is written at most once.
THEOREM RegisterImplemented == Spec => ImplementsRegister
<1>1. Init => RegisterInvariant
  BY BlankUnseen DEF Init, RegisterInvariant, Backed
<1>2. Spec => []RegisterInvariant
  BY <1>1, Invariance, RegisterKeeps, PTL DEF Spec
<1>3. Init => Register!Init
  BY DEF Init, Register!Init, Held
<1>4. IInv /\ IInv' /\ RegisterInvariant /\ [Next]_vars => [Register!Next]_(Register!vars)
  BY NextRefines
<1> QED BY <1>2, <1>3, <1>4, Invariance, PTL DEF Spec, ImplementsRegister, Register!Spec
(* --------------------------------------------------- every operation ends *)

\* The measure: the part of the operation, the step in that part, then the files
\* that the scan has still to read.

PartRank(q) ==
    CASE q \in {"submit", "hydrate"} -> 0
      [] q \in {"decide poll", "checked poll"} -> 1
      [] q \in {"look", "expired look"} -> 2  [] q = "transition" -> 3
      [] q = "late sweep" -> 4   [] q = "tick sweep" -> 5  [] q = "tick poll" -> 6
      [] q = "prune sweep" -> 7  [] q = "deliver" -> 8     [] q = "prune" -> 9
      [] q = "poll" -> 10        [] q = "idle" -> 11       [] OTHER -> 12

StepRank(s) ==
    CASE s = "start" -> 0   [] s = "file" -> 1     [] s = "read" -> 2   [] s = "check" -> 3
      [] s = "link" -> 4    [] s = "confirm" -> 5  [] s = "undo" -> 6   [] s = "receipt" -> 7
      [] s = "relist" -> 8  [] s = "reread" -> 9   [] s = "unlink" -> 10 [] OTHER -> 11

Forward(p) ==
    \/ PartRank(part'[p]) > PartRank(part[p])
    \/ part'[p] = part[p] /\ StepRank(pc'[p]) > StepRank(pc[p])
    \/ /\ part'[p] = part[p] /\ pc'[p] = pc[p]
       /\ view'[p].unread \subseteq view[p].unread
       /\ view'[p].unread # view[p].unread

Halted(p) == UNCHANGED <<part[p], pc[p], view[p]>>

\* No operation retries: each step of it, also one that finds a name taken, a file
\* gone or an id retired, goes on, and no other process adds to what is left.  So
\* every one ends after a bounded number of its own steps, whoever races with it
\* (transition, sweepExpired, prune, checkForExternalDecisions, tickLifecycle).
EveryOperationEnds ==
    [][\A p \in Procs :
        /\ Works(p) => Forward(p)
        /\ Forward(p) \/ Halted(p) \/ part[p] \in {"idle", "off"}]_vars

LEMMA StepOrder ==
    /\ StepRank("file") > StepRank("start")     /\ StepRank("read") > StepRank("start")
    /\ StepRank("unlink") > StepRank("start")   /\ StepRank("erase") > StepRank("unlink")
    /\ StepRank("check") > StepRank("read")     /\ StepRank("link") > StepRank("read")
    /\ StepRank("confirm") > StepRank("link")   /\ StepRank("relist") > StepRank("link")
    /\ StepRank("undo") > StepRank("confirm")   /\ StepRank("receipt") > StepRank("confirm")
    /\ StepRank("relist") > StepRank("undo")    /\ StepRank("relist") > StepRank("receipt")
    /\ StepRank("reread") > StepRank("relist")
BY DEF StepRank

LEMMA PartRankBound ==
    ASSUME NEW q \in Parts \ {"idle", "off"}
    PROVE  PartRank(q) \in 0 .. 10
<1>1. /\ PartRank("submit") \in 0 .. 10 /\ PartRank("hydrate") \in 0 .. 10
      /\ PartRank("decide poll") \in 0 .. 10 /\ PartRank("look") \in 0 .. 10
      /\ PartRank("checked poll") \in 0 .. 10 /\ PartRank("expired look") \in 0 .. 10
      /\ PartRank("transition") \in 0 .. 10 /\ PartRank("late sweep") \in 0 .. 10
      /\ PartRank("tick sweep") \in 0 .. 10 /\ PartRank("tick poll") \in 0 .. 10
      /\ PartRank("prune sweep") \in 0 .. 10 /\ PartRank("deliver") \in 0 .. 10
      /\ PartRank("prune") \in 0 .. 10 /\ PartRank("poll") \in 0 .. 10
  BY DEF PartRank
<1> QED BY <1>1 DEF Parts

LEMMA PartOrder ==
    /\ \A q \in Parts \ {"off"} : PartRank("off") > PartRank(q)
    /\ \A q \in Parts \ {"idle", "off"} : PartRank("idle") > PartRank(q)
    /\ PartRank("late sweep") > PartRank("transition")
    /\ PartRank("late sweep") > PartRank("expired look")
    /\ PartRank("poll") > PartRank("transition")
<1>1. PartRank("off") = 12 /\ PartRank("idle") = 11
  BY DEF PartRank
<1>2. /\ \A q \in Parts \ {"off"} : PartRank("off") > PartRank(q)
      /\ \A q \in Parts \ {"idle", "off"} : PartRank("idle") > PartRank(q)
  BY <1>1, PartRankBound
<1>3. PartRank("late sweep") > PartRank("transition")
  BY DEF PartRank
<1>4. PartRank("poll") > PartRank("transition")
  BY DEF PartRank
<1>5. PartRank("late sweep") > PartRank("expired look")
  BY DEF PartRank
<1> QED BY <1>2, <1>3, <1>4, <1>5

LEMMA AfterIsLater ==
    ASSUME NEW q \in Parts \ {"idle", "off"}
    PROVE  PartRank(After(q)) > PartRank(q)
<1>1. \/ q = "decide poll" /\ After(q) = "look"
      \/ q = "look" /\ After(q) = "transition"
      \/ q = "checked poll" /\ After(q) = "expired look"
      \/ q = "late sweep" /\ After(q) = "poll"
      \/ q = "tick sweep" /\ After(q) = "tick poll"
      \/ q = "tick poll" /\ After(q) = "prune sweep"
      \/ q = "prune sweep" /\ After(q) = "deliver"
      \/ q = "deliver" /\ After(q) = "prune"
      \/ After(q) = "idle"
  BY DEF After
<1>2. PartRank("look") > PartRank("decide poll") /\ PartRank("transition") > PartRank("look")
  BY DEF PartRank
<1>3. PartRank("poll") > PartRank("late sweep") /\ PartRank("tick poll") > PartRank("tick sweep")
  BY DEF PartRank
<1>4. /\ PartRank("prune sweep") > PartRank("tick poll")
      /\ PartRank("deliver") > PartRank("prune sweep")
      /\ PartRank("prune") > PartRank("deliver")
  BY DEF PartRank
<1>5. PartRank("expired look") > PartRank("checked poll")
  BY DEF PartRank
<1> QED BY <1>1, <1>2, <1>3, <1>4, <1>5, PartOrder

LEMMA GotoForward ==
    ASSUME JobType, NEW p \in Procs, NEW s, Step(p, s), StepRank(s) > StepRank(pc[p])
    PROVE  Forward(p)
BY DEF JobType, Step, Forward

LEMMA ContinueForward ==
    ASSUME JobType, NEW p \in Procs, NEW q, Continue(p, q), PartRank(q) > PartRank(part[p])
    PROVE  Forward(p)
BY DEF JobType, Continue, Forward

LEMMA FinishForward ==
    ASSUME JobType, NEW p \in Procs, Finish(p), part[p] \notin {"idle", "off"}
    PROVE  Forward(p)
<1>1. part[p] \in Parts \ {"idle", "off"}
  BY DEF JobType
<1> QED BY <1>1, AfterIsLater, ContinueForward DEF Finish

\* A scan that reads a file has one less to read.
LEMMA ReadForward ==
    ASSUME JobType, NEW p \in Procs, NEW f \in view[p].unread, NEW v,
           view' = [view EXCEPT ![p] = v], v.unread = view[p].unread \ {f},
           UNCHANGED <<part, pc>>
    PROVE  Forward(p)
BY DEF JobType, Forward

LEMMA DecidesForward ==
    ASSUME JobType, NEW p \in Procs, Decides(p) \/ Undo(p)
    PROVE  Forward(p)
<1> USE DEF At, Moving, Looking, Sweeping
<1>0. part[p] \in Parts
  BY DEF JobType
<1>1. CASE Look(p)
  BY <1>0, <1>1, FinishForward, ContinueForward, PartOrder DEF Look
<1>6. CASE CheckExpired(p)
  BY <1>0, <1>6, ContinueForward, PartOrder DEF CheckExpired
<1>2. CASE TransitionChecks(p)
  BY <1>2, ContinueForward, GotoForward, PartOrder, StepOrder DEF TransitionChecks, Goto
<1>3. CASE TransitionLinks(p)
  BY <1>3, ContinueForward, GotoForward, PartOrder, StepOrder DEF TransitionLinks, Goto
<1>4. CASE TransitionConfirms(p)
  BY <1>4, FinishForward, GotoForward, StepOrder DEF TransitionConfirms, Goto
<1>5. CASE Undo(p)
  BY <1>5, ContinueForward, GotoForward, PartOrder, StepOrder DEF Undo, Goto
<1> QED BY <1>1, <1>2, <1>3, <1>4, <1>5, <1>6 DEF Decides

LEMMA SweepsForward ==
    ASSUME JobType, NEW p \in Procs, Sweeps(p)
    PROVE  Forward(p)
<1> USE DEF At, Sweeping
<1>1. CASE SweepCloses(p)
  BY <1>1, GotoForward, StepOrder DEF SweepCloses
<1>2. CASE SweepRepairs(p) \/ SweepSkips(p) \/ SweepEnds(p)
  BY <1>2, FinishForward DEF SweepRepairs, SweepSkips, SweepEnds
<1>3. CASE SweepLinks(p)
  BY <1>3, GotoForward, StepOrder DEF SweepLinks, Goto
<1>4. CASE SweepConfirms(p) \/ SweepReceipts(p)
  BY <1>4, GotoForward, StepOrder DEF SweepConfirms, SweepReceipts, Goto
<1> QED BY <1>1, <1>2, <1>3, <1>4 DEF Sweeps

LEMMA ScansForward ==
    ASSUME JobType, NEW p \in Procs, Scans(p) \/ Hydrates(p)
    PROVE  Forward(p)
<1>1. CASE ScanList(p)
  BY <1>1, GotoForward, StepOrder DEF ScanList, At
<1>2. CASE ScanRead(p)
  <2>1. PICK f \in view[p].unread : view' = [view EXCEPT ![p] = Read(p, f)]
    BY <1>2 DEF ScanRead
  <2>2. Read(p, f).unread = view[p].unread \ {f}
    BY DEF Read, JobType, View
  <2>3. UNCHANGED <<part, pc>>
    BY <1>2 DEF ScanRead
  <2> QED BY <2>1, <2>2, <2>3, ReadForward
<1>3. CASE HydrateRead(p)
  <2> DEFINE V(f) == [Read(p, f) EXCEPT !.request = IF f = "request" THEN Live ELSE @]
  <2>1. PICK f \in view[p].unread : view' = [view EXCEPT ![p] = V(f)]
    BY <1>3 DEF HydrateRead
  <2>2. V(f).unread = view[p].unread \ {f}
    BY DEF Read, JobType, View
  <2>3. UNCHANGED <<part, pc>>
    BY <1>3 DEF HydrateRead
  <2> HIDE DEF V
  <2> QED BY <2>1, <2>2, <2>3, ReadForward
<1>4. CASE HydrateList(p)
  BY <1>4, GotoForward, StepOrder DEF HydrateList, Hydrating, At
<1>5. CASE HydrateSettles(p)
  BY <1>5, FinishForward DEF HydrateSettles, Hydrating, At
<1> QED BY <1>1, <1>2, <1>3, <1>4, <1>5 DEF Scans, Hydrates

LEMMA WorksForward ==
    ASSUME JobType, NEW p \in Procs, Works(p)
    PROVE  Forward(p)
<1> USE DEF At
<1>1. CASE Submits(p)
  BY <1>1, FinishForward, GotoForward, StepOrder
     DEF Submits, SubmitCheck, SubmitLink, Submitting, Goto
<1>2. CASE Polls(p)
  BY <1>2, FinishForward, GotoForward, StepOrder
     DEF Polls, PollList, PollRead, PollSettles, Polling, Goto
<1>3. CASE Prunes(p)
  <2>1. part[p] \in {"deliver", "prune"}
    BY <1>3 DEF Prunes, Deliver, Retire, EraseRequest, EraseDecision, Delivering, Pruning
  <2>2. PartRank("idle") > PartRank(part[p])
    BY <2>1, PartOrder DEF Parts
  <2> QED BY <1>3, <2>1, <2>2, FinishForward, ContinueForward, GotoForward, StepOrder
          DEF Prunes, Deliver, Retire, EraseRequest, EraseDecision, Goto
<1> QED BY <1>1, <1>2, <1>3, DecidesForward, SweepsForward, ScansForward DEF Works

\* No other process, and no clock, moves a process that is in an operation.
LEMMA OthersHalt ==
    ASSUME TypeOK, NEW p \in Procs, NEW q \in Procs, q # p,
           Works(p) \/ Starts(p) \/ Crash(p) \/ Restart(p)
    PROVE  Halted(q)
<1> USE DEF Halted, Step, Goto, Continue, Finish, Begin, TypeOK
<1>1. CASE Submits(p) \/ Scans(p)
  BY <1>1 DEF Submits, SubmitCheck, SubmitLink, Scans, ScanList, ScanRead
<1>2. CASE Decides(p) \/ Undo(p)
  BY <1>2 DEF Decides, Look, CheckExpired, TransitionChecks, TransitionLinks, TransitionConfirms, Undo
<1>3. CASE Sweeps(p)
  BY <1>3 DEF Sweeps, SweepCloses, SweepRepairs, SweepSkips, SweepLinks, SweepConfirms,
              SweepReceipts, SweepEnds
<1>4. CASE Polls(p) \/ Prunes(p)
  BY <1>4 DEF Polls, PollList, PollRead, PollSettles, Prunes, Deliver, Retire, EraseRequest,
              EraseDecision
<1>5. CASE Hydrates(p)
  BY <1>5 DEF Hydrates, HydrateList, HydrateRead, HydrateSettles
<1>6. CASE Starts(p)
  BY <1>6 DEF Starts, StartSubmit, StartPoll, StartDecide, StartClose, StartTick
<1>7. CASE Crash(p) \/ Restart(p)
  BY <1>7 DEF Crash, Restart
<1> QED BY <1>1, <1>2, <1>3, <1>4, <1>5, <1>6, <1>7 DEF Works

\* Deciding, sweeping, polling, pruning and hydrating are wait-free for any number
\* of processes: what is left of an operation shrinks with each of its steps and
\* grows with nobody else's (approval-store.ts, approval-broker.ts).
THEOREM OperationsEnd == Spec => EveryOperationEnds
<1> DEFINE Goes == \A p \in Procs :
        /\ Works(p) => Forward(p)
        /\ Forward(p) \/ Halted(p) \/ part[p] \in {"idle", "off"}
<1>1. TypeOK /\ [Next]_vars => [Goes]_vars
  <2> SUFFICES ASSUME TypeOK, Next PROVE Goes
    OBVIOUS
  <2>1. JobType
    BY TypeParts
  <2>2. ASSUME NEW p \in Procs, Works(p) PROVE Forward(p)
    BY <2>1, <2>2, WorksForward
  <2>3. ASSUME NEW p \in Procs, Starts(p) \/ Restart(p) PROVE part[p] \in {"idle", "off"}
    BY <2>3 DEF Starts, StartSubmit, StartPoll, StartDecide, StartClose, StartTick, Begin, Restart
  <2>4. ASSUME NEW p \in Procs, Crash(p) PROVE Forward(p)
    <3>1. part[p] \in Parts \ {"off"}
      BY <2>1, <2>4 DEF Crash, JobType
    <3> QED BY <2>1, <2>4, <3>1, PartOrder, ContinueForward DEF Crash
  <2>5. ASSUME Expire \/ Age, NEW p \in Procs PROVE Halted(p)
    BY <2>5 DEF Expire, Age, Halted, job
  <2>6. ASSUME NEW p \in Procs PROVE Forward(p) \/ Halted(p) \/ part[p] \in {"idle", "off"}
    BY <2>2, <2>3, <2>4, <2>5, OthersHalt DEF Next
  <2> QED BY <2>2, <2>6
<1>2. Spec => [][Goes]_vars
  BY <1>1, StoreTypes, PTL DEF Spec
<1> QED BY <1>2, PTL DEF EveryOperationEnds
=============================================================================
