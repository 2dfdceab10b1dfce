----------------------------- MODULE ApprovalStore -----------------------------
(***************************************************************************)
(* The directory in which approval requests are decided, closed by timeout *)
(* and retired: approval-store.ts, approval-broker.ts and the ticks of     *)
(* approval-expiry-driver.ts, run by several processes that share it.      *)
(*                                                                         *)
(* The files of one request id are modelled, since every operation treats  *)
(* the ids apart: the request, the decision, the retirement tombstone and  *)
(* the timeout receipt.  No lock protects them.  A process lists the       *)
(* directory, reads the files one by one and publishes with a link that    *)
(* fails when the name exists; another process may run between any two of  *)
(* these calls, and a process may stop at any of them.                     *)
(***************************************************************************)
EXTENDS Integers

CONSTANTS
    Procs,          \* processes, each with a broker and a store on the directory
    Submitters,     \* those that file the request
    Deciders,       \* those that decide on behalf of a human
    Pollers,        \* those whose workers poll for decisions on a timer
    Tickers,        \* those that run the expiry driver
    None,           \* no file, no decision
    MaxDecisions,   \* decisions that may be in use at one time
    MaxHuman,       \* human decisions that may be asked for
    MaxCrashes      \* crashes of processes

ASSUME ProcsAssumption ==
    /\ Submitters \subseteq Procs /\ Deciders \subseteq Procs
    /\ Pollers \subseteq Procs /\ Tickers \subseteq Procs
ASSUME BoundsAssumption == MaxDecisions \in Nat /\ MaxHuman \in Nat /\ MaxCrashes \in Nat

Kinds == {"human", "ttl"}
Decisions == [n : 1 .. MaxDecisions, kind : Kinds]
ASSUME NoneAssumption == None \notin Decisions

VARIABLES
    request,     \* whether <id>.request.json is there
    decision,    \* the decision in <id>.decision.json, or None
    tomb,        \* the decision in <id>.tombstone.json, or None
    receipt,     \* the decision <id>.timeout.json stands for, or None
    part,        \* the part of its operation each process is in, "idle" or "off"
    pc,          \* where in that part
    late,        \* whether the operation's clock is past expiresAt
    cut,         \* the decisions its clock puts before the retention cutoff
    view,        \* what its scan of the directory found
    draft,       \* the decision it is about to publish, or None
    mem,         \* decisionsById of its broker
    seen,        \* whether its broker has dealt with the decision file
    overdue,     \* expiresAt has passed
    aged,        \* decisions that are older than the retention
    asked,       \* human decisions asked for so far
    crashes,     \* crashes so far
    verdict,     \* history: the first decision linked for the live request
    answers      \* history: the decisions returned to a decider as its own

disk == <<request, decision, tomb, receipt>>
job == <<part, pc, late, cut, view, draft>>
memory == <<mem, seen>>
world == <<overdue, aged, asked, crashes>>
history == <<verdict, answers>>
vars == <<disk, job, memory, world, history>>

Parts == {"off", "idle", "submit", "hydrate", "poll",
          "decide poll", "look", "transition",
          "checked poll", "expired look", "late sweep",
          "tick sweep", "tick poll", "prune sweep", "deliver", "prune"}
Steps == {"start", "file", "read", "check", "link", "confirm", "undo", "receipt",
          "relist", "reread", "unlink", "erase"}
Files == {"request", "decision"}
View == [unread : SUBSET Files, request : BOOLEAN, decision : Decisions \cup {None}]
Blank == [unread |-> {}, request |-> FALSE, decision |-> None]

TypeOK ==
    /\ request \in BOOLEAN
    /\ decision \in Decisions \cup {None}
    /\ tomb \in Decisions \cup {None}
    /\ receipt \in Decisions \cup {None}
    /\ part \in [Procs -> Parts]
    /\ pc \in [Procs -> Steps]
    /\ late \in [Procs -> BOOLEAN]
    /\ cut \in [Procs -> SUBSET (1 .. MaxDecisions)]
    /\ view \in [Procs -> View]
    /\ draft \in [Procs -> Decisions \cup {None}]
    /\ mem \in [Procs -> Decisions \cup {None}]
    /\ seen \in [Procs -> BOOLEAN]
    /\ overdue \in BOOLEAN
    /\ aged \subseteq 1 .. MaxDecisions
    /\ asked \in 0 .. MaxHuman
    /\ crashes \in 0 .. MaxCrashes
    /\ verdict \in Decisions \cup {None}
    /\ answers \subseteq Decisions

Init ==
    /\ request = FALSE
    /\ decision = None /\ tomb = None /\ receipt = None
    /\ part = [p \in Procs |-> "idle"]
    /\ pc = [p \in Procs |-> "start"]
    /\ late = [p \in Procs |-> FALSE]
    /\ cut = [p \in Procs |-> {}]
    /\ view = [p \in Procs |-> Blank]
    /\ draft = [p \in Procs |-> None]
    /\ mem = [p \in Procs |-> None]
    /\ seen = [p \in Procs |-> FALSE]
    /\ overdue = FALSE
    /\ aged = {} /\ asked = 0 /\ crashes = 0
    /\ verdict = None /\ answers = {}

(* ------------------------------------------------------------ operations *)

At(p, parts, step) == part[p] \in parts /\ pc[p] = step

Submitting == {"submit"}
Hydrating == {"hydrate"}
Polling == {"poll", "decide poll", "checked poll", "tick poll"}
Looking == {"look"}
Moving == {"transition"}
Sweeping == {"late sweep", "tick sweep", "prune sweep"}
Delivering == {"deliver"}
Pruning == {"prune"}

\* decideAt polls, looks the request up and leaves the rest to the store; a
\* transition that comes too late sweeps, and every refused one polls.  A
\* decideChecked that comes too late polls, looks and has its broker expire, which
\* sweeps and polls.  A tick sweeps and polls as the broker, sweeps as the store,
\* delivers and prunes.
After(q) ==
    CASE q = "decide poll" -> "look"
      [] q = "look" -> "transition"
      [] q = "checked poll" -> "expired look"
      [] q = "late sweep" -> "poll"
      [] q = "tick sweep" -> "tick poll"
      [] q = "tick poll" -> "prune sweep"
      [] q = "prune sweep" -> "deliver"
      [] q = "deliver" -> "prune"
      [] OTHER -> "idle"

Step(p, step) ==
    /\ pc' = [pc EXCEPT ![p] = step]
    /\ UNCHANGED <<part, late, cut>>

Goto(p, step) == Step(p, step) /\ UNCHANGED <<view, draft>>

\* The process goes on with part q; a scan outlives its part only where prune
\* needs it, and the clock, like the draft, what it was read for.
Continue(p, q) ==
    /\ part' = [part EXCEPT ![p] = q]
    /\ pc' = [pc EXCEPT ![p] = "start"]
    /\ late' = [late EXCEPT ![p] = q \notin {"idle", "off"} /\ @]
    /\ cut' = [cut EXCEPT ![p] = IF q \in {"idle", "off"} THEN {} ELSE @]
    /\ view' = [view EXCEPT ![p] = IF q \in Delivering \cup Pruning THEN @ ELSE Blank]
    /\ draft' = [draft EXCEPT ![p] = IF q \in Looking \cup Moving THEN @ ELSE None]

Finish(p) == Continue(p, After(part[p]))

\* An operation that needs a clock reads it first: what is overdue and what is
\* old are settled here.
Begin(p, q) ==
    /\ part[p] = "idle"
    /\ part' = [part EXCEPT ![p] = q]
    /\ pc' = [pc EXCEPT ![p] = "start"]
    /\ late' = [late EXCEPT ![p] = overdue /\ q \in {"decide poll", "checked poll", "tick sweep"}]
    /\ cut' = [cut EXCEPT ![p] = IF q = "tick sweep" THEN aged ELSE {}]
    /\ UNCHANGED <<view, disk, memory, history>>

\* Decisions are told apart by a number.  One that nothing refers to any more
\* serves again, so that any number of decisions may be drafted.
InUse ==
    LET kept == {decision, tomb, receipt, verdict} \cup answers
                \cup UNION {{draft[p], view[p].decision, mem[p]} : p \in Procs}
    IN {d.n : d \in kept \ {None}} \cup UNION {cut[p] : p \in Procs}

\* A decision the process has just built, which no other decision equals.
NewDraft(p, kind) ==
    \E n \in (1 .. MaxDecisions) \ InUse :
        /\ 1 .. (n - 1) \subseteq InUse
        /\ draft' = [draft EXCEPT ![p] = [n |-> n, kind |-> kind]]
        /\ aged' = aged \ {n}

StartPoll(p) ==
    /\ p \in Pollers
    /\ Begin(p, "poll")
    /\ UNCHANGED <<draft, world>>

StartDecide(p) ==
    /\ p \in Deciders
    /\ asked < MaxHuman
    /\ asked' = asked + 1
    /\ Begin(p, "decide poll")
    /\ NewDraft(p, "human")
    /\ UNCHANGED <<overdue, crashes>>

\* decideChecked of a request that is past its time; in time it is a decideAt.
StartClose(p) ==
    /\ p \in Deciders
    /\ overdue /\ asked < MaxHuman
    /\ asked' = asked + 1
    /\ Begin(p, "checked poll")
    /\ UNCHANGED <<draft, overdue, aged, crashes>>

StartTick(p) ==
    /\ p \in Tickers
    /\ Begin(p, "tick sweep")
    /\ UNCHANGED <<draft, world>>

\* submit looks before it links; submitLifecycle only links.
StartSubmit(p) ==
    /\ p \in Submitters
    /\ Begin(p, "submit")
    /\ UNCHANGED <<draft, world>>

SubmitCheck(p) ==
    /\ At(p, Submitting, "start")
    /\ IF tomb = None /\ decision = None THEN Goto(p, "file") ELSE Finish(p)
    /\ UNCHANGED <<disk, memory, world, history>>

SubmitLink(p) ==
    /\ At(p, Submitting, "start") \/ At(p, Submitting, "file")
    /\ request' = TRUE
    /\ Finish(p)
    /\ UNCHANGED <<decision, tomb, receipt, memory, world, history>>

(* ----------------------------------------------------------- directory scan *)

\* readdir, and the tombstones among what it lists; a retired id is not read.
Listing(p) ==
    [Blank EXCEPT !.unread = {f \in Files : /\ tomb = None
                                            /\ f = "request" => request
                                            /\ f = "decision" => decision # None}]

\* The files are read after they were listed: one may be gone by then.
Read(p, f) ==
    [view[p] EXCEPT !.unread = @ \ {f},
                    !.request = IF f = "request" THEN request ELSE @,
                    !.decision = IF f = "decision" THEN decision ELSE @]

Scanning(p) == At(p, Moving \cup Sweeping, "read") \/ At(p, Sweeping, "reread")

ScanList(p) ==
    /\ \/ At(p, Moving \cup Sweeping, "start") /\ Step(p, "read")
       \/ At(p, Sweeping, "relist") /\ Step(p, "reread")
    /\ view' = [view EXCEPT ![p] = Listing(p)]
    /\ UNCHANGED <<draft, disk, memory, world, history>>

ScanRead(p) ==
    /\ Scanning(p)
    /\ \E f \in view[p].unread : view' = [view EXCEPT ![p] = Read(p, f)]
    /\ UNCHANGED <<part, pc, late, cut, draft, disk, memory, world, history>>

\* What findEntry and the expired list of the scan show.
Present(p) == view[p].unread = {} /\ view[p].request
Undecided(p) == Present(p) /\ view[p].decision = None
ClosedByTimeout(p) == Present(p) /\ view[p].decision # None /\ view[p].decision.kind = "ttl"

(* ---------------------------------------------- publication of a decision *)

\* Mutant: the decision is renamed over what is there.
NameAlwaysFree == TRUE

\* A link fails when the name exists.
NameFree == decision = None

\* The link of the first writer.
LinkDecision(p) ==
    /\ NameFree
    /\ decision' = draft[p]
    /\ verdict' = IF verdict = None THEN draft[p] ELSE verdict
    /\ UNCHANGED <<request, tomb, receipt, answers>>

\* Mutant: the decision counts as soon as it is linked.
NeverRetired == FALSE

\* The tombstone is looked for once more before a linked decision counts.
Retired == tomb # None

\* A decision linked after the retirement is taken back.
Undo(p) ==
    /\ At(p, Moving \cup Sweeping, "undo")
    /\ decision' = None
    /\ IF part[p] \in Sweeping THEN Goto(p, "relist") ELSE Continue(p, "poll")
    /\ UNCHANGED <<request, tomb, receipt, memory, world, history>>

\* A request without an entry or with a decision is refused; one that is past
\* its time is swept first.
TransitionChecks(p) ==
    /\ At(p, Moving, "read") /\ view[p].unread = {}
    /\ IF Undecided(p)
       THEN IF late[p] THEN Continue(p, "late sweep") ELSE Goto(p, "link")
       ELSE Continue(p, "poll")
    /\ UNCHANGED <<disk, memory, world, history>>

TransitionLinks(p) ==
    /\ At(p, Moving, "link")
    /\ \/ LinkDecision(p) /\ Goto(p, "confirm")
       \/ ~NameFree /\ Continue(p, "poll") /\ UNCHANGED <<disk, history>>
    /\ UNCHANGED <<memory, world>>

TransitionConfirms(p) ==
    /\ At(p, Moving, "confirm")
    /\ IF Retired
       THEN Goto(p, "undo") /\ UNCHANGED <<memory, answers>>
       ELSE /\ Finish(p)
            /\ mem' = [mem EXCEPT ![p] = draft[p]]
            /\ seen' = [seen EXCEPT ![p] = TRUE]
            /\ answers' = answers \cup {draft[p]}
    /\ UNCHANGED <<disk, world, verdict>>

(* ------------------------------------------------------- the timeout sweep *)

\* Mutant: a process closes only the requests it filed itself.
ExpiredOfMine(p) == Undecided(p) /\ late[p] /\ p \in Submitters

Expired(p) == Undecided(p) /\ late[p]

\* An overdue request without a decision is closed; one that was closed has its
\* receipt written again when it is missing.
SweepCloses(p) ==
    /\ At(p, Sweeping, "read") /\ Expired(p)
    /\ NewDraft(p, "ttl")
    /\ Step(p, "link")
    /\ UNCHANGED <<view, disk, memory, overdue, asked, crashes, history>>

\* Mutant: a request that has its decision is left alone.
SweepRepairsNothing(p) ==
    /\ At(p, Sweeping, "read") /\ ClosedByTimeout(p)
    /\ Finish(p)
    /\ UNCHANGED <<disk, memory, world, history>>

SweepRepairs(p) ==
    /\ At(p, Sweeping, "read") /\ ClosedByTimeout(p)
    /\ receipt' = IF receipt = None THEN view[p].decision ELSE receipt
    /\ Finish(p)
    /\ UNCHANGED <<request, decision, tomb, memory, world, history>>

SweepSkips(p) ==
    /\ At(p, Sweeping, "read") /\ view[p].unread = {}
    /\ ~Expired(p) /\ ~ClosedByTimeout(p)
    /\ Finish(p)
    /\ UNCHANGED <<disk, memory, world, history>>

SweepLinks(p) ==
    /\ At(p, Sweeping, "link")
    /\ \/ LinkDecision(p) /\ Goto(p, "confirm")
       \/ ~NameFree /\ Goto(p, "relist") /\ UNCHANGED <<disk, history>>
    /\ UNCHANGED <<memory, world>>

SweepConfirms(p) ==
    /\ At(p, Sweeping, "confirm")
    /\ Goto(p, IF Retired THEN "undo" ELSE "receipt")
    /\ UNCHANGED <<disk, memory, world, history>>

SweepReceipts(p) ==
    /\ At(p, Sweeping, "receipt")
    /\ receipt' = IF receipt = None THEN draft[p] ELSE receipt
    /\ Goto(p, "relist")
    /\ UNCHANGED <<request, decision, tomb, memory, world, history>>

\* A sweep that tried to close something indexes the directory anew.
SweepEnds(p) ==
    /\ At(p, Sweeping, "reread") /\ view[p].unread = {}
    /\ Finish(p)
    /\ UNCHANGED <<disk, memory, world, history>>

(* ------------------------------------------------------------- the broker *)

\* settleDecision: the waiters of the process are told.
Settle(p, d) ==
    /\ mem' = [mem EXCEPT ![p] = d]
    /\ seen' = [seen EXCEPT ![p] = TRUE]

\* A tombstone settles first, with the decision it keeps.
PollList(p) ==
    /\ At(p, Polling, "start")
    /\ mem' = [mem EXCEPT ![p] = IF @ = None THEN tomb ELSE @]
    /\ seen' = [seen EXCEPT ![p] = @ \/ (mem[p] = None /\ tomb # None)]
    /\ IF decision # None /\ ~seen'[p] THEN Goto(p, "read") ELSE Finish(p)
    /\ UNCHANGED <<disk, world, history>>

\* A decision file that is gone is looked for again at the next poll.
PollRead(p) ==
    /\ At(p, Polling, "read")
    /\ IF decision = None
       THEN Finish(p)
       ELSE /\ view' = [view EXCEPT ![p] = [Blank EXCEPT !.decision = decision]]
            /\ Step(p, "check")
            /\ UNCHANGED draft
    /\ UNCHANGED <<disk, memory, world, history>>

\* readRequestFromDisk looks for the tombstone, then reads the request.  One step
\* stands for both: a request that is removed in between was still live, and an
\* id that is filed, retired and filed again in between fails in the next scan.
Live == tomb = None /\ request

\* Mutant: the poll settles only what its own process filed.
PollSettlesMine(p) ==
    /\ At(p, Polling, "check")
    /\ IF Live /\ mem[p] = None /\ p \in Submitters
       THEN Settle(p, view[p].decision)
       ELSE seen' = [seen EXCEPT ![p] = TRUE] /\ UNCHANGED mem
    /\ Finish(p)
    /\ UNCHANGED <<disk, world, history>>

PollSettles(p) ==
    /\ At(p, Polling, "check")
    /\ IF Live /\ mem[p] = None
       THEN Settle(p, view[p].decision)
       ELSE seen' = [seen EXCEPT ![p] = TRUE] /\ UNCHANGED mem
    /\ Finish(p)
    /\ UNCHANGED <<disk, world, history>>

\* decideAt refuses what is decided as far as its broker knows, then what is
\* not there.
Look(p) ==
    /\ At(p, Looking, "start")
    /\ IF mem[p] = None /\ Live THEN Finish(p) ELSE Continue(p, "idle")
    /\ UNCHANGED <<disk, memory, world, history>>

\* The answer is that the request has expired; only when the broker knows of no
\* decision does it expire what is there.
CheckExpired(p) ==
    /\ At(p, {"expired look"}, "start")
    /\ Continue(p, IF mem[p] = None THEN "late sweep" ELSE "idle")
    /\ UNCHANGED <<disk, memory, world, history>>

(* -------------------------------------------------------- the expiry driver *)

\* The delivery of a receipt is awaited, and its failure ends the tick.
Deliver(p) ==
    /\ At(p, Delivering, "start")
    /\ Finish(p) \/ (receipt # None /\ Continue(p, "idle"))
    /\ UNCHANGED <<disk, memory, world, history>>

\* Mutant: the cutoff is not looked at.
RetirableAtOnce(p) ==
    /\ Present(p)
    /\ view[p].decision # None

\* prune works from the last scan of the sweep before it.
Retirable(p) ==
    /\ Present(p)
    /\ view[p].decision # None
    /\ view[p].decision.n \in cut[p]

\* Mutant: the tombstone keeps the decision under a kind of its own.
TombstoneOfItsOwn(p) ==
    IF tomb = None THEN [view[p].decision EXCEPT !.kind = "retired"] ELSE tomb

TombstoneAfter(p) == IF tomb = None THEN view[p].decision ELSE tomb

\* The tombstone of another decision makes the retirement fail.
Retire(p) ==
    /\ At(p, Pruning, "start")
    /\ IF Retirable(p)
       THEN /\ tomb' = TombstoneAfter(p)
            /\ IF tomb' = view[p].decision THEN Goto(p, "unlink") ELSE Continue(p, "idle")
       ELSE Finish(p) /\ UNCHANGED tomb
    /\ UNCHANGED <<request, decision, receipt, memory, world, history>>

EraseRequest(p) ==
    /\ At(p, Pruning, "unlink")
    /\ request' = FALSE
    /\ Goto(p, "erase")
    /\ UNCHANGED <<decision, tomb, receipt, memory, world, history>>

EraseDecision(p) ==
    /\ At(p, Pruning, "erase")
    /\ decision' = None
    /\ Finish(p)
    /\ UNCHANGED <<request, tomb, receipt, memory, world, history>>

(* ------------------------------------------------------ crash and restart *)

Crash(p) ==
    /\ part[p] # "off"
    /\ crashes < MaxCrashes
    /\ crashes' = crashes + 1
    /\ Continue(p, "off")
    /\ mem' = [mem EXCEPT ![p] = None]
    /\ seen' = [seen EXCEPT ![p] = FALSE]
    /\ UNCHANGED <<disk, overdue, aged, asked, history>>

\* A new broker rebuilds its memory from the directory before anything else.
Restart(p) ==
    /\ part[p] = "off"
    /\ Continue(p, "hydrate")
    /\ UNCHANGED <<disk, memory, world, history>>

HydrateList(p) ==
    /\ At(p, Hydrating, "start")
    /\ view' = [view EXCEPT ![p] = Listing(p)]
    /\ mem' = [mem EXCEPT ![p] = tomb]
    /\ Step(p, "read")
    /\ UNCHANGED <<draft, disk, seen, world, history>>

\* Requests first; one that is retired by now is left out.
HydrateRead(p) ==
    /\ At(p, Hydrating, "read")
    /\ \E f \in view[p].unread :
          /\ f = "decision" => view[p].unread = {"decision"}
          /\ view' = [view EXCEPT ![p] = [Read(p, f) EXCEPT
                        !.request = IF f = "request" THEN Live ELSE @]]
    /\ UNCHANGED <<part, pc, late, cut, draft, disk, memory, world, history>>

HydrateSettles(p) ==
    /\ At(p, Hydrating, "read") /\ view[p].unread = {}
    /\ IF view[p].decision # None /\ tomb = None /\ view[p].request
       THEN Settle(p, view[p].decision)
       ELSE UNCHANGED memory
    /\ Finish(p)
    /\ UNCHANGED <<disk, world, history>>

(* --------------------------------------------------------------------- time *)

Expire ==
    /\ ~overdue
    /\ overdue' = TRUE
    /\ UNCHANGED <<disk, job, memory, aged, asked, crashes, history>>

\* Only the age of a decision that is or may be published matters.  A process
\* may sleep through the whole retention at any step: a laptop that
\* was closed, a short pruneOlderThanMs.
Age ==
    /\ \E d \in ({decision} \cup {draft[p] : p \in Procs}) \ {None} :
          d.n \notin aged /\ aged' = aged \cup {d.n}
    /\ UNCHANGED <<disk, job, memory, overdue, asked, crashes, history>>

(* ------------------------------------------------------------ specification *)

Submits(p) == SubmitCheck(p) \/ SubmitLink(p)
Scans(p) == ScanList(p) \/ ScanRead(p)
Decides(p) ==
    Look(p) \/ CheckExpired(p) \/ TransitionChecks(p) \/ TransitionLinks(p)
    \/ TransitionConfirms(p)
Sweeps(p) ==
    SweepCloses(p) \/ SweepRepairs(p) \/ SweepSkips(p) \/ SweepLinks(p)
    \/ SweepConfirms(p) \/ SweepReceipts(p) \/ SweepEnds(p)
Polls(p) == PollList(p) \/ PollRead(p) \/ PollSettles(p)
Prunes(p) == Deliver(p) \/ Retire(p) \/ EraseRequest(p) \/ EraseDecision(p)
Hydrates(p) == HydrateList(p) \/ HydrateRead(p) \/ HydrateSettles(p)

Works(p) ==
    Submits(p) \/ Scans(p) \/ Decides(p) \/ Undo(p) \/ Sweeps(p)
    \/ Polls(p) \/ Prunes(p) \/ Hydrates(p)

Starts(p) ==
    StartSubmit(p) \/ StartPoll(p) \/ StartDecide(p) \/ StartClose(p) \/ StartTick(p)

Next ==
    \/ \E p \in Procs : Works(p) \/ Starts(p) \/ Crash(p) \/ Restart(p)
    \/ Expire
    \/ Age

Spec == Init /\ [][Next]_vars

\* Synchronous code runs to its end.  The timers of the polls and the ticks
\* come up again whenever the event loop is free, so they are not passed over
\* for ever.  Nothing makes anyone submit, decide or restart.
FairSpec ==
    /\ Spec
    /\ \A p \in Procs : WF_vars(Works(p))
    /\ \A p \in Pollers : SF_vars(StartPoll(p))
    /\ \A p \in Tickers : SF_vars(StartTick(p))

(* --------------------------------------------------------------- properties *)

\* The decision in force, as the files tell it.
Held == IF tomb = None THEN decision ELSE tomb

\* What a decider got back as recorded, what a tombstone keeps and what any
\* broker tells its waiters is the decision that was linked first, whoever raced
\* with it: a sibling, the sweep, the retirement, or a decider that slept through
\* all of them; and so it stays after a crash (transition, sweepExpired, prune,
\* checkForExternalDecisions, hydrateFromDisk).
OneVerdict ==
    /\ answers \subseteq {verdict}
    /\ tomb \in {None, verdict}
    /\ \A p \in Procs : mem[p] \in {None, verdict}

\* Once a request has a verdict the directory holds it, through every step of
\* the retirement and every crash in it.
VerdictDurable ==
    verdict # None => verdict \in {decision, tomb}

\* No request is removed while it is undecided, nor before its own verdict is
\* older than the retention, however old the scan that prune works from.
PendingNeverPruned ==
    [][request /\ ~request' => /\ verdict # None
                               /\ tomb = verdict
                               /\ verdict.n \in aged]_vars

\* The directory is a register that is written once: the tombstone, and before
\* there is one the decision file, holds its value.  No link that lost, no late
\* one that is undone, no retirement and no crash in the middle of it shows
\* (transition, sweepExpired, prune, hydrateFromDisk).
Register == INSTANCE DecisionRegister WITH
    Timeouts <- {d \in Decisions : d.kind = "ttl"},
    filed <- request,
    value <- Held,
    old <- Held # None /\ Held.n \in aged,
    known <- mem,
    accepted <- answers

ImplementsRegister == Register!Spec

Off(p) == part[p] = "off"

\* An overdue request gets a verdict, as long as one expiry driver is up,
\* although every publication may lose its race and every process may crash.
OverdueCloses ==
    request /\ overdue ~> verdict # None \/ \A p \in Tickers : Off(p)

\* Every process that polls or ticks and stays up learns the verdict, even when
\* the decision and the request are removed while it reads them.
EveryoneLearns ==
    verdict # None ~> \A p \in Pollers \cup Tickers : mem[p] = verdict \/ Off(p)

\* A request that was closed by timeout gets its receipt although its closer
\* may crash in between, unless it is retired first.
TimeoutReported ==
    decision = verdict /\ verdict # None /\ verdict.kind = "ttl"
        ~> receipt # None \/ tomb # None \/ \A p \in Tickers : Off(p)
=============================================================================
