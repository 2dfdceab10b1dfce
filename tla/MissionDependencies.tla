-------------------------- MODULE MissionDependencies --------------------------
(***************************************************************************)
(* How the mission store decides that a work item may run: the dependency  *)
(* authority of sqlite-mission-store.ts.                                   *)
(*                                                                         *)
(* A mission is governed by the JSON lists of its items (no authority row) *)
(* or by normalized edges.  Under normalized authority two counters per    *)
(* item project the state of its upstream items; they are brought up to    *)
(* date by durable jobs, one per terminal upstream item, which             *)
(* reconcilePendingDependencies advances within a budget of edges.  The    *)
(* projection is allowed to lag, so the claim reads the edges themselves.  *)
(*                                                                         *)
(* A mission comes to normalized authority by being created under it, or   *)
(* by a migration in two steps, between which its items stay still.        *)
(***************************************************************************)
EXTENDS Integers, FiniteSetsExt

CONSTANTS
    Items,            \* ids of the work items, which the store sorts by id
    Missions,         \* ids of the missions
    MissionOf,        \* mission_id of every item
    Deps,             \* dependsOn of every item, whatever it names
    NewV1,            \* missions created under normalized authority
    Batches,          \* the sets of items a caller enqueues together
    Unfit,            \* items the runner registry may refuse
    MaxEdges,         \* edges one reconciliation may visit
    MaxEdgesPerJob    \* edges it may visit for one job before it turns to another

ASSUME ItemsAssumption == Items \subseteq Nat \ {0} /\ IsFiniteSet(Items)
ASSUME MissionsAssumption == MissionOf \in [Items -> Missions] /\ NewV1 \subseteq Missions
ASSUME DepsAssumption == Deps \in [Items -> SUBSET Items]
ASSUME BatchesAssumption == Batches \subseteq SUBSET Items /\ Unfit \subseteq Items
ASSUME BoundsAssumption ==
    /\ MaxEdgesPerJob \in Nat \ {0}
    /\ MaxEdges \in Nat \ {0}
    /\ MaxEdgesPerJob <= MaxEdges

VARIABLES
    status,       \* work_items: status, "absent" before the insert
    authority,    \* mission_graph_authorities: authority_state, "none" without a row
    remaining,    \* work_item_dependency_readiness: remaining_count
    failures,     \* work_item_dependency_readiness: failed_count
    job,          \* mission_dependency_reconcile_queue: the job of every upstream
    concluded,    \* missions whose status is completed or failed
    budget        \* edges left to the reconciliation transaction under way, or 0

vars == <<status, authority, remaining, failures, job, concluded, budget>>

Failed == {"failed", "blocked"}
Terminal == Failed \cup {"done"}
Statuses == Terminal \cup {"absent", "pending", "running", "parked"}
AuthorityStates == {"none", "migration-pending", "active", "quarantined"}

\* A terminal status is final, so an upstream item has one job; its outcome is
\* that status.  Ids are positive, so the cursor 0 is before all of them.
Job == [state : {"none", "pending", "done"}, cursor : Nat, turn : Nat]
NoJob == [state |-> "none", cursor |-> 0, turn |-> 0]
NewJob == [state |-> "pending", cursor |-> 0, turn |-> 0]

\* Types; a counter never goes below zero, which its CHECK constraint demands.
TypeOK ==
    /\ status \in [Items -> Statuses]
    /\ authority \in [Missions -> AuthorityStates]
    /\ remaining \in [Items -> Nat]
    /\ failures \in [Items -> Nat]
    /\ job \in [Items -> Job]
    /\ concluded \subseteq Missions
    /\ budget \in 0 .. MaxEdges

Init ==
    /\ status = [i \in Items |-> "absent"]
    /\ authority = [m \in Missions |-> IF m \in NewV1 THEN "active" ELSE "none"]
    /\ remaining = [i \in Items |-> 0]
    /\ failures = [i \in Items |-> 0]
    /\ job = [i \in Items |-> NoJob]
    /\ concluded = {}
    /\ budget = 0

-----------------------------------------------------------------------------
(* The graph.                                                              *)

AuthorityOf(i) == authority[MissionOf[i]]
Present(m) == {i \in Items : MissionOf[i] = m /\ status[i] # "absent"}

\* Every edge stays in S and every part of S has an item that leads out of it.
ValidGraph(S) ==
    /\ \A i \in S : Deps[i] \subseteq S
    /\ \A C \in SUBSET S : C # {} => \E i \in C : Deps[i] \cap C = {}

\* Mutant: the claim trusts the counters that queryDue has read.
SatisfiedByProjection(i) == AuthorityOf(i) \in {"none", "active"}

Satisfied(i) ==
    /\ AuthorityOf(i) \in {"none", "active"}
    /\ \A d \in Deps[i] : MissionOf[d] = MissionOf[i] /\ status[d] = "done"

Ready(i) ==
    \/ AuthorityOf(i) = "none"
    \/ AuthorityOf(i) = "active" /\ remaining[i] = 0 /\ failures[i] = 0

Due(i) ==
    /\ status[i] = "pending"
    /\ MissionOf[i] \notin concluded
    /\ Ready(i) /\ Satisfied(i)

\* refreshReadiness: the counters of the items in S from the rows as they are.
NotDone(i) == {d \in Deps[i] : status[d] # "done"}
FailedDeps(i) == {d \in Deps[i] : status[d] \in Failed}

-----------------------------------------------------------------------------
(* The queue.                                                              *)

\* Mutant: the trigger fires for an item that ran, not for one that was blocked.
TriggeredByRuns(next) ==
    {u \in Items : /\ next[u] \in Terminal
                   /\ status[u] = "running"
                   /\ AuthorityOf(u) = "active"
                   /\ job[u].state = "none"}

\* Mutant: the trigger fires for failures only.
TriggeredByFailure(next) ==
    {u \in Items : /\ next[u] \in Failed
                   /\ next[u] # status[u]
                   /\ AuthorityOf(u) = "active"
                   /\ job[u].state = "none"}

\* Trigger normalized_dependency_terminal_update, with its INSERT OR IGNORE:
\* the items that the change of the status column to next queues a job for.
Triggered(next) ==
    {u \in Items : /\ next[u] \in Terminal
                   /\ next[u] # status[u]
                   /\ AuthorityOf(u) = "active"
                   /\ job[u].state = "none"}

Queued(S) == [u \in Items |-> IF u \in S THEN NewJob ELSE job[u]]

PendingJobs == {u \in Items : job[u].state = "pending"}

\* The dependants of u that its job has yet to visit.
Ahead(u) ==
    {i \in Items : /\ MissionOf[i] = MissionOf[u]
                   /\ status[i] # "absent"
                   /\ u \in Deps[i]
                   /\ i > job[u].cursor}

\* ORDER BY work_item_id LIMIT n.
FirstOf(n, S) == {i \in S : Cardinality({j \in S : j < i}) < n}

Chunk(u, n) == FirstOf(n, Ahead(u))

\* Mutant: the cursor jumps over the dependants the chunk had no room for.
CursorPast(u, chunk) == Max(Ahead(u))

CursorAfter(u, chunk) == Max(chunk)

\* Mutant: a counter that has been brought up to date twice goes below zero.
DecrementedBlindly(n) == n - 1

Decremented(n) == IF n > 0 THEN n - 1 ELSE 0

\* Mutant: every terminal upstream item blocks its dependants.
BlocksAlways(u) == status[u] \in Terminal

Blocks(u) == status[u] \in Failed

-----------------------------------------------------------------------------
(* Operations on items.  An open transaction keeps every other writer out. *)

\* Mutant: an enqueued item is not checked against the graph it joins.
AdmitsUnchecked(m, S) == authority[m] \in {"none", "active"}

\* Which of S may be enqueued: under normalized authority the graph stays valid,
\* and a mission that waits for its cutover or is quarantined refuses.
Admits(m, S) ==
    \/ authority[m] = "none"
    \/ authority[m] = "active" /\ ValidGraph(Present(m) \cup S)

\* enqueueItem, enqueueItems: rows, edges and counters.  A mission created with
\* its items is one more such call, under stricter conditions.
Enqueue(S) ==
    /\ budget = 0
    /\ S # {} /\ \A i \in S : status[i] = "absent"
    /\ \A i \in S : Admits(MissionOf[i], {j \in S : MissionOf[j] = MissionOf[i]})
    /\ status' = [i \in Items |-> IF i \in S THEN "pending" ELSE status[i]]
    /\ remaining' = [i \in Items |->
            IF i \in S /\ AuthorityOf(i) = "active" THEN Cardinality(NotDone(i))
            ELSE remaining[i]]
    /\ failures' = [i \in Items |->
            IF i \in S /\ AuthorityOf(i) = "active" THEN Cardinality(FailedDeps(i))
            ELSE failures[i]]
    /\ UNCHANGED <<authority, job, concluded, budget>>

\* The status column alone changes, with the trigger behind it.
SetStatus(next) ==
    /\ status' = next
    /\ job' = Queued(Triggered(next))

\* queryDue and claimItemWithAuthority, or listApprovalCandidates and
\* parkItemForApproval: "running" is either, for both hold the same conditions.
\* The claim does not read the counters again: they cannot turn against an item
\* that is still satisfied.
Claim(i) ==
    /\ budget = 0
    /\ Due(i)
    /\ SetStatus([status EXCEPT ![i] = "running"])
    /\ UNCHANGED <<authority, remaining, failures, concluded, budget>>

\* settleClaimedItem, or the decision that refuses a request.
Settle(i, outcome) ==
    /\ budget = 0
    /\ status[i] = "running"
    /\ SetStatus([status EXCEPT ![i] = outcome])
    /\ UNCHANGED <<authority, remaining, failures, concluded, budget>>

\* recover: the items of S ran under a dead engine and are held.
Recover(S) ==
    /\ budget = 0
    /\ S # {} /\ \A i \in S : status[i] = "running"
    /\ SetStatus([i \in Items |-> IF i \in S THEN "parked" ELSE status[i]])
    /\ UNCHANGED <<authority, remaining, failures, concluded, budget>>

\* checkMissionComplete.  A later item of the mission may still be enqueued, and
\* is then never due.
Conclude(m) ==
    /\ budget = 0
    /\ m \notin concluded
    /\ Present(m) # {} /\ \A i \in Present(m) : status[i] \in Terminal
    /\ concluded' = concluded \cup {m}
    /\ UNCHANGED <<status, authority, remaining, failures, job, budget>>

\* reconcileRuntimeAdmission, reconcileUnsupportedKinds and
\* reconcileNonExecutableTriggers: an item that cannot run is held or failed.
Quarantine(i, outcome) ==
    /\ budget = 0
    /\ i \in Unfit
    /\ status[i] \in {"pending", "running", "parked"} \ {outcome}
    /\ SetStatus([status EXCEPT ![i] = outcome])
    /\ UNCHANGED <<authority, remaining, failures, concluded, budget>>

-----------------------------------------------------------------------------
(* The migration to normalized authority.                                  *)

\* prepareNormalizedDependencyMigration: edges and counters, but no dispatch.
Prepare(m) ==
    /\ budget = 0
    /\ authority[m] = "none"
    /\ IF ValidGraph(Present(m))
       THEN /\ authority' = [authority EXCEPT ![m] = "migration-pending"]
            /\ remaining' = [i \in Items |->
                    IF i \in Present(m) THEN Cardinality(NotDone(i)) ELSE remaining[i]]
            /\ failures' = [i \in Items |->
                    IF i \in Present(m) THEN Cardinality(FailedDeps(i)) ELSE failures[i]]
       ELSE /\ authority' = [authority EXCEPT ![m] = "quarantined"]
            /\ UNCHANGED <<remaining, failures>>
    /\ UNCHANGED <<status, job, concluded, budget>>

\* Mutant: the cutover relies on the counters the preparation left.
NotSeeded(m) == {}

\* seedTerminalDependencyJobs: also for the items that were terminal when the
\* counters were computed, whose dependants are then counted down twice.
Seeded(m) == {u \in Present(m) : status[u] \in Terminal /\ job[u].state = "none"}

\* activateNormalizedDependencyAuthority.  The three digests it compares agree:
\* nothing changes the lists or the edges of a mission once it is prepared.
Activate(m) ==
    /\ budget = 0
    /\ authority[m] = "migration-pending"
    /\ authority' = [authority EXCEPT ![m] = "active"]
    /\ job' = Queued(Seeded(m))
    /\ UNCHANGED <<status, remaining, failures, concluded, budget>>

-----------------------------------------------------------------------------
(* reconcilePendingDependencies: one transaction, step by step.  It starts *)
(* with the missions that have no authority row.                           *)

LegacyPending == {i \in Items : status[i] = "pending" /\ AuthorityOf(i) = "none"}

Missing(i) == ~(Deps[i] \subseteq Present(MissionOf[i]))
Known(i) == Deps[i] \cap Present(MissionOf[i])

\* i depends on itself through items of P.
OnCycle(i, P) ==
    \A S \in SUBSET P :
        (Known(i) \cap P \subseteq S /\ \A j \in S : Known(j) \cap P \subseteq S) => i \in S

\* The depth-first search marks whole cycles, and an item of each; which others
\* it marks depends on the order it visits them in.
Cut(C, P) ==
    /\ \A i \in C : OnCycle(i, C)
    /\ \A i \in P \ C : ~OnCycle(i, P \ C)

\* The least set that holds F and every pending item behind it or a failure.
Behind(F, P) ==
    {i \in P : \A S \in SUBSET P :
        (/\ F \subseteq S
         /\ \A j \in P : (\E d \in Known(j) :
                d \in S \/ status[d] \in Failed) => j \in S) => i \in S}

BeginReconcile ==
    /\ budget = 0
    /\ budget' = MaxEdges
    /\ \E C \in SUBSET LegacyPending :
        /\ Cut(C, LegacyPending)
        /\ LET broken == C \cup {i \in LegacyPending : Missing(i)}
               doomed == Behind(broken, LegacyPending)
           IN  SetStatus([i \in Items |->
                    IF i \in broken THEN "failed"
                    ELSE IF i \in doomed THEN "blocked"
                    ELSE status[i]])
    /\ UNCHANGED <<authority, remaining, failures, concluded>>

\* The job with the fewest turns; among equals the order is that of timestamps.
NextJob(u) ==
    /\ u \in PendingJobs
    /\ \A v \in PendingJobs : job[u].turn <= job[v].turn

\* A job with nothing ahead is done, and costs nothing.
CloseJob(u) ==
    /\ budget > 0
    /\ NextJob(u)
    /\ Ahead(u) = {}
    /\ job' = [job EXCEPT ![u].state = "done"]
    /\ UNCHANGED <<status, authority, remaining, failures, concluded, budget>>

\* A chunk of the dependants is counted down, and blocked behind a failure; the
\* blocked ones queue jobs of their own, which this transaction may still reach.
AdvanceJob(u) ==
    /\ budget > 0
    /\ NextJob(u)
    /\ Ahead(u) # {}
    /\ LET chunk == Chunk(u, IF MaxEdgesPerJob <= budget THEN MaxEdgesPerJob ELSE budget)
           next == [i \in Items |->
                        IF i \in chunk /\ Blocks(u) /\ status[i] = "pending"
                        THEN "blocked" ELSE status[i]]
       IN  /\ remaining' = [i \in Items |->
                    IF i \in chunk THEN Decremented(remaining[i]) ELSE remaining[i]]
           /\ failures' = [i \in Items |->
                    IF i \in chunk /\ Blocks(u) THEN failures[i] + 1 ELSE failures[i]]
           /\ status' = next
           /\ job' = [Queued(Triggered(next)) EXCEPT
                        ![u].cursor = CursorAfter(u, chunk), ![u].turn = @ + 1]
           /\ budget' = budget - Cardinality(chunk)
    /\ UNCHANGED <<authority, concluded>>

EndReconcile ==
    /\ budget > 0
    /\ PendingJobs = {}
    /\ budget' = 0
    /\ UNCHANGED <<status, authority, remaining, failures, job, concluded>>

-----------------------------------------------------------------------------
Reconcile ==
    \/ BeginReconcile
    \/ \E u \in Items : CloseJob(u) \/ AdvanceJob(u)
    \/ EndReconcile

Dispatch(i) == Claim(i) \/ \E outcome \in Terminal : Settle(i, outcome)

Next ==
    \/ Reconcile
    \/ \E i \in Items : Dispatch(i)
    \/ \E i \in Items, outcome \in {"parked", "failed"} : Quarantine(i, outcome)
    \/ \E S \in Batches : Enqueue(S)
    \/ \E S \in SUBSET Items : Recover(S)
    \/ \E m \in Missions : Prepare(m) \/ Activate(m) \/ Conclude(m)

Spec == Init /\ [][Next]_vars

(***************************************************************************)
(* The scheduler reconciles at the head of every iteration and makes a     *)
(* claim wave after it, so an item that stays due between transactions is  *)
(* claimed, and a provider's answer is written: hence the strong fairness  *)
(* of what a transaction of the same loop holds up.  Nothing makes a       *)
(* caller enqueue or migrate, an engine die, or a registry refuse.         *)
(***************************************************************************)
FairSpec ==
    /\ Spec
    /\ WF_vars(Reconcile)
    /\ \A i \in Items : SF_vars(Dispatch(i))

-----------------------------------------------------------------------------
(* Properties.                                                             *)

\* An item runs only behind upstream items that are all done, whichever
\* authority governs its mission and however stale its counters are.
RunsBehindDone ==
    \A i \in Items : status[i] = "running" =>
        \A d \in Deps[i] : MissionOf[d] = MissionOf[i] /\ status[d] = "done"

\* The graph of a mission under normalized authority, or on its way there, is
\* complete and acyclic, through the migration and every later enqueueing.
GraphStaysValid ==
    \A m \in Missions :
        authority[m] \in {"migration-pending", "active"} => ValidGraph(Present(m))

\* The queue holds a job of exactly the terminal items of the active missions,
\* whether they ended before the cutover, by running, or by being blocked.
QueueComplete ==
    \A u \in Items :
        job[u].state # "none" <=> status[u] \in Terminal /\ AuthorityOf(u) = "active"

\* The upstream items of i that its counter may still count: not done, or done
\* with i ahead of the cursor of its job, or done before jobs were kept.
Owed(i) ==
    {d \in Deps[i] : \/ status[d] # "done"
                     \/ job[d].state = "none" /\ AuthorityOf(i) = "migration-pending"
                     \/ job[d].state = "pending" /\ job[d].cursor < i}

Projected(i) == AuthorityOf(i) \in {"migration-pending", "active"} /\ status[i] # "absent"

\* The counters never overstate: remaining_count is at most the number of
\* upstream items still owed, and failed_count is zero unless one has failed.
\* So an item whose upstream items are all done is never withheld once the
\* queue has passed it (queryDue reads the counters, lines 111-130).
ProjectionCatchesUp ==
    \A i \in Items : Projected(i) =>
        /\ remaining[i] <= Cardinality(Owed(i))
        /\ failures[i] > 0 => FailedDeps(i) # {}

\* A failure is not forgotten: a pending item of an active mission behind a
\* failed or blocked one still lies ahead of that one's job, or its own
\* counters say that it failed (lines 205-288, 771-780, 2212-2298).
FailureNotForgotten ==
    \A i \in Items : \A d \in Deps[i] :
        (status[i] = "pending" /\ AuthorityOf(i) = "active" /\ status[d] \in Failed) =>
            \/ job[d].state = "pending" /\ job[d].cursor < i
            \/ failures[i] > 0

\* The inductive invariant of the proofs.
DependencyInvariant ==
    /\ TypeOK
    /\ GraphStaysValid
    /\ QueueComplete
    /\ RunsBehindDone
    /\ ProjectionCatchesUp
    /\ FailureNotForgotten

\* A pending item is blocked only behind an upstream item that has failed or
\* fails with it, and failed only for a broken graph or a refused definition.
RefusedForCause ==
    [][\A i \in Items :
        status[i] = "pending" =>
            /\ status'[i] = "blocked" => \E d \in Deps[i] : status'[d] \in Failed
            /\ status'[i] = "failed" =>
                    \/ i \in Unfit
                    \/ i \in LegacyPending /\ (Missing(i) \/ OnCycle(i, LegacyPending))]_vars

\* Whatever the authority, the migration, the counters, the queue and its budget
\* do, the rows of items and missions only make the steps of the contract: the
\* claim trusts no counter, and reconcilePendingDependencies refuses, in either
\* mode, only what is broken or what such refusals lead to.
Contract == INSTANCE DependencyContract

ImplementsContract == Contract!Spec

\* An item whose upstream items are all done is dispatched, in a mission that is
\* active and not concluded.
SatisfiedRuns ==
    \A i \in Items :
        (/\ status[i] = "pending" /\ AuthorityOf(i) = "active"
         /\ MissionOf[i] \notin concluded /\ Satisfied(i)) ~> status[i] # "pending"

\* A failure that the counters of an item did not show when it was enqueued or
\* migrated reaches the item, however many jobs and dependants are in its way.
QueuedFailureReaches ==
    \A i \in Items :
        (/\ status[i] = "pending" /\ AuthorityOf(i) = "active" /\ failures[i] = 0
         /\ FailedDeps(i) # {}) ~> status[i] # "pending"

\* Every failure does (mission-types.ts:242, "Fail invalid/cyclic/failed-upstream
\* pending dependency chains durably").
FailureReaches ==
    \A i \in Items :
        (status[i] = "pending" /\ AuthorityOf(i) = "active" /\ FailedDeps(i) # {})
            ~> status[i] # "pending"
=============================================================================
