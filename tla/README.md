# A verification project for deckent

TLA+ models of deckent's autonomous engine, of the files its approvals are decided
in and of the loop that executes a sprint, the TLC configurations that check them
on small instances, and TLAPS proofs of their safety for every instance.
`PROJECT.json` ties every definition to the source lines it stands for.

All paths below are relative to the repository's `src/` directory; `mission-store/`
is `orchestra/autonomous/mission-store/`.

## 1. The system

deckent plans software work, hands it to AI providers and settles what comes
back.  Its parts, the state they keep, and what is hard about them:

| Component | State | Operations | Hard behaviour | Correct when |
|---|---|---|---|---|
| Mission store (`sqlite-mission-store.ts`) | SQLite: missions, work items with a claim, dependency graph, approvals, engine lease, recovery journal | acquire / renew / release the lease, claim, settle, recover, reconcile dependencies, park, decide, conclude | several processes on one file, lease takeover, crash with rows running | an item is attempted at most once, claims and settlements are fenced by the lease, every attempt is accounted for |
| Dependency authority (in `sqlite-mission-store.ts`) | edges, readiness counters, a queue of reconciliation jobs with cursors, one authority row per mission | enqueue, prepare and activate the migration, reconcile within a budget | counters that lag behind the rows, transactions that end mid-job, items that end mid-migration | nothing runs early, nothing is held for good, no failure is lost |
| Mission scheduler (`mission-scheduler.ts`) | promises in flight, per-tenant counts, a first fatal error | claim wave, dispatch, settlement, mission check, wait | callbacks between awaits, lease lost mid-wave, pool and tenant caps | every mission gets its verdict, once, over terminal items |
| Engine process (`mission-engine-wire.ts`) | the lease it holds, heartbeat timer | boot, recovery, loop, goal driver, shutdown | late timers, restart, two engines at once | a deposed engine does no harm |
| Worker invocation saga (`mission-worker-invocation-*.ts`, `core/invocation-receipt-store.ts`) | hash-chained receipts in a second database | dispatch record, provider call, transport event, takeover reconciliation | no transaction spans the two databases | a provider is called only behind a durable record; a receipt and its row never contradict each other |
| Approval coordinator (`mission-approval-coordinator.ts`) | rows of `work_item_approvals` | park, publish, apply a decision, re-authorise at the claim | a publisher that throws, decisions at any time | no guarded item runs without its decision |
| Goal driver (`goal-mission.ts`, `runGoalDrivenEngine`) | in-memory set of finalized goals | author a round, accept, exhaust | shares mission status with the scheduler; restart loses the set | a goal is settled once, by the driver |
| Approval store (`core/approval-store.ts`, `approval-file-cas.ts`, `approval-broker.ts`, `approval-expiry-driver.ts`) | one file per request, decision, receipt, tombstone; maps in each broker | submit, decide, sweep, poll, hydrate, deliver receipts, prune | processes racing over files read one by one, first link wins, a decision linked after the retirement | one decision per request, never lost, learnt by every process |
| File locks, writer lease (`core/file-lock.ts`, `mcp/writer-lease.ts`) | lock files | acquire, release, sweep | check-then-unlink, read-then-overwrite, crash between create and write | one owner, who alone releases |
| Sprint EXECUTE loop (`result-collector.ts`, `sprint-spawner.ts`, `scheduler-*.ts`, `dependency-scheduler.ts`, all in `orchestra/`) | task statuses, assigned and collected sets, a queue, `.result` and `.timeout` files, holds | collect, restart on request, dispatch (two engines), cascade, hand over, final sweep | workers that vanish or answer late, a step that throws half-way, decisions on a snapshot, barriers between writers, holds | a task runs once, behind its dependencies, alone on its files; the loop ends and hands over with nothing at work |
| Run flow (`core/run-flow-*.ts`, `orchestra/run-flow-*.ts`) | versioned run records, coordinator claims | transitions, claims, death sweep | stale coordinators, dead processes | one coordinator drives a run; a dead run is closed |
| Nervous system (`nervous/`) | pending approvals in memory, IPC files | accept, reject, execute, panic gate | several pollers of one queue | an accept reaches its owner once |
| IPC registry, event streams, provider limits, sprint life cycle | files and SQLite tables | registration, append, reserve, phase changes | later candidates | |
| Worker backends, providers, connectors, CLI, API, dashboard, desktop, memory, docs | | I/O, transport, presentation | outside a state model | |

How they interact: the owner's CLI (or a schedule) starts an **engine process**,
which opens the **mission store**, takes the engine lease, recovers what an
earlier engine left, and runs the **scheduler**.  The scheduler claims items from
the store and starts dispatches, each a promise that goes through the **worker
invocation saga** to a provider and comes back to settle its row.  Guarded items
go through the **approval coordinator**, which talks to the **approval store** in
files. A sprint is executed by its own **loop**, which starts workers through a
backend, meets them in the artefact files of the tasks only, and takes requests
from the **nervous system** through a file.  The store is shared state between processes; within a process everything
runs on one event loop, so interleaving happens at awaits, and between processes
at every store operation.

## 2. The modules

| Module | What it is |
|---|---|
| `MissionStore` | The durable tables and one operator per SQLite transaction |
| `MissionEngine` | Engine processes over that store: boot, loop, approvals, dispatches, crashes, clock, receipts. The specification, its properties and its fairness |
| `DispatchContract` | The abstract promise of dispatch: item phases and mission verdicts, with no process in sight |
| `DependencyContract` | The abstract promise of the dependency graph, shared by `MissionDependencies` and `MissionEngine` |
| `DecisionRegister` | The abstract promise of the approval directory: a register written once |
| `ExecuteContract` | The abstract promise of EXECUTE to the phases around it |
| `MissionInvariant` | The inductive invariant `SafetyInvariant` as named conjuncts |
| `MCMissionEngine` | Instances of the engine for TLC |
| `MissionDependencies` | The dependency authority: enqueueing, the migration from JSON lists to normalized edges, the reconciliation queue |
| `MCMissionDependencies` | Instances of the dependency authority for TLC |
| `MissionDependencies_proofs` | Its proofs, with the lemmas about the first elements of a finite set they need |
| `ApprovalStore`, `MCApprovalStore` | Several processes over the files of one approval request, and its instance |
| `ApprovalStore_proofs` | Its proofs |
| `SprintLoop` | The EXECUTE loop of a sprint beside its workers: every step of a tick but the dispatch |
| `SprintReducer`, `MCSprintReducer` | The loop with the `reducer` engine, its properties and its fairness; its instance |
| `SprintLegacy`, `MCSprintLegacy` | The loop with the default `legacy` engine; its instance |
| `SprintReducer_proofs` | Proofs of the loop with the reducer engine |
| `MissionEngine_proofs` → `MissionSafety_proofs` → `MissionEpoch_proofs` → `MissionReceipts_proofs` → `MissionContract_proofs` | The proofs, each extending the one before |

### MissionStore

Every operator is one IMMEDIATE transaction or one guarded UPDATE, so it is one
atomic step, and it takes the whole WHERE clause as its guard.  `lease` is the
singleton row of `mission_engine_lease` with `expires_at_ms - now` as a countdown.
`row[i]` has the status, the revision and the claim columns; a claim is
`[item, epoch, revision]`, which stands for the fresh attempt UUID and the fence
token the code compares.  `approval[i]` joins `publish_state` and
`decision_state`.  `recovered` and `acked` are the append-only journal tables.

### MissionEngine

`pc[e]` walks `runV2Engine` and `runMissionScheduler`:
`off → boot → receipts → top → reconcile → decide → park → publish →
repropagate → project → claim ⇄ commit → wait → woken → top`, with `drain` on
abort, and `close → closed` for the `finally` block.  `dead` is a crash.

Each dispatch promise is a record in `flight[e]` with its attempt, a phase and
the verdict it will settle to:
`claimed → admitted → granting → executing → returned → settling → finally`.
Phases within one synchronous callback (`admitted`, `granting`, `settling`) run
without any other callback of that process (`InTurn`), but other processes, the
clock and a crash may come between their store operations.  A flight starts a
turn only while the loop is at an await (`AwaitPCs`); a process that has left
the loop (`closed`) still has its flights in the air, as in the code.

The receipts are `opened` (a `dispatch_started`, with the lease epoch of the
time), `exited` (the provider's own transport event) and `orphaned` (closed as
unknown by a takeover).  `issued`, `settled`, `called` and `delivered` are history.

Correspondence of the actions: `Acquire`, `Recover`, `CloseReceipt`,
`AckRecovery`, `LeavePending` are the boot; `Top` … `ProjectDone` the head of an
iteration; `ClaimNothing`, `Select`, `Commit` the claim wave; `Begin` …
`Finally` the life of a dispatch; `Renew` the heartbeat; `Close` the `finally`.
`DecideDone` lists the items to be parked (`cand`), and `Park` takes them one by
one: the UPDATE repeats all of the query but the condition that there is no request
yet (`Parkable`), so an item listed before another engine took over may be decided,
or claimed, when its turn comes.

### The contracts and the refinements

Each detailed specification is shown to implement an abstract one, by TLC on its
instance and by a theorem for every instance.

| Contract | Implemented by | Refinement mapping |
|---|---|---|
| `DispatchContract` | `MissionEngine` (`ImplementsContract`) | phase of an item ← `PhaseOf`, verdict of a mission ← `mission` |
| `DependencyContract` | `MissionDependencies` (`ImplementsContract`) | `status` and `concluded` as they are; authority rows, counters, queue and budget hidden |
| `DependencyContract` | `MissionEngine` (`KeepsDependencyContract`) | status ← `RowOf`, concluded ← the missions with a verdict; no item is unfit |
| `DecisionRegister` | `ApprovalStore` (`ImplementsRegister`) | filed ← `request`, value ← `Held` (the tombstone, or the decision file), old ← its age, known ← `mem`, accepted ← `answers` |
| `ExecuteContract` | `SprintReducer` (`ImplementsContract`) | phase ← `PhaseOf` (a task has its verdict once it is collected), worked ← `ran`, mode ← `Mode` |

**DispatchContract.** An item is `waiting`, `inflight`, `done`, `failed`, `refused` or `held`.
`PhaseOf` maps a row to it; "parked" is `held` once an attempt exists and
`waiting` before, so the contract says that an interrupted attempt is never
redriven although the same column value is used for an item that waits for
approval.

**DependencyContract.** An item runs only behind done items of its own mission, is
refused only because its place in the graph is broken or because such a refusal
leads to it, and ends once. The two specifications of the mission store, one with a
fixed graph and processes that crash, the other with a growing graph and no process,
implement this one contract. `RowOf` shows an item that was parked for an approval,
or approved and not yet claimed again, as `running`: that is the abstraction
`MissionDependencies` makes of approvals, and `KeepsDependencyContract` justifies it.

**DecisionRegister.** It is written at most once, by a human or by a timeout that is
due; whoever is told anything is told its value; the request goes only when the value
is old. A link that lost its race, a decision linked behind a retirement and taken
back, a scan that is out of date and a crash half-way through a retirement are all
stutters.

**ExecuteContract.** A task is worked on only behind done dependencies, beside no
other writer of its files and within the worker limit; it gets one verdict, done only
if it was worked on; the phase is handed over with nothing at work. `Attempt` is a
worker started without a change of phase: a restart, or a start that is taken for
failed although a worker runs.

### MissionDependencies

`MissionEngine` has one fixed graph in the default mode, JSON lists.  This module
opens that up and closes the rest of the engine: who holds the lease and what a
dispatch does is `Claim` and `Settle`, and the graph grows and changes its
authority.

`authority[m]` is the row of `mission_graph_authorities`: `none` (JSON lists),
`migration-pending`, `active`, `quarantined`.  `remaining` and `failures` are the
counters of `work_item_dependency_readiness`; `job[u]` is the row of
`mission_dependency_reconcile_queue` for the upstream item `u`; `concluded` holds
the missions with a verdict.  `reconcilePendingDependencies` is one transaction
and its steps are `BeginReconcile` (the missions with JSON lists), then
`AdvanceJob` and `CloseJob` in the order of turns, then `EndReconcile`; `budget` is
what is left of `maxEdges`, and while it is positive no other action is enabled.
An `AdvanceJob` that spends the budget ends the transaction in the middle of a job.

`Enqueue` is `enqueueItem` and `enqueueItems`, `Prepare` and `Activate` the two
steps of the migration, `Recover` and `Quarantine` what a restart or a runner
registry does to a row, `Conclude` the mission verdict.  `Triggered` is the
SQLite trigger behind every change of the status column.

The code keeps two readings of the same question: `queryDue` filters by the
counters *and* by the edges, and the claim reads the edges again.  The properties
say why both are needed: the counters may understate (`RunsBehindDone` fails
without the edges) and must not overstate (`ProjectionCatchesUp`).

### ApprovalStore

The state is the files of one request id (`request`, `decision`, `tomb`, `receipt`)
and, per process, which operation it is in (`part`, `pc`), what it has read so far
(`view`), the decision it is about to link (`draft`) and what its broker remembers
(`mem`, `seen`). Every system call on a shared file is a step of its own: a scan
lists the directory and then reads the files one by one, a publication is a link
that fails when the name exists, a retirement writes the tombstone and then unlinks
twice. Between any two of them another process may run and a process may crash.

`StartSubmit` … `SubmitLink` are `submit` and `submitLifecycle`; `StartDecide`,
`Look`, `TransitionChecks`, `TransitionLinks`, `TransitionConfirms` are `decideAt` with
the store's `transition`; `StartClose` and `CheckExpired` are a `decideChecked` that
comes too late, which polls and has its own broker expire; `SweepCloses` … `SweepEnds` are `sweepExpired`; `PollList`,
`PollRead`, `PollSettles` are `checkForExternalDecisions`; `Deliver`, `Retire`,
`EraseRequest`, `EraseDecision` are a tick's delivery and prune; `Restart` and the
`Hydrate…` steps a new broker. `After` says in which order the code chains them.

`verdict` and `answers` are history: the decision linked first for the live request,
and what deciders were told. `Undo` is the take-back of a decision that was linked
behind a retirement.

### SprintLoop, SprintReducer, SprintLegacy

`pc` is the step of a tick: `collect` (with the reaper at its start), `drain` of the
respawn requests, `act` on the decision and then the cascade, `check` behind an
error, `sweep` after the loop, `ended` or `failed`. `todo` holds what the step has
still to visit, so that workers end, requests arrive and holds trip between any two
visits. `artefact[t]` is what a reader finds on disk for a task, `live[t]` the number
of workers the backend runs for it, `assigned` and `collected` the two sets of
`waitForResults`. `first` is the tick before the watcher loop, which has no armor,
no drain and no sweep. `ran`, `loose` and `cut` are history.

`Decide` is the reducer: `Doomed` are its cascade skips, `Ready` what nothing blocks,
`Chosen` the first of them that fit the slots. The effects are then visited one by
one: `SpawnLands`, `SpawnHeld`, `SpawnRefused`, `AdmissionFails`, `SpawnFails` and
`SpawnFailsLate` are the ways `executeSpawnTask` ends. `CloseDoomed` is what the
decision does to its skips at once; one whose NO_GO does not persist stays PENDING,
and the next decision closes it. Under a hold only the skips are closed and the queue
is left as it is. `Collect`, `Park`, `Skip`, `DrainRestart` and `Sweep` have a twin
that throws, and `Armor` is what the loop makes of it: the tick is run again, or, past
the limit or for an error that is passed on at once, EXECUTE fails.

`artefact[t]` is `lapsed` when the loop has written the result of a timeout
itself and the evaluation threw (`Evidence`): the next tick reads that file like a
worker's.

`Barrier(t)` are the synthetic edges of `execution-topology.ts`: a writer waits for
the previous writer of each of its files. The barrier is gone once that one is
collected, which is why `executeSpawnTask` looks for active writers again.

`SprintLegacy` replaces `Decide` by the four closures of `runLegacyTick`: `Pop` and
`Refill` (`processQueue`), `Respawn` (`respawnEligibleTasks`), `Rescan`
(`forceRescanIfIdle`), `DispatchReady`.

## 3. Abstractions

- **Data.** Titles, specs, results, digests, audit and progress rows are left out.
- **One graph, fixed** (`MissionEngine`). List missions created in one transaction
  with a validated acyclic mission-local graph; legacy dependency mode (the
  default); one runner registry; kind `task`. Enqueueing later and normalized mode
  are `MissionDependencies`; changing registries are not modelled.
- **Dependencies.** A list of dependencies is a set of items, so malformed JSON and
  repeated entries, which quarantine a migration like any broken graph, do not
  occur. The digests that `activateNormalizedDependencyAuthority` compares are left
  out: no operation changes the lists or the edges of a prepared mission. A terminal
  status is final, so an upstream item has one job although the key of the queue
  has its revision and outcome too. An item parked for an approval counts as
  running: it was parked under the conditions of a claim, which stay true
  (`RequestsAlwaysRest` and `DependencyContractKeptByEngine` prove it of
  `MissionEngine`, where approvals are modelled). The
  counters are read once, in `queryDue`, and the claim reads only the edges; the
  two are one step because a counter cannot turn against an item that is still
  satisfied. Jobs with the same number of turns are ordered by timestamps in the
  code and in any order here. The search for cycles marks any set of whole cycles
  that leaves none. Items imported with a status other than pending have no
  dependencies and are left out. Two missions stand for any number; a mission is
  concluded by its items only, not by the goal driver. No caller in `src/` opens the
  store in normalized mode or runs the migration yet: the module models the store's
  contract to them.
- **Merged steps.** `Begin` merges the claim checks before the dispatch record;
  `OpenReceipt` merges `claimDispatch` with `dispatch_started`; `Grant` merges the
  last check with the call (synchronous, no store write between). `HoldsLease`
  and the operation it guards are separate steps wherever both touch the store.
- **Unreachable path.** A claim that fails while the lease is held needs another
  writer of the same row; with one lease holder nothing else claims, so
  `claimItemWithAuthority` returning null is modelled only with a lost lease.
- **Unreachable path.** The `.catch` of a dispatch promise
  (`mission-scheduler.ts:252`) is reached by a store that throws, and by nothing
  else: a `DispatchFn` never rejects (`mission-dispatch.ts:153`), as the coordinator
  turns every error into an outcome (`mission-worker-invocation-coordinator.ts:713`).
  A store that throws outside a lost lease is not modelled.
- **External.** The clock, a crash, run-to-completion of a callback, and the
  decisions of the approval store are environment.
- **Time.** `Ttl` counts ticks. With `Punctual = FALSE` a lease may lapse at any
  time under a live engine (a blocked event loop, a suspended laptop); with TRUE
  the renewal timer always fires in time. Safety runs use FALSE.

**ApprovalStore.**
- One id; the operations treat ids apart. Contents are a number and a kind; numbers
  that nothing refers to serve again, so any number of decisions may be made.
- A request read (tombstone, then request) is one step, `Live`; see its comment.
- A process may sleep past the retention at any step; clocks are read once per
  operation, as in the code, and kept in `late` and `cut`.
- Left out: policy-transition receipts, the SLA journal, quarantined files, the
  revisioned files with their lock, the set of receipts already delivered. The
  duplicate check of `submit` against the broker's own map is dropped, so the model
  files a request more often than the code.

**The EXECUTE loop.**
- Tasks are numbered in the order of the topology. Which of a task's dependencies
  is named as the failed one is open: the code asks whether the first failed one has
  ended, the model whether any has (`CanSkip`, `CanPark`), a superset. Effects are visited in any order, a superset of
  the decision's order.
- MANUAL_REVIEW_REQUIRED is NO_GO to the loop; CLAIMED and TESTING are EXECUTING. The
  verdict on a real result is open: DONE, NO_GO or PAUSED. `result` stands for any
  answer of a worker, also the one its exit trap writes.
- `SettledCascades` is `cascadeDependents` of a failure disposition, which is true
  unless it is overridden. The run has TRUE. A settlement with a task behind it takes
  more faults than the run has, so FALSE tells nothing apart there (three faults do);
  the proofs cover both values.
- `Reap` is fair where the backend knows its workers. While an inventory is `unknown`
  the code reaps nothing (`orchestra/result-collector.ts:2091`); the Docker backend
  answers so for a task it has not observed, as after a restart of the coordinator,
  which the model does not have.
- The dependency pipeline is on (the default) and the strategy is `continuous`.
- `TripHold` is the run budget and the cost guard; both stop dispatch for good.
- Every failure, respawn request and hold counts as a fault, and `MaxFaults` bounds
  their sum. A kill that fails and a start whose projection fails leave `loose` tasks,
  for which the code makes no promise.
- A tick's errors count up when they are equal; any later error may be equal or not.
- Left out: FIX tasks and their lineage (EXECUTE plans none), provider holds, exact
  Docker attempts, questions of workers, failures of the first wave and of settlement
  writes, checks of the executor that repeat the decision's and cannot fail between
  the two. `cascadePausedAtQuiescence` has nothing to close without FIX tasks: a task
  that is paused before collection and no repair follows has its dependencies done.
- The environment is followed until EXECUTE is over.
- The legacy engine is modelled for one question: `processQueue`'s kill and refill are
  two steps, and what the shared loop does is the same.

## 4. The runs

| Run | Instance | Shows |
|---|---|---|
| `takeover` | 2 engines, Ttl 1, not punctual; 3 items (a fork: two behind the first, one of them guarded), pool 2 | `SafetyInvariant` (with `TypeOK`, `MissionVerdictSound`, `VerdictOwed`, `RecoveryInvariant`, `RequestsRest` and `FewMoves` among its conjuncts), `SettledIsFinal`, `OnlyLeaseHolderMovesRunning`, `ImplementsContract`, `KeepsDependencyContract` |
| `restarts` | 3 engines, 1 item, pool 1, not punctual | `OneAttemptPerItem`, `NoForeignRunning`, `AttemptAccounted`, `ReceiptsAgree` over two takeovers in a row |
| `tenants` | 1 engine, 4 items of 3 tenants, two of them of one; cap 1, pool 2 | `PoolRespected` |
| `settles` | 1 engine, fair, punctual; 3 items (two roots, a guarded item behind the first) | `DispatchWasEntitled`, `MissionsResolve` |
| `orphans` | 2 engines, fair, with crashes | `OrphansAreParked`, `OrphanReceiptsAcknowledged` |
| `notifies` | 1 engine, 2 parallel items | **violated**: `NotifiedAtMostOnce` |
| `crash_gap` | 2 engines, fair, with crashes | **violated**: `MissionsResolve` |
| `dependencies` | 4 items in 2 missions: a root, an item behind it, a join behind both; an item behind itself. Budget 2 edges, 1 per job | `TypeOK`, `GraphStaysValid`, `QueueComplete`, `RunsBehindDone`, `ProjectionCatchesUp`, `FailureNotForgotten`, `ImplementsContract`, `SatisfiedRuns`, `QueuedFailureReaches` |
| `late_item` | 2 items under normalized authority | **violated**: `FailureReaches` |
| `approvals` | 2 processes: one files, polls and decides, one decides and ticks; 4 decisions in use, 1 by a human, 1 crash | `TypeOK`, `OneVerdict`, `VerdictDurable`, `PendingNeverPruned`, `ImplementsRegister`, `OverdueCloses`, `EveryoneLearns`, `TimeoutReported` |
| `sprint` | reducer engine, 4 tasks, 3 of which write one file and one of these waits for the fourth; 2 workers, 2 attempts, 2 faults | `TypeOK`, `DependenciesHonoured`, `WritersExclusive`, `OneWorkerPerTask`, `SkippedNeverRan`, `HandOverQuiescent`, `CollectedIsFinal`, `ImplementsContract`, `ExecuteEnds` |
| `sprint_legacy` | legacy engine, 4 tasks, 2 of which write one file; 2 workers, no fault | **violated**: `NoDuplicateAssign` |

**Bounds.** `Engines` is the set of process *instances*: a restart is a fresh
instance, so two of them give one takeover and three give a takeover of a
takeover; the epoch never exceeds their number. A crash is allowed while another
instance can still start, so the last one cannot crash: this bounds restarts and
loses no interleaving of the earlier ones. Two flights are the least that
interleave, and three items the least with a dependent, a sibling and a guarded one.
`takeover` has them as a fork, where nothing runs beside the root and the guarded
item is parked, claimed and recovered beside its sibling. `settles` has them with two
roots, where the settlement of one root makes the guarded item due while the other is
in flight: a claim that looked at the last tick instead of the stored decision would
overtake its request. `restarts` has one item, since what a third instance adds is a
takeover of a takeover, which an attempt goes through alone. In `tenants` the third
tenant is what the pool turns away and the second item of the first what its cap turns
away; with two tenants the cap would imply the pool. The bounds matter only
to TLC: the proofs have none, and cover the larger instances.

In `dependencies` the join is the least graph in which one item is visited by two
jobs and one job has more dependants than a chunk, so that a transaction ends
between them; the chain lets a blocked item queue a job that the same transaction
reaches; the self-dependent item is the least cycle. Both missions start with JSON
lists, so items are enqueued, run, fail and are recovered before, between and after
the two steps of the migration. `NewV1` is used by `late_item`.

In `approvals` two processes are the least that race, and one crash lets the other
find what the first left. Four decisions are one of a human, two timeouts drafted at
the same time and the one on disk; the bound is on decisions in use, so sweeps and
ticks go on for ever. A late `decideChecked` counts as the human decision. That two
humans race is beyond the instance; `VerdictIsOne` and `RegisterImplemented`, proved
for any number of them, say what happens then. The safety properties and the
inductive invariant of the proofs were also checked with two human decisions and five
numbers, on a million states.

In `sprint`, tasks 2, 3 and 4 write one file, and 3 waits for 1. When 1 fails, 3 is
closed while 2 may still be at work, and the barrier in front of 4 is gone: the least
instance in which the last look at active writers decides. Two attempts are the least
with a delay and an exhaustion. Two faults let one failure meet another (a start that
fails, then a cascade that throws; a respawn request whose restart fails). The safety
properties, `ImplementsContract` included, also hold with three faults and either
value of `SettledCascades`, on 2.3 million states. `ImplementsContract` has the worker limit among its clauses, but with four
tasks no three can be at work at a time on other files, so in this instance the limit
binds only in the first wave: what is known of it beyond that rests on
`ContractKept` and `SlotsAlwaysRespected`, which are proved for any number of tasks
(five tasks with one fault, where it does bind, were checked too).

**Deadlock** is checked in every run but the two of the sprint; `Exited` lets the
engine stop once every instance has exited and the lease has lapsed. An EXECUTE loop
that has returned or thrown does stop.

**Symmetry** on instances is used in the two large safety runs, never with
liveness.

**Fairness** (`FairSpec`): weak fairness of each process's boot, loop and
flights, of the renewal timer and of time. The event loop runs every ready
callback and timer; a provider call returns or breaks because its executor has a
timeout. Nothing makes an owner start an instance, abort, or decide a request:
`MissionsResolve` therefore accepts a parked item as resolved, and speaks only of
engines that keep running. Weak fairness of `LoopStep` as a whole suffices
because in each loop state every continuing choice leads forward; a loop that
goes round for ever without resolving anything would be a violation.

`MissionDependencies` has weak fairness of the reconciliation and strong fairness of
the dispatch of each item: the scheduler reconciles at the head of every iteration
and claims after it, and the transaction itself (`budget > 0`) disables the claim
again and again. Each transaction ends, because every step of it spends budget,
closes a job or is the last (`TransactionsEnd`). Nothing makes a caller enqueue or
migrate.

`ApprovalStore` has weak fairness of the work a process has under way, since
synchronous code runs to its end, and strong fairness of its poll and tick timers,
which come up again whenever the event loop is free. Nothing makes anyone submit,
decide or restart: `OverdueCloses` asks for one ticking process that stays up,
`EveryoneLearns` for the process itself to stay up.

`SprintReducer` has weak fairness of the loop, whose watcher polls every five seconds
when no event arrives; of each worker's end, which its backend's time limit enforces;
of the delays; and strong fairness of the reaper, whose grace period has passed at
some tick and whose backend is assumed to know its workers by then. No fairness makes a fault, a request or a deadline happen.
`ExecuteEnds` names one state, `Stranded`, in which the loop waits for what only
another phase could do: a paused task, or a task that stands PENDING behind one. Of
that state the property promises nothing.

### The four violations

- **`notifies`.** The `finally` handler of each dispatch settles the mission
  whenever all its items are terminal. When two dispatches have both settled
  their rows before either `finally` runs, both settle and both notify. A test
  states "fires onMissionSettled once" (`tests/.../mission-scheduler.test.ts:128`);
  it uses a schedule in which this does not happen.
- **`crash_gap`.** An engine that dies after settling the last row and before
  that handler leaves the mission pending. A restart looks only at missions whose
  items its reconciliation changed, so "Settle a mission when all its items are
  terminal" (`mission-scheduler.ts:85`) fails for good. `VerdictsAlwaysOwed` proves
  that nothing else opens the gap: unless a process crashed, or left on a fatal error
  after it had attempted an item of the mission, some process still has the mission
  to look at.
- **`late_item`.** Under normalized authority an item enqueued behind an upstream
  item that has failed, and whose job is done, is counted as failed from the start
  and visited by no job: it is never due and never blocked, and its mission never
  ends. `mission-types.ts:242` says "Fail invalid/cyclic/failed-upstream pending
  dependency chains durably", and the JSON mode does
  (`tests/.../work-items-claim.test.ts:549`, "blocks a later item that depends on an
  already-blocked upstream"). `QueuedFailureReaches`, which passes, is what remains
  true: a failure that the counters do not show yet does reach the item.
- **`sprint_legacy`.** `respawnEligibleTasks` starts a task that is still in the queue
  and neither marks it as assigned nor takes it out. The next completion makes
  `processQueue` take it, and `spawnIfNotAssigned`, which looks at the marks and not at
  the status, starts a second worker. The comment on `assignedTaskIds` says it prevents
  the 'duplicate TASK_ASSIGN pattern' (`orchestra/result-collector.ts:1484`), and the
  one on `pickFromQueue` that a task in the queue has not yet been spawned
  (`orchestra/sprint-spawner.ts:2073`). The reducer engine, for which `OneWorkerPerTask`
  is proved, has one ledger and does not do this.

## 5. The proofs

Every safety property that a passing run checks, refinements included, is proved for
all values of the constants, from the named assumptions of the modules.

**The mission engine** assumes what `MissionStore` and `MissionEngine` name:
the dependency graph stays within a mission, guarded items are items,
`NoEngine` is no engine, `Ttl` and `PoolSize` are positive. Nothing is assumed of
how the clock and the timer behave, of the number of engines, or of acyclicity.

The properties are not inductive. `MissionInvariant` strengthens them in layers:

1. **Store.** That an item is attempted once needs `AttemptedNotPending`: an
   attempted item is not pending *and has no open request*, or an "allowed" could
   still make it pending. `ClaimsIssued` ties the claim columns to the attempts.
   `DispatchWasEntitled` stays true because a decided request and a done row
   never change again.
2. **Epochs.** `NoForeignRunning` needs `OffIsInert` (an instance that has not
   started holds nothing, so the epoch it takes is new), `EpochsPast` and
   `FlightsOwned`.
3. **Receipts.** `ReceiptsAgree` needs `FlightsReceipted`: a flight reports done
   or failed only after its transport event. `RecoveryInvariant` is the safety half of
   `OrphanReceiptsAcknowledged`: a receipt that an earlier engine opened for a
   journaled attempt is acknowledged or on the list of the engine that took over
   (`ReceiptsOwed`), which it works off before it leaves its boot
   (`TodoAtReceipts`, `NotifiedInTurn`). The ledger gains no such receipt behind
   the list: who opens one does so under the epoch of the lease, not an earlier one.
4. **Pool.** The scheduler counts flights, the property counts rows. `PromisePerRow`
   puts a flight that has not come to its end behind every row running under the lease,
   so the rows inject into the flights (`RowsBehindFlights`); `CommitHasRoom` and
   `TurnsEnd` say that between the count and the claim no flight moves.
5. **Requests.** `RequestsRest`: an item with a request has its dependencies done,
   and rests while nobody has answered. It needs `RequestsGuarded` and that done is
   final.
   `FewMoves` ties the revision of a row to its status and its request: at most four.
6. **Verdicts owed.** `VerdictOwed` is the safety half of `MissionsResolve`: a mission
   whose items have all ended has its verdict, or a process that still has to look at
   it, or one that met a fatal error after it attempted one of its items, or some
   process has crashed. The last item to end was ended by a process that either keeps
   a flight in `finally` or has the mission in `changed` (`LastItemAnswered`), and
   neither is dropped but by a look at the mission (`AnswersStay`). It needs
   `ChangedAtHead`, since a new iteration forgets `changed`, `FlightsIssued`, and
   `OffIsCalm`, since a fresh instance takes a new epoch. TLC finds it violated when
   either of the two excuses is left out.
7. **Contracts.** Each action maps to a contract step or a stutter; the step
   lemmas reuse the invariant: `ClaimsIssued` and `AttemptedNotPending` for
   `DispatchContract`, `RequestsRest` and `MissionVerdictSound` for
   `DependencyContract`, whose `Refuse` also needs that the items behind a failure
   are a least set.
8. **Iterations end.** Whatever a process does, but renew its lease, moves the store,
   goes on to a later stage of its iteration, or leaves less to do in that stage
   (`Forward`), until it starts the next one; and no process takes back what the store
   has got to (`NeverBack`). With the bounds on what a row, a request and a receipt go
   through, an iteration over a finite store ends: a decision, a failed publication or
   a lost lease in the middle of it holds it up for good in no order.

| Theorem | Module |
|---|---|
| `TypeCorrect` | `MissionEngine_proofs` |
| `StoreSafe`, `AtMostOneAttempt`, `DispatchesEntitled`, `AttemptsAccounted`, `VerdictsSound`, `SettledStays`, `RequestsAlwaysRest`, `RowsMoveFinitely` | `MissionSafety_proofs` |
| `HolderRunsAlone`, `OnlyHolderMoves`, `PoolHolds` | `MissionEpoch_proofs` |
| `LedgerAgrees`, `VerdictsAlwaysOwed`, `ReceiptsAlwaysOwed`, `BootAlwaysSettlesReceipts`, `Safe`, `IterationsEnd` | `MissionReceipts_proofs` |
| `ContractImplemented`, `DependencyContractKeptByEngine` | `MissionContract_proofs` |
| `DependencyTypeCorrect`, `GraphAlwaysValid`, `QueueAlwaysComplete`, `AlwaysRunsBehindDone`, `ProjectionAlwaysCatchesUp`, `FailureNeverForgotten`, `AlwaysRefusedForCause`, `DependencyContractKept`, `TransactionsEnd` | `MissionDependencies_proofs` |
| `StoreTypes`, `VerdictIsOne`, `VerdictIsKept`, `PendingIsKept`, `RegisterImplemented`, `OperationsEnd` | `ApprovalStore_proofs` |
| `SprintTypes`, `DependenciesAlwaysHonoured`, `WritersAlwaysExclusive`, `WorkersAlwaysSingle`, `SkippedNeverStarts`, `HandsOverQuietly`, `CollectedStays`, `ContractKept`, `SlotsAlwaysRespected`, `DoneAlwaysRestsOnWork`, `TicksEnd` | `SprintReducer_proofs` |

**The dependency authority.** Its six invariants are inductive together
(`DependencyInvariant`); the last two are not by themselves. `ProjectionCatchesUp`
bounds `remaining_count` by the number of upstream items an item is still *owed*:
not done, or done with the item ahead of the cursor of their job, or done during a
migration that has queued no job yet. Three facts carry it: the edges of a projected
item stay within its mission (`GraphStaysValid`), so a change of authority concerns
all of them; an item that ends gets a job that has everything ahead
(`QueueComplete`); and a chunk takes the first dependants, so the new cursor is
behind every one it left out (`FirstElements`, proved from the finiteness of the
set and the pigeonhole theorem). `AlwaysRefusedForCause` follows from the minimality
of the set of items behind a failure; no run lists it, since `Refuse` of the contract
says more. In `DependencyContractKept` the steps of a transaction map to refusals one
by one: the legacy pass to one `Refuse` whose roots are broken and whose rest is a
least set, each chunk to a `Refuse` without roots, everything else of the
reconciliation and of the migration to a stutter. `TransactionsEnd` is the measure
behind the fairness of the reconciliation: budget first, then the jobs that are
pending. The assumptions are those of
`MissionDependencies`: finitely many items with positive ids, edges between items,
and the bounds that the code checks on its options. Neither acyclicity nor anything
about the size of the budget is assumed.

**The approval store.** `OneVerdict` needs to know, for each process and each step of
its operation, what its draft and its view may still be: a draft is new and differs
from the verdict until it is linked, a view that shows a decision shows the verdict or
one that is about to be taken back, and a tombstone only ever keeps the verdict.
`IInv` of `ApprovalStore_proofs` states this by step; each action is proved to keep it by
way of two lemmas, one for steps that change no file (`QuietStep`) and one for those
that write (`WritingStep`). `RegisterImplemented` needs that `Held` is the verdict in
every state (`HeldIsVerdict`), so that files and history tell the same story, and one
more invariant, `RegisterInvariant`: behind every link there is a request that was
seen and a clock that is past `expiresAt` if the draft is a timeout (`Backed`).
`OperationsEnd` says that the operations are wait-free: each step goes on to a later
part or step of its operation or leaves fewer files to read, also one that finds the
name taken, the file gone or the id retired, and no other process adds to that. It is
the measure behind the fairness of `Works`. The
assumptions say who the processes are, that the bounds
are naturals and that `None` is no decision; no bound's size is used.

**The EXECUTE loop.** `DependenciesHonoured` needs that a task that is done has been
collected, so nothing reopens it (`VerdictsCollected`), and that what a decision chose
stays startable until its effect is applied (`ChosenStartable`). `SkippedNeverRan` needs
that a task closed half-way is collected again before anything is dispatched
(`SkipComesFirst`), which rests on the order of the steps of a tick. `RanBehindDone` is
the stronger form of the first: whoever ever had a worker has its dependencies done.
That the reducer closes only tasks behind a failure (`DoomedBehindFailed`) follows from
the minimality of the set.

`ContractKept` adds three facts (`ContractInvariant`). `SlotsKept` counts what is at
work together with what the decision chose and has not started, because workers end
and restarts happen between the effects; that the decision fits the free slots is a
counting lemma on finite total orders, at most k elements have fewer than k before
them (`FewFirst`, by injecting each element into its rank). `ResultsRan`: a result on
disk is a worker's. `CutIsOver`: past a deadline nothing is started. Two results
follow from it without another look at the steps of the loop: the worker limit
(`SlotsAlwaysRespected`) and that done rests on work (`DoneAlwaysRestsOnWork`).
`TicksEnd` is the measure behind `ExecuteEnds`: each step of a tick goes on to a later
stage, or leaves less to visit, to collect or to close, and nothing outside the loop
adds to that. The assumptions: tasks depend on smaller numbers, the limits
are naturals, and at least one attempt is made.

**Only model-checked.** The liveness properties (fairness is beyond the prover), in
all four specifications: `MissionsResolve`, `OrphansAreParked`,
`OrphanReceiptsAcknowledged`, `SatisfiedRuns`, `QueuedFailureReaches`,
`OverdueCloses`, `EveryoneLearns`, `TimeoutReported`, `ExecuteEnds`. What a proof can
say of them is proved: that somebody still owes the verdict (`VerdictsAlwaysOwed`),
that the receipts of a dead engine are settled before its successor dispatches
(`BootAlwaysSettlesReceipts`), that a failure lies ahead of a job or shows in the
counters (`FailureNeverForgotten`), and that iterations, transactions, operations and
ticks decrease a measure (`IterationsEnd`, `TransactionsEnd`, `OperationsEnd`,
`TicksEnd`). What the measures leave to TLC is that a process is scheduled, that the
clock lets it keep its lease, and, for `EveryoneLearns` and `OverdueCloses`, that the
operations which are started again and again include the one that is needed.

## 6. The plan

1. *(done)* Mission store and engine, contract, safety proofs.
2. *(done)* `MissionDependencies`: normalized dependency authority, its migration
   and its reconciliation queue, with the proofs of its invariants.
3. *(done)* `ApprovalStore`: decisions, expiry, tombstones and prune over files, with
   the proof that a request has one decision.
4. *(done)* `SprintLoop` with `SprintReducer` and `SprintLegacy`: the EXECUTE loop, with
   the proofs of its safety under the reducer engine.

   *(done)* The four contracts, each implemented by a detailed specification and proved;
   one of them by both specifications of the mission store.
5. `RunFlow`: the life cycle of a run, coordinator claims, death sweep.
6. `GoalDriver`: rounds, acceptance and finalization over the store, its overlap
   with the scheduler's own verdict, restart of an accepted goal.
7. `FileLock`: ownership, sweeps, crash between create and write.
8. `NervousQueue`: several pollers of one approval queue.
9. The FIX phase around the EXECUTE loop: repair tasks, their lineage, the second call
   of `waitForResults`.

## 7. Not modelled

- **Goal driver, run flow, file locks, nervous queue.** State machines of their own,
  listed in the plan above and not written yet. Of the nervous system only the respawn
  requests are modelled, as `requests` of `SprintLoop`.
- **MCP writer lease.** The source calls it advisory: both of two writers go on, so it
  makes no promise that could be checked.
- **Approval store.** The revisioned files of `approval-file-cas.ts` with their lock, the
  SLA journal, policy-transition receipts and quarantine. Three facts of the code that
  no property states: `submitLifecycle` looks for no tombstone, so a retired id can be
  filed again and its waiters get the old decision; a receipt whose delivery fails
  holds back the receipts behind it and the prune of that tick; a closer that sleeps
  past the retention may have its closure retired before it wrote the receipt.
- **Sprint.** PLAN, EVALUATE, FIX, FINALIZE, checkpoints and resumption; exact Docker
  attempts; provider holds; the `legacy-fifo` strategy. `ExecuteEnds` excuses the state
  `Stranded`: with a repair to follow, a task that is paused before collection keeps a
  PENDING task behind its barrier or dependency from ever being dispatched, and that
  PENDING task keeps EXECUTE from handing over. Of the legacy engine only the duplicate
  start is checked. It shares the steps of the loop and keeps less than the reducer
  engine: a task that was paused and collected is opened again by
  `respawnEligibleTasks`, and since `findActiveWriteCollisions` does not see collected
  tasks a second writer of its file may start (`WritersExclusive`); `processQueue` can
  start a task again that a respawn started and that is already DONE
  (`CollectedIsFinal`). No document promises either of the legacy engine, so no run
  states them.
- **Scheduler journal.** Written, never read by the loop.
- Worker backends, providers, connectors, user interfaces, memory, documentation
  generation, ERP, KPI, marketplace and routing: I/O, transport or presentation with
  no protocol of their own that the properties above depend on. They are most of the
  repository's lines. The hash chain of the receipt ledger, which protects against
  tampering, is out of scope: only the state of a receipt matters to the protocol.
