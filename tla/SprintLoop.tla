------------------------------ MODULE SprintLoop ------------------------------
(***************************************************************************)
(* The EXECUTE loop of a sprint: waitForResults of result-collector.ts,    *)
(* which alone starts workers, collects what they leave, restarts stale    *)
(* ones on request, closes tasks behind a failed dependency and decides    *)
(* when to hand over to EVALUATE and FIX.  Workers run beside it, and the  *)
(* two meet in the artefact files of the tasks only.                       *)
(*                                                                         *)
(* This module has the state, the workers and every step of a tick but the *)
(* dispatch of new work; SprintReducer and SprintLegacy add the scheduler  *)
(* engines.  Tasks are numbered in the authored order that the topology    *)
(* keeps, so a task depends on smaller numbers only.                       *)
(***************************************************************************)
EXTENDS Integers, FiniteSets

CONSTANTS
    N,              \* tasks of the sprint
    Deps,           \* task -> the tasks it depends on
    Writes,         \* task -> the files it may write
    MaxWorkers,     \* resolveEffectiveWorkers
    MaxAttempts,    \* MAX_TRANSIENT_SPAWN_ATTEMPTS
    MaxSameErrors,  \* MAX_CONSECUTIVE_SAME_TICK_ERRORS
    SettledCascades, \* cascadeDependents of the failure disposition of a settlement
    MaxFaults       \* bound on failures, respawn requests and holds in a behaviour

Tasks == 1 .. N

ASSUME NAssumption == N \in Nat \ {0}
ASSUME DepsAssumption == Deps \in [Tasks -> SUBSET Tasks] /\ \A t \in Tasks : \A d \in Deps[t] : d < t
ASSUME WritesAssumption == DOMAIN Writes = Tasks
ASSUME SettledCascadesAssumption == SettledCascades \in BOOLEAN
ASSUME LimitsAssumption == MaxWorkers \in Nat /\ MaxAttempts \in Nat \ {0} /\ MaxSameErrors \in Nat
                           /\ MaxFaults \in Nat

VARIABLES
    status,      \* task.status
    assigned,    \* assignedTaskIds
    collected,   \* the ids in collected
    queue,       \* remainingQueue, kept in task order
    artefact,    \* what is on disk for a task: .result, .timeout or a host settlement
    attempts,    \* schedulerSpawnAttempts
    backoff,     \* tasks whose retryAfter is ahead
    live,        \* number of workers the backend runs for a task
    requests,    \* respawn requests the nervous system has written
    hold,        \* runBudgetHold, or the cost guard stops dispatch
    repair,      \* deferRepairableDependencyFailures: a FIX phase will follow
    pc,          \* the step of the tick
    first,       \* the tick before the watcher loop
    todo,        \* the tasks the step has yet to visit
    pass,        \* the tasks this cascade pass has parked or skipped
    errors,      \* consecutiveTickErrors
    faults,      \* failures, respawn requests and holds so far
    ran,         \* history: the tasks a worker was started for
    loose,       \* history: tasks whose kill or projection failed, or restarted over an artefact
    cut          \* history: the loop reached its deadline

tasks == <<status, assigned, collected, queue, attempts, backoff>>
world == <<artefact, live, requests>>
control == <<pc, first, todo, pass, errors>>
budget == <<hold, repair, faults>>
history == <<ran, loose, cut>>
vars == <<tasks, world, control, budget, history>>

Statuses == {"PENDING", "EXECUTING", "DONE", "NO_GO", "PAUSED"}
\* "lapsed" is the result that collectResults writes for a timeout.
Artefacts == {"none", "result", "timeout", "lapsed", "settled", "skip"}
Steps == {"collect", "drain", "act", "check", "sweep", "ended", "failed"}

TypeOK ==
    /\ status \in [Tasks -> Statuses]
    /\ assigned \subseteq Tasks
    /\ collected \subseteq Tasks
    /\ queue \subseteq Tasks
    /\ artefact \in [Tasks -> Artefacts]
    /\ attempts \in [Tasks -> 0 .. MaxAttempts]
    /\ backoff \subseteq Tasks
    /\ live \in [Tasks -> Nat]
    /\ requests \subseteq Tasks
    /\ hold \in BOOLEAN /\ repair \in BOOLEAN /\ first \in BOOLEAN /\ cut \in BOOLEAN
    /\ pc \in Steps
    /\ todo \subseteq Tasks
    /\ pass \subseteq Tasks
    /\ errors \in Nat
    /\ faults \in 0 .. MaxFaults
    /\ ran \subseteq Tasks
    /\ loose \subseteq Tasks

Having(s) == {t \in Tasks : status[t] = s}
Executing == Having("EXECUTING")
Uncollected == Tasks \ collected
DepsDone(t) == \A d \in Deps[t] : status[d] = "DONE"
Colliding(t, u) == t # u /\ Writes[t] \cap Writes[u] # {}

\* The uncollected tasks at work on a file that t would write.
Writers(t) == {u \in Executing \ collected : Colliding(t, u)}

\* The tasks that the authored dependencies lead from to t.
Upstream[t \in Tasks] == Deps[t] \cup UNION {Upstream[d] : d \in Deps[t]}

\* A writer waits for the previous writer of each of its files, unless the
\* authored dependencies order the two already.
Barrier(t) ==
    {u \in Tasks : /\ u < t /\ u \notin Upstream[t]
                   /\ \E p \in Writes[t] \cap Writes[u] :
                         \A v \in Tasks : u < v /\ v < t => p \notin Writes[v]}

\* The first wave, started before the loop: of the tasks without
\* dependencies, the first MaxWorkers that no earlier task shares a file
\* with are started, and the others queue.
Eligible == {t \in Tasks : Deps[t] = {}}
Dispatchable == {t \in Eligible : \A u \in Tasks : u < t => ~Colliding(t, u)}
Wave == {t \in Dispatchable : Cardinality({u \in Dispatchable : u < t}) < MaxWorkers}

Init ==
    /\ status = [t \in Tasks |-> IF t \in Wave THEN "EXECUTING" ELSE "PENDING"]
    /\ assigned = Wave
    /\ collected = {}
    /\ queue = Eligible \ Wave
    /\ artefact = [t \in Tasks |-> "none"]
    /\ attempts = [t \in Tasks |-> 0]
    /\ backoff = {}
    /\ live = [t \in Tasks |-> IF t \in Wave THEN 1 ELSE 0]
    /\ requests = {}
    /\ hold = FALSE
    /\ repair \in BOOLEAN
    /\ pc = "collect"
    /\ first = TRUE
    /\ todo = Tasks
    /\ pass = {}
    /\ errors = 0
    /\ faults = 0
    /\ ran = Wave
    /\ loose = {}
    /\ cut = FALSE

Fault == faults < MaxFaults /\ faults' = faults + 1

-----------------------------------------------------------------------------
(* Workers, timers and the nervous system, followed until EXECUTE is over *)

Over == pc \in {"ended", "failed"}

\* Mutant: the exit of a worker that a kill has taken off the list is counted too.
WorkerEndsTwice(t) ==
    /\ ~Over /\ t \in ran
    /\ live' = [live EXCEPT ![t] = @ - 1]
    /\ artefact' = IF t \in collected THEN artefact ELSE [artefact EXCEPT ![t] = "result"]
    /\ UNCHANGED <<tasks, requests, control, budget, history>>

\* A worker stops: with a result, killed by its backend's time limit, or
\* without a trace.  A result replaces whatever the file held.
WorkerEnds(t) ==
    /\ ~Over /\ live[t] > 0
    /\ live' = [live EXCEPT ![t] = @ - 1]
    /\ \E left \in {"result", "timeout", "none"} :
          artefact' = CASE t \in collected -> artefact
                        [] left = "result" -> [artefact EXCEPT ![t] = "result"]
                        [] left = "timeout" /\ artefact[t] = "none" ->
                              [artefact EXCEPT ![t] = "timeout"]
                        [] OTHER -> artefact
    /\ UNCHANGED <<tasks, requests, control, budget, history>>

BackoffEnds(t) ==
    /\ ~Over /\ t \in backoff
    /\ backoff' = backoff \ {t}
    /\ UNCHANGED <<status, assigned, collected, queue, attempts, world, control, budget, history>>

\* The nervous system takes a running worker for stale and asks for another.
RequestRespawn(t) ==
    /\ ~Over /\ status[t] = "EXECUTING" /\ t \notin requests
    /\ Fault
    /\ requests' = requests \cup {t}
    /\ UNCHANGED <<tasks, artefact, live, control, hold, repair, history>>

\* Budget evidence of a collected result, or the cost guard's own polling.
TripHold ==
    /\ ~Over /\ ~hold
    /\ Fault
    /\ hold' = TRUE
    /\ UNCHANGED <<tasks, world, control, repair, history>>

-----------------------------------------------------------------------------
(* The tick: "collect" what is on disk, "drain" the respawn requests,      *)
(* "act" on the engine's decision for the tasks in todo and then cascade.  *)

TickStarts == pc = "collect" /\ todo = Tasks

\* A step throws.  The watcher loop counts equal errors in a row and lets
\* the one above the limit through, and the two typed errors of an admission
\* at once; nothing catches the first tick's.
Armor ==
    /\ \E n \in {1, errors + 1} :
          /\ errors' = n
          /\ pc' \in IF first \/ n > MaxSameErrors THEN {"failed"} ELSE {"check", "failed"}
    /\ todo' = {} /\ pass' = {}
    /\ UNCHANGED first

\* Mutant: a worker the backend does not list for once is taken for vanished.
ReapUnlisted(t) ==
    /\ TickStarts
    /\ t \in Executing \ collected /\ artefact[t] = "none"
    /\ artefact' = [artefact EXCEPT ![t] = "timeout"]
    /\ UNCHANGED <<tasks, live, requests, control, budget, history>>

\* reapVanishedWorkers: the backend has listed no worker for the grace
\* period and the task has left nothing.
Reap(t) ==
    /\ TickStarts
    /\ t \in Executing \ collected /\ live[t] = 0 /\ artefact[t] = "none"
    /\ artefact' = [artefact EXCEPT ![t] = "timeout"]
    /\ UNCHANGED <<tasks, live, requests, control, budget, history>>

\* Mutant: evaluation judges a result a cascade wrote like one of a worker.
VerdictsTrusting(a) == IF a \in {"result", "skip"} THEN {"DONE", "NO_GO", "PAUSED"}
                       ELSE IF a = "settled" THEN {"PAUSED"} ELSE {"NO_GO"}

\* The status that evaluation gives to what was found on disk.
Verdicts(a) == CASE a = "result" -> {"DONE", "NO_GO", "PAUSED"}
                 [] a = "settled" -> {"PAUSED"}
                 [] OTHER -> {"NO_GO"}

\* Mutant: a pass looks at what is on disk only.
FoundOnDisk(t, found) == artefact[t] \in found

\* The next task of a pass over all tasks: the pass goes by those already
\* collected and those with nothing found on disk.
Found(t, found) == t \notin collected /\ artefact[t] \in found

NextFound(t, found) ==
    t \in todo /\ Found(t, found) /\ \A u \in todo : u < t => ~Found(u, found)

\* A timeout marker becomes a result before the evaluation looks at it.
Evidence(t, a) == [artefact EXCEPT ![t] = IF @ = "timeout" THEN a ELSE @]

\* One task of collectResults or of the final sweep: the result counts once
\* the evaluation came back.
Take(t, found) ==
    /\ NextFound(t, found)
    /\ todo' = {u \in todo : u > t}
    /\ \E v \in Verdicts(artefact[t]) : status' = [status EXCEPT ![t] = v]
    /\ collected' = collected \cup {t}
    /\ artefact' = Evidence(t, "lapsed")
    /\ UNCHANGED <<assigned, queue, attempts, backoff, live, requests, pc, first, pass,
                   errors, budget, history>>

AnyResult == Artefacts \ {"none"}
Collect(t) == pc = "collect" /\ Take(t, AnyResult)

\* The evaluation, or a step before it, throws; the result a timeout has got
\* by then stays.  The first tick swallows the error and goes on.
CollectThrows(t) ==
    /\ pc = "collect"
    /\ NextFound(t, AnyResult)
    /\ Fault
    /\ \E a \in {"timeout", "lapsed"} : artefact' = Evidence(t, a)
    /\ IF first
       THEN pc' = "drain" /\ todo' = {} /\ UNCHANGED <<first, pass, errors>>
       ELSE Armor
    /\ UNCHANGED <<tasks, live, requests, hold, repair, history>>

\* The collection is over.  The watcher loop reads and removes the respawn
\* requests; the first tick leaves them.
CollectDone ==
    /\ pc = "collect" /\ \A t \in todo : ~Found(t, AnyResult)
    /\ pc' = "drain"
    /\ IF first
       THEN todo' = {} /\ UNCHANGED requests
       ELSE todo' = requests /\ requests' = {}
    /\ UNCHANGED <<tasks, artefact, live, first, pass, errors, budget, history>>

\* A worker of t is started beside n others of the task, and what earlier
\* attempts left on disk, a, stays there.
Started(t, n, a) ==
    /\ live' = [live EXCEPT ![t] = n + 1]
    /\ artefact' = [artefact EXCEPT ![t] = a]
    /\ ran' = ran \cup {t}

\* A request for a task that no worker is at work on is dropped.
DrainDrop(t) ==
    /\ pc = "drain" /\ t \in todo /\ t \notin Executing
    /\ todo' = todo \ {t}
    /\ UNCHANGED <<tasks, world, pc, first, pass, errors, budget, history>>

\* Killing may fail, which is only logged, and a killed worker's exit trap
\* may still write a result.  What is left of the earlier attempt:
Killed(t, n, a) ==
    \/ n = 0 /\ a = artefact[t] /\ UNCHANGED faults
    \/ n = 0 /\ a = "result" /\ live[t] > 0 /\ UNCHANGED faults
    \/ n = live[t] /\ n > 0 /\ a = artefact[t] /\ Fault

\* drainNervousRespawns for a task at work.  Under a hold the task stays
\* PENDING; otherwise spawnIfNotAssigned starts it again.
DrainRestart(t) ==
    /\ pc = "drain" /\ t \in todo /\ t \in Executing
    /\ ~hold /\ Writers(t) = {}
    /\ \E n \in 0 .. live[t], a \in Artefacts :
          /\ Killed(t, n, a) /\ Started(t, n, a)
          /\ loose' = IF n > 0 \/ a # "none" THEN loose \cup {t} ELSE loose
    /\ UNCHANGED status
    /\ assigned' = assigned \cup {t}
    /\ todo' = todo \ {t}
    /\ UNCHANGED <<collected, queue, attempts, backoff, requests, pc, first, pass, errors,
                   hold, repair, cut>>

\* The restart is held back or fails before a worker runs.
DrainStop(t) ==
    /\ pc = "drain" /\ t \in todo /\ t \in Executing
    /\ \E n \in 0 .. live[t], a \in Artefacts :
          /\ \/ (hold \/ Writers(t) # {}) /\ Killed(t, n, a)
             \/ n = 0 /\ a = artefact[t] /\ Fault
          /\ live' = [live EXCEPT ![t] = n]
          /\ artefact' = [artefact EXCEPT ![t] = a]
          /\ loose' = IF n > 0 THEN loose \cup {t} ELSE loose
    /\ status' = [status EXCEPT ![t] = "PENDING"]
    /\ assigned' = assigned \ {t}
    /\ todo' = todo \ {t}
    /\ UNCHANGED <<collected, queue, attempts, backoff, requests, pc, first, pass, errors,
                   hold, repair, ran, cut>>

\* The worker runs and the task's status says so, but the projection of the
\* task file fails behind it: spawnIfNotAssigned only takes the mark back.
DrainLate(t) ==
    /\ pc = "drain" /\ t \in todo /\ t \in Executing
    /\ ~hold /\ Writers(t) = {}
    /\ Fault
    /\ Started(t, 0, artefact[t]) /\ UNCHANGED status
    /\ loose' = loose \cup {t}
    /\ assigned' = assigned \ {t}
    /\ todo' = todo \ {t}
    /\ UNCHANGED <<collected, queue, attempts, backoff, requests, pc, first, pass, errors,
                   hold, repair, cut>>

\* The watcher loop does not ask the engine while there is a hold.
DrainHeld ==
    /\ pc = "drain" /\ todo = {} /\ hold /\ ~first
    /\ pc' = "act"
    /\ UNCHANGED <<tasks, world, first, todo, pass, errors, budget, history>>

-----------------------------------------------------------------------------
(* cascadeSkipDeadBlocked *)

Cascading == pc = "act" /\ todo = {}

\* Tasks the pass takes for failed, and those whose failure no repair lifts:
\* a host settlement that cascades by its disposition, and what is behind it.
Failed == Having("NO_GO") \cup pass
Terminal == {t \in Tasks : \/ SettledCascades /\ artefact[t] = "settled"
                           \/ t \in pass /\ status[t] = "NO_GO"}

Undispatched(t, s) == t \in Uncollected \ assigned /\ status[t] = s

CanPark(t) == Undispatched(t, "PENDING") /\ repair /\ Deps[t] \cap (Failed \ Terminal) # {}
\* Mutant: every paused task that has not been started is closed.
CanSkipPaused(t) ==
    \/ /\ Undispatched(t, "PENDING") /\ Deps[t] \cap Failed # {}
       /\ ~repair \/ Deps[t] \cap Failed \cap Terminal # {}
    \/ Undispatched(t, "PAUSED")

CanSkip(t) ==
    \/ /\ Undispatched(t, "PENDING") /\ Deps[t] \cap Failed # {}
       /\ ~repair \/ Deps[t] \cap Failed \cap Terminal # {}
    \/ Undispatched(t, "PAUSED") /\ Deps[t] \cap Failed \cap Terminal # {}

\* The dependency may yet be repaired: the task waits for FIX.
Park(t) ==
    /\ Cascading /\ CanPark(t)
    /\ status' = [status EXCEPT ![t] = "PAUSED"]
    /\ pass' = pass \cup {t}
    /\ UNCHANGED <<assigned, collected, queue, attempts, backoff, world, pc, first, todo,
                   errors, budget, history>>

\* The task file cannot be written; the status in memory stays.
ParkThrows(t) ==
    /\ Cascading /\ CanPark(t)
    /\ Fault
    /\ status' = [status EXCEPT ![t] = "PAUSED"]
    /\ Armor
    /\ UNCHANGED <<assigned, collected, queue, attempts, backoff, world, hold, repair, history>>

\* The task is closed with a result that says it never ran.
Skip(t) ==
    /\ Cascading /\ CanSkip(t)
    /\ artefact' = [artefact EXCEPT ![t] = "skip"]
    /\ status' = [status EXCEPT ![t] = "NO_GO"]
    /\ collected' = collected \cup {t}
    /\ pass' = pass \cup {t}
    /\ UNCHANGED <<assigned, queue, attempts, backoff, live, requests, pc, first, todo,
                   errors, budget, history>>

\* The evaluation of that result throws: it is collected on the next tick.
SkipThrows(t) ==
    /\ Cascading /\ CanSkip(t)
    /\ Fault
    /\ artefact' = [artefact EXCEPT ![t] = "skip"]
    /\ Armor
    /\ UNCHANGED <<tasks, live, requests, hold, repair, history>>

-----------------------------------------------------------------------------
(* The end of a tick and of the loop *)

\* Mutant: only a hold hands over to FIX.
YieldOnHold ==
    /\ repair /\ Executing = {}
    /\ hold
    /\ Uncollected \cap Having("PAUSED") # {} \/ collected \cap Having("NO_GO") # {}

\* shouldYieldExecuteToRepair: nothing runs, nothing could be dispatched,
\* and there is something for FIX to repair.
Yield ==
    /\ repair /\ Executing = {}
    /\ hold \/ Uncollected \cap Having("PENDING") = {}
    /\ Uncollected \cap Having("PAUSED") # {} \/ collected \cap Having("NO_GO") # {}

\* Mutant: the hold ends the loop without waiting for the workers.
HeldNotQuiet == hold

\* dispatchHoldShouldComplete, looked at by the watcher loop only.
HeldAndQuiet == hold /\ Executing = {}

\* The conditions behind the tick.  The first tick returns without a sweep.
Conclude ==
    /\ first' = FALSE
    /\ IF collected = Tasks \/ Yield \/ (HeldAndQuiet /\ ~first)
       THEN /\ pc' = IF first THEN "ended" ELSE "sweep"
            /\ todo' = IF first THEN {} ELSE Tasks
       ELSE pc' = "collect" /\ todo' = Tasks

CascadeDone ==
    /\ Cascading
    /\ \A t \in Tasks : ~CanPark(t) /\ ~CanSkip(t)
    /\ pass' = {} /\ errors' = 0
    /\ Conclude
    /\ UNCHANGED <<tasks, world, budget, history>>

AfterError ==
    /\ pc = "check"
    /\ Conclude
    /\ UNCHANGED <<tasks, world, pass, errors, budget, history>>

\* The sprint's time is up, where it has a limit.
Deadline ==
    /\ TickStarts /\ ~first
    /\ pc' = "sweep" /\ todo' = Tasks /\ cut' = TRUE
    /\ UNCHANGED <<tasks, world, first, pass, errors, budget, ran, loose>>

\* The final sweep reads results but no timeout markers.
Durable == {"result", "lapsed", "settled", "skip"}
Sweep(t) == pc = "sweep" /\ Take(t, Durable)

SweepThrows(t) ==
    /\ pc = "sweep"
    /\ NextFound(t, Durable)
    /\ Fault
    /\ pc' = "failed" /\ todo' = {}
    /\ UNCHANGED <<tasks, world, first, pass, errors, hold, repair, history>>

SweepDone ==
    /\ pc = "sweep" /\ \A t \in todo : ~Found(t, Durable)
    /\ pc' = "ended" /\ todo' = {}
    /\ UNCHANGED <<tasks, world, first, pass, errors, budget, history>>

-----------------------------------------------------------------------------

Environment ==
    \/ \E t \in Tasks : WorkerEnds(t) \/ BackoffEnds(t) \/ RequestRespawn(t)
    \/ TripHold

\* The steps of a tick that both engines share, Reap aside, whose grace
\* period is time.
TickStep ==
    \/ CollectDone \/ DrainHeld \/ CascadeDone \/ AfterError \/ SweepDone
    \/ \E t \in Tasks :
          \/ Collect(t) \/ CollectThrows(t)
          \/ DrainDrop(t) \/ DrainRestart(t) \/ DrainStop(t) \/ DrainLate(t)
          \/ Park(t) \/ ParkThrows(t) \/ Skip(t) \/ SkipThrows(t)
          \/ Sweep(t) \/ SweepThrows(t)

=============================================================================
