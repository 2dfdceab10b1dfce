----------------------------- MODULE SprintReducer -----------------------------
(***************************************************************************)
(* The EXECUTE loop with the 'reducer' engine: one pure decision per tick  *)
(* over a snapshot (scheduler-driver.ts, scheduler-reducer.ts), whose      *)
(* effects are then applied one by one (scheduler-effects.ts) while the    *)
(* workers go on.  Strategy 'continuous', dependency pipeline on.          *)
(***************************************************************************)
EXTENDS SprintLoop

CollisionBlocked(t) ==
    status[t] = "PENDING" /\ \E u \in Barrier(t) : status[u] # "DONE" /\ u \notin collected

\* The reducer's own cascade, run when no repair will follow: the least set
\* of tasks not started that each have a failed dependency or one in the set.
\* What cascadePausedAtQuiescence adds is empty here: without a repair a task
\* that is PAUSED and not collected has its dependencies done.
Candidates == {t \in Uncollected \ assigned : status[t] = "PENDING"}
Closed(S) == \A t \in Candidates : Deps[t] \cap (Having("NO_GO") \cup S) # {} => t \in S
Doomed ==
    IF repair THEN {} ELSE {t \in Candidates : \A S \in SUBSET Candidates : Closed(S) => t \in S}

\* Mutant: the queue is trusted to hold startable tasks only.
ReadyUnordered(t) ==
    /\ t \notin assigned /\ t \notin Doomed
    /\ t \in queue \/ (status[t] = "PENDING" /\ t \notin collected)
    /\ ~CollisionBlocked(t) /\ t \notin backoff

\* Queued tasks and PENDING ones that nothing blocks.
Ready(t) ==
    /\ t \notin assigned /\ t \notin Doomed
    /\ t \in queue \/ (status[t] = "PENDING" /\ t \notin collected)
    /\ ~CollisionBlocked(t) /\ t \notin backoff /\ DepsDone(t)

\* The queue comes first, then the other tasks in order.
Before(u, t) == IF (u \in queue) = (t \in queue) THEN u < t ELSE u \in queue

SlotBudget == MaxWorkers - Cardinality(Executing)

Chosen ==
    IF hold THEN {}
    ELSE {t \in Tasks : Ready(t) /\ Cardinality({u \in Tasks : Ready(u) /\ Before(u, t)}) < SlotBudget}

\* The CascadeSkip effects: a task whose closing result cannot be written
\* stays as it is and is decided again.
CloseDoomed ==
    \E kept \in SUBSET {t \in Doomed : artefact[t] = "none"} :
        /\ status' = [t \in Tasks |-> IF t \in Doomed \ kept THEN "NO_GO" ELSE status[t]]
        /\ artefact' = [t \in Tasks |-> IF t \in Doomed \ kept /\ artefact[t] = "none"
                                       THEN "skip" ELSE artefact[t]]
        /\ IF kept = {} THEN UNCHANGED faults ELSE Fault

\* The decision, with the cascade skips: nothing is awaited before they are
\* applied.  The queue is brought in line with the decision, except under a
\* cost stop, which returns it untouched.
Decide ==
    /\ pc = "drain" /\ todo = {}
    /\ ~hold \/ first
    /\ todo' = Chosen
    /\ queue' = IF hold THEN queue ELSE queue \ (Chosen \cup assigned \cup Doomed)
    /\ CloseDoomed
    /\ pc' = "act"
    /\ UNCHANGED <<assigned, collected, attempts, backoff, live, requests, first, pass, errors,
                   hold, repair, history>>

Visit(t) == pc = "act" /\ t \in todo /\ todo' = todo \ {t}

\* Mutant: the barrier is trusted to keep writers of a file apart.
SpawnUnchecked(t) ==
    /\ Visit(t)
    /\ Started(t, live[t], artefact[t])
    /\ status' = [status EXCEPT ![t] = "EXECUTING"]
    /\ loose' = IF artefact[t] # "none" THEN loose \cup {t} ELSE loose
    /\ assigned' = assigned \cup {t}
    /\ UNCHANGED <<collected, queue, attempts, backoff, requests, pc, first, pass, errors,
                   budget, cut>>

\* executeSpawnTask starts a worker.
SpawnLands(t) ==
    /\ Visit(t)
    /\ Writers(t) = {}
    /\ Started(t, live[t], artefact[t])
    /\ status' = [status EXCEPT ![t] = "EXECUTING"]
    /\ loose' = IF artefact[t] # "none" THEN loose \cup {t} ELSE loose
    /\ assigned' = assigned \cup {t}
    /\ UNCHANGED <<collected, queue, attempts, backoff, requests, pc, first, pass, errors,
                   budget, cut>>

\* A writer of one of its files is at work, although no barrier shows it.
SpawnHeld(t) ==
    /\ Visit(t)
    /\ Writers(t) # {}
    /\ UNCHANGED <<tasks, world, pc, first, pass, errors, budget, history>>

\* Its provider is not available, or another check refuses it: tried again.
SpawnRefused(t) ==
    /\ Visit(t)
    /\ Writers(t) = {}
    /\ Fault
    /\ UNCHANGED <<tasks, world, pc, first, pass, errors, hold, repair, history>>

\* settleNonRetryableSpawnAdmission: the task can never be started and is
\* closed, unless a result file is there already.
AdmissionFails(t) ==
    /\ Visit(t)
    /\ Writers(t) = {}
    /\ Fault
    /\ status' = [status EXCEPT ![t] = "NO_GO"]
    /\ artefact' = [artefact EXCEPT ![t] = IF @ \in {"none", "timeout"} THEN "settled" ELSE @]
    /\ UNCHANGED <<assigned, collected, queue, attempts, backoff, live, requests, pc, first,
                   pass, errors, hold, repair, history>>

\* recordTransientSpawnFailure: back to PENDING behind a delay, or PAUSED
\* when the attempts are used up.
Postpone(t) ==
    /\ attempts' = [attempts EXCEPT ![t] = @ + 1]
    /\ IF attempts[t] + 1 >= MaxAttempts
       THEN status' = [status EXCEPT ![t] = "PAUSED"] /\ UNCHANGED backoff
       ELSE status' = [status EXCEPT ![t] = "PENDING"] /\ backoff' = backoff \cup {t}

SpawnFails(t) ==
    /\ Visit(t)
    /\ Writers(t) = {}
    /\ Fault
    /\ Postpone(t)
    /\ UNCHANGED <<assigned, collected, queue, world, pc, first, pass, errors, hold, repair,
                   history>>

\* The projection of the task file fails behind the start of the worker,
\* which nobody stops.
SpawnFailsLate(t) ==
    /\ Visit(t)
    /\ Writers(t) = {}
    /\ Fault
    /\ Postpone(t)
    /\ Started(t, live[t], artefact[t])
    /\ loose' = loose \cup {t}
    /\ UNCHANGED <<assigned, collected, queue, requests, pc, first, pass, errors,
                   hold, repair, cut>>

Dispatch ==
    \/ Decide
    \/ \E t \in Tasks : \/ SpawnLands(t) \/ SpawnHeld(t) \/ SpawnRefused(t)
                        \/ AdmissionFails(t) \/ SpawnFails(t) \/ SpawnFailsLate(t)

LoopStep == TickStep \/ Dispatch
Next == Environment \/ Deadline \/ (\E t \in Tasks : Reap(t)) \/ LoopStep

Spec == Init /\ [][Next]_vars

\* The loop is never left waiting: its watcher polls.  Every backend ends a
\* worker at its time limit, delays pass, and a vanished worker's grace
\* period is over at some tick: so it is where the backend knows the workers
\* it has started; while it calls a task 'unknown', nothing is reaped.
Fairness ==
    /\ WF_vars(LoopStep)
    /\ \A t \in Tasks : WF_vars(WorkerEnds(t)) /\ WF_vars(BackoffEnds(t)) /\ SF_vars(Reap(t))

FairSpec == Spec /\ Fairness

-----------------------------------------------------------------------------
(* Properties *)

\* A task is handed to a worker only behind dependencies that are done, and
\* they stay done: no verdict, repair, cascade or restart of executeSpawnTask
\* and drainNervousRespawns takes that back while the task is at work.
DependenciesHonoured == \A t \in assigned \cup Executing : DepsDone(t)

\* Two tasks that may write the same file are never at work together, also
\* when the barrier between them is gone because the task in the middle was
\* closed (findActiveWriteCollisions looks again at the start).
WritersExclusive == \A t \in Executing, u \in Executing : ~Colliding(t, u)

\* A worker belongs to a task that is at work and has left nothing yet, and
\* it is the only one: neither retries, respawn requests nor collection leave
\* a second or a forgotten worker.  A start whose failure came behind the
\* worker, a kill that failed and a restart over an old artefact do, and are
\* excused as loose.
OneWorkerPerTask ==
    \A t \in Tasks \ loose :
        live[t] > 0 => live[t] = 1 /\ status[t] = "EXECUTING" /\ t \notin collected
                       /\ artefact[t] = "none"

\* A task that a cascade closes because it never ran has had no worker and
\* gets none afterwards, not even where the closing threw half-way.
SkippedNeverRan == \A t \in Tasks : artefact[t] = "skip" => t \notin ran

\* When the loop hands over to EVALUATE and FIX before its deadline, no task
\* is at work and no worker runs, so FIX starts none beside an old one.
HandOverQuiescent ==
    pc \in {"sweep", "ended"} /\ ~cut => Executing = {} /\ \A t \in Tasks \ loose : live[t] = 0

\* A collected result is counted once: no later pass, sweep, cascade or
\* respawn request changes the task's verdict or starts it again.
CollectedIsFinal ==
    [][\A t \in collected : t \in collected' /\ status'[t] = status[t] /\ t \notin assigned' \ assigned]_vars

PhaseOf(t) ==
    IF t \in collected THEN status[t] ELSE IF t \in Executing THEN "working" ELSE "open"

Mode ==
    IF cut \/ pc = "failed" THEN "broken off"
    ELSE IF pc \in {"sweep", "ended"} THEN "handed over" ELSE "execute"

\* The loop keeps the contract of EXECUTE: whatever its ticks, retries, respawn
\* requests and cascades do, a task is worked on only behind dependencies that
\* are done, beside no other writer of its files and within resolveEffectiveWorkers,
\* is judged once, and done only if it was worked on; and the phase is handed
\* over, its deadline and failures aside, with nothing at work.
Contract == INSTANCE ExecuteContract WITH
    phase <- [t \in Tasks |-> PhaseOf(t)],
    worked <- ran,
    mode <- Mode

ImplementsContract == Contract!Spec

\* Nothing is at work and the loop waits for what only another phase can do.
\* With a repair to follow: a task that is not started stands behind a
\* paused one, by a dependency, or by a barrier that only its collection
\* lifts; the loop does not hand over while such a task could be admitted.
\* Without: a paused task, or one that depends on it, is never collected.
Stranded ==
    /\ Executing = {}
    /\ \E t \in Uncollected :
          \/ /\ repair /\ status[t] = "PENDING"
             /\ \E u \in Deps[t] \cup (Barrier(t) \ collected) : status[u] = "PAUSED"
          \/ ~repair /\ status[t] = "PAUSED"
          \/ ~repair /\ status[t] = "PENDING" /\ \E u \in Deps[t] : status[u] = "PAUSED"

\* EXECUTE ends for good, whatever its workers leave and whichever steps fail: no
\* vanished worker, delay, slot, barrier, hold or cascade keeps the loop
\* waiting for good, except in the one way that Stranded names.
ExecuteEnds == <>[](Over \/ Stranded)

=============================================================================
