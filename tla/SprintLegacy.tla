----------------------------- MODULE SprintLegacy -----------------------------
(***************************************************************************)
(* The EXECUTE loop with the default 'legacy' engine (runLegacyTick): four *)
(* closures one after another, each with its own idea of what may start.   *)
(* processQueue refills the slot of every task just collected from the     *)
(* queue; respawnEligibleTasks starts what the dependency and collision    *)
(* graph frees; forceRescanIfIdle and dispatchReadyTasks pick up the rest. *)
(* Dependency pipeline on, DECKENT_LEGACY_FIFO not set.                    *)
(***************************************************************************)
EXTENDS SprintLoop

VARIABLES
    fresh,   \* newlyCollected of this tick
    picked,  \* the task processQueue took from the queue, if any
    slots    \* the slots dispatchReadyTasks has left

legacyVars == <<vars, fresh, picked, slots>>

LegacyInit == Init /\ fresh = {} /\ picked = {} /\ slots = 0

\* The shared steps; collection notes what it collected.
Watch ==
    /\ TickStep
    /\ fresh' = CASE pc = "drain" -> fresh
                  [] pc = "collect" /\ faults' = faults -> fresh \cup (collected' \ collected)
                  [] OTHER -> {}
    /\ UNCHANGED <<picked, slots>>

FirstOf(S, t) == t \in S /\ \A u \in S : t <= u
FreeSlots == IF Cardinality(Executing) < MaxWorkers THEN MaxWorkers - Cardinality(Executing) ELSE 0
FirstFree(S) == {t \in S : Cardinality({u \in S : u < t}) < FreeSlots}

Stage(from, to, list) ==
    /\ pc = from /\ pc' = to
    /\ todo' = list
    /\ UNCHANGED <<assigned, collected, attempts, backoff, world, first, pass, errors, budget, history>>

TickBegins ==
    /\ todo = {} /\ ~hold
    /\ Stage("drain", "queue", fresh)
    /\ fresh' = {}
    /\ UNCHANGED <<status, queue, picked, slots>>

\* The driver itself looks at the hold before the first tick's dispatch.
InitialHeld ==
    /\ todo = {} /\ hold /\ first
    /\ Stage("drain", "act", {})
    /\ UNCHANGED <<status, queue, fresh, picked, slots>>

\* What executeSpawnTask makes of the task's state when it started a worker.
Lands(t) ==
    /\ Started(t, live[t], artefact[t])
    /\ status' = [status EXCEPT ![t] = "EXECUTING"]

\* spawnIfNotAssigned: the mark is taken back when no worker was started,
\* and when the projection behind its start failed.
SpawnIfNotAssigned(t) ==
    \/ /\ t \in assigned \/ Writers(t) # {}
       /\ UNCHANGED <<status, assigned, live, artefact, ran, loose, faults>>
    \/ /\ t \notin assigned /\ Writers(t) = {}
       /\ Fault
       /\ UNCHANGED <<status, assigned, live, artefact, ran, loose>>
    \/ /\ t \notin assigned /\ Writers(t) = {}
       /\ Lands(t)
       /\ \/ /\ assigned' = assigned \cup {t}
             /\ loose' = IF artefact[t] # "none" THEN loose \cup {t} ELSE loose
             /\ UNCHANGED faults
          \/ Fault /\ loose' = loose \cup {t} /\ UNCHANGED assigned

Rest == <<collected, attempts, backoff, requests, pc, first, pass, errors, hold, repair, cut, fresh>>

\* processQueue, for one collected task: the head of the queue that is not
\* assigned is taken off, and the collected task's worker is killed.
Pop(t) ==
    /\ pc = "queue" /\ picked = {} /\ FirstOf(todo, t)
    /\ IF queue \subseteq assigned
       THEN /\ queue' = {} /\ todo' = {}
            /\ UNCHANGED <<picked, live, faults>>
       ELSE /\ \E next \in queue \ assigned :
                  /\ FirstOf(queue \ assigned, next)
                  /\ picked' = {next} /\ queue' = {u \in queue : u > next}
            /\ todo' = todo \ {t}
            /\ \/ live' = [live EXCEPT ![t] = 0] /\ UNCHANGED faults
               \/ live[t] > 0 /\ Fault /\ UNCHANGED live
    /\ UNCHANGED <<status, assigned, artefact, ran, loose, slots, Rest>>

Refill(t) ==
    /\ pc = "queue" /\ t \in picked
    /\ SpawnIfNotAssigned(t)
    /\ picked' = {}
    /\ UNCHANGED <<queue, todo, slots, Rest>>

\* respawnEligibleTasks looks at the status only, not at the marks or the
\* queue, and reopens what is paused.
Respawnable ==
    {t \in Tasks : status[t] \in {"PENDING", "PAUSED"} /\ \A u \in Deps[t] \cup Barrier(t) : status[u] = "DONE"}

QueueDone ==
    /\ todo = {} /\ picked = {}
    /\ Stage("queue", "respawn", FirstFree(Respawnable))
    /\ status' = [t \in Tasks |-> IF t \in FirstFree(Respawnable) THEN "PENDING" ELSE status[t]]
    /\ UNCHANGED <<queue, fresh, picked, slots>>

Respawn(t) ==
    /\ pc = "respawn" /\ FirstOf(todo, t)
    /\ LET writers == {u \in Executing : Colliding(t, u)} IN
       \/ /\ writers # {}
          /\ todo' = todo \ {t}
          /\ UNCHANGED <<status, live, artefact, ran, loose, faults>>
       \/ /\ writers = {} /\ Fault
          /\ todo' \in {todo \ {t}, {}}
          /\ UNCHANGED <<status, live, artefact, ran, loose>>
       \/ /\ writers = {} /\ Lands(t)
          /\ todo' = todo \ {t}
          /\ loose' = IF artefact[t] # "none" THEN loose \cup {t} ELSE loose
          /\ UNCHANGED faults
       \/ /\ writers = {} /\ Lands(t) /\ Fault
          /\ todo' = {}
          /\ loose' = loose \cup {t}
    /\ UNCHANGED <<assigned, queue, picked, slots, Rest>>

Orphans == {t \in Uncollected \ (assigned \cup backoff) : status[t] = "PENDING" /\ DepsDone(t)}

\* forceRescanIfIdle acts when nothing was started for five minutes, in the
\* watcher loop only.
RespawnDone ==
    /\ todo = {}
    /\ \E idle \in BOOLEAN :
          Stage("respawn", "rescan", IF idle /\ ~first THEN FirstFree(Orphans) ELSE {})
    /\ UNCHANGED <<status, queue, fresh, picked, slots>>

Rescan(t) ==
    /\ pc = "rescan" /\ FirstOf(todo, t)
    /\ SpawnIfNotAssigned(t)
    /\ todo' = todo \ {t}
    /\ UNCHANGED <<queue, picked, slots, Rest>>

\* findReadyUndispatchedTasks: tasks with dependencies, delays not heeded.
ReadyUndispatched ==
    {t \in Uncollected \ assigned : status[t] = "PENDING" /\ Deps[t] # {} /\ DepsDone(t)}

RescanDone ==
    /\ todo = {}
    /\ Stage("rescan", "ready", ReadyUndispatched)
    /\ slots' = FreeSlots
    /\ UNCHANGED <<status, queue, fresh, picked>>

DispatchReady(t) ==
    /\ pc = "ready" /\ FirstOf(todo, t) /\ slots > 0
    /\ SpawnIfNotAssigned(t)
    /\ slots' = IF assigned' # assigned THEN slots - 1 ELSE slots
    /\ todo' = todo \ {t}
    /\ UNCHANGED <<queue, picked, Rest>>

ReadyDone ==
    /\ todo = {} \/ slots = 0
    /\ Stage("ready", "act", {})
    /\ UNCHANGED <<status, queue, fresh, picked, slots>>

LegacyStep ==
    \/ Watch \/ TickBegins \/ InitialHeld \/ QueueDone \/ RespawnDone \/ RescanDone \/ ReadyDone
    \/ \E t \in Tasks : Pop(t) \/ Refill(t) \/ Respawn(t) \/ Rescan(t) \/ DispatchReady(t)

Outside == Environment \/ Deadline \/ \E t \in Tasks : Reap(t)

LegacyNext == LegacyStep \/ (Outside /\ UNCHANGED <<fresh, picked, slots>>)

LegacySpec == LegacyInit /\ [][LegacyNext]_legacyVars

-----------------------------------------------------------------------------
\* No task has two workers at a time: what the comment on assignedTaskIds
\* says the set prevents, however the closures follow one another.
NoDuplicateAssign == \A t \in Tasks : live[t] <= 1

=============================================================================
