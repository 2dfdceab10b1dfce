------------------------- MODULE SprintReducer_proofs -------------------------
(***************************************************************************)
(* Safety of the EXECUTE loop under the reducer engine, that it implements *)
(* its contract and that its ticks end, for every number of tasks,         *)
(* dependency graph, file sets, worker limit and bound.                    *)
(***************************************************************************)
EXTENDS SprintReducer, FiniteSetTheorems, TLAPS

\* What is collected has a verdict, and nothing is done before collection.
VerdictsCollected ==
    \A t \in Tasks : /\ t \in collected => status[t] \in {"DONE", "NO_GO", "PAUSED"}
                     /\ status[t] = "DONE" => t \in collected

\* The first wave's queue only shrinks, and nothing touches a task in it.
QueueFresh ==
    \A t \in queue : Deps[t] = {} /\ status[t] = "PENDING" /\ live[t] = 0 /\ artefact[t] = "none"

\* What a decision chose stays startable until its effect is applied.
ChosenStartable ==
    pc = "act" => \A t \in todo : /\ status[t] = "PENDING" /\ t \notin queue
                                  /\ DepsDone(t) /\ artefact[t] # "skip"

\* A task whose attempts are used up is not offered again.
ExhaustedStops ==
    \A t \in Tasks : attempts[t] = MaxAttempts => status[t] \notin {"PENDING", "EXECUTING"}

\* A worker was started only behind done dependencies; they are still done.
RanBehindDone ==
    /\ assigned \cup Executing \subseteq ran
    /\ \A t \in Tasks : live[t] > 0 => t \in ran
    /\ \A t \in ran : DepsDone(t)

\* A task closed half-way is collected before anything is dispatched.
SkipComesFirst ==
    \A t \in Tasks : artefact[t] = "skip" /\ status[t] = "PENDING" =>
        pc \in {"check", "sweep", "ended", "failed"} \/ (pc = "collect" /\ ~first /\ t \in todo)

\* A cascade pass is one stretch of steps, over tasks that stay closed.
PassFailed ==
    /\ pass # {} => Cascading
    /\ \A t \in pass : status[t] \in {"PAUSED", "NO_GO"}

\* The inductive invariant: the properties and what keeps them.
IInv ==
    /\ TypeOK
    /\ VerdictsCollected
    /\ QueueFresh
    /\ ChosenStartable
    /\ ExhaustedStops
    /\ RanBehindDone
    /\ SkipComesFirst
    /\ PassFailed
    /\ WritersExclusive
    /\ OneWorkerPerTask
    /\ SkippedNeverRan
    /\ HandOverQuiescent

\* What the cascade closes has not been started.
LEMMA DoomedNotDone == \A t \in Doomed : t \in Tasks /\ status[t] = "PENDING"
BY DEF Doomed, Candidates, Uncollected

\* The least set is a fixed point: each of its tasks has a cause.
LEMMA DoomedBehindFailed ==
  ASSUME NEW t \in Doomed
  PROVE  \E d \in Deps[t] : status[d] = "NO_GO" \/ d \in Doomed
<1>1. SUFFICES ASSUME Deps[t] \cap (Having("NO_GO") \cup Doomed) = {} PROVE FALSE
  <2>1. t \in Tasks /\ Deps[t] \subseteq Tasks
    BY DoomedNotDone, DepsAssumption
  <2> QED
    BY <1>1, <2>1 DEF Having
<1>2. ~repair /\ t \in Candidates /\ Doomed \subseteq Candidates
  BY DEF Doomed
<1>3. Doomed = {u \in Candidates : \A S \in SUBSET Candidates : Closed(S) => u \in S}
  BY <1>2 DEF Doomed
<1>4. Closed(Doomed)
  BY <1>3 DEF Closed
<1>5. Closed(Doomed \ {t})
  BY <1>1, <1>4 DEF Closed
<1> QED
  BY <1>2, <1>3, <1>5

-----------------------------------------------------------------------------
(* Workers, timers and the nervous system                                  *)

LEMMA WorkerEndsStep == ASSUME IInv, NEW t \in Tasks, WorkerEnds(t) PROVE IInv'
<1> USE DEF IInv, TypeOK, WorkerEnds, Over, tasks, control, budget, history
<1>1. TypeOK'
  BY DEF Statuses, Artefacts, Steps
<1>2. QueueFresh'
  BY DEF QueueFresh
<1>3. ChosenStartable'
  BY DEF ChosenStartable, DepsDone
<1>4. RanBehindDone'
  BY DEF RanBehindDone, DepsDone, Executing, Having
<1>5. SkipComesFirst'
  BY DEF SkipComesFirst
<1>6. OneWorkerPerTask'
  BY DEF OneWorkerPerTask
<1>7. SkippedNeverRan'
  BY DEF SkippedNeverRan
<1>8. HandOverQuiescent'
  BY DEF HandOverQuiescent, Executing, Having
<1>9. VerdictsCollected' /\ ExhaustedStops' /\ PassFailed' /\
        WritersExclusive'
  BY DEF VerdictsCollected, ExhaustedStops, PassFailed, Cascading,
       WritersExclusive, Executing, Having, Colliding
<1> QED
  BY <1>1, <1>2, <1>3, <1>4, <1>5, <1>6, <1>7, <1>8, <1>9

LEMMA BackoffEndsStep == ASSUME IInv, NEW t \in Tasks, BackoffEnds(t) PROVE IInv'
<1> USE DEF IInv, TypeOK, BackoffEnds, Over, world, control, budget, history
<1>1. TypeOK'
  BY DEF Statuses, Artefacts, Steps
<1>2. VerdictsCollected' /\ QueueFresh' /\ ChosenStartable' /\
        ExhaustedStops' /\ RanBehindDone' /\ SkipComesFirst' /\ PassFailed'
        /\ WritersExclusive' /\ OneWorkerPerTask' /\ SkippedNeverRan' /\
        HandOverQuiescent'
  BY DEF VerdictsCollected, QueueFresh, ChosenStartable, DepsDone,
       ExhaustedStops, RanBehindDone, Executing, Having, SkipComesFirst,
       PassFailed, Cascading, WritersExclusive, Colliding, OneWorkerPerTask,
       SkippedNeverRan, HandOverQuiescent
<1> QED
  BY <1>1, <1>2

LEMMA RequestRespawnStep == ASSUME IInv, NEW t \in Tasks, RequestRespawn(t) PROVE IInv'
<1> USE DEF IInv, TypeOK, RequestRespawn, Over, Fault, tasks, control, history
<1>1. TypeOK'
  BY LimitsAssumption DEF Statuses, Artefacts, Steps
<1>2. VerdictsCollected' /\ QueueFresh' /\ ChosenStartable' /\
        ExhaustedStops' /\ RanBehindDone' /\ SkipComesFirst' /\ PassFailed'
        /\ WritersExclusive' /\ OneWorkerPerTask' /\ SkippedNeverRan' /\
        HandOverQuiescent'
  BY DEF VerdictsCollected, QueueFresh, ChosenStartable, DepsDone,
       ExhaustedStops, RanBehindDone, Executing, Having, SkipComesFirst,
       PassFailed, Cascading, WritersExclusive, Colliding, OneWorkerPerTask,
       SkippedNeverRan, HandOverQuiescent
<1> QED
  BY <1>1, <1>2

LEMMA TripHoldStep == ASSUME IInv, TripHold PROVE IInv'
<1> USE DEF IInv, TypeOK, TripHold, Over, Fault, tasks, world, control,
            history
<1>1. TypeOK'
  BY LimitsAssumption DEF Statuses, Artefacts, Steps
<1>2. VerdictsCollected' /\ QueueFresh' /\ ChosenStartable' /\
        ExhaustedStops' /\ RanBehindDone' /\ SkipComesFirst' /\ PassFailed'
        /\ WritersExclusive' /\ OneWorkerPerTask' /\ SkippedNeverRan' /\
        HandOverQuiescent'
  BY DEF VerdictsCollected, QueueFresh, ChosenStartable, DepsDone,
       ExhaustedStops, RanBehindDone, Executing, Having, SkipComesFirst,
       PassFailed, Cascading, WritersExclusive, Colliding, OneWorkerPerTask,
       SkippedNeverRan, HandOverQuiescent
<1> QED
  BY <1>1, <1>2

LEMMA ReapStep == ASSUME IInv, NEW t \in Tasks, Reap(t) PROVE IInv'
<1> USE DEF IInv, TypeOK, Reap, TickStarts, Executing, Having, tasks, control,
            budget, history
<1>1. TypeOK'
  BY DEF Statuses, Artefacts, Steps
<1>2. QueueFresh'
  BY DEF QueueFresh
<1>3. ChosenStartable'
  BY DEF ChosenStartable, DepsDone
<1>4. SkipComesFirst'
  BY DEF SkipComesFirst
<1>5. OneWorkerPerTask'
  BY DEF OneWorkerPerTask
<1>6. SkippedNeverRan'
  BY DEF SkippedNeverRan
<1>7. VerdictsCollected' /\ ExhaustedStops' /\ RanBehindDone' /\
        PassFailed' /\ WritersExclusive' /\ HandOverQuiescent'
  BY DEF VerdictsCollected, ExhaustedStops, RanBehindDone, DepsDone,
       PassFailed, Cascading, WritersExclusive, Colliding, HandOverQuiescent
<1> QED
  BY <1>1, <1>2, <1>3, <1>4, <1>5, <1>6, <1>7

LEMMA DeadlineStep == ASSUME IInv, Deadline PROVE IInv'
<1> USE DEF IInv, TypeOK, Deadline, TickStarts, tasks, world, budget
<1>1. TypeOK'
  BY DEF Statuses, Artefacts, Steps
<1>2. ChosenStartable'
  BY DEF ChosenStartable, DepsDone
<1>3. SkipComesFirst'
  BY DEF SkipComesFirst
<1>4. PassFailed'
  BY DEF PassFailed, Cascading
<1>5. HandOverQuiescent'
  BY DEF HandOverQuiescent, Executing, Having
<1>6. VerdictsCollected' /\ QueueFresh' /\ ExhaustedStops' /\
        RanBehindDone' /\ WritersExclusive' /\ OneWorkerPerTask' /\
        SkippedNeverRan'
  BY DEF VerdictsCollected, QueueFresh, ExhaustedStops, RanBehindDone,
       DepsDone, Executing, Having, WritersExclusive, Colliding, OneWorkerPerTask,
       SkippedNeverRan
<1> QED
  BY <1>1, <1>2, <1>3, <1>4, <1>5, <1>6

-----------------------------------------------------------------------------
(* Collection, first pass and final sweep                                  *)

LEMMA CollectStep == ASSUME IInv, NEW t \in Tasks, Collect(t) PROVE IInv'
<1> USE DEF IInv, TypeOK, Collect, Take, NextFound, Found, AnyResult,
            Verdicts, Evidence, budget, history
<1>1. TypeOK'
  BY DEF Statuses, Artefacts, Steps
<1>2. VerdictsCollected'
  BY DEF VerdictsCollected
<1>3. QueueFresh'
  BY DEF QueueFresh
<1>4. ChosenStartable'
  BY DEF ChosenStartable, DepsDone
<1>5. ExhaustedStops'
  BY DEF ExhaustedStops
<1>6. RanBehindDone'
  BY DEF RanBehindDone, DepsDone, Executing, Having, VerdictsCollected
<1>7. SkipComesFirst'
  <2>1. /\ pc = "collect" /\ pc' = pc /\ first' = first
        /\ todo' = {u \in todo : u > t} /\ status'[t] # "PENDING"
        /\ \A u \in Tasks \ {t} : status'[u] = status[u]
        /\ \A u \in Tasks : artefact'[u] = "skip" => artefact[u] = "skip"
        /\ \A u \in todo : u < t => u \in collected \/ artefact[u] = "none"
    BY DEF IInv, TypeOK, Collect, Take, NextFound, Found, AnyResult, Artefacts, Verdicts, Evidence
  <2>2. ASSUME NEW u \in Tasks, artefact'[u] = "skip", status'[u] = "PENDING"
        PROVE  ~first /\ u \in todo /\ u > t
    <3>1. u # t /\ status[u] = "PENDING" /\ u \notin collected
      BY <2>1, <2>2 DEF IInv, VerdictsCollected
    <3>2. ~first /\ u \in todo
      BY <2>1, <2>2, <3>1 DEF IInv, SkipComesFirst
    <3> QED
      BY <2>1, <2>2, <3>1, <3>2, NAssumption DEF Tasks
  <2> QED
    BY <2>1, <2>2 DEF SkipComesFirst
<1>8. PassFailed'
  BY DEF PassFailed, Cascading
<1>9. WritersExclusive'
  BY DEF WritersExclusive, Executing, Having, Colliding
<1>10. OneWorkerPerTask'
  BY DEF OneWorkerPerTask
<1>11. HandOverQuiescent'
  BY DEF HandOverQuiescent, Executing, Having
<1>12. SkippedNeverRan'
  BY DEF SkippedNeverRan
<1> QED
  BY <1>1, <1>2, <1>3, <1>4, <1>5, <1>6, <1>7, <1>8, <1>9, <1>10, <1>11, <1>12

LEMMA CollectThrowsStep == ASSUME IInv, NEW t \in Tasks, CollectThrows(t) PROVE IInv'
<1> USE DEF IInv, TypeOK, CollectThrows, Armor, Fault, NextFound, Found,
            AnyResult, Evidence, tasks, history
<1>1. TypeOK'
  BY LimitsAssumption DEF Statuses, Artefacts, Steps
<1>2. ChosenStartable'
  BY DEF ChosenStartable, DepsDone
<1>3. SkipComesFirst'
  BY DEF SkipComesFirst
<1>4. PassFailed'
  BY DEF PassFailed, Cascading
<1>5. HandOverQuiescent'
  BY DEF HandOverQuiescent, Executing, Having
<1>6. VerdictsCollected' /\ QueueFresh' /\ ExhaustedStops' /\
        RanBehindDone' /\ WritersExclusive' /\ OneWorkerPerTask' /\
        SkippedNeverRan'
  BY DEF VerdictsCollected, QueueFresh, ExhaustedStops, RanBehindDone,
       DepsDone, Executing, Having, WritersExclusive, Colliding, OneWorkerPerTask,
       SkippedNeverRan
<1> QED
  BY <1>1, <1>2, <1>3, <1>4, <1>5, <1>6

LEMMA CollectDoneStep == ASSUME IInv, CollectDone PROVE IInv'
<1> USE DEF IInv, TypeOK, CollectDone, Found, AnyResult, tasks, budget,
            history
<1>1. TypeOK'
  BY DEF Statuses, Artefacts, Steps
<1>2. ChosenStartable'
  BY DEF ChosenStartable, DepsDone
<1>3. SkipComesFirst'
  BY DEF SkipComesFirst, VerdictsCollected
<1>4. PassFailed'
  BY DEF PassFailed, Cascading
<1>5. HandOverQuiescent'
  BY DEF HandOverQuiescent, Executing, Having
<1>6. VerdictsCollected' /\ QueueFresh' /\ ExhaustedStops' /\
        RanBehindDone' /\ WritersExclusive' /\ OneWorkerPerTask' /\
        SkippedNeverRan'
  BY DEF VerdictsCollected, QueueFresh, ExhaustedStops, RanBehindDone,
       DepsDone, Executing, Having, WritersExclusive, Colliding, OneWorkerPerTask,
       SkippedNeverRan
<1> QED
  BY <1>1, <1>2, <1>3, <1>4, <1>5, <1>6

LEMMA SweepStep == ASSUME IInv, NEW t \in Tasks, Sweep(t) PROVE IInv'
<1> USE DEF IInv, TypeOK, Sweep, Take, NextFound, Found, Durable, Verdicts,
            Evidence, budget, history
<1>1. TypeOK'
  BY DEF Statuses, Artefacts, Steps
<1>2. VerdictsCollected'
  BY DEF VerdictsCollected
<1>3. QueueFresh'
  BY DEF QueueFresh
<1>4. ChosenStartable'
  BY DEF ChosenStartable, DepsDone
<1>5. ExhaustedStops'
  BY DEF ExhaustedStops
<1>6. RanBehindDone'
  BY DEF RanBehindDone, DepsDone, Executing, Having, VerdictsCollected
<1>7. SkipComesFirst'
  BY DEF SkipComesFirst
<1>8. PassFailed'
  BY DEF PassFailed, Cascading
<1>9. WritersExclusive'
  BY DEF WritersExclusive, Executing, Having, Colliding
<1>10. OneWorkerPerTask'
  BY DEF OneWorkerPerTask
<1>11. HandOverQuiescent'
  BY DEF HandOverQuiescent, Executing, Having
<1>12. SkippedNeverRan'
  BY DEF SkippedNeverRan
<1> QED
  BY <1>1, <1>2, <1>3, <1>4, <1>5, <1>6, <1>7, <1>8, <1>9, <1>10, <1>11, <1>12

LEMMA SweepThrowsStep == ASSUME IInv, NEW t \in Tasks, SweepThrows(t) PROVE IInv'
<1> USE DEF IInv, TypeOK, SweepThrows, NextFound, Found, Fault, tasks, world,
            history
<1>1. TypeOK'
  BY LimitsAssumption DEF Statuses, Artefacts, Steps
<1>2. ChosenStartable'
  BY DEF ChosenStartable, DepsDone
<1>3. SkipComesFirst'
  BY DEF SkipComesFirst
<1>4. PassFailed'
  BY DEF PassFailed, Cascading
<1>5. HandOverQuiescent'
  BY DEF HandOverQuiescent, Executing, Having
<1>6. VerdictsCollected' /\ QueueFresh' /\ ExhaustedStops' /\
        RanBehindDone' /\ WritersExclusive' /\ OneWorkerPerTask' /\
        SkippedNeverRan'
  BY DEF VerdictsCollected, QueueFresh, ExhaustedStops, RanBehindDone,
       DepsDone, Executing, Having, WritersExclusive, Colliding, OneWorkerPerTask,
       SkippedNeverRan
<1> QED
  BY <1>1, <1>2, <1>3, <1>4, <1>5, <1>6

LEMMA SweepDoneStep == ASSUME IInv, SweepDone PROVE IInv'
<1> USE DEF IInv, TypeOK, SweepDone, tasks, world, budget, history
<1>1. TypeOK'
  BY DEF Statuses, Artefacts, Steps
<1>2. ChosenStartable'
  BY DEF ChosenStartable, DepsDone
<1>3. SkipComesFirst'
  BY DEF SkipComesFirst
<1>4. PassFailed'
  BY DEF PassFailed, Cascading
<1>5. HandOverQuiescent'
  BY DEF HandOverQuiescent, Executing, Having
<1>6. VerdictsCollected' /\ QueueFresh' /\ ExhaustedStops' /\
        RanBehindDone' /\ WritersExclusive' /\ OneWorkerPerTask' /\
        SkippedNeverRan'
  BY DEF VerdictsCollected, QueueFresh, ExhaustedStops, RanBehindDone,
       DepsDone, Executing, Having, WritersExclusive, Colliding, OneWorkerPerTask,
       SkippedNeverRan
<1> QED
  BY <1>1, <1>2, <1>3, <1>4, <1>5, <1>6

-----------------------------------------------------------------------------
(* The respawn requests                                                    *)

LEMMA DrainDropStep == ASSUME IInv, NEW t \in Tasks, DrainDrop(t) PROVE IInv'
<1> USE DEF IInv, TypeOK, DrainDrop, Executing, Having, tasks, world, budget,
            history
<1>1. TypeOK'
  BY DEF Statuses, Artefacts, Steps
<1>2. ChosenStartable'
  BY DEF ChosenStartable, DepsDone
<1>3. SkipComesFirst'
  BY DEF SkipComesFirst
<1>4. PassFailed'
  BY DEF PassFailed, Cascading
<1>5. VerdictsCollected' /\ QueueFresh' /\ ExhaustedStops' /\
        RanBehindDone' /\ WritersExclusive' /\ OneWorkerPerTask' /\
        SkippedNeverRan' /\ HandOverQuiescent'
  BY DEF VerdictsCollected, QueueFresh, ExhaustedStops, RanBehindDone,
       DepsDone, WritersExclusive, Colliding, OneWorkerPerTask, SkippedNeverRan,
       HandOverQuiescent
<1> QED
  BY <1>1, <1>2, <1>3, <1>4, <1>5

LEMMA DrainRestartStep == ASSUME IInv, NEW t \in Tasks, DrainRestart(t) PROVE IInv'
<1> USE DEF IInv, TypeOK, DrainRestart, Killed, Started, Fault, Executing,
            Having, Writers
<1>1. TypeOK'
  BY LimitsAssumption DEF Statuses, Artefacts, Steps
<1>2. QueueFresh'
  BY DEF QueueFresh
<1>3. ChosenStartable'
  BY DEF ChosenStartable, DepsDone
<1>4. RanBehindDone'
  BY DEF RanBehindDone, DepsDone
<1>5. SkipComesFirst'
  BY DEF SkipComesFirst
<1>6. PassFailed'
  BY DEF PassFailed, Cascading
<1>7. OneWorkerPerTask'
  BY DEF OneWorkerPerTask, VerdictsCollected
<1>8. SkippedNeverRan'
  BY DEF SkippedNeverRan, RanBehindDone
<1>9. HandOverQuiescent'
  BY DEF HandOverQuiescent
<1>10. VerdictsCollected' /\ ExhaustedStops' /\ WritersExclusive'
  BY DEF VerdictsCollected, ExhaustedStops, WritersExclusive, Colliding
<1> QED
  BY <1>1, <1>2, <1>3, <1>4, <1>5, <1>6, <1>7, <1>8, <1>9, <1>10

LEMMA DrainStopStep == ASSUME IInv, NEW t \in Tasks, DrainStop(t) PROVE IInv'
<1> USE DEF IInv, TypeOK, DrainStop, Killed, Fault, Executing, Having, Writers
<1>1. TypeOK'
  BY LimitsAssumption DEF Statuses, Artefacts, Steps
<1>2. VerdictsCollected'
  BY DEF VerdictsCollected
<1>3. QueueFresh'
  BY DEF QueueFresh
<1>4. ChosenStartable'
  BY DEF ChosenStartable, DepsDone
<1>5. ExhaustedStops'
  BY DEF ExhaustedStops
<1>6. RanBehindDone'
  BY DEF RanBehindDone, DepsDone
<1>7. SkipComesFirst'
  BY DEF SkipComesFirst, SkippedNeverRan, RanBehindDone
<1>8. PassFailed'
  BY DEF PassFailed, Cascading
<1>9. WritersExclusive'
  BY DEF WritersExclusive, Colliding
<1>10. OneWorkerPerTask'
  BY DEF OneWorkerPerTask
<1>11. SkippedNeverRan'
  BY DEF SkippedNeverRan
<1>12. HandOverQuiescent'
  BY DEF HandOverQuiescent
<1> QED
  BY <1>1, <1>2, <1>3, <1>4, <1>5, <1>6, <1>7, <1>8, <1>9, <1>10, <1>11, <1>12

LEMMA DrainLateStep == ASSUME IInv, NEW t \in Tasks, DrainLate(t) PROVE IInv'
<1> USE DEF IInv, TypeOK, DrainLate, Started, Fault, Executing, Having,
            Writers
<1>1. TypeOK'
  BY LimitsAssumption DEF Statuses, Artefacts, Steps
<1>2. QueueFresh'
  BY DEF QueueFresh
<1>3. ChosenStartable'
  BY DEF ChosenStartable, DepsDone
<1>4. RanBehindDone'
  BY DEF RanBehindDone, DepsDone
<1>5. SkipComesFirst'
  BY DEF SkipComesFirst
<1>6. PassFailed'
  BY DEF PassFailed, Cascading
<1>7. OneWorkerPerTask'
  BY DEF OneWorkerPerTask
<1>8. SkippedNeverRan'
  BY DEF SkippedNeverRan, RanBehindDone
<1>9. HandOverQuiescent'
  BY DEF HandOverQuiescent
<1>10. VerdictsCollected' /\ ExhaustedStops' /\ WritersExclusive'
  BY DEF VerdictsCollected, ExhaustedStops, WritersExclusive, Colliding
<1> QED
  BY <1>1, <1>2, <1>3, <1>4, <1>5, <1>6, <1>7, <1>8, <1>9, <1>10

LEMMA DrainHeldStep == ASSUME IInv, DrainHeld PROVE IInv'
<1> USE DEF IInv, TypeOK, DrainHeld, tasks, world, budget, history
<1>1. TypeOK'
  BY DEF Statuses, Artefacts, Steps
<1>2. ChosenStartable'
  BY DEF ChosenStartable, DepsDone
<1>3. SkipComesFirst'
  BY DEF SkipComesFirst
<1>4. PassFailed'
  BY DEF PassFailed, Cascading
<1>5. HandOverQuiescent'
  BY DEF HandOverQuiescent, Executing, Having
<1>6. VerdictsCollected' /\ QueueFresh' /\ ExhaustedStops' /\
        RanBehindDone' /\ WritersExclusive' /\ OneWorkerPerTask' /\
        SkippedNeverRan'
  BY DEF VerdictsCollected, QueueFresh, ExhaustedStops, RanBehindDone,
       DepsDone, Executing, Having, WritersExclusive, Colliding, OneWorkerPerTask,
       SkippedNeverRan
<1> QED
  BY <1>1, <1>2, <1>3, <1>4, <1>5, <1>6

-----------------------------------------------------------------------------
(* The engine's decision and its effects                                   *)

\* What a decision changes of a task: it may be closed, when it is doomed.
LEMMA DecideChanges ==
  ASSUME IInv, Decide
  PROVE  /\ pc = "drain" /\ pc' = "act" /\ todo' = Chosen
         /\ queue' \subseteq queue /\ queue' \cap Chosen = {}
         /\ UNCHANGED <<assigned, collected, attempts, live, first, pass, ran, loose, cut>>
         /\ \A u \in Tasks \ Doomed : status'[u] = status[u] /\ artefact'[u] = artefact[u]
         /\ \A u \in Doomed :
               /\ u \in Tasks /\ status[u] = "PENDING"
               /\ \/ status'[u] = status[u] /\ artefact'[u] = artefact[u]
                  \/ status'[u] = "NO_GO" /\ artefact'[u] \in {artefact[u], "skip"}
<1>1. /\ pc = "drain" /\ pc' = "act" /\ todo' = Chosen
      /\ UNCHANGED <<assigned, collected, attempts, live, first, pass, ran, loose, cut>>
  BY DEF Decide, history
<1>2. queue' \subseteq queue /\ queue' \cap Chosen = {}
  BY DEF Decide, Chosen
<1>3. PICK kept \in SUBSET Doomed :
        /\ status' = [u \in Tasks |-> IF u \in Doomed \ kept THEN "NO_GO" ELSE status[u]]
        /\ artefact' = [u \in Tasks |-> IF u \in Doomed \ kept /\ artefact[u] = "none"
                                        THEN "skip" ELSE artefact[u]]
  BY DEF Decide, CloseDoomed
<1> QED
  BY <1>1, <1>2, <1>3, DoomedNotDone

LEMMA DecideStep == ASSUME IInv, Decide PROVE IInv'
<1> USE DecideChanges DEF IInv, TypeOK
<1>1. TypeOK'
  BY LimitsAssumption DEF Decide, CloseDoomed, Fault, Statuses, Artefacts, Steps, Chosen, history
<1>2. VerdictsCollected'
  BY DEF VerdictsCollected
<1>3. QueueFresh'
  <2>1. ASSUME NEW u \in queue PROVE u \in Tasks \ Doomed
    BY DoomedBehindFailed DEF QueueFresh
  <2> QED
    BY <2>1 DEF QueueFresh
<1>4. ChosenStartable'
  <2>1. ASSUME NEW u \in Chosen
        PROVE  u \in Tasks \ Doomed /\ status[u] = "PENDING" /\ DepsDone(u) /\ artefact[u] # "skip"
    BY DEF QueueFresh, SkipComesFirst, Chosen, Ready
  <2>2. \A u \in Tasks : DepsDone(u) => DepsDone(u)'
    BY DepsAssumption DEF DepsDone
  <2> QED
    BY <2>1, <2>2 DEF ChosenStartable
<1>5. ExhaustedStops'
  BY DEF ExhaustedStops
<1>6. RanBehindDone'
  <2>1. \A u \in Tasks : DepsDone(u) => DepsDone(u)'
    BY DepsAssumption DEF DepsDone
  <2>2. Executing' \subseteq Executing
    BY DEF Executing, Having
  <2> QED
    BY <2>1, <2>2 DEF RanBehindDone
<1>7. SkipComesFirst'
  BY DEF SkipComesFirst
<1>8. PassFailed'
  BY DEF PassFailed, Cascading
<1>9. WritersExclusive'
  BY DEF WritersExclusive, Executing, Having, Colliding
<1>10. OneWorkerPerTask'
  BY DEF OneWorkerPerTask
<1>11. SkippedNeverRan'
  <2>1. ASSUME NEW u \in Doomed
        PROVE  u \notin ran
    <3>1. PICK d \in Deps[u] : status[d] = "NO_GO" \/ d \in Doomed
      BY DoomedBehindFailed
    <3>2. status[d] # "DONE"
      BY <3>1
    <3> QED
      BY <3>1, <3>2 DEF RanBehindDone, DepsDone
  <2> QED
    BY <2>1 DEF SkippedNeverRan
<1>12. HandOverQuiescent'
  BY DEF HandOverQuiescent, Executing, Having
<1> QED
  BY <1>1, <1>2, <1>3, <1>4, <1>5, <1>6, <1>7, <1>8, <1>9, <1>10, <1>11, <1>12

LEMMA SpawnLandsStep == ASSUME IInv, NEW t \in Tasks, SpawnLands(t) PROVE IInv'
<1> USE DEF IInv, TypeOK, SpawnLands, Visit, Started, Writers, budget
<1>1. TypeOK'
  BY DEF Statuses, Artefacts, Steps
<1>2. VerdictsCollected'
  BY DEF VerdictsCollected, ChosenStartable, DepsDone
<1>3. QueueFresh'
  BY DEF QueueFresh, ChosenStartable, DepsDone
<1>4. ChosenStartable'
  BY DEF ChosenStartable, DepsDone
<1>5. ExhaustedStops'
  BY DEF ExhaustedStops, ChosenStartable, DepsDone
<1>6. RanBehindDone'
  BY DEF RanBehindDone, DepsDone, Executing, Having, ChosenStartable
<1>7. SkipComesFirst'
  BY DEF SkipComesFirst, ChosenStartable, DepsDone
<1>8. PassFailed'
  BY DEF PassFailed, Cascading
<1>9. WritersExclusive'
  BY DEF WritersExclusive, Executing, Having, Colliding, VerdictsCollected
<1>10. OneWorkerPerTask'
  BY DEF OneWorkerPerTask, VerdictsCollected, ChosenStartable, DepsDone
<1>11. SkippedNeverRan'
  BY DEF SkippedNeverRan, ChosenStartable, DepsDone
<1>12. HandOverQuiescent'
  BY DEF HandOverQuiescent, Executing, Having
<1> QED
  BY <1>1, <1>2, <1>3, <1>4, <1>5, <1>6, <1>7, <1>8, <1>9, <1>10, <1>11, <1>12

LEMMA SpawnHeldStep == ASSUME IInv, NEW t \in Tasks, SpawnHeld(t) PROVE IInv'
<1> USE DEF IInv, TypeOK, SpawnHeld, Visit, Writers, tasks, world, budget,
            history
<1>1. TypeOK'
  BY DEF Statuses, Artefacts, Steps
<1>2. ChosenStartable'
  BY DEF ChosenStartable, DepsDone
<1>3. SkipComesFirst'
  BY DEF SkipComesFirst
<1>4. PassFailed'
  BY DEF PassFailed, Cascading
<1>5. VerdictsCollected' /\ QueueFresh' /\ ExhaustedStops' /\
        RanBehindDone' /\ WritersExclusive' /\ OneWorkerPerTask' /\
        SkippedNeverRan' /\ HandOverQuiescent'
  BY DEF VerdictsCollected, QueueFresh, ExhaustedStops, RanBehindDone,
       DepsDone, Executing, Having, WritersExclusive, Colliding, OneWorkerPerTask,
       SkippedNeverRan, HandOverQuiescent
<1> QED
  BY <1>1, <1>2, <1>3, <1>4, <1>5

LEMMA SpawnRefusedStep == ASSUME IInv, NEW t \in Tasks, SpawnRefused(t) PROVE IInv'
<1> USE DEF IInv, TypeOK, SpawnRefused, Visit, Fault, Writers, tasks, world,
            history
<1>1. TypeOK'
  BY LimitsAssumption DEF Statuses, Artefacts, Steps
<1>2. ChosenStartable'
  BY DEF ChosenStartable, DepsDone
<1>3. SkipComesFirst'
  BY DEF SkipComesFirst
<1>4. PassFailed'
  BY DEF PassFailed, Cascading
<1>5. VerdictsCollected' /\ QueueFresh' /\ ExhaustedStops' /\
        RanBehindDone' /\ WritersExclusive' /\ OneWorkerPerTask' /\
        SkippedNeverRan' /\ HandOverQuiescent'
  BY DEF VerdictsCollected, QueueFresh, ExhaustedStops, RanBehindDone,
       DepsDone, Executing, Having, WritersExclusive, Colliding, OneWorkerPerTask,
       SkippedNeverRan, HandOverQuiescent
<1> QED
  BY <1>1, <1>2, <1>3, <1>4, <1>5

LEMMA AdmissionFailsStep == ASSUME IInv, NEW t \in Tasks, AdmissionFails(t) PROVE IInv'
<1> USE DEF IInv, TypeOK, AdmissionFails, Visit, Fault, Writers, history
<1>1. TypeOK'
  BY LimitsAssumption DEF Statuses, Artefacts, Steps
<1>2. VerdictsCollected'
  BY DEF VerdictsCollected
<1>3. QueueFresh'
  BY DEF QueueFresh, ChosenStartable, DepsDone
<1>4. ChosenStartable'
  BY DEF ChosenStartable, DepsDone
<1>5. ExhaustedStops'
  BY DEF ExhaustedStops
<1>6. RanBehindDone'
  BY DEF RanBehindDone, DepsDone, Executing, Having, ChosenStartable
<1>7. SkipComesFirst'
  BY DEF SkipComesFirst
<1>8. PassFailed'
  BY DEF PassFailed, Cascading
<1>9. WritersExclusive'
  BY DEF WritersExclusive, Executing, Having, Colliding
<1>10. OneWorkerPerTask'
  BY DEF OneWorkerPerTask, ChosenStartable, DepsDone
<1>11. SkippedNeverRan'
  BY DEF SkippedNeverRan
<1>12. HandOverQuiescent'
  BY DEF HandOverQuiescent, Executing, Having
<1> QED
  BY <1>1, <1>2, <1>3, <1>4, <1>5, <1>6, <1>7, <1>8, <1>9, <1>10, <1>11, <1>12

LEMMA SpawnFailsStep == ASSUME IInv, NEW t \in Tasks, SpawnFails(t) PROVE IInv'
<1> USE DEF IInv, TypeOK, SpawnFails, Visit, Fault, Postpone, Writers, world,
            history
<1>1. TypeOK'
  BY LimitsAssumption DEF Statuses, Artefacts, Steps, ChosenStartable,
       ExhaustedStops, DepsDone
<1>2. VerdictsCollected'
  BY DEF VerdictsCollected, ChosenStartable, DepsDone
<1>3. QueueFresh'
  BY DEF QueueFresh, ChosenStartable, DepsDone
<1>4. ChosenStartable'
  <2>1. /\ pc = "act" /\ pc' = pc /\ queue' = queue /\ todo' = todo \ {t}
        /\ \A u \in Tasks : artefact'[u] = artefact[u]
    BY DEF IInv, TypeOK, SpawnFails, Visit, Postpone, world, history
  <2>2. /\ status[t] = "PENDING"
        /\ \A u \in Tasks \ {t} : status'[u] = status[u]
    BY DEF IInv, TypeOK, ChosenStartable, SpawnFails, Visit, Postpone, world, history
  <2>3. \A u \in Tasks : DepsDone(u) => DepsDone(u)'
    BY <2>2, DepsAssumption DEF DepsDone
  <2> QED
    BY <2>1, <2>2, <2>3 DEF IInv, TypeOK, ChosenStartable
<1>5. ExhaustedStops'
  BY DEF ExhaustedStops, ChosenStartable, DepsDone
<1>6. RanBehindDone'
  <2>1. /\ status[t] = "PENDING" /\ status'[t] \in {"PAUSED", "PENDING"} /\ DepsDone(t)
        /\ \A u \in Tasks \ {t} : status'[u] = status[u]
    BY DEF IInv, TypeOK, ChosenStartable, SpawnFails, Visit, Postpone, world, history
  <2>2. \A u \in Tasks : DepsDone(u) => DepsDone(u)'
    BY <2>1, DepsAssumption DEF DepsDone
  <2>3. Executing' \subseteq Executing
    BY <2>1 DEF Executing, Having
  <2> QED
    BY <2>1, <2>2, <2>3 DEF IInv, TypeOK, RanBehindDone, SpawnFails, Visit, Postpone, world, history
<1>7. SkipComesFirst'
  BY DEF SkipComesFirst, ChosenStartable, DepsDone
<1>8. PassFailed'
  BY DEF PassFailed, Cascading
<1>9. WritersExclusive'
  BY DEF WritersExclusive, Executing, Having, Colliding
<1>10. OneWorkerPerTask'
  BY DEF OneWorkerPerTask, ChosenStartable, DepsDone
<1>11. HandOverQuiescent'
  BY DEF HandOverQuiescent, Executing, Having
<1>12. SkippedNeverRan'
  BY DEF SkippedNeverRan
<1> QED
  BY <1>1, <1>2, <1>3, <1>4, <1>5, <1>6, <1>7, <1>8, <1>9, <1>10, <1>11, <1>12

LEMMA SpawnFailsLateStep == ASSUME IInv, NEW t \in Tasks, SpawnFailsLate(t) PROVE IInv'
<1> USE DEF IInv, TypeOK, SpawnFailsLate, Visit, Fault, Postpone, Started,
            Writers
<1>1. TypeOK'
  BY LimitsAssumption DEF Statuses, Artefacts, Steps, ChosenStartable,
       ExhaustedStops, DepsDone
<1>2. VerdictsCollected'
  BY DEF VerdictsCollected, ChosenStartable, DepsDone
<1>3. QueueFresh'
  BY DEF QueueFresh, ChosenStartable, DepsDone
<1>4. ChosenStartable'
  <2>1. /\ pc = "act" /\ pc' = pc /\ queue' = queue /\ todo' = todo \ {t}
        /\ \A u \in Tasks : artefact'[u] = artefact[u]
    BY DEF IInv, TypeOK, SpawnFailsLate, Visit, Postpone, Started
  <2>2. /\ status[t] = "PENDING"
        /\ \A u \in Tasks \ {t} : status'[u] = status[u]
    BY DEF IInv, TypeOK, ChosenStartable, SpawnFailsLate, Visit, Postpone, Started
  <2>3. \A u \in Tasks : DepsDone(u) => DepsDone(u)'
    BY <2>2, DepsAssumption DEF DepsDone
  <2> QED
    BY <2>1, <2>2, <2>3 DEF IInv, TypeOK, ChosenStartable
<1>5. ExhaustedStops'
  BY DEF ExhaustedStops, ChosenStartable, DepsDone
<1>6. RanBehindDone'
  <2>1. /\ status[t] = "PENDING" /\ status'[t] \in {"PAUSED", "PENDING"} /\ DepsDone(t)
        /\ \A u \in Tasks \ {t} : status'[u] = status[u]
    BY DEF IInv, TypeOK, ChosenStartable, SpawnFailsLate, Visit, Postpone, Started
  <2>2. \A u \in Tasks : DepsDone(u) => DepsDone(u)'
    BY <2>1, DepsAssumption DEF DepsDone
  <2>3. Executing' \subseteq Executing
    BY <2>1 DEF Executing, Having
  <2> QED
    BY <2>1, <2>2, <2>3 DEF IInv, TypeOK, RanBehindDone, SpawnFailsLate, Visit, Postpone, Started
<1>7. SkipComesFirst'
  BY DEF SkipComesFirst, ChosenStartable, DepsDone
<1>8. PassFailed'
  BY DEF PassFailed, Cascading
<1>9. WritersExclusive'
  BY DEF WritersExclusive, Executing, Having, Colliding
<1>10. OneWorkerPerTask'
  BY DEF OneWorkerPerTask, ChosenStartable, DepsDone
<1>11. SkippedNeverRan'
  BY DEF SkippedNeverRan, ChosenStartable, DepsDone
<1>12. HandOverQuiescent'
  BY DEF HandOverQuiescent, Executing, Having
<1> QED
  BY <1>1, <1>2, <1>3, <1>4, <1>5, <1>6, <1>7, <1>8, <1>9, <1>10, <1>11, <1>12

-----------------------------------------------------------------------------
(* The cascade and the end of a tick                                       *)

LEMMA ParkStep == ASSUME IInv, NEW t \in Tasks, Park(t) PROVE IInv'
<1> USE DEF IInv, TypeOK, Park, Cascading, CanPark, Undispatched, Failed,
            Having, Uncollected, world, budget, history
<1>1. TypeOK'
  BY DEF Statuses, Artefacts, Steps
<1>2. VerdictsCollected'
  BY DEF VerdictsCollected
<1>3. QueueFresh'
  BY DEF QueueFresh
<1>4. ChosenStartable'
  BY DEF ChosenStartable, DepsDone
<1>5. ExhaustedStops'
  BY DEF ExhaustedStops
<1>6. RanBehindDone'
  BY DEF RanBehindDone, DepsDone, Executing
<1>7. SkipComesFirst'
  BY DEF SkipComesFirst
<1>8. PassFailed'
  BY DEF PassFailed
<1>9. WritersExclusive'
  BY DEF WritersExclusive, Executing, Colliding
<1>10. OneWorkerPerTask'
  BY DEF OneWorkerPerTask
<1>11. HandOverQuiescent'
  BY DEF HandOverQuiescent, Executing
<1>12. SkippedNeverRan'
  BY DEF SkippedNeverRan
<1> QED
  BY <1>1, <1>2, <1>3, <1>4, <1>5, <1>6, <1>7, <1>8, <1>9, <1>10, <1>11, <1>12

LEMMA ParkThrowsStep == ASSUME IInv, NEW t \in Tasks, ParkThrows(t) PROVE IInv'
<1> USE DEF IInv, TypeOK, ParkThrows, Cascading, CanPark, Undispatched,
            Failed, Armor, Fault, Having, Uncollected, world, history
<1>1. TypeOK'
  BY LimitsAssumption DEF Statuses, Artefacts, Steps
<1>2. VerdictsCollected'
  BY DEF VerdictsCollected
<1>3. QueueFresh'
  BY DEF QueueFresh
<1>4. ChosenStartable'
  BY DEF ChosenStartable, DepsDone
<1>5. ExhaustedStops'
  BY DEF ExhaustedStops
<1>6. RanBehindDone'
  BY DEF RanBehindDone, DepsDone, Executing
<1>7. SkipComesFirst'
  BY DEF SkipComesFirst
<1>8. PassFailed'
  BY DEF PassFailed
<1>9. WritersExclusive'
  BY DEF WritersExclusive, Executing, Colliding
<1>10. OneWorkerPerTask'
  BY DEF OneWorkerPerTask
<1>11. HandOverQuiescent'
  BY DEF HandOverQuiescent, Executing
<1>12. SkippedNeverRan'
  BY DEF SkippedNeverRan
<1> QED
  BY <1>1, <1>2, <1>3, <1>4, <1>5, <1>6, <1>7, <1>8, <1>9, <1>10, <1>11, <1>12

LEMMA SkipStep == ASSUME IInv, NEW t \in Tasks, Skip(t) PROVE IInv'
<1> USE DEF IInv, TypeOK, Skip, Cascading, CanSkip, Undispatched, Failed,
            Having, Uncollected, budget, history
<1>1. TypeOK'
  BY DEF Statuses, Artefacts, Steps
<1>2. VerdictsCollected'
  BY DEF VerdictsCollected
<1>3. QueueFresh'
  BY DEF QueueFresh
<1>4. ChosenStartable'
  BY DEF ChosenStartable, DepsDone
<1>5. ExhaustedStops'
  BY DEF ExhaustedStops
<1>6. RanBehindDone'
  BY DEF RanBehindDone, DepsDone, Executing
<1>7. SkipComesFirst'
  BY DEF SkipComesFirst
<1>8. PassFailed'
  BY DEF PassFailed
<1>9. WritersExclusive'
  BY DEF WritersExclusive, Executing, Colliding
<1>10. OneWorkerPerTask'
  BY DEF OneWorkerPerTask
<1>11. SkippedNeverRan'
  BY DEF SkippedNeverRan, RanBehindDone, PassFailed, DepsDone, Executing
<1>12. HandOverQuiescent'
  BY DEF HandOverQuiescent, Executing
<1> QED
  BY <1>1, <1>2, <1>3, <1>4, <1>5, <1>6, <1>7, <1>8, <1>9, <1>10, <1>11, <1>12

LEMMA SkipThrowsStep == ASSUME IInv, NEW t \in Tasks, SkipThrows(t) PROVE IInv'
<1> USE DEF IInv, TypeOK, SkipThrows, Cascading, CanSkip, Undispatched,
            Failed, Armor, Fault, Having, Uncollected, tasks, history
<1>1. TypeOK'
  BY LimitsAssumption DEF Statuses, Artefacts, Steps
<1>2. QueueFresh'
  BY DEF QueueFresh
<1>3. ChosenStartable'
  BY DEF ChosenStartable, DepsDone
<1>4. SkipComesFirst'
  BY DEF SkipComesFirst
<1>5. PassFailed'
  BY DEF PassFailed
<1>6. OneWorkerPerTask'
  BY DEF OneWorkerPerTask
<1>7. SkippedNeverRan'
  BY DEF SkippedNeverRan, RanBehindDone, PassFailed, DepsDone, Executing
<1>8. HandOverQuiescent'
  BY DEF HandOverQuiescent, Executing
<1>9. VerdictsCollected' /\ ExhaustedStops' /\ RanBehindDone' /\
        WritersExclusive'
  BY DEF VerdictsCollected, ExhaustedStops, RanBehindDone, DepsDone,
       Executing, WritersExclusive, Colliding
<1> QED
  BY <1>1, <1>2, <1>3, <1>4, <1>5, <1>6, <1>7, <1>8, <1>9

LEMMA CascadeDoneStep == ASSUME IInv, CascadeDone PROVE IInv'
<1> USE DEF IInv, TypeOK, CascadeDone, Cascading, Conclude, Yield,
            HeldAndQuiet, Executing, Having, Uncollected, tasks, world,
            budget, history
<1>1. TypeOK'
  BY DEF Statuses, Artefacts, Steps
<1>2. ChosenStartable'
  BY DEF ChosenStartable, DepsDone
<1>3. SkipComesFirst'
  BY DEF SkipComesFirst
<1>4. PassFailed'
  BY DEF PassFailed
<1>5. HandOverQuiescent'
  BY DEF HandOverQuiescent, OneWorkerPerTask, VerdictsCollected
<1>6. VerdictsCollected' /\ QueueFresh' /\ ExhaustedStops' /\
        RanBehindDone' /\ WritersExclusive' /\ OneWorkerPerTask' /\
        SkippedNeverRan'
  BY DEF VerdictsCollected, QueueFresh, ExhaustedStops, RanBehindDone,
       DepsDone, WritersExclusive, Colliding, OneWorkerPerTask, SkippedNeverRan
<1> QED
  BY <1>1, <1>2, <1>3, <1>4, <1>5, <1>6

LEMMA AfterErrorStep == ASSUME IInv, AfterError PROVE IInv'
<1> USE DEF IInv, TypeOK, AfterError, Conclude, Yield, HeldAndQuiet,
            Executing, Having, Uncollected, tasks, world, budget, history
<1>1. TypeOK'
  BY DEF Statuses, Artefacts, Steps
<1>2. ChosenStartable'
  BY DEF ChosenStartable, DepsDone
<1>3. SkipComesFirst'
  BY DEF SkipComesFirst
<1>4. PassFailed'
  BY DEF PassFailed, Cascading
<1>5. HandOverQuiescent'
  BY DEF HandOverQuiescent, OneWorkerPerTask, VerdictsCollected
<1>6. VerdictsCollected' /\ QueueFresh' /\ ExhaustedStops' /\
        RanBehindDone' /\ WritersExclusive' /\ OneWorkerPerTask' /\
        SkippedNeverRan'
  BY DEF VerdictsCollected, QueueFresh, ExhaustedStops, RanBehindDone,
       DepsDone, WritersExclusive, Colliding, OneWorkerPerTask, SkippedNeverRan
<1> QED
  BY <1>1, <1>2, <1>3, <1>4, <1>5, <1>6

-----------------------------------------------------------------------------

LEMMA Initially == Init => IInv
<1> SUFFICES ASSUME Init PROVE IInv
  OBVIOUS
<1>1. TypeOK
  <2>1. Wave \subseteq Tasks /\ Eligible \subseteq Tasks
    BY DEF Wave, Dispatchable, Eligible
  <2>2. 0 \in 0 .. MaxAttempts /\ 0 \in 0 .. MaxFaults
    BY LimitsAssumption
  <2> QED
    BY <2>1, <2>2 DEF Init, TypeOK, Statuses, Artefacts, Steps
<1>2. \A t \in Wave : t \in Tasks /\ Deps[t] = {} /\ \A u \in Tasks : u < t => ~Colliding(t, u)
  BY DEF Wave, Dispatchable, Eligible
<1>3. Executing = Wave
  BY <1>2 DEF Init, Executing, Having
<1>4. VerdictsCollected /\ QueueFresh /\ ChosenStartable /\ PassFailed
  BY DEF Init, VerdictsCollected, QueueFresh, ChosenStartable, PassFailed, Eligible
<1>5. ExhaustedStops /\ SkipComesFirst /\ SkippedNeverRan /\ HandOverQuiescent
  BY LimitsAssumption DEF Init, ExhaustedStops, SkipComesFirst, SkippedNeverRan, HandOverQuiescent
<1>6. RanBehindDone /\ OneWorkerPerTask
  BY <1>2, <1>3 DEF Init, RanBehindDone, OneWorkerPerTask, DepsDone
<1>7. WritersExclusive
  <2>1. ASSUME NEW t \in Wave, NEW u \in Wave, Colliding(t, u) PROVE FALSE
    <3>1. t \in Int /\ u \in Int /\ (t < u \/ u < t)
      BY <1>2, <2>1, NAssumption DEF Tasks, Colliding
    <3> QED
      BY <1>2, <2>1, <3>1 DEF Colliding
  <2> QED
    BY <1>3, <2>1 DEF WritersExclusive
<1> QED
  BY <1>1, <1>4, <1>5, <1>6, <1>7 DEF IInv

LEMMA Inductive == IInv /\ [Next]_vars => IInv'
<1> SUFFICES ASSUME IInv, [Next]_vars PROVE IInv'
  OBVIOUS
<1>1. CASE Environment
  BY <1>1, WorkerEndsStep, BackoffEndsStep, RequestRespawnStep, TripHoldStep DEF Environment
<1>2. CASE Deadline \/ \E t \in Tasks : Reap(t)
  BY <1>2, DeadlineStep, ReapStep
<1>3. CASE TickStep
  BY <1>3, CollectDoneStep, DrainHeldStep, CascadeDoneStep, AfterErrorStep,
       SweepDoneStep, CollectStep, CollectThrowsStep, DrainDropStep,
       DrainRestartStep, DrainStopStep, DrainLateStep, ParkStep,
       ParkThrowsStep, SkipStep, SkipThrowsStep, SweepStep, SweepThrowsStep DEF TickStep
<1>4. CASE Dispatch
  BY <1>4, DecideStep, SpawnLandsStep, SpawnHeldStep, SpawnRefusedStep,
       AdmissionFailsStep, SpawnFailsStep, SpawnFailsLateStep DEF Dispatch
<1>5. CASE UNCHANGED vars
  BY <1>5 DEF IInv, TypeOK, VerdictsCollected, QueueFresh, ChosenStartable, ExhaustedStops,
       RanBehindDone, SkipComesFirst, PassFailed, Cascading, WritersExclusive, OneWorkerPerTask,
       SkippedNeverRan, HandOverQuiescent, DepsDone, Executing, Having, vars, tasks, world,
       control, budget, history
<1> QED
  BY <1>1, <1>2, <1>3, <1>4, <1>5 DEF Next, LoopStep

LEMMA Invariantly == Spec => []IInv
BY Initially, Inductive, PTL DEF Spec

\* Every task, artefact, counter and step keeps its type.
THEOREM SprintTypes == Spec => []TypeOK
<1>1. IInv => TypeOK
  BY DEF IInv
<1> QED
  BY <1>1, Invariantly, PTL

\* Whatever fails, restarts or is closed, a task given to a worker has only
\* done dependencies.
THEOREM DependenciesAlwaysHonoured == Spec => []DependenciesHonoured
<1>1. IInv => DependenciesHonoured
  BY DEF IInv, RanBehindDone, DependenciesHonoured
<1> QED
  BY <1>1, Invariantly, PTL

\* Two writers of a file are never at work together.
THEOREM WritersAlwaysExclusive == Spec => []WritersExclusive
<1>1. IInv => WritersExclusive
  BY DEF IInv
<1> QED
  BY <1>1, Invariantly, PTL

\* Outside the named failures a worker is the only one of a task at work.
THEOREM WorkersAlwaysSingle == Spec => []OneWorkerPerTask
<1>1. IInv => OneWorkerPerTask
  BY DEF IInv
<1> QED
  BY <1>1, Invariantly, PTL

\* A task closed by a cascade has no worker, before and after.
THEOREM SkippedNeverStarts == Spec => []SkippedNeverRan
<1>1. IInv => SkippedNeverRan
  BY DEF IInv
<1> QED
  BY <1>1, Invariantly, PTL

\* The hand-over finds nothing at work.
THEOREM HandsOverQuietly == Spec => []HandOverQuiescent
<1>1. IInv => HandOverQuiescent
  BY DEF IInv
<1> QED
  BY <1>1, Invariantly, PTL

-----------------------------------------------------------------------------

\* What no step takes back of the tasks that are collected.
Kept == \A t \in collected : t \in collected' /\ status'[t] = status[t] /\ t \notin assigned' \ assigned

LEMMA KeptByStep == ASSUME IInv, [Next]_vars PROVE Kept
<1>1. CASE \/ TripHold \/ Deadline \/ CollectDone \/ DrainHeld \/ CascadeDone
             \/ AfterError \/ SweepDone
          \/ \E t \in Tasks :
               WorkerEnds(t) \/ BackoffEnds(t) \/ RequestRespawn(t) \/
               Reap(t) \/ CollectThrows(t) \/ DrainDrop(t) \/ SkipThrows(t)
               \/ SweepThrows(t) \/ SpawnHeld(t) \/ SpawnRefused(t)
  BY <1>1 DEF Kept, WorkerEnds, BackoffEnds, RequestRespawn, TripHold, Deadline,
       Reap, CollectDone, DrainHeld, CascadeDone, AfterError, SweepDone,
       CollectThrows, DrainDrop, SkipThrows, SweepThrows, SpawnHeld,
       SpawnRefused, Conclude, Armor, tasks, world, control, budget, history
<1>2. CASE \E t \in Tasks : Collect(t)
  BY <1>2 DEF IInv, TypeOK, VerdictsCollected, Kept, Collect, Take, NextFound, Found
<1>3. CASE \E t \in Tasks : DrainRestart(t)
  BY <1>3 DEF IInv, TypeOK, VerdictsCollected, Kept, DrainRestart, Started,
       Executing, Having, Writers
<1>4. CASE \E t \in Tasks : DrainStop(t)
  BY <1>4 DEF IInv, TypeOK, VerdictsCollected, Kept, DrainStop, Executing, Having,
       Writers
<1>5. CASE \E t \in Tasks : DrainLate(t)
  BY <1>5 DEF IInv, TypeOK, VerdictsCollected, Kept, DrainLate, Started, Executing,
       Having, Writers
<1>6. CASE \E t \in Tasks : Park(t)
  BY <1>6 DEF IInv, TypeOK, VerdictsCollected, Kept, Park, CanPark, Undispatched,
       Having, Uncollected
<1>7. CASE \E t \in Tasks : ParkThrows(t)
  BY <1>7 DEF IInv, TypeOK, VerdictsCollected, Kept, ParkThrows, CanPark,
       Undispatched, Having, Uncollected
<1>8. CASE \E t \in Tasks : Skip(t)
  BY <1>8 DEF IInv, TypeOK, VerdictsCollected, Kept, Skip, CanSkip, Undispatched,
       Having, Uncollected
<1>9. CASE \E t \in Tasks : Sweep(t)
  BY <1>9 DEF IInv, TypeOK, VerdictsCollected, Kept, Sweep, Take, NextFound, Found
<1>10. CASE Decide
  BY <1>10, DecideChanges DEF IInv, TypeOK, VerdictsCollected, Kept
<1>11. CASE \E t \in Tasks : SpawnLands(t)
  BY <1>11 DEF IInv, TypeOK, VerdictsCollected, ChosenStartable, Kept, SpawnLands,
       Visit, Started, Writers
<1>12. CASE \E t \in Tasks : AdmissionFails(t)
  BY <1>12 DEF IInv, TypeOK, VerdictsCollected, ChosenStartable, Kept,
       AdmissionFails, Visit, Writers
<1>13. CASE \E t \in Tasks : SpawnFails(t)
  BY <1>13 DEF IInv, TypeOK, VerdictsCollected, ChosenStartable, Kept, SpawnFails,
       Visit, Postpone, Writers
<1>14. CASE \E t \in Tasks : SpawnFailsLate(t)
  BY <1>14 DEF IInv, TypeOK, VerdictsCollected, ChosenStartable, Kept,
       SpawnFailsLate, Visit, Postpone, Started, Writers
<1>15. CASE UNCHANGED vars
  BY <1>15 DEF Kept, vars, tasks
<1> QED
  BY <1>1, <1>2, <1>3, <1>4, <1>5, <1>6, <1>7, <1>8, <1>9, <1>10, <1>11,
       <1>12, <1>13, <1>14, <1>15
     DEF Next, LoopStep, Environment, TickStep, Dispatch

\* A verdict once counted is not changed, and its task not started again.
THEOREM CollectedStays == Spec => CollectedIsFinal
<1>1. IInv /\ [Next]_vars => [Kept]_vars
  BY KeptByStep
<1>2. Spec => [][Kept]_vars
  BY <1>1, Invariantly, PTL DEF Spec
<1> QED
  BY <1>2, PTL DEF CollectedIsFinal, Kept

-----------------------------------------------------------------------------
(* The contract of EXECUTE *)

\* A result on disk is a worker's.
ResultsRan == \A t \in Tasks : artefact[t] = "result" => t \in ran

\* What is at work and what is about to start fit the workers there are.
SlotsKept == Cardinality(Executing) + (IF pc = "act" THEN Cardinality(todo) ELSE 0) <= MaxWorkers

CutIsOver == cut => pc \in {"sweep", "ended", "failed"}

\* What the contract needs beside the invariant.
ContractInvariant == ResultsRan /\ SlotsKept /\ CutIsOver

\* Of a finite set in a strict total order R, at most k elements have fewer than
\* k elements before them.
LEMMA FewFirst ==
  ASSUME NEW S, IsFiniteSet(S), NEW R, NEW k \in Nat,
         \A x \in S : <<x, x>> \notin R,
         \A x, y, z \in S : <<x, y>> \in R /\ <<y, z>> \in R => <<x, z>> \in R,
         \A x, y \in S : x # y => <<x, y>> \in R \/ <<y, x>> \in R
  PROVE  LET F == {t \in S : Cardinality({u \in S : <<u, t>> \in R}) < k}
         IN  IsFiniteSet(F) /\ Cardinality(F) <= k
<1> DEFINE Below(t) == {u \in S : <<u, t>> \in R}
           F == {t \in S : Cardinality(Below(t)) < k}
           f == [t \in F |-> Cardinality(Below(t))]
<1>1. ASSUME NEW t \in S PROVE IsFiniteSet(Below(t)) /\ Cardinality(Below(t)) \in Nat
  BY FS_Subset, FS_CardinalityType
<1>2. ASSUME NEW t \in S, NEW u \in S, <<u, t>> \in R
      PROVE  Cardinality(Below(u)) # Cardinality(Below(t))
  <2>1. Below(u) \in SUBSET Below(t) /\ u \in Below(t) \ Below(u)
    BY <1>2
  <2> QED
    BY <1>1, <2>1, FS_Subset
<1>3. f \in [F -> 0 .. (k - 1)]
  BY <1>1
<1>4. ASSUME NEW t \in F, NEW u \in F, f[t] = f[u] PROVE t = u
  BY <1>2, <1>4
<1>5. f \in Injection(F, 0 .. (k - 1))
  BY <1>3, <1>4 DEF Injection, IsInjective
<1>6. IsFiniteSet(0 .. (k - 1)) /\ Cardinality(0 .. (k - 1)) = k
  BY FS_Interval
<1> QED
  BY <1>5, <1>6, FS_Injection

LEMMA TasksFinite == ASSUME NEW S \in SUBSET Tasks PROVE IsFiniteSet(S) /\ Cardinality(S) \in Nat
<1>1. IsFiniteSet(Tasks)
  BY NAssumption, FS_Interval DEF Tasks
<1> QED
  BY <1>1, FS_Subset, FS_CardinalityType

LEMMA FewerTasks ==
  ASSUME NEW S \in SUBSET Tasks, NEW T \in SUBSET S
  PROVE  Cardinality(T) <= Cardinality(S)
BY TasksFinite, FS_Subset

LEMMA WaveFits == Cardinality(Wave) <= MaxWorkers
<1> DEFINE R == {p \in Tasks \X Tasks : p[1] < p[2]}
<1>1. Dispatchable \in SUBSET Tasks /\ IsFiniteSet(Dispatchable)
  BY TasksFinite DEF Dispatchable, Eligible
<1>2. \A x, y \in Dispatchable : <<x, y>> \in R <=> x < y
  BY <1>1
<1>3. /\ \A x \in Dispatchable : <<x, x>> \notin R
      /\ \A x, y, z \in Dispatchable : <<x, y>> \in R /\ <<y, z>> \in R => <<x, z>> \in R
      /\ \A x, y \in Dispatchable : x # y => <<x, y>> \in R \/ <<y, x>> \in R
  BY <1>1, <1>2, NAssumption DEF Tasks
<1> DEFINE F == {t \in Dispatchable : Cardinality({u \in Dispatchable : <<u, t>> \in R}) < MaxWorkers}
<1>4. Wave = F
  <2>1. \A t \in Dispatchable :
          {u \in Dispatchable : <<u, t>> \in R} = {u \in Dispatchable : u < t}
    BY <1>2
  <2> QED
    BY <2>1 DEF Wave
<1>5. MaxWorkers \in Nat
  BY LimitsAssumption
<1>6. Cardinality(F) <= MaxWorkers
  <2> HIDE DEF R
  <2> QED
    BY <1>1, <1>3, <1>5, FewFirst
<1> QED
  BY <1>4, <1>6

\* The decision chooses no more tasks than there are free slots.
LEMMA ChosenFits == SlotBudget \in Nat => Cardinality(Chosen) <= SlotBudget
<1> SUFFICES ASSUME SlotBudget \in Nat PROVE Cardinality(Chosen) <= SlotBudget
  OBVIOUS
<1> DEFINE R == {p \in Tasks \X Tasks : Before(p[1], p[2])}
           S == {t \in Tasks : Ready(t)}
<1>1. S \in SUBSET Tasks /\ IsFiniteSet(S)
  BY TasksFinite
<1>2. \A x, y \in S : <<x, y>> \in R <=> Before(x, y)
  BY <1>1
<1>3. /\ \A x \in S : <<x, x>> \notin R
      /\ \A x, y, z \in S : <<x, y>> \in R /\ <<y, z>> \in R => <<x, z>> \in R
      /\ \A x, y \in S : x # y => <<x, y>> \in R \/ <<y, x>> \in R
  BY <1>1, <1>2, NAssumption DEF Tasks, Before
<1> DEFINE F == {t \in S : Cardinality({u \in S : <<u, t>> \in R}) < SlotBudget}
<1>4. Chosen \in SUBSET F
  <2>1. \A t \in S : {u \in S : <<u, t>> \in R} = {u \in Tasks : Ready(u) /\ Before(u, t)}
    BY <1>2
  <2> QED
    BY <2>1 DEF Chosen
<1>5. IsFiniteSet(F) /\ Cardinality(F) <= SlotBudget
  <2> HIDE DEF R, S
  <2> QED
    BY <1>1, <1>3, FewFirst
<1>6. F \in SUBSET Tasks /\ Cardinality(Chosen) <= Cardinality(F)
  BY <1>1, <1>4, FewerTasks
<1>7. Cardinality(Chosen) \in Nat /\ Cardinality(F) \in Nat
  BY <1>4, <1>6, TasksFinite
<1> HIDE DEF F
<1> QED
  BY <1>5, <1>6, <1>7


\* A step that puts no further task to work.
LEMMA SlotsFewer ==
  ASSUME TypeOK, TypeOK', SlotsKept, Executing' \subseteq Executing,
         pc' = "act" => todo' = {} \/ (pc = "act" /\ todo' \subseteq todo)
  PROVE  SlotsKept'
<1>1. /\ Executing \in SUBSET Tasks /\ Executing' \in SUBSET Tasks
      /\ todo \in SUBSET Tasks /\ todo' \in SUBSET Tasks
  BY DEF TypeOK, Executing, Having
<1>2. /\ Cardinality(Executing) \in Nat /\ Cardinality(Executing') \in Nat
      /\ Cardinality(todo) \in Nat /\ Cardinality(todo') \in Nat
      /\ Cardinality(Executing') <= Cardinality(Executing)
  BY <1>1, TasksFinite, FewerTasks
<1>3. MaxWorkers \in Nat
  BY LimitsAssumption
<1>4. CASE pc' # "act"
  BY <1>2, <1>3, <1>4 DEF SlotsKept
<1>5. CASE todo' = {}
  <2>1. Cardinality(todo') = 0
    BY <1>5, FS_EmptySet
  <2> QED
    BY <1>2, <1>3, <2>1 DEF SlotsKept
<1>6. CASE pc = "act" /\ todo' \subseteq todo
  <2>1. Cardinality(todo') <= Cardinality(todo)
    BY <1>1, <1>6, FewerTasks
  <2> QED
    BY <1>2, <1>3, <1>6, <2>1 DEF SlotsKept
<1> QED
  BY <1>4, <1>5, <1>6

LEMMA DecideSlots == ASSUME IInv, TypeOK', SlotsKept, Decide PROVE SlotsKept'
<1>1. pc = "drain" /\ pc' = "act" /\ todo' = Chosen
  BY DEF Decide
<1>2. Executing' = Executing
  BY DecideChanges DEF Executing, Having
<1>3. Executing \in SUBSET Tasks /\ Chosen \in SUBSET Tasks
  BY DEF Executing, Having, Chosen
<1>4. Cardinality(Executing) \in Nat /\ Cardinality(Chosen) \in Nat /\ MaxWorkers \in Nat
  BY <1>3, TasksFinite, LimitsAssumption
<1>5. Cardinality(Executing) <= MaxWorkers
  BY <1>1, <1>4 DEF SlotsKept
<1>6. Cardinality(Chosen) <= MaxWorkers - Cardinality(Executing)
  BY <1>4, <1>5, ChosenFits DEF SlotBudget
<1> QED
  BY <1>1, <1>2, <1>4, <1>6 DEF SlotsKept

LEMMA SpawnSlots ==
  ASSUME IInv, SlotsKept, NEW t \in Tasks, SpawnLands(t)
  PROVE  SlotsKept' /\ Cardinality(Executing) < MaxWorkers
<1>1. pc = "act" /\ pc' = "act" /\ t \in todo /\ todo' = todo \ {t}
  BY DEF SpawnLands, Visit
<1>2. Executing' = Executing \cup {t}
  BY DEF SpawnLands, Executing, Having, IInv, TypeOK, Statuses
<1>3. Executing \in SUBSET Tasks /\ todo \in SUBSET Tasks /\ t \notin Executing
  BY <1>1 DEF IInv, TypeOK, ChosenStartable, Executing, Having
<1>4. /\ Cardinality(Executing) \in Nat /\ Cardinality(todo) \in Nat /\ MaxWorkers \in Nat
      /\ IsFiniteSet(Executing) /\ IsFiniteSet(todo)
  BY <1>3, TasksFinite, LimitsAssumption
<1>5. Cardinality(Executing') = Cardinality(Executing) + 1
  BY <1>2, <1>3, <1>4, FS_AddElement
<1>6. Cardinality(todo') = Cardinality(todo) - 1 /\ Cardinality(todo) # 0
  BY <1>1, <1>4, FS_RemoveElement, FS_EmptySet
<1> QED
  BY <1>1, <1>4, <1>5, <1>6 DEF SlotsKept

\* What is shown of every step.
KeepsContract == ContractInvariant' /\ [Contract!Next]_(Contract!vars)

Phases == [t \in Tasks |-> PhaseOf(t)]

LEMMA SameCardinality == \A S : Contract!Cardinality(S) = Cardinality(S)
BY DEF Cardinality, Contract!Cardinality

LEMMA AtWork == IInv => Contract!Working = Executing
BY DEF Contract!Working, PhaseOf, Executing, Having, IInv, VerdictsCollected

LEMMA AtWorkAfter == IInv' => Contract!Working' = Executing'
BY DEF Contract!Working, PhaseOf, Executing, Having, IInv, VerdictsCollected

LEMMA DoneIsDone ==
  ASSUME IInv, NEW t \in Tasks, DepsDone(t)
  PROVE  \A d \in Deps[t] : Phases[d] = "DONE"
BY DepsAssumption DEF DepsDone, Phases, PhaseOf, IInv, VerdictsCollected

\* What the loop may do without the contract hearing of it, and how it ends.
Unheard ==
    /\ \A t \in Tasks : PhaseOf(t)' = PhaseOf(t)
    /\ ran' = ran
    /\ \A t \in Tasks : artefact'[t] = "result" => artefact[t] = "result" \/ t \in ran
    /\ pc' = "act" => todo' = {} \/ (pc = "act" /\ todo' \subseteq todo)

Onward ==
    /\ cut' => pc' \in {"sweep", "ended", "failed"}
    /\ \/ Mode' \in {Mode, "broken off"}
       \/ Mode = "execute" /\ Mode' = "handed over" /\ Executing = {}

LEMMA UnheardStep ==
  ASSUME IInv, IInv', ContractInvariant, Unheard, Onward
  PROVE  KeepsContract
<1>1. Executing = {t \in Tasks : PhaseOf(t) = "working"}
  BY DEF PhaseOf, Executing, Having, IInv, VerdictsCollected
<1>2. Executing' = {t \in Tasks : PhaseOf(t)' = "working"}
  BY DEF PhaseOf, Executing, Having, IInv, VerdictsCollected
<1>3. Executing' \subseteq Executing
  BY <1>1, <1>2 DEF Unheard
<1>4. SlotsKept'
  BY <1>3, SlotsFewer DEF IInv, ContractInvariant, Unheard
<1>5. ContractInvariant'
  BY <1>4 DEF ContractInvariant, ResultsRan, CutIsOver, Unheard, Onward
<1>6. Phases' = Phases /\ ran' = ran
  BY DEF Unheard, Phases
<1>7. ASSUME Mode' = Mode PROVE [Contract!Next]_(Contract!vars)
  BY <1>6, <1>7 DEF Contract!vars, Phases
<1>8. ASSUME Mode' = "broken off" PROVE Contract!Next
  BY <1>6, <1>8 DEF Contract!Next, Contract!BreakOff, Phases
<1>9. ASSUME Mode = "execute", Mode' = "handed over", Executing = {} PROVE Contract!Next
  BY <1>6, <1>9, AtWork DEF Contract!Next, Contract!HandOver, Phases
<1> QED
  BY <1>5, <1>7, <1>8, <1>9 DEF KeepsContract, Onward

LEMMA EnvironmentKeeps ==
  ASSUME IInv, IInv', ContractInvariant, Environment
  PROVE  KeepsContract
<1>1. UNCHANGED <<status, collected, ran, cut, control>>
  BY DEF Environment, WorkerEnds, BackoffEnds, RequestRespawn, TripHold, tasks, history
<1>2. \A t \in Tasks : artefact'[t] = "result" => artefact[t] = "result" \/ t \in ran
  <2>1. CASE \E t \in Tasks : WorkerEnds(t)
    <3>1. PICK t \in Tasks : WorkerEnds(t)
      BY <2>1
    <3>2. t \in ran /\ \A u \in Tasks \ {t} : artefact'[u] = artefact[u]
      BY <3>1 DEF WorkerEnds, IInv, TypeOK, RanBehindDone
    <3> QED
      BY <3>2
  <2>2. CASE ~\E t \in Tasks : WorkerEnds(t)
    BY <2>2 DEF Environment, BackoffEnds, RequestRespawn, TripHold, world
  <2> QED
    BY <2>1, <2>2
<1>3. Unheard /\ Onward
  BY <1>1, <1>2 DEF Unheard, Onward, PhaseOf, Executing, Having, Mode, control,
       ContractInvariant, CutIsOver
<1> QED
  BY <1>3, UnheardStep

\* The steps of a tick that leave the tasks and what has run as they are.
LEMMA TickKeeps ==
  ASSUME IInv, IInv', ContractInvariant,
         \/ Deadline \/ CollectDone \/ DrainHeld \/ SweepDone
         \/ \E t \in Tasks : Reap(t) \/ CollectThrows(t) \/ DrainDrop(t) \/ SkipThrows(t)
                             \/ SweepThrows(t) \/ SpawnHeld(t) \/ SpawnRefused(t)
  PROVE  KeepsContract
<1>1. UNCHANGED <<status, collected, ran>>
  BY DEF Deadline, Reap, CollectDone, DrainHeld, SweepDone, CollectThrows, DrainDrop,
         SkipThrows, SweepThrows, SpawnHeld, SpawnRefused, tasks, history
<1>2. \A t \in Tasks : artefact'[t] = "result" => artefact[t] = "result"
  BY DEF Deadline, Reap, CollectDone, DrainHeld, SweepDone, CollectThrows, Evidence, DrainDrop,
         SkipThrows, SweepThrows, SpawnHeld, SpawnRefused, world, IInv, TypeOK
<1>3. pc' = "act" => todo' = {} \/ (pc = "act" /\ todo' \subseteq todo)
  BY DEF Deadline, TickStarts, Reap, CollectDone, DrainHeld, SweepDone, CollectThrows, DrainDrop,
         SkipThrows, SweepThrows, SpawnHeld, SpawnRefused, Visit, Armor, control
<1>4. Onward
  BY DEF Onward, Mode, Deadline, TickStarts, Reap, CollectDone, DrainHeld, SweepDone,
         CollectThrows, DrainDrop, SkipThrows, Cascading, SweepThrows, SpawnHeld, SpawnRefused,
         Visit, Armor, control, history, ContractInvariant, CutIsOver
<1>5. Unheard
  BY <1>1, <1>2, <1>3 DEF Unheard, PhaseOf, Executing, Having
<1> QED
  BY <1>4, <1>5, UnheardStep

\* A tick that ends with nothing at work may hand over.
LEMMA EndKeeps ==
  ASSUME IInv, IInv', ContractInvariant, CascadeDone \/ AfterError
  PROVE  KeepsContract
<1>1. /\ UNCHANGED <<status, collected, ran, cut, artefact>>
      /\ pc \in {"act", "check"} /\ pc' \in {"collect", "sweep", "ended"}
  BY DEF CascadeDone, AfterError, Conclude, Cascading, tasks, world, history
<1>2. ~cut /\ Mode = "execute"
  BY <1>1 DEF ContractInvariant, CutIsOver, Mode
<1>3. pc' \in {"sweep", "ended"} => Executing = {}
  BY <1>1, <1>2 DEF IInv, HandOverQuiescent, Executing, Having
<1>4. Onward
  BY <1>1, <1>2, <1>3 DEF Onward, Mode
<1>5. Unheard
  BY <1>1 DEF Unheard, PhaseOf, Executing, Having
<1> QED
  BY <1>4, <1>5, UnheardStep

\* Statuses that change before there is a verdict to collect.
LEMMA OpenKeeps ==
  ASSUME IInv, IInv', ContractInvariant, NEW t \in Tasks,
         Park(t) \/ ParkThrows(t) \/ AdmissionFails(t) \/ SpawnFails(t)
  PROVE  KeepsContract
<1>1. status[t] = "PENDING" /\ t \notin collected
  BY DEF Park, ParkThrows, CanPark, Undispatched, Uncollected, AdmissionFails, SpawnFails, Visit,
         IInv, ChosenStartable, VerdictsCollected
<1>2. /\ status'[t] # "EXECUTING" /\ \A u \in Tasks \ {t} : status'[u] = status[u]
      /\ UNCHANGED collected /\ UNCHANGED ran /\ UNCHANGED cut
  BY DEF Park, ParkThrows, AdmissionFails, SpawnFails, Postpone, history, IInv, TypeOK
<1>3. \A u \in Tasks : artefact'[u] = "result" => artefact[u] = "result"
  BY DEF Park, ParkThrows, AdmissionFails, SpawnFails, world, IInv, TypeOK
<1>4. pc = "act" /\ (pc' = "act" => todo' \subseteq todo) /\ pc' \in {"act", "check", "failed"}
  BY DEF Park, ParkThrows, Armor, Cascading, AdmissionFails, SpawnFails, Visit
<1>5. Onward
  BY <1>2, <1>4 DEF Onward, Mode, ContractInvariant, CutIsOver
<1>6. Unheard
  BY <1>1, <1>2, <1>3, <1>4 DEF Unheard, PhaseOf, Executing, Having
<1> QED
  BY <1>5, <1>6, UnheardStep

LEMMA DecideKeeps == ASSUME IInv, IInv', ContractInvariant, Decide PROVE KeepsContract
<1>1. /\ UNCHANGED <<collected, ran, cut>> /\ pc = "drain" /\ pc' = "act"
      /\ \A u \in Tasks \ Doomed : status'[u] = status[u] /\ artefact'[u] = artefact[u]
      /\ \A u \in Doomed : /\ status'[u] \in {status[u], "NO_GO"}
                            /\ artefact'[u] \in {artefact[u], "skip"}
  BY DecideChanges
<1>2. \A u \in Doomed : u \notin collected /\ status[u] = "PENDING"
  BY DEF Doomed, Candidates, Uncollected
<1>3. Phases' = Phases
  BY <1>1, <1>2 DEF Phases, PhaseOf, Executing, Having
<1>4. ResultsRan'
  BY <1>1 DEF ContractInvariant, ResultsRan
<1>5. ContractInvariant'
  BY <1>1, <1>4, DecideSlots DEF ContractInvariant, CutIsOver, IInv
<1>6. Mode' = Mode
  BY <1>1 DEF Mode
<1> QED
  BY <1>1, <1>3, <1>5, <1>6 DEF KeepsContract, Contract!vars, Phases

\* A verdict is collected, or given to a task that a cascade closes.
LEMMA SettleKeeps ==
  ASSUME IInv, IInv', ContractInvariant, NEW t \in Tasks, Collect(t) \/ Sweep(t) \/ Skip(t)
  PROVE  KeepsContract
<1>1. /\ t \notin collected /\ collected' = collected \cup {t}
      /\ \A u \in Tasks \ {t} : status'[u] = status[u]
      /\ UNCHANGED <<ran, cut, pc>>
  BY DEF Collect, Sweep, Take, NextFound, Found, Skip, CanSkip, Undispatched, Uncollected,
         history, IInv, TypeOK
<1>2. status'[t] \in Contract!Verdicts /\ (status'[t] = "DONE" => artefact[t] = "result")
  BY DEF Collect, Sweep, Take, NextFound, Found, Skip, Verdicts, Contract!Verdicts, IInv, TypeOK
<1>3. \A u \in Tasks : artefact'[u] = "result" => artefact[u] = "result"
  BY DEF Collect, Sweep, Take, Evidence, Skip, IInv, TypeOK
<1>4. Executing' \subseteq Executing /\ (pc = "act" => todo' \subseteq todo)
  BY <1>1, <1>2 DEF Executing, Having, Contract!Verdicts, Collect, Sweep, Skip, Take
<1>5. ContractInvariant'
  BY <1>1, <1>3, <1>4, SlotsFewer DEF ContractInvariant, ResultsRan, CutIsOver, IInv
<1>6. Phases' = [Phases EXCEPT ![t] = status'[t]]
  BY <1>1 DEF Phases, PhaseOf, Executing, Having
<1>7. Phases[t] \in {"working", "open"}
  BY <1>1 DEF Phases, PhaseOf
<1>8. Mode' = Mode
  BY <1>1 DEF Mode
<1>9. status'[t] = "DONE" => t \in ran
  BY <1>2 DEF ContractInvariant, ResultsRan
<1>10. Contract!Settle(t, status'[t])
  BY <1>1, <1>6, <1>7, <1>8, <1>9 DEF Contract!Settle, Contract!Verdicts, Phases
<1> QED
  BY <1>2, <1>5, <1>10 DEF KeepsContract, Contract!Next

LEMMA StopKeeps ==
  ASSUME IInv, IInv', ContractInvariant, NEW t \in Tasks, DrainStop(t)
  PROVE  KeepsContract
<1>1. /\ status[t] = "EXECUTING" /\ status'[t] = "PENDING" /\ pc = "drain" /\ pc' = "drain"
      /\ \A u \in Tasks \ {t} : status'[u] = status[u]
      /\ UNCHANGED <<ran, cut, collected>>
  BY DEF DrainStop, Executing, Having, IInv, TypeOK
<1>2. \A u \in Tasks : artefact'[u] = "result" => artefact[u] = "result" \/ u \in ran
  <2>1. PICK n \in 0 .. live[t], a \in Artefacts :
           /\ Killed(t, n, a) \/ a = artefact[t]
           /\ artefact' = [artefact EXCEPT ![t] = a]
    BY DEF DrainStop
  <2>2. a = artefact[t] \/ live[t] > 0
    BY <2>1 DEF Killed
  <2> QED
    BY <2>1, <2>2 DEF IInv, TypeOK, RanBehindDone
<1>3. Executing' \subseteq Executing
  BY <1>1 DEF Executing, Having
<1>4. ContractInvariant'
  BY <1>1, <1>2, <1>3, SlotsFewer DEF ContractInvariant, ResultsRan, CutIsOver, IInv
<1>5. t \notin collected
  BY <1>1 DEF IInv, VerdictsCollected
<1>6. Phases[t] = "working" /\ Phases' = [Phases EXCEPT ![t] = "open"]
  BY <1>1, <1>5 DEF Phases, PhaseOf, Executing, Having
<1>7. Mode = "execute" /\ Mode' = Mode
  BY <1>1 DEF Mode, ContractInvariant, CutIsOver
<1>8. Contract!Stop(t)
  BY <1>1, <1>6, <1>7 DEF Contract!Stop, Phases
<1> QED
  BY <1>4, <1>8 DEF KeepsContract, Contract!Next

\* No writer of its files is at work, and what it depends on is done.
LEMMA StartCleared ==
  ASSUME IInv, ContractInvariant, NEW t \in Tasks, pc \in {"drain", "act"},
         DepsDone(t), Writers(t) = {}
  PROVE  Contract!Cleared(t)
<1>1. Mode = "execute"
  BY DEF Mode, ContractInvariant, CutIsOver
<1>2. \A d \in Deps[t] : Phases[d] = "DONE"
  BY DoneIsDone
<1>3. Contract!Exclusive(t)
  BY AtWork DEF Contract!Exclusive, Writers, Colliding, Executing, Having, IInv, VerdictsCollected
<1> QED
  BY <1>1, <1>2, <1>3 DEF Contract!Cleared, Phases

LEMMA AttemptKeeps ==
  ASSUME IInv, IInv', ContractInvariant, NEW t \in Tasks,
         DrainRestart(t) \/ DrainLate(t) \/ SpawnFailsLate(t)
  PROVE  KeepsContract
<1>1. /\ Writers(t) = {} /\ pc \in {"drain", "act"} /\ DepsDone(t) /\ t \notin collected
      /\ ran' = ran \cup {t} /\ UNCHANGED <<cut, pc, collected>> /\ todo' \subseteq todo
  BY DEF DrainRestart, DrainLate, SpawnFailsLate, Visit, Started, IInv, TypeOK, RanBehindDone,
         ChosenStartable, VerdictsCollected, Executing, Having
<1>2. /\ \A u \in Tasks \ {t} : status'[u] = status[u]
      /\ status'[t] = "EXECUTING" <=> status[t] = "EXECUTING"
  BY DEF DrainRestart, DrainLate, SpawnFailsLate, Postpone, Visit, IInv, TypeOK, ChosenStartable
<1>3. \A u \in Tasks \ {t} : artefact'[u] = artefact[u]
  BY DEF DrainRestart, DrainLate, SpawnFailsLate, Started, IInv, TypeOK
<1>4. Executing' = Executing
  BY <1>2 DEF Executing, Having
<1>5. ContractInvariant'
  BY <1>1, <1>3, <1>4, SlotsFewer DEF ContractInvariant, ResultsRan, CutIsOver, IInv
<1>6. Phases' = Phases /\ Phases[t] \in {"open", "working"}
  BY <1>1, <1>2, <1>4 DEF Phases, PhaseOf
<1>7. Mode' = Mode
  BY <1>1 DEF Mode
<1>8. Contract!Attempt(t)
  BY <1>1, <1>6, <1>7, StartCleared DEF Contract!Attempt, Contract!Verdicts, Phases
<1> QED
  BY <1>5, <1>8 DEF KeepsContract, Contract!Next

LEMMA StartKeeps ==
  ASSUME IInv, IInv', ContractInvariant, NEW t \in Tasks, SpawnLands(t)
  PROVE  KeepsContract
<1>1. /\ Writers(t) = {} /\ pc = "act" /\ DepsDone(t) /\ status[t] = "PENDING"
      /\ t \notin collected /\ ran' = ran \cup {t} /\ UNCHANGED <<cut, pc, collected>>
      /\ status' = [status EXCEPT ![t] = "EXECUTING"]
  BY DEF SpawnLands, Visit, Started, IInv, TypeOK, ChosenStartable, VerdictsCollected
<1>2. \A u \in Tasks \ {t} : artefact'[u] = artefact[u]
  BY DEF SpawnLands, Started, IInv, TypeOK
<1>3. ContractInvariant'
  BY <1>1, <1>2, SpawnSlots DEF ContractInvariant, ResultsRan, CutIsOver
<1>4. Phases[t] = "open" /\ Phases' = [Phases EXCEPT ![t] = "working"]
  BY <1>1 DEF Phases, PhaseOf, Executing, Having, IInv, TypeOK
<1>5. Mode' = Mode
  BY <1>1 DEF Mode
<1>6. Contract!Cardinality(Contract!Working) < MaxWorkers
  BY AtWork, SpawnSlots, SameCardinality DEF ContractInvariant
<1>7. Contract!Cleared(t)
  BY <1>1, StartCleared
<1>8. Contract!Start(t)
  BY <1>1, <1>4, <1>5, <1>6, <1>7 DEF Contract!Start, Phases
<1> QED
  BY <1>3, <1>8 DEF KeepsContract, Contract!Next

LEMMA ContractByStep == ASSUME IInv, IInv', ContractInvariant, [Next]_vars PROVE KeepsContract
<1>1. CASE Dispatch
  BY <1>1, DecideKeeps, StartKeeps, TickKeeps, OpenKeeps, AttemptKeeps DEF Dispatch
<1>2. CASE TickStep
  BY <1>2, TickKeeps, EndKeeps, SettleKeeps, AttemptKeeps, StopKeeps, OpenKeeps DEF TickStep
<1>3. CASE Deadline \/ \E t \in Tasks : Reap(t)
  BY <1>3, TickKeeps
<1>4. CASE UNCHANGED vars
  <2>1. Unheard /\ Onward
    BY <1>4 DEF vars, tasks, world, control, history, Unheard, Onward, PhaseOf, Executing, Having,
         Mode, ContractInvariant, CutIsOver
  <2> QED
    BY <2>1, UnheardStep
<1> QED
  BY <1>1, <1>2, <1>3, <1>4, EnvironmentKeeps DEF Next, LoopStep

LEMMA ContractInitially == Init => ContractInvariant /\ Contract!Init
<1> SUFFICES ASSUME Init PROVE ContractInvariant /\ Contract!Init
  OBVIOUS
<1>1. Executing = Wave /\ IInv
  BY Initially DEF Init, Executing, Having, Wave, Dispatchable, Eligible
<1>2. ContractInvariant
  <2>1. Cardinality(Wave) \in Nat /\ MaxWorkers \in Nat
    BY TasksFinite, LimitsAssumption DEF Wave, Dispatchable, Eligible
  <2> QED
    BY <1>1, <2>1, WaveFits
       DEF Init, ContractInvariant, ResultsRan, SlotsKept, CutIsOver
<1>3. Phases \in [Tasks -> {"open", "working"}]
  BY DEF Init, Phases, PhaseOf
<1>4. Contract!Working = Wave
  BY <1>1, AtWork
<1>5. \A t \in Wave : Deps[t] = {} /\ Contract!Exclusive(t)
  BY <1>1, <1>4 DEF Wave, Dispatchable, Eligible, Contract!Exclusive, IInv, WritersExclusive,
       Colliding
<1>6. \A t \in Contract!Working : Deps[t] = {} /\ Contract!Exclusive(t)
  BY <1>4, <1>5
<1>7. Contract!Cardinality(Contract!Working) <= MaxWorkers
  BY <1>4, WaveFits, SameCardinality
<1>8. ran = Contract!Working /\ Mode = "execute"
  BY <1>4 DEF Init, Mode
<1> QED
  BY <1>2, <1>3, <1>6, <1>7, <1>8 DEF Contract!Init, Phases

\* The EXECUTE loop implements its contract, for every sprint, every limit and
\* every failure it handles.
THEOREM ContractKept == Spec => ImplementsContract
<1>1. Init => ContractInvariant /\ Contract!Init
  BY ContractInitially
<1>2. IInv /\ IInv' /\ ContractInvariant /\ [Next]_vars =>
        ContractInvariant' /\ [Contract!Next]_(Contract!vars)
  BY ContractByStep DEF KeepsContract
<1>3. Spec => []ContractInvariant
  BY <1>1, <1>2, Invariantly, PTL DEF Spec
<1> QED
  BY <1>1, <1>2, <1>3, Invariantly, PTL DEF Spec, ImplementsContract, Contract!Spec

\* No more tasks are at work than resolveEffectiveWorkers allows, although the
\* effects of a decision are applied while workers end and tasks are restarted.
SlotsRespected == Cardinality(Executing) <= MaxWorkers

\* The worker limit of a sprint holds in every state of EXECUTE.
THEOREM SlotsAlwaysRespected == Spec => []SlotsRespected
<1>1. IInv /\ ContractInvariant => SlotsRespected
  <2>1. IInv => Executing \in SUBSET Tasks /\ todo \in SUBSET Tasks
    BY DEF IInv, TypeOK, Executing, Having
  <2>2. IInv => /\ Cardinality(Executing) \in Nat /\ Cardinality(todo) \in Nat
    BY <2>1, TasksFinite
  <2> QED
    BY <2>2, LimitsAssumption DEF ContractInvariant, SlotsKept, SlotsRespected
<1>2. Init => ContractInvariant
  BY ContractInitially
<1>3. IInv /\ IInv' /\ ContractInvariant /\ [Next]_vars => ContractInvariant'
  BY ContractByStep DEF KeepsContract
<1> QED
  BY <1>1, <1>2, <1>3, Invariantly, PTL DEF Spec

-----------------------------------------------------------------------------
(* What follows from the contract, and that a tick ends *)

\* A task is done only after a worker was started for it, and only while all it
\* depends on is done: no timeout marker, settlement of a start that failed,
\* cascade or restart makes one done.
DoneRestsOnWork == \A t \in Tasks : status[t] = "DONE" => t \in ran /\ DepsDone(t)

DoneWorked == \A t \in Tasks : Phases[t] = "DONE" => t \in ran

LEMMA DoneWorkedByStep ==
  ASSUME DoneWorked, [Contract!Next]_(Contract!vars)
  PROVE  DoneWorked'
<1> USE DEF DoneWorked
<1>1. Phases' \in [Tasks -> {Phases'[t] : t \in Tasks}] /\ DOMAIN Phases = Tasks
  BY DEF Phases
<1>2. CASE UNCHANGED Contract!vars
  BY <1>2 DEF Contract!vars, Phases
<1>3. CASE Contract!HandOver \/ Contract!BreakOff
  BY <1>3 DEF Contract!HandOver, Contract!BreakOff, Phases
<1>4. CASE \E t \in Tasks : Contract!Start(t) \/ Contract!Attempt(t) \/ Contract!Stop(t)
  BY <1>4 DEF Contract!Start, Contract!Attempt, Contract!Stop, Phases
<1>5. CASE \E t \in Tasks, v \in Contract!Verdicts : Contract!Settle(t, v)
  BY <1>5 DEF Contract!Settle, Phases
<1> QED
  BY <1>2, <1>3, <1>4, <1>5 DEF Contract!Next

\* It follows from the contract, whose Settle asks for work, and from
\* RanBehindDone.
THEOREM DoneAlwaysRestsOnWork == Spec => []DoneRestsOnWork
<1>1. Contract!Init => DoneWorked
  BY DEF Contract!Init, DoneWorked, Phases
<1>2. DoneWorked /\ [Contract!Next]_(Contract!vars) => DoneWorked'
  BY DoneWorkedByStep
<1>3. IInv /\ DoneWorked => DoneRestsOnWork
  BY DEF IInv, VerdictsCollected, RanBehindDone, DoneWorked, Phases, PhaseOf, DoneRestsOnWork
<1>4. Spec => []DoneWorked
  BY <1>1, <1>2, ContractKept, PTL DEF ImplementsContract, Contract!Spec
<1> QED
  BY <1>3, <1>4, Invariantly, PTL

\* The steps of a tick in their order, and what is left to one of them: tasks to
\* visit, then tasks a cascade may close or park.
Stage == CASE pc = "collect" -> 0 [] pc = "drain" -> 1 [] pc = "act" -> 2 [] pc = "check" -> 3
           [] pc = "sweep" -> 4 [] OTHER -> 5

Shrinks(S, T) == T \subseteq S /\ T # S

Advances ==
    \/ Stage' > Stage
    \/ /\ Stage' = Stage
       /\ \/ Shrinks(todo, todo')
          \/ todo' = todo /\ Shrinks(Uncollected, Uncollected')
          \/ /\ todo' = todo /\ Uncollected' = Uncollected
             /\ Shrinks(Having("PENDING"), Having("PENDING")')

TickEnds == pc \in {"act", "check"} /\ pc' = "collect"

\* A tick ends: each step of the loop goes on to the next stage, or leaves less to
\* visit or to close, and nothing outside the loop adds to that.  So no number of
\* tasks, requests, failures or cascades holds a tick up.
EveryTickEnds ==
    [][TickEnds \/ Advances \/ (~LoopStep /\ UNCHANGED <<pc, todo, status, collected>>)]_vars

LEMMA StepsForward ==
  ASSUME IInv, TickStep \/ Dispatch
  PROVE  TickEnds \/ Advances
<1> USE DEF Shrinks, Stage
<1>1. CASE CollectDone \/ DrainHeld \/ SweepDone \/ Decide
  BY <1>1 DEF Advances, CollectDone, DrainHeld, SweepDone, Decide
<1>2. CASE CascadeDone \/ AfterError
  BY <1>2 DEF Advances, TickEnds, CascadeDone, AfterError, Conclude, Cascading
<1>3. CASE \E t \in Tasks : CollectThrows(t) \/ ParkThrows(t) \/ SkipThrows(t) \/ SweepThrows(t)
  BY <1>3 DEF Advances, CollectThrows, ParkThrows, SkipThrows, SweepThrows, Armor, Cascading
<1>4. CASE \E t \in Tasks : Collect(t) \/ Sweep(t)
  BY <1>4 DEF Advances, Collect, Sweep, Take, NextFound, IInv, TypeOK
<1>5. CASE \E t \in Tasks : DrainDrop(t) \/ DrainRestart(t) \/ DrainStop(t) \/ DrainLate(t)
  BY <1>5 DEF Advances, DrainDrop, DrainRestart, DrainStop, DrainLate
<1>6. CASE \E t \in Tasks : SpawnLands(t) \/ SpawnHeld(t) \/ SpawnRefused(t) \/ AdmissionFails(t)
                             \/ SpawnFails(t) \/ SpawnFailsLate(t)
  BY <1>6 DEF Advances, SpawnLands, SpawnHeld, SpawnRefused, AdmissionFails, SpawnFails,
       SpawnFailsLate, Visit
<1>7. CASE \E t \in Tasks : Skip(t)
  BY <1>7 DEF Advances, Skip, CanSkip, Undispatched, Uncollected
<1>8. CASE \E t \in Tasks : Park(t)
  BY <1>8 DEF Advances, Park, CanPark, Undispatched, Uncollected, Having, IInv, TypeOK
<1> QED
  BY <1>1, <1>2, <1>3, <1>4, <1>5, <1>6, <1>7, <1>8 DEF TickStep, Dispatch

\* Each action of a tick, whether it succeeds, is refused or throws, advances it.
THEOREM TicksEnd == Spec => EveryTickEnds
<1> DEFINE Goes == TickEnds \/ Advances \/ (~LoopStep /\ UNCHANGED <<pc, todo, status, collected>>)
<1>1. IInv /\ [Next]_vars => [Goes]_vars
  <2> SUFFICES ASSUME IInv, Next PROVE Goes
    OBVIOUS
  <2>1. CASE LoopStep
    BY <2>1, StepsForward DEF LoopStep
  <2>2. CASE Environment /\ ~LoopStep
    BY <2>2 DEF Environment, WorkerEnds, BackoffEnds, RequestRespawn, TripHold, tasks, control
  <2>3. CASE Deadline
    BY <2>3 DEF Deadline, TickStarts, Advances, Stage
  <2>4. CASE ~LoopStep /\ \E t \in Tasks : Reap(t)
    BY <2>4 DEF Reap, tasks, control
  <2> QED
    BY <2>1, <2>2, <2>3, <2>4 DEF Next
<1>2. Spec => [][Goes]_vars
  BY <1>1, Invariantly, PTL DEF Spec
<1> QED
  BY <1>2, PTL DEF EveryTickEnds

=============================================================================
