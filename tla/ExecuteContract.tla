--------------------------- MODULE ExecuteContract ---------------------------
(***************************************************************************)
(* What EXECUTE promises to the phases around it, with no queue, tick,     *)
(* artefact or respawn request in sight: which tasks may be worked on at   *)
(* the same time, what a verdict rests on, that it is given once, and that *)
(* nothing is at work when the phase hands over.                           *)
(***************************************************************************)
EXTENDS Integers, FiniteSets

CONSTANTS Tasks, Deps, Writes, MaxWorkers

VARIABLES
    phase,      \* of every task: open, working, or its verdict
    worked,     \* the tasks a worker was started for
    mode        \* executing, handed over, or broken off

vars == <<phase, worked, mode>>

Verdicts == {"DONE", "NO_GO", "PAUSED"}
Working == {t \in Tasks : phase[t] = "working"}

\* No other task at work writes a file of t.
Exclusive(t) == \A u \in Working \ {t} : Writes[t] \cap Writes[u] = {}

Init ==
    /\ phase \in [Tasks -> {"open", "working"}]
    /\ \A t \in Working : Deps[t] = {} /\ Exclusive(t)
    /\ Cardinality(Working) <= MaxWorkers
    /\ worked = Working
    /\ mode = "execute"

Cleared(t) ==
    /\ mode = "execute"
    /\ \A d \in Deps[t] : phase[d] = "DONE"
    /\ Exclusive(t)

Start(t) ==
    /\ Cleared(t)
    /\ phase[t] = "open"
    /\ Cardinality(Working) < MaxWorkers
    /\ phase' = [phase EXCEPT ![t] = "working"]
    /\ worked' = worked \cup {t}
    /\ UNCHANGED mode

\* A start that is taken for failed although a worker runs, or a restart.
Attempt(t) ==
    /\ Cleared(t)
    /\ phase[t] \notin Verdicts
    /\ worked' = worked \cup {t}
    /\ UNCHANGED <<phase, mode>>

Stop(t) ==
    /\ mode = "execute"
    /\ phase[t] = "working"
    /\ phase' = [phase EXCEPT ![t] = "open"]
    /\ UNCHANGED <<worked, mode>>

\* Only work makes a task done; a task may be closed without.
Settle(t, v) ==
    /\ phase[t] \notin Verdicts
    /\ v = "DONE" => t \in worked
    /\ phase' = [phase EXCEPT ![t] = v]
    /\ UNCHANGED <<worked, mode>>

HandOver ==
    /\ mode = "execute"
    /\ Working = {}
    /\ mode' = "handed over"
    /\ UNCHANGED <<phase, worked>>

BreakOff ==
    /\ mode' = "broken off"
    /\ UNCHANGED <<phase, worked>>

Next ==
    \/ HandOver \/ BreakOff
    \/ \E t \in Tasks : Start(t) \/ Attempt(t) \/ Stop(t)
    \/ \E t \in Tasks, v \in Verdicts : Settle(t, v)

Spec == Init /\ [][Next]_vars
=============================================================================
