-------------------------- MODULE DispatchContract --------------------------
(***************************************************************************)
(* What the autonomous engine promises about a work item and its mission,  *)
(* with no lease, process, approval request or receipt in sight: an item   *)
(* is handed to a provider at most once and only when everything it        *)
(* depends on is done; an attempt that is interrupted is held, for good,   *)
(* and never redriven; an item is refused only for a cause; and a mission  *)
(* gets one verdict, when no item of it can change any more.               *)
(***************************************************************************)
CONSTANTS Items, Missions, MissionOf, Deps, Guarded

VARIABLES
    phase,      \* of every item
    verdict     \* of every mission

vars == <<phase, verdict>>

Final == {"done", "failed", "refused"}
ItemsOf(m) == {i \in Items : MissionOf[i] = m}

Init ==
    /\ phase = [i \in Items |-> "waiting"]
    /\ verdict = [m \in Missions |-> "pending"]

Dispatch(i) ==
    /\ phase[i] = "waiting"
    /\ verdict[MissionOf[i]] = "pending"
    /\ \A d \in Deps[i] : phase[d] = "done"
    /\ phase' = [phase EXCEPT ![i] = "inflight"]
    /\ UNCHANGED verdict

Report(i) ==
    /\ phase[i] = "inflight"
    /\ \E outcome \in {"done", "failed", "held"} :
        phase' = [phase EXCEPT ![i] = outcome]
    /\ UNCHANGED verdict

\* A takeover holds everything that was in flight.
Interrupt ==
    /\ phase' = [i \in Items |-> IF phase[i] = "inflight" THEN "held" ELSE phase[i]]
    /\ UNCHANGED verdict

\* Refusals come together: each item of S was denied, or waits for an item
\* that will never be done.
Refuse(S) ==
    /\ \A i \in S :
        /\ phase[i] = "waiting"
        /\ \/ i \in Guarded
           \/ \E d \in Deps[i] : d \in S \/ phase[d] \in {"failed", "refused"}
    /\ phase' = [i \in Items |-> IF i \in S THEN "refused" ELSE phase[i]]
    /\ UNCHANGED verdict

Conclude(m) ==
    /\ ItemsOf(m) # {}
    /\ \A i \in ItemsOf(m) : phase[i] \in Final
    /\ verdict' = [verdict EXCEPT ![m] =
            IF \A i \in ItemsOf(m) : phase[i] = "done" THEN "completed" ELSE "failed"]
    /\ UNCHANGED phase

Next ==
    \/ \E i \in Items : Dispatch(i) \/ Report(i)
    \/ Interrupt
    \/ \E S \in SUBSET Items : Refuse(S)
    \/ \E m \in Missions : Conclude(m)

Spec == Init /\ [][Next]_vars
=============================================================================
