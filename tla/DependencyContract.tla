-------------------------- MODULE DependencyContract --------------------------
(***************************************************************************)
(* What the dependency authority promises of the status of work items and  *)
(* of the verdict of missions, with no authority row, counter, job or      *)
(* budget in sight: an item runs only behind its own mission's done items, *)
(* and is refused only because its place in the graph is broken or because *)
(* a refusal before it leads there.                                        *)
(* MissionDependencies implements it under either authority,               *)
(* MissionEngine with its processes, leases, approvals and crashes.        *)
(***************************************************************************)
CONSTANTS Items, Missions, MissionOf, Deps, Unfit

VARIABLES
    status,     \* of every item, "absent" before it is enqueued
    concluded   \* the missions with a verdict

vars == <<status, concluded>>

Failed == {"failed", "blocked"}
Terminal == Failed \cup {"done"}
Having(s) == {i \in Items : status[i] = s}

Init == status \in [Items -> {"absent", "pending"}] /\ concluded = {}

\* The items of S, all of which have status from, get status to.
Move(S, from, to) ==
    /\ S \subseteq Having(from)
    /\ status' = [i \in Items |-> IF i \in S THEN to ELSE status[i]]
    /\ UNCHANGED concluded

Enqueue(S) == Move(S, "absent", "pending")

Run(i) ==
    /\ MissionOf[i] \notin concluded
    /\ \A d \in Deps[i] : MissionOf[d] = MissionOf[i] /\ status[d] = "done"
    /\ Move({i}, "pending", "running")

End(i, outcome) == Move({i}, "running", outcome)

\* Its engine died: it is held, and nothing makes it run again.
Hold(S) == Move(S, "running", "parked")

\* The runner registry has no runner for it.
Withdraw(i, outcome) ==
    /\ i \in Unfit
    /\ \E s \in {"pending", "running", "parked"} : Move({i}, s, outcome)

Known(i) == {d \in Deps[i] : MissionOf[d] = MissionOf[i] /\ status[d] # "absent"}

\* It depends on itself through pending items.
Circular(i) ==
    \A S \in SUBSET Having("pending") :
        (/\ Known(i) \cap Having("pending") \subseteq S
         /\ \A j \in S : Known(j) \cap Having("pending") \subseteq S) => i \in S

\* From F and from what has failed, the dependencies within R lead to all of R.
LeadTo(F, R) ==
    \A S \in SUBSET R :
        (/\ F \subseteq S
         /\ \A j \in R : (\E d \in Known(j) : d \in S \/ status[d] \in Failed) => j \in S)
        => S = R

\* The items of R are refused together, those of F because they can never run.
Refuse(F, R) ==
    /\ F \subseteq R /\ R \subseteq Having("pending")
    /\ status' = [i \in Items |->
            IF i \in F THEN "failed" ELSE IF i \in R THEN "blocked" ELSE status[i]]
    /\ \A i \in F : Deps[i] # Known(i) \/ Circular(i)
    /\ LeadTo(F, R)
    /\ UNCHANGED concluded

Conclude(m) ==
    /\ \A i \in Items : MissionOf[i] = m => status[i] \in Terminal \cup {"absent"}
    /\ \E i \in Items : MissionOf[i] = m /\ status[i] # "absent"
    /\ concluded' = concluded \cup {m}
    /\ UNCHANGED status

Next ==
    \/ \E S \in SUBSET Having("absent") : Enqueue(S)
    \/ \E i \in Having("pending") : Run(i)
    \/ \E i \in Having("running"), outcome \in Terminal : End(i, outcome)
    \/ \E i \in Unfit, outcome \in {"parked", "failed"} : Withdraw(i, outcome)
    \/ \E S \in SUBSET Having("running") : Hold(S)
    \/ \E R \in SUBSET Having("pending") : \E F \in SUBSET R : Refuse(F, R)
    \/ \E m \in Missions : Conclude(m)

Spec == Init /\ [][Next]_vars
=============================================================================
