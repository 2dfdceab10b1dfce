--------------------------- MODULE DecisionRegister ---------------------------
(***************************************************************************)
(* What the approval directory promises about one request, with no file,   *)
(* link, scan or tombstone in sight: a register that is written at most    *)
(* once, by a human or by a timeout that is due.  Whoever is told anything *)
(* is told its value, and the request goes only when the value is old.     *)
(***************************************************************************)
CONSTANTS
    Procs,
    Decisions,
    Timeouts,   \* the decisions that only the lapse of expiresAt justifies
    None

VARIABLES
    filed,      \* the request is there
    overdue,    \* its time has passed
    value,      \* the register
    old,        \* its value is older than the retention
    known,      \* what each process has told its waiters
    accepted    \* what deciders were told was recorded

vars == <<filed, overdue, value, old, known, accepted>>

Init ==
    /\ filed = FALSE /\ overdue = FALSE
    /\ value = None /\ old = FALSE
    /\ known = [p \in Procs |-> None]
    /\ accepted = {}

File ==
    /\ filed' = TRUE
    /\ UNCHANGED <<overdue, value, old, known, accepted>>

Expire ==
    /\ overdue' = TRUE
    /\ UNCHANGED <<filed, value, old, known, accepted>>

\* A decision that lay about before it was published may be old at once.
Decide(d) ==
    /\ filed /\ value = None
    /\ d \in Timeouts => overdue
    /\ value' = d
    /\ old' \in BOOLEAN
    /\ UNCHANGED <<filed, overdue, known, accepted>>

Tell(p) ==
    /\ value # None
    /\ known' = [known EXCEPT ![p] = value]
    /\ UNCHANGED <<filed, overdue, value, old, accepted>>

Accept(p) ==
    /\ value # None
    /\ known' = [known EXCEPT ![p] = value]
    /\ accepted' = accepted \cup {value}
    /\ UNCHANGED <<filed, overdue, value, old>>

Forget(p) ==
    /\ known' = [known EXCEPT ![p] = None]
    /\ UNCHANGED <<filed, overdue, value, old, accepted>>

Ripen ==
    /\ value # None /\ old' = TRUE
    /\ UNCHANGED <<filed, overdue, value, known, accepted>>

Remove ==
    /\ value # None /\ old
    /\ filed' = FALSE
    /\ UNCHANGED <<overdue, value, old, known, accepted>>

Next ==
    \/ File \/ Expire \/ Ripen \/ Remove
    \/ \E d \in Decisions : Decide(d)
    \/ \E p \in Procs : Tell(p) \/ Accept(p) \/ Forget(p)

Spec == Init /\ [][Next]_vars
=============================================================================
