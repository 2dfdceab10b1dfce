---------------------------- MODULE MissionEngine ----------------------------
(***************************************************************************)
(* The engine processes over the mission store: runV2Engine without goal   *)
(* bindings (mission-engine-wire.ts), the scheduler loop it runs           *)
(* (mission-scheduler.ts), the approval tick (mission-approval-            *)
(* coordinator.ts) and the worker dispatches ("flights") the loop starts   *)
(* (mission-worker-invocation-coordinator.ts), with the receipts they      *)
(* leave (mission-worker-invocation-recovery.ts).                          *)
(*                                                                         *)
(* A process runs JavaScript: between two awaits nothing else of the same  *)
(* process runs, but the other processes, the clock and a crash may come   *)
(* between any two store operations.  So every store operation is a step   *)
(* of its own, and InTurn(e) tells when process e is between two turns.    *)
(***************************************************************************)
EXTENDS MissionStore

CONSTANTS
    PoolSize,     \* poolSize: flights of one scheduler
    Rank,         \* created_at order of the items (queryDue's ORDER BY)
    TenantOf,     \* tenant of every mission
    TenantCap,    \* perTenantPoolSize, 0 when it is not configured
    Punctual      \* TRUE: the renew timer always fires before the lease ends

ASSUME PoolAssumption == PoolSize \in Nat \ {0} /\ TenantCap \in Nat
ASSUME RankAssumption ==
    Rank \in [Items -> Nat] /\ \A i, j \in Items : Rank[i] = Rank[j] => i = j
ASSUME PunctualAssumption == Punctual \in BOOLEAN

VARIABLES
    pc,           \* where runV2Engine and runMissionScheduler are
    held,         \* epoch of the lease this process acquired, 0 before
    beating,      \* is the heartbeat timer still running
    fatal,        \* fatalError # null
    changed,      \* changedMissions of this scheduler iteration
    todo,         \* recovered attempts whose receipts are still to reconcile
    cand,         \* the items listed to be parked; the item about to be claimed
    notify,       \* the mission whose settlement handler is about to run
    flight,       \* dispatch promises of this process
    opened,       \* receipt ledger: <<attempt, lease epoch at the time>>
    exited,       \* receipts closed by the provider's own transport event
    orphaned,     \* receipts closed as "unknown" by a recovery
    delivered,    \* settlement notifications handed over, per mission
    issued,       \* history: every attempt ever claimed
    settled,      \* history: every attempt that settled its row
    called        \* history: every attempt whose provider was called

engineVars == <<pc, held, beating, fatal, changed, todo, cand, notify, flight>>
ledgerVars == <<opened, exited, orphaned>>
historyVars == <<delivered, issued, settled, called>>
vars == <<storeVars, engineVars, ledgerVars, historyVars>>

PCs == {"off", "boot", "receipts", "top", "reconcile", "decide", "park",
        "publish", "repropagate", "project", "claim", "commit", "wait",
        "woken", "drain", "close", "closed", "dead"}

\* The awaits of the loop: only here do the process's own flights move.
AwaitPCs == {"publish", "wait", "woken", "drain", "closed"}

Phases == {"claimed", "admitted", "granting", "executing", "returned",
           "settling", "finally"}
SyncPhases == {"admitted", "granting", "settling"}
FlightVerdicts == {"none", "done", "failed", "parked"}

\* A dispatch that has returned knows what to settle its row to.
Flight ==
    {f \in [attempt : Attempt, phase : Phases, verdict : FlightVerdicts] :
        f.phase \in {"returned", "settling"} => f.verdict # "none"}

TypeOK ==
    /\ StoreTypeOK
    /\ pc \in [Engines -> PCs]
    /\ held \in [Engines -> Nat]
    /\ beating \in [Engines -> BOOLEAN]
    /\ fatal \in [Engines -> BOOLEAN]
    /\ changed \in [Engines -> SUBSET Missions]
    /\ todo \in [Engines -> SUBSET Attempt]
    /\ cand \in [Engines -> SUBSET Items]
    /\ notify \in [Engines -> SUBSET Missions]
    /\ flight \in [Engines -> SUBSET Flight]
    /\ opened \in SUBSET (Attempt \X Nat)
    /\ exited \in SUBSET Attempt
    /\ orphaned \in SUBSET Attempt
    /\ delivered \in [Missions -> Nat]
    /\ issued \in SUBSET Attempt
    /\ settled \in SUBSET Attempt
    /\ called \in SUBSET Attempt

Init ==
    /\ StoreInit
    /\ pc = [e \in Engines |-> "off"]
    /\ held = [e \in Engines |-> 0]
    /\ beating = [e \in Engines |-> FALSE]
    /\ fatal = [e \in Engines |-> FALSE]
    /\ changed = [e \in Engines |-> {}]
    /\ todo = [e \in Engines |-> {}]
    /\ cand = [e \in Engines |-> {}]
    /\ notify = [e \in Engines |-> {}]
    /\ flight = [e \in Engines |-> {}]
    /\ opened = {} /\ exited = {} /\ orphaned = {}
    /\ delivered = [m \in Missions |-> 0]
    /\ issued = {} /\ settled = {} /\ called = {}

-----------------------------------------------------------------------------
HoldsLease(e) == LeaseActive(e, held[e])
Alive(e) == pc[e] \notin {"off", "closed", "dead"}

\* isDispatchClaimActive: the lease first, then the exact claim.
ClaimActive(e, a) == HoldsLease(e) /\ ClaimLive(a)

\* No synchronous section of process e is half way through.
InTurn(e) ==
    /\ notify[e] = {}
    /\ \A f \in flight[e] : f.phase \notin SyncPhases

Goto(e, l) == pc' = [pc EXCEPT ![e] = l]
At(e, l) == pc[e] = l /\ InTurn(e)

\* A throw out of the loop: runV2Engine's finally block comes next.
Throw(e) == Goto(e, "close")

-----------------------------------------------------------------------------
(* The environment: time passes, the timer fires, processes die.           *)

\* Under Punctual the last tick of a lease waits for the renewal that is due.
Tick ==
    /\ lease.remaining > 0
    /\ Punctual => \/ lease.remaining > 1
                   \/ ~ \E e \in Engines : beating[e] /\ HoldsLease(e)
    /\ lease' = [lease EXCEPT !.remaining = @ - 1]
    /\ UNCHANGED <<row, approval, mission, recovered, acked>>
    /\ UNCHANGED <<engineVars, ledgerVars, historyVars>>

\* The renew timer: a refused renewal stops the heartbeat for good.
Renew(e) ==
    /\ beating[e] /\ InTurn(e) /\ pc[e] # "dead"
    /\ lease.remaining < Ttl
    /\ lease' = RenewedLease(e, held[e])
    /\ beating' = [beating EXCEPT ![e] = HoldsLease(e)]
    /\ UNCHANGED <<row, approval, mission, recovered, acked>>
    /\ UNCHANGED <<pc, held, fatal, changed, todo, cand, notify, flight>>
    /\ UNCHANGED <<ledgerVars, historyVars>>

\* Bound: the last instance that can still start does not crash.
Crash(e) ==
    /\ Alive(e)
    /\ \E other \in Engines : pc[other] = "off"
    /\ Goto(e, "dead")
    /\ beating' = [beating EXCEPT ![e] = FALSE]
    /\ fatal' = [fatal EXCEPT ![e] = FALSE]
    /\ changed' = [changed EXCEPT ![e] = {}]
    /\ todo' = [todo EXCEPT ![e] = {}]
    /\ cand' = [cand EXCEPT ![e] = {}]
    /\ notify' = [notify EXCEPT ![e] = {}]
    /\ flight' = [flight EXCEPT ![e] = {}]
    /\ UNCHANGED <<storeVars, held, ledgerVars, historyVars>>

-----------------------------------------------------------------------------
(* runV2Engine up to the scheduler.                                        *)

Acquire(e) ==
    /\ pc[e] = "off"
    /\ AcquireLease(e)
    /\ held' = [held EXCEPT ![e] = lease.epoch + 1]
    /\ beating' = [beating EXCEPT ![e] = TRUE]
    /\ Goto(e, "boot")
    /\ UNCHANGED <<row, approval, mission, recovered, acked>>
    /\ UNCHANGED <<fatal, changed, todo, cand, notify, flight>>
    /\ UNCHANGED <<ledgerVars, historyVars>>

Recover(e) ==
    /\ At(e, "boot")
    /\ RecoverTxn(e, held[e])
    /\ todo' = [todo EXCEPT ![e] = recovered' \ acked]
    /\ Goto(e, "receipts")
    /\ UNCHANGED <<lease, approval, mission, acked>>
    /\ UNCHANGED <<held, beating, fatal, changed, cand, notify, flight>>
    /\ UNCHANGED <<ledgerVars, historyVars>>

Unfinished(a) == a \notin exited \cup orphaned

\* reconcileOpenDispatch: a receipt left open by an earlier engine is closed
\* as unknown.  The ledger is another database: no lease guards this write.
CloseReceipt(e) ==
    /\ At(e, "receipts")
    /\ \E a \in todo[e] :
        /\ \E p \in opened : p[1] = a /\ p[2] < held[e]
        /\ Unfinished(a)
        /\ orphaned' = orphaned \cup {a}
    /\ UNCHANGED <<storeVars, engineVars, opened, exited, historyVars>>

\* Mutant: only a receipt that recovery closed itself is acknowledged.
AckRecoveryOwnOnly(e) ==
    /\ At(e, "receipts")
    /\ HoldsLease(e)
    /\ \E a \in todo[e] :
        /\ a \in orphaned
        /\ acked' = acked \cup {a}
        /\ todo' = [todo EXCEPT ![e] = @ \ {a}]
    /\ UNCHANGED <<lease, row, approval, mission, recovered>>
    /\ UNCHANGED <<pc, held, beating, fatal, changed, cand, notify, flight>>
    /\ UNCHANGED <<ledgerVars, historyVars>>

\* acknowledgeDispatchRecovery, for a receipt that is terminal by now.
AckRecovery(e) ==
    /\ At(e, "receipts")
    /\ HoldsLease(e)
    /\ \E a \in todo[e] :
        /\ a \in exited \cup orphaned
        /\ acked' = acked \cup {a}
        /\ todo' = [todo EXCEPT ![e] = @ \ {a}]
    /\ UNCHANGED <<lease, row, approval, mission, recovered>>
    /\ UNCHANGED <<pc, held, beating, fatal, changed, cand, notify, flight>>
    /\ UNCHANGED <<ledgerVars, historyVars>>

\* Neither an open dispatch of an earlier engine nor a terminal receipt: the
\* attempt stays unacknowledged until the next boot looks again.
LeavePending(e) ==
    /\ At(e, "receipts")
    /\ \E a \in todo[e] :
        /\ Unfinished(a)
        /\ \A p \in opened : p[1] = a => p[2] >= held[e]
        /\ todo' = [todo EXCEPT ![e] = @ \ {a}]
    /\ UNCHANGED <<storeVars, ledgerVars, historyVars>>
    /\ UNCHANGED <<pc, held, beating, fatal, changed, cand, notify, flight>>

ReceiptsDone(e) ==
    /\ At(e, "receipts")
    /\ todo[e] = {}
    /\ Goto(e, "top")
    /\ UNCHANGED <<storeVars, ledgerVars, historyVars>>
    /\ UNCHANGED <<held, beating, fatal, changed, todo, cand, notify, flight>>

\* Recovery under a lost lease throws.
BootFails(e) ==
    /\ At(e, "boot") \/ (At(e, "receipts") /\ todo[e] # {})
    /\ ~HoldsLease(e)
    /\ Throw(e)
    /\ todo' = [todo EXCEPT ![e] = {}]
    /\ UNCHANGED <<storeVars, ledgerVars, historyVars>>
    /\ UNCHANGED <<held, beating, fatal, changed, cand, notify, flight>>

-----------------------------------------------------------------------------
(* The head of a scheduler iteration.                                      *)

Top(e) ==
    /\ At(e, "top")
    /\ IF fatal[e] \/ ~HoldsLease(e) THEN Throw(e) ELSE Goto(e, "reconcile")
    /\ changed' = [changed EXCEPT ![e] = {}]
    /\ UNCHANGED <<storeVars, ledgerVars, historyVars>>
    /\ UNCHANGED <<held, beating, fatal, todo, cand, notify, flight>>

\* The owner's AbortSignal, seen at the head of an iteration.
Abort(e) ==
    /\ At(e, "top")
    /\ ~fatal[e] /\ HoldsLease(e)
    /\ Goto(e, "drain")
    /\ UNCHANGED <<storeVars, ledgerVars, historyVars>>
    /\ UNCHANGED <<held, beating, fatal, changed, todo, cand, notify, flight>>

\* Mutant: the missions reconciliation changed are not looked at.
ReconcileSilently(e) ==
    /\ At(e, "reconcile") \/ At(e, "repropagate")
    /\ ReconcileTxn
    /\ Goto(e, IF pc[e] = "reconcile" THEN "decide" ELSE "project")
    /\ UNCHANGED <<lease, approval, mission, recovered, acked>>
    /\ UNCHANGED <<held, beating, fatal, changed, todo, cand, notify, flight>>
    /\ UNCHANGED <<ledgerVars, historyVars>>

\* Dependency reconciliation, before and again after the approval tick.  The
\* transaction carries no lease predicate.
Reconcile(e) ==
    /\ At(e, "reconcile") \/ At(e, "repropagate")
    /\ ReconcileTxn
    /\ changed' = [changed EXCEPT ![e] = @ \cup {MissionOf[i] : i \in Doomed}]
    /\ Goto(e, IF pc[e] = "reconcile" THEN "decide" ELSE "project")
    /\ UNCHANGED <<lease, approval, mission, recovered, acked>>
    /\ UNCHANGED <<held, beating, fatal, todo, cand, notify, flight>>
    /\ UNCHANGED <<ledgerVars, historyVars>>

-----------------------------------------------------------------------------
(* MissionApprovalCoordinator.tick: no step of it looks at the lease.      *)

\* A decision the approval store holds for a request it was given.
Decide(e) ==
    /\ At(e, "decide")
    /\ \E i \in Guarded, verdict \in Verdicts :
        /\ DecideTxn(i, verdict)
        /\ changed' = [changed EXCEPT ![e] = @ \cup {MissionOf[i]}]
    /\ UNCHANGED <<lease, mission, recovered, acked>>
    /\ UNCHANGED <<pc, held, beating, fatal, todo, cand, notify, flight>>
    /\ UNCHANGED <<ledgerVars, historyVars>>

\* The decisions are applied; the items to park are listed once.
DecideDone(e) ==
    /\ At(e, "decide")
    /\ cand' = [cand EXCEPT ![e] = ApprovalCandidates]
    /\ Goto(e, "park")
    /\ UNCHANGED <<storeVars, ledgerVars, historyVars>>
    /\ UNCHANGED <<held, beating, fatal, changed, todo, notify, flight>>

\* One item of that list: another process may have parked it since, and a
\* request it has by now is left alone.
Park(e) ==
    /\ At(e, "park")
    /\ \E i \in cand[e] :
        /\ \/ ParkTxn(i)
           \/ ParkInvalidTxn(i)
           \/ i \notin ApprovalCandidates /\ UNCHANGED <<row, approval>>
        /\ cand' = [cand EXCEPT ![e] = @ \ {i}]
    /\ UNCHANGED <<lease, mission, recovered, acked>>
    /\ UNCHANGED <<pc, held, beating, fatal, changed, todo, notify, flight>>
    /\ UNCHANGED <<ledgerVars, historyVars>>

ParkDone(e) ==
    /\ At(e, "park")
    /\ cand[e] = {}
    /\ Goto(e, "publish")
    /\ UNCHANGED <<storeVars, ledgerVars, historyVars>>
    /\ UNCHANGED <<held, beating, fatal, changed, todo, cand, notify, flight>>

\* submitLifecycle: from here on a decision may exist.
Publish(e) ==
    /\ At(e, "publish")
    /\ \E i \in Guarded :
        /\ approval[i] = "outbox"
        /\ approval' = [approval EXCEPT ![i] = "asked"]
    /\ UNCHANGED <<lease, row, mission, recovered, acked>>
    /\ UNCHANGED <<engineVars, ledgerVars, historyVars>>

\* The publisher throws: out of the scheduler, its flights left behind.
PublishFails(e) ==
    /\ At(e, "publish")
    /\ \E i \in Guarded : approval[i] = "outbox"
    /\ Throw(e)
    /\ UNCHANGED <<storeVars, ledgerVars, historyVars>>
    /\ UNCHANGED <<held, beating, fatal, changed, todo, cand, notify, flight>>

\* An outbox entry the publisher holds back is retried by a later tick.
PublishDone(e) ==
    /\ At(e, "publish")
    /\ IF HoldsLease(e) THEN Goto(e, "repropagate") ELSE Throw(e)
    /\ UNCHANGED <<storeVars, ledgerVars, historyVars>>
    /\ UNCHANGED <<held, beating, fatal, changed, todo, cand, notify, flight>>

-----------------------------------------------------------------------------
(* checkMissionComplete: a mission whose items are all terminal gets its   *)
(* verdict, and the settlement handler runs next, in the same turn.        *)

CheckMission(e, m) ==
    /\ mission' = IF AllTerminal(m) THEN [mission EXCEPT ![m] = Verdict(m)] ELSE mission
    /\ notify' = IF AllTerminal(m) THEN [notify EXCEPT ![e] = {m}] ELSE notify

\* onMissionSettled: the handler looks at the lease once more.
Notify(e) ==
    /\ pc[e] # "dead"
    /\ \E m \in notify[e] :
        delivered' = IF HoldsLease(e) THEN [delivered EXCEPT ![m] = @ + 1] ELSE delivered
    /\ notify' = [notify EXCEPT ![e] = {}]
    /\ fatal' = [fatal EXCEPT ![e] = @ \/ ~HoldsLease(e)]
    /\ pc' = IF ~HoldsLease(e) /\ pc[e] \notin AwaitPCs
             THEN [pc EXCEPT ![e] = "close"] ELSE pc
    /\ UNCHANGED <<storeVars, held, beating, changed, todo, cand, flight>>
    /\ UNCHANGED <<ledgerVars, issued, settled, called>>

Project(e) ==
    /\ At(e, "project")
    /\ HoldsLease(e)
    /\ \E m \in changed[e] :
        /\ CheckMission(e, m)
        /\ changed' = [changed EXCEPT ![e] = @ \ {m}]
    /\ UNCHANGED <<lease, row, approval, recovered, acked>>
    /\ UNCHANGED <<pc, held, beating, fatal, todo, cand, flight>>
    /\ UNCHANGED <<ledgerVars, historyVars>>

ProjectDone(e) ==
    /\ At(e, "project")
    /\ changed[e] = {} \/ ~HoldsLease(e)
    /\ IF changed[e] = {} THEN Goto(e, "claim") ELSE Throw(e)
    /\ UNCHANGED <<storeVars, ledgerVars, historyVars>>
    /\ UNCHANGED <<held, beating, fatal, changed, todo, cand, notify, flight>>

-----------------------------------------------------------------------------
(* The claim wave: one claim per turn of the while loop.                   *)

OldestOf(S) == {i \in S : \A j \in S : Rank[i] <= Rank[j]}

TenantFlights(e, t) ==
    {f \in flight[e] : TenantOf[MissionOf[f.attempt.item]] = t}

\* Mutant: the tenant cap is one too high.
OfferedOverCap(e) ==
    {i \in Due : Cardinality(TenantFlights(e, TenantOf[MissionOf[i]])) <= TenantCap}

\* Without a tenant cap queryDue returns one row; with a cap every due row is
\* scanned and those of a full tenant are skipped.
Offered(e) ==
    IF TenantCap = 0
    THEN OldestOf(Due)
    ELSE {i \in Due : Cardinality(TenantFlights(e, TenantOf[MissionOf[i]])) < TenantCap}

\* The pool is full, or nothing offered passes authorizeClaim: the loop waits.
\* refused are the guarded items whose decision no longer validates.
ClaimNothing(e) ==
    /\ At(e, "claim")
    /\ \/ Cardinality(flight[e]) >= PoolSize
       \/ HoldsLease(e) /\ Offered(e) \subseteq Guarded
    /\ Goto(e, "wait")
    /\ UNCHANGED <<storeVars, ledgerVars, historyVars>>
    /\ UNCHANGED <<held, beating, fatal, changed, todo, cand, notify, flight>>

Select(e) ==
    /\ At(e, "claim")
    /\ Cardinality(flight[e]) < PoolSize
    /\ HoldsLease(e)
    /\ \E refused \in SUBSET Guarded : \E i \in OldestOf(Offered(e) \ refused) :
        cand' = [cand EXCEPT ![e] = {i}]
    /\ Goto(e, "commit")
    /\ UNCHANGED <<storeVars, ledgerVars, historyVars>>
    /\ UNCHANGED <<held, beating, fatal, changed, todo, notify, flight>>

Commit(e) ==
    /\ At(e, "commit")
    /\ \E i \in cand[e] :
        /\ ClaimTxn(i, e, held[e])
        /\ issued' = issued \cup {ClaimFor(i)}
        /\ flight' = [flight EXCEPT ![e] = @ \cup
            {[attempt |-> ClaimFor(i), phase |-> "claimed", verdict |-> "none"]}]
    /\ cand' = [cand EXCEPT ![e] = {}]
    /\ Goto(e, "claim")
    /\ UNCHANGED <<lease, approval, mission, recovered, acked>>
    /\ UNCHANGED <<held, beating, fatal, changed, todo, notify>>
    /\ UNCHANGED <<ledgerVars, delivered, settled, called>>

\* The lease is gone before the claim wave looks, or before the UPDATE: the
\* latter returns no claim and the mission check that follows throws.
ClaimLosesLease(e) ==
    /\ \/ At(e, "claim") /\ Cardinality(flight[e]) < PoolSize
       \/ At(e, "commit")
    /\ ~HoldsLease(e)
    /\ cand' = [cand EXCEPT ![e] = {}]
    /\ Throw(e)
    /\ UNCHANGED <<storeVars, ledgerVars, historyVars>>
    /\ UNCHANGED <<held, beating, fatal, changed, todo, notify, flight>>

\* No flight to wait for: the loop sleeps one interval.
Sleep(e) ==
    /\ At(e, "wait")
    /\ flight[e] = {}
    /\ Goto(e, "top")
    /\ UNCHANGED <<storeVars, ledgerVars, historyVars>>
    /\ UNCHANGED <<held, beating, fatal, changed, todo, cand, notify, flight>>

\* Promise.race resolved: a flight has finished.
Resume(e) ==
    /\ At(e, "woken")
    /\ IF fatal[e] THEN Throw(e) ELSE Goto(e, "top")
    /\ UNCHANGED <<storeVars, ledgerVars, historyVars>>
    /\ UNCHANGED <<held, beating, fatal, changed, todo, cand, notify, flight>>

\* Abort awaits every flight.
Drained(e) ==
    /\ At(e, "drain")
    /\ flight[e] = {}
    /\ Goto(e, "close")
    /\ UNCHANGED <<storeVars, ledgerVars, historyVars>>
    /\ UNCHANGED <<held, beating, fatal, changed, todo, cand, notify, flight>>

\* The finally block of runV2Engine; a throw leaves flights in the air.
Close(e) ==
    /\ At(e, "close")
    /\ beating' = [beating EXCEPT ![e] = FALSE]
    /\ lease' = ReleasedLease(e, held[e])
    /\ Goto(e, "closed")
    /\ UNCHANGED <<row, approval, mission, recovered, acked>>
    /\ UNCHANGED <<held, fatal, changed, todo, cand, notify, flight>>
    /\ UNCHANGED <<ledgerVars, historyVars>>

-----------------------------------------------------------------------------
(* One dispatch.                                                           *)

Advance(e, f, phase, verdict) ==
    flight' = [flight EXCEPT ![e] = (@ \ {f}) \cup
        {[attempt |-> f.attempt, phase |-> phase, verdict |-> verdict]}]

\* A turn of flight f of process e starts, or goes on.
FlightTurn(e, f, phase) == pc[e] \in AwaitPCs /\ InTurn(e) /\ f.phase = phase
FlightCont(e, f, phase) == notify[e] = {} /\ f.phase = phase

\* The claim is verified (verifyClaim, assertClaim, and again before the
\* grant); admission may also hold the invocation.  Without a lease the
\* promise is rejected.
Begin(e) ==
    /\ \E f \in flight[e] :
        /\ FlightTurn(e, f, "claimed")
        /\ IF ~HoldsLease(e)
           THEN Advance(e, f, "finally", "none")
           ELSE \/ ClaimActive(e, f.attempt) /\ Advance(e, f, "admitted", "none")
                \/ Advance(e, f, "returned", "parked")
        /\ fatal' = [fatal EXCEPT ![e] = @ \/ ~HoldsLease(e)]
    /\ UNCHANGED <<storeVars, ledgerVars, historyVars>>
    /\ UNCHANGED <<pc, held, beating, changed, todo, cand, notify>>

\* claimDispatch: the receipt is durably dispatched before the provider is
\* called.  The claim was checked before, in another database.
OpenReceipt(e) ==
    /\ \E f \in flight[e] :
        /\ FlightCont(e, f, "admitted")
        /\ opened' = opened \cup {<<f.attempt, lease.epoch>>}
        /\ Advance(e, f, "granting", "none")
    /\ UNCHANGED <<storeVars, exited, orphaned, historyVars>>
    /\ UNCHANGED <<pc, held, beating, fatal, changed, todo, cand, notify>>

\* The claim is checked once more, then the provider is called.
Grant(e) ==
    /\ \E f \in flight[e] :
        /\ FlightCont(e, f, "granting")
        /\ IF ClaimActive(e, f.attempt)
           THEN Advance(e, f, "executing", "none") /\ called' = called \cup {f.attempt}
           ELSE Advance(e, f, "returned", "parked") /\ UNCHANGED called
    /\ UNCHANGED <<storeVars, ledgerVars, delivered, issued, settled>>
    /\ UNCHANGED <<pc, held, beating, fatal, changed, todo, cand, notify>>

\* The provider's transport event closes the receipt, unless a recovery has:
\* then, as after any error past the dispatch, the item needs reconciliation.
ProviderExits(e) ==
    /\ \E f \in flight[e] :
        /\ FlightTurn(e, f, "executing")
        /\ Unfinished(f.attempt)
        /\ exited' = exited \cup {f.attempt}
        /\ \E verdict \in {"done", "failed", "parked"} : Advance(e, f, "returned", verdict)
    /\ UNCHANGED <<storeVars, opened, orphaned, historyVars>>
    /\ UNCHANGED <<pc, held, beating, fatal, changed, todo, cand, notify>>

\* The executor throws, or the ledger refuses the event.
ProviderBreaks(e) ==
    /\ \E f \in flight[e] :
        /\ FlightTurn(e, f, "executing")
        /\ Advance(e, f, "returned", "parked")
    /\ UNCHANGED <<storeVars, ledgerVars, historyVars>>
    /\ UNCHANGED <<pc, held, beating, fatal, changed, todo, cand, notify>>

CheckLease(e) ==
    /\ \E f \in flight[e] :
        /\ FlightTurn(e, f, "returned")
        /\ Advance(e, f, IF HoldsLease(e) THEN "settling" ELSE "finally", f.verdict)
        /\ fatal' = [fatal EXCEPT ![e] = @ \/ ~HoldsLease(e)]
    /\ UNCHANGED <<storeVars, ledgerVars, historyVars>>
    /\ UNCHANGED <<pc, held, beating, changed, todo, cand, notify>>

Settle(e) ==
    /\ \E f \in flight[e] :
        /\ FlightCont(e, f, "settling")
        /\ SettleTxn(f.attempt, e, held[e], f.verdict)
        /\ settled' = settled \cup {f.attempt}
        /\ Advance(e, f, "finally", f.verdict)
    /\ UNCHANGED <<lease, approval, mission, recovered, acked>>
    /\ UNCHANGED <<pc, held, beating, fatal, changed, todo, cand, notify>>
    /\ UNCHANGED <<ledgerVars, delivered, issued, called>>

\* Another authority owns the row by now: MissionClaimSettlementError.
SettleRefused(e) ==
    /\ \E f \in flight[e] :
        /\ FlightCont(e, f, "settling")
        /\ ~ (ClaimLive(f.attempt) /\ HoldsLease(e))
        /\ fatal' = [fatal EXCEPT ![e] = TRUE]
        /\ Advance(e, f, "finally", f.verdict)
    /\ UNCHANGED <<storeVars, ledgerVars, historyVars>>
    /\ UNCHANGED <<pc, held, beating, changed, todo, cand, notify>>

\* The finally handler frees the slot and checks the mission.
Finally(e) ==
    /\ \E f \in flight[e] :
        /\ FlightTurn(e, f, "finally")
        /\ flight' = [flight EXCEPT ![e] = @ \ {f}]
        /\ IF ~fatal[e] /\ HoldsLease(e)
           THEN CheckMission(e, MissionOf[f.attempt.item])
           ELSE UNCHANGED <<mission, notify>>
        /\ fatal' = [fatal EXCEPT ![e] = @ \/ ~HoldsLease(e)]
        /\ pc' = IF pc[e] = "wait" THEN [pc EXCEPT ![e] = "woken"] ELSE pc
    /\ UNCHANGED <<lease, row, approval, recovered, acked>>
    /\ UNCHANGED <<held, beating, changed, todo, cand>>
    /\ UNCHANGED <<ledgerVars, historyVars>>

-----------------------------------------------------------------------------
BootStep(e) ==
    \/ Acquire(e) \/ Recover(e) \/ CloseReceipt(e) \/ AckRecovery(e)
    \/ LeavePending(e) \/ ReceiptsDone(e) \/ BootFails(e)

ApprovalStep(e) ==
    \/ Decide(e) \/ DecideDone(e) \/ Park(e) \/ ParkDone(e)
    \/ Publish(e) \/ PublishFails(e) \/ PublishDone(e)

LoopStep(e) ==
    \/ Top(e) \/ Reconcile(e) \/ ApprovalStep(e)
    \/ Notify(e) \/ Project(e) \/ ProjectDone(e)
    \/ ClaimNothing(e) \/ Select(e) \/ Commit(e) \/ ClaimLosesLease(e)
    \/ Sleep(e) \/ Resume(e) \/ Drained(e) \/ Close(e)

FlightStep(e) ==
    \/ Begin(e) \/ OpenReceipt(e) \/ Grant(e)
    \/ ProviderExits(e) \/ ProviderBreaks(e)
    \/ CheckLease(e) \/ Settle(e) \/ SettleRefused(e) \/ Finally(e)

EngineStep(e) ==
    \/ BootStep(e) \/ LoopStep(e) \/ FlightStep(e)
    \/ Abort(e) \/ Renew(e) \/ Crash(e)

\* Every instance has exited: nothing is left to run.
Exited ==
    /\ \A e \in Engines : pc[e] \in {"closed", "dead"} /\ flight[e] = {}
    /\ lease.remaining = 0
    /\ UNCHANGED vars

Next == Tick \/ Exited \/ \E e \in Engines : EngineStep(e)

Spec == Init /\ [][Next]_vars

-----------------------------------------------------------------------------
(* Safety.                                                                 *)

\* An item is claimed at most once in its life, whatever crashes, restarts or
\* late engines do: recovery parks an interrupted attempt, it never redrives.
OneAttemptPerItem ==
    \A a, b \in issued : a.item = b.item => a = b

\* A guarded item is dispatched only on an "allowed" decision, the one its
\* request will ever have, and a dependent only after all its upstreams.
DispatchWasEntitled ==
    \A a \in issued :
        /\ a.item \in Guarded => approval[a.item] = "allowed"
        /\ \A d \in Deps[a.item] : Status(d) = "done"

\* Once the lease holder has recovered, every running row is its own: claims
\* of earlier engines are gone and no late engine can make one.
NoForeignRunning ==
    \A e \in Engines :
        HoldsLease(e) /\ pc[e] \notin {"boot", "dead"} =>
            \A i \in WithStatus({"running"}) :
                \A a \in row[i].claim : a.epoch = held[e]

\* No attempt is lost and none is counted twice: it is running, it settled its
\* row, or it was journaled for recovery.
AttemptAccounted ==
    /\ issued = LiveClaims \cup settled \cup recovered
    /\ LiveClaims \cap settled = {}
    /\ LiveClaims \cap recovered = {}
    /\ settled \cap recovered = {}

\* The two databases agree: a receipt is closed as unknown, or acknowledged,
\* only for a journaled attempt, which never settles its row; a done or failed
\* row rests on the provider's own transport event; and the provider is called
\* only behind a durable dispatch record.
ReceiptsAgree ==
    /\ orphaned \subseteq recovered \ settled
    /\ acked \subseteq recovered \cap (exited \cup orphaned)
    /\ \A a \in settled : Status(a.item) \in {"done", "failed"} => a \in exited
    /\ \A a \in called : \E p \in opened : p[1] = a

\* A mission verdict is written only over items that are all terminal, and it
\* is the verdict of those items for ever after.
MissionVerdictSound ==
    \A m \in Missions :
        mission[m] # "pending" =>
            /\ \A i \in ItemsOf(m) : Status(i) \in TerminalStatuses
            /\ mission[m] = "completed" <=> \A i \in ItemsOf(m) : Status(i) = "done"

\* A mission's settlement is notified at most once.
NotifiedAtMostOnce == \A m \in Missions : delivered[m] <= 1

\* The rows running under the current lease fit the pool and the tenant cap,
\* although the scheduler counts promises and not rows.
PoolRespected ==
    LET current == {i \in WithStatus({"running"}) :
                        \E a \in row[i].claim : a.epoch = lease.epoch}
    IN  /\ Cardinality(current) <= PoolSize
        /\ TenantCap # 0 => \A m \in Missions :
            Cardinality({i \in current : TenantOf[MissionOf[i]] = TenantOf[m]}) <= TenantCap

-----------------------------------------------------------------------------
(* Action properties.                                                      *)

\* Nothing ever touches a terminal row or a mission verdict again.
SettledIsFinal ==
    [][/\ \A i \in Items : Status(i) \in TerminalStatuses => row'[i] = row[i]
       /\ \A m \in Missions : mission[m] # "pending" => mission'[m] = mission[m]]_vars

\* A running row changes only under an unexpired lease: to any verdict under
\* the lease it was claimed under, and only to parked under a later one.
OnlyLeaseHolderMovesRunning ==
    [][\A i \in Items : \A a \in row[i].claim :
        row'[i] # row[i] =>
            /\ lease.remaining > 0
            /\ \/ a.epoch = lease.epoch
               \/ a.epoch < lease.epoch /\ row'[i].status = "parked"]_vars

-----------------------------------------------------------------------------
(* The engine implements the dispatch contract.  Parked means held once an *)
(* attempt was made, and waiting before.                                   *)

PhaseOf(i) ==
    CASE Status(i) = "running" -> "inflight"
      [] Status(i) = "blocked" -> "refused"
      [] Status(i) \in {"done", "failed"} -> Status(i)
      [] Status(i) = "parked" /\ (\E a \in issued : a.item = i) -> "held"
      [] OTHER -> "waiting"

Contract == INSTANCE DispatchContract WITH
    phase <- [i \in Items |-> PhaseOf(i)],
    verdict <- mission

\* Whatever the engines, the clock and the crashes do, items and missions
\* only make the steps the contract allows.
ImplementsContract == Contract!Spec

(***************************************************************************)
(* It keeps the dependency contract too.  An item that is parked for its   *)
(* approval, or approved, was taken under the conditions of a claim: to    *)
(* the contract it runs.                                                   *)
(***************************************************************************)
AwaitsApproval(i) == Status(i) = "parked" /\ \A a \in issued : a.item # i
Approved(i) == Status(i) = "pending" /\ approval[i] = "allowed"
RowOf(i) == IF AwaitsApproval(i) \/ Approved(i) THEN "running" ELSE Status(i)

Rows == INSTANCE DependencyContract WITH
    status <- [i \in Items |-> RowOf(i)],
    concluded <- {m \in Missions : mission[m] # "pending"},
    Unfit <- {}

\* An item is offered for approval, or claimed, only while its mission is open
\* and behind its done upstreams; a row is blocked by reconciliation only
\* behind a failure; no recovered row runs again; missions end over terminal
\* rows.
KeepsDependencyContract == Rows!Spec

-----------------------------------------------------------------------------
(***************************************************************************)
(* Liveness.  A turn of a process that can run does run: the event loop    *)
(* is fair to its promises and timers.  Time passes, a provider answers    *)
(* or breaks (its executor has a timeout), and the timer renews.  Nothing  *)
(* makes an owner abort, restart an instance or decide a request.          *)
(***************************************************************************)
Fairness ==
    /\ WF_vars(Tick)
    /\ \A e \in Engines :
        /\ WF_vars(Renew(e))
        /\ WF_vars(BootStep(e) /\ pc[e] # "off")
        /\ WF_vars(LoopStep(e))
        /\ WF_vars(FlightStep(e))

FairSpec == Spec /\ Fairness

Running(e) == pc[e] \notin {"off", "drain", "close", "closed", "dead"}

\* A mission has its verdict, or an item of it waits for a person: parked for
\* a decision or for owner reconciliation, or allowed by a decision that may no
\* longer validate at the claim.
Resolved(m) ==
    \/ mission[m] # "pending"
    \/ \E i \in ItemsOf(m) : Status(i) = "parked"
    \/ \E i \in ItemsOf(m) : i \in Guarded /\ approval[i] = "allowed"

\* An engine that keeps running resolves every mission.
MissionsResolve ==
    \A m \in Missions :
        (\E e \in Engines : Running(e)) ~>
            (Resolved(m) \/ ~ \E e \in Engines : Running(e))

\* A row left running by an engine that lost the lease does not stay so once
\* another engine has taken over.
OrphansAreParked ==
    \A i \in Items :
        (\E a \in row[i].claim : a.epoch < lease.epoch) ~> Status(i) = "parked"

\* A dispatch left open by an engine before the takeover is closed and
\* acknowledged by the engine that took over.
OrphanReceiptsAcknowledged ==
    \A i \in Items :
        (\E a \in recovered, p \in opened :
            a.item = i /\ p[1] = a /\ p[2] < lease.epoch)
        ~> (\E a \in acked : a.item = i)
=============================================================================
