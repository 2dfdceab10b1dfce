-------------------------- MODULE MissionEpoch_proofs --------------------------
(***************************************************************************)
(* Lease epochs: under the holder that has recovered, every running row is *)
(* its own, a running row is moved only by the holder of the lease, and    *)
(* the rows running under it fit the pool.                                 *)
(***************************************************************************)
EXTENDS MissionSafety_proofs, FiniteSetTheorems

-----------------------------------------------------------------------------
(* Steps that hand out no epoch and make no claim.                         *)

\* No flight appears.
FlightsKept ==
    \A d \in Engines : \A f \in flight'[d] : \E g \in flight[d] : f.attempt = g.attempt

\* Nobody starts to hold the lease.
LeaseKept ==
    /\ lease'.owner = lease.owner
    /\ lease'.epoch = lease.epoch
    /\ lease'.remaining > 0 => lease.remaining > 0

\* Nobody leaves the boot as the lease holder.
BootKept ==
    \A d \in Engines :
        /\ pc'[d] = "off" => pc[d] = "off"
        /\ pc'[d] \notin {"boot", "dead"} /\ pc[d] \in {"boot", "dead"} => ~HoldsLease(d)

\* Nothing starts to run.
ClaimsKept ==
    \A i \in Items : row'[i].status = "running" => row'[i] = row[i]

Routine == UNCHANGED <<held, issued>> /\ FlightsKept /\ LeaseKept /\ BootKept /\ ClaimsKept

LEMMA RoutineEpoch ==
    ASSUME TypeOK, EpochInvariant, Routine
    PROVE  EpochInvariant'
<1> USE DEF TypeOK, StoreTypeOK, Lease
<1>1. OffIsInert'
  BY DEF EpochInvariant, OffIsInert, Routine, BootKept, LeaseKept, FlightsKept
<1>2. EpochsPast'
  BY DEF EpochInvariant, EpochsPast, Routine, LeaseKept
<1>3. FlightsOwned'
  BY DEF EpochInvariant, FlightsOwned, Routine, FlightsKept
<1>4. NoForeignRunning'
  <2>1. SUFFICES ASSUME NEW e \in Engines, HoldsLease(e)', pc'[e] \notin {"boot", "dead"},
                        NEW i \in Items, row'[i].status = "running", NEW a \in row'[i].claim
                 PROVE  a.epoch = held'[e]
    BY DEF NoForeignRunning, WithStatus, Status
  <2>2. HoldsLease(e)
    BY <2>1 DEF HoldsLease, LeaseActive, Routine, LeaseKept
  <2>3. pc[e] \notin {"boot", "dead"}
    BY <2>1, <2>2 DEF Routine, BootKept
  <2>4. row'[i] = row[i]
    BY <2>1 DEF Routine, ClaimsKept
  <2>5. QED
    BY <2>1, <2>2, <2>3, <2>4
       DEF EpochInvariant, NoForeignRunning, WithStatus, Status, Routine
<1>5. QED
  BY <1>1, <1>2, <1>3, <1>4 DEF EpochInvariant

LEMMA BootRoutine ==
    ASSUME TypeOK, NEW e \in Engines, BootStep(e), ~Acquire(e), ~Recover(e)
    PROVE  Routine
<1> USE DEF TypeOK, StoreTypeOK, Lease, Routine, FlightsKept, LeaseKept, BootKept, ClaimsKept,
            engineVars, storeVars, ledgerVars, historyVars
<1>1. CASE CloseReceipt(e)
  BY <1>1 DEF CloseReceipt
<1>2. CASE AckRecovery(e)
  BY <1>2 DEF AckRecovery
<1>3. CASE LeavePending(e)
  BY <1>3 DEF LeavePending
<1>4. CASE ReceiptsDone(e)
  BY <1>4 DEF ReceiptsDone, At, Goto
<1>5. CASE BootFails(e)
  BY <1>5 DEF BootFails, Throw, Goto, At
<1>6. QED
  BY <1>1, <1>2, <1>3, <1>4, <1>5 DEF BootStep

LEMMA LoopRoutine ==
    ASSUME TypeOK, NEW e \in Engines, LoopStep(e), ~Commit(e)
    PROVE  Routine
<1> USE DEF TypeOK, StoreTypeOK, Lease, Routine, FlightsKept, LeaseKept, BootKept, ClaimsKept,
            engineVars, storeVars, ledgerVars, historyVars
<1>1. CASE Top(e)
  BY <1>1 DEF Top, Throw, Goto, At
<1>2. CASE Reconcile(e)
  <2>1. ClaimsKept
    BY <1>2 DEF Reconcile, ReconcileTxn, Moved
  <2>2. QED
    BY <1>2, <2>1 DEF Reconcile, Goto, At
<1>3. CASE Decide(e)
  <2>1. PICK i \in Guarded, verdict \in Verdicts : DecideTxn(i, verdict)
    BY <1>3 DEF Decide
  <2>2. i \in Items /\ StatusAfter(verdict) # "running"
    BY GuardedAssumption DEF StatusAfter
  <2>3. ClaimsKept
    BY <2>1, <2>2 DEF DecideTxn, Moved
  <2>4. QED
    BY <1>3, <2>3 DEF Decide
<1>4. CASE Park(e)
  <2>1. ClaimsKept
    BY <1>4, ParkOne DEF Parks, Moved
  <2>2. QED
    BY <1>4, <2>1 DEF Park
<1>5. CASE DecideDone(e) \/ ParkDone(e) \/ PublishFails(e)
  BY <1>5 DEF DecideDone, ParkDone, PublishFails, Throw, Goto, At
<1>6. CASE Publish(e) \/ PublishDone(e)
  BY <1>6 DEF Publish, PublishDone, Throw, Goto, At
<1>7. CASE Notify(e)
  BY <1>7 DEF Notify
<1>8. CASE Project(e) \/ ProjectDone(e)
  BY <1>8 DEF Project, ProjectDone, Throw, Goto, At
<1>9. CASE ClaimNothing(e) \/ Select(e) \/ ClaimLosesLease(e)
  BY <1>9 DEF ClaimNothing, Select, ClaimLosesLease, Throw, Goto, At
<1>10. CASE Sleep(e) \/ Resume(e) \/ Drained(e)
  BY <1>10 DEF Sleep, Resume, Drained, Throw, Goto, At
<1>11. CASE Close(e)
  BY <1>11 DEF Close, ReleasedLease, Goto, At
<1>12. QED
  BY <1>1, <1>2, <1>3, <1>4, <1>5, <1>6, <1>7, <1>8, <1>9, <1>10, <1>11
     DEF LoopStep, ApprovalStep

LEMMA AdvanceFlights ==
    ASSUME TypeOK, NEW e \in Engines, NEW f \in flight[e], NEW p, NEW v, Advance(e, f, p, v)
    PROVE  FlightsKept
BY DEF TypeOK, Advance, FlightsKept

LEMMA FlightRoutine ==
    ASSUME TypeOK, NEW e \in Engines, FlightStep(e)
    PROVE  Routine
<1> USE DEF storeVars, ledgerVars, historyVars
<1>1. FlightsKept
  BY AdvanceFlights DEF FlightStep, Begin, OpenReceipt, Grant, ProviderExits, ProviderBreaks,
     CheckLease, Settle, SettleRefused, Finally, FlightsKept, TypeOK
<1>2. UNCHANGED <<held, issued, lease>>
  BY DEF FlightStep, Begin, OpenReceipt, Grant, ProviderExits, ProviderBreaks,
     CheckLease, Settle, SettleRefused, Finally
<1>3. BootKept
  <2>1. CASE Finally(e)
    BY <2>1 DEF Finally, BootKept, TypeOK
  <2>2. CASE ~Finally(e)
    BY <2>2 DEF FlightStep, Begin, OpenReceipt, Grant, ProviderExits, ProviderBreaks,
       CheckLease, Settle, SettleRefused, BootKept
  <2>3. QED
    BY <2>1, <2>2
<1>4. ClaimsKept
  <2>1. CASE Settle(e)
    <3>1. PICK f \in flight[e] : f.phase = "settling" /\ SettleTxn(f.attempt, e, held[e], f.verdict)
      BY <2>1 DEF Settle, FlightCont
    <3>2. f.verdict # "running"
      BY DEF TypeOK, Flight, FlightVerdicts
    <3>3. QED
      BY <3>1, <3>2 DEF SettleTxn, Moved, ClaimsKept, TypeOK, StoreTypeOK
  <2>2. CASE ~Settle(e)
    <3>1. UNCHANGED row
      BY <2>2 DEF FlightStep, Begin, OpenReceipt, Grant, ProviderExits, ProviderBreaks,
         CheckLease, SettleRefused, Finally
    <3>2. QED
      BY <3>1 DEF ClaimsKept
  <2>3. QED
    BY <2>1, <2>2
<1>5. QED
  BY <1>1, <1>2, <1>3, <1>4 DEF Routine, LeaseKept

LEMMA EnvironmentRoutine ==
    ASSUME TypeOK, Tick \/ UNCHANGED vars \/ \E e \in Engines : Abort(e) \/ Renew(e) \/ Crash(e)
    PROVE  Routine
<1> USE DEF TypeOK, StoreTypeOK, Lease, Routine, FlightsKept, LeaseKept, BootKept, ClaimsKept,
            vars, engineVars, storeVars, ledgerVars, historyVars
<1>1. CASE Tick
  BY <1>1 DEF Tick
<1>2. CASE UNCHANGED vars
  BY <1>2
<1>3. ASSUME NEW e \in Engines, Abort(e)
      PROVE  Routine
  BY <1>3 DEF Abort, Goto, At
<1>4. ASSUME NEW e \in Engines, Renew(e)
      PROVE  Routine
  BY <1>4 DEF Renew, RenewedLease, LeaseActive
<1>5. ASSUME NEW e \in Engines, Crash(e)
      PROVE  Routine
  BY <1>5 DEF Crash, Goto, Alive
<1>6. QED
  BY <1>1, <1>2, <1>3, <1>4, <1>5

\* Only these three steps are not routine.
LEMMA RoutineOrNot ==
    ASSUME TypeOK, [Next]_vars
    PROVE  Routine \/ \E e \in Engines : Acquire(e) \/ Recover(e) \/ Commit(e)
BY BootRoutine, LoopRoutine, FlightRoutine, EnvironmentRoutine DEF Next, Exited, EngineStep

-----------------------------------------------------------------------------
(* Acquisition, recovery and the claim.                                    *)

LEMMA AcquireEpoch ==
    ASSUME TypeOK, EpochInvariant, NEW e \in Engines, Acquire(e)
    PROVE  EpochInvariant'
<1> USE DEF TypeOK, StoreTypeOK, Lease
<1>1. /\ lease'.owner = e /\ lease'.epoch = lease.epoch + 1
      /\ held' = [held EXCEPT ![e] = lease.epoch + 1]
      /\ pc[e] = "off" /\ pc' = [pc EXCEPT ![e] = "boot"]
      /\ UNCHANGED <<row, flight, issued>>
  BY DEF Acquire, AcquireLease, Goto, historyVars
<1>2. OffIsInert'
  BY <1>1 DEF EpochInvariant, OffIsInert
<1>3. EpochsPast'
  BY <1>1 DEF EpochInvariant, EpochsPast, Attempt
<1>4. FlightsOwned'
  BY <1>1 DEF EpochInvariant, OffIsInert, FlightsOwned
<1>5. NoForeignRunning'
  BY <1>1 DEF NoForeignRunning, HoldsLease, LeaseActive
<1>6. QED
  BY <1>2, <1>3, <1>4, <1>5 DEF EpochInvariant

LEMMA RecoverEpoch ==
    ASSUME TypeOK, EpochInvariant, NEW e \in Engines, Recover(e)
    PROVE  EpochInvariant'
<1> USE DEF TypeOK, StoreTypeOK
<1>1. /\ row' = [i \in Items |-> IF Status(i) = "running" THEN Moved(i, "parked") ELSE row[i]]
      /\ pc' = [pc EXCEPT ![e] = "receipts"]
      /\ UNCHANGED <<lease, held, flight, issued>>
  BY DEF Recover, RecoverTxn, Goto, historyVars
<1>2. OffIsInert' /\ EpochsPast' /\ FlightsOwned'
  BY <1>1 DEF EpochInvariant, OffIsInert, EpochsPast, FlightsOwned
<1>3. \A i \in Items : row'[i].status # "running"
  BY <1>1 DEF Moved, Status
<1>4. NoForeignRunning'
  BY <1>3 DEF NoForeignRunning, WithStatus, Status
<1>5. QED
  BY <1>2, <1>4 DEF EpochInvariant

LEMMA CommitEpoch ==
    ASSUME TypeOK, EpochInvariant, NEW e \in Engines, Commit(e)
    PROVE  EpochInvariant'
<1> USE DEF TypeOK, StoreTypeOK, Lease
<1>1. PICK i \in cand[e] :
          /\ ClaimTxn(i, e, held[e])
          /\ issued' = issued \cup {ClaimFor(i)}
          /\ flight' = [flight EXCEPT ![e] = @ \cup
                {[attempt |-> ClaimFor(i), phase |-> "claimed", verdict |-> "none"]}]
  BY DEF Commit
<1>2. /\ pc[e] = "commit" /\ pc' = [pc EXCEPT ![e] = "claim"]
      /\ UNCHANGED <<lease, held>>
  BY DEF Commit, At, Goto
<1>3. HoldsLease(e) /\ ClaimFor(i).epoch = held[e]
  BY <1>1 DEF ClaimTxn, HoldsLease, LeaseActive, ClaimFor
<1>4. OffIsInert'
  BY <1>1, <1>2 DEF EpochInvariant, OffIsInert
<1>5. EpochsPast'
  BY <1>1, <1>2, <1>3 DEF EpochInvariant, EpochsPast, Attempt
<1>6. FlightsOwned'
  <2>1. SUFFICES ASSUME NEW d \in Engines, NEW f \in flight'[d]
                 PROVE  f.attempt.epoch = held[d]
    BY <1>2 DEF FlightsOwned
  <2>2. CASE f \in flight[d]
    BY <2>2 DEF EpochInvariant, FlightsOwned
  <2>3. CASE f \notin flight[d]
    <3>1. d = e /\ f.attempt = ClaimFor(i)
      BY <1>1, <2>1, <2>3
    <3>2. QED
      BY <1>3, <3>1
  <2>4. QED
    BY <2>2, <2>3
<1>7. NoForeignRunning'
  <2>1. SUFFICES ASSUME NEW d \in Engines, HoldsLease(d), pc'[d] \notin {"boot", "dead"},
                        NEW j \in Items, row'[j].status = "running", NEW a \in row'[j].claim
                 PROVE  a.epoch = held[d]
    BY <1>2 DEF NoForeignRunning, WithStatus, Status, HoldsLease, LeaseActive
  <2>2. d = e
    BY <1>3, <2>1 DEF HoldsLease, LeaseActive
  <2>3. CASE j = i
    BY <1>1, <1>3, <2>1, <2>2, <2>3 DEF ClaimTxn
  <2>4. CASE j # i
    <3>1. row'[j] = row[j]
      BY <1>1, <2>4 DEF ClaimTxn
    <3>2. QED
      BY <1>2, <2>1, <2>2, <3>1 DEF EpochInvariant, NoForeignRunning, WithStatus, Status
  <2>5. QED
    BY <2>3, <2>4
<1>8. QED
  BY <1>4, <1>5, <1>6, <1>7 DEF EpochInvariant

THEOREM EpochSafe == Spec => []EpochInvariant
<1>1. Init => EpochInvariant
  BY EnginesAssumption
     DEF Init, StoreInit, EpochInvariant, OffIsInert, EpochsPast, FlightsOwned,
         NoForeignRunning, WithStatus, Status
<1>2. TypeOK /\ EpochInvariant /\ [Next]_vars => EpochInvariant'
  BY RoutineOrNot, RoutineEpoch, AcquireEpoch, RecoverEpoch, CommitEpoch
<1>3. QED
  BY <1>1, <1>2, TypeCorrect, PTL DEF Spec

\* Once the lease holder has recovered, no row runs under a claim of an
\* earlier engine, and no late engine can make one run.
THEOREM HolderRunsAlone == Spec => []NoForeignRunning
<1>1. EpochInvariant => NoForeignRunning
  BY DEF EpochInvariant
<1>2. QED
  BY <1>1, EpochSafe, PTL

-----------------------------------------------------------------------------
(* Who may move a running row.                                             *)

LEMMA RunningStep ==
    ASSUME TypeOK, StoreInvariant, EpochInvariant, [Next]_vars,
           NEW i \in Items, NEW a \in row[i].claim, row'[i] # row[i]
    PROVE  /\ lease.remaining > 0
           /\ \/ a.epoch = lease.epoch
              \/ a.epoch < lease.epoch /\ row'[i].status = "parked"
<1> USE DEF TypeOK, StoreTypeOK, Lease
<1>1. Status(i) = "running" /\ a \in issued /\ row[i].claim = {a} /\ a.item = i
  BY DEF StoreInvariant, ClaimsIssued
<1>2. a.epoch \in Nat /\ lease.epoch \in Nat /\ a.epoch <= lease.epoch
  BY <1>1 DEF EpochInvariant, EpochsPast, Attempt
<1>3. PICK e \in Engines : StoreStep(e)
  BY QuietOrStore DEF Quiet
<1>4. CASE Recover(e)
  <2>1. row'[i] = Moved(i, "parked") /\ lease.remaining > 0
    BY <1>1, <1>4 DEF Recover, RecoverTxn, LeaseActive
  <2>2. QED
    BY <1>2, <2>1 DEF Moved
<1>5. CASE Reconcile(e)
  BY <1>1, <1>5 DEF Reconcile, ReconcileTxn, Doomed, WithStatus
<1>6. CASE Decide(e)
  BY <1>1, <1>6, GuardedAssumption DEF Decide, DecideTxn
<1>7. CASE Park(e) \/ Publish(e)
  BY <1>1, <1>7, ParkOne DEF Parks, Publish
<1>8. CASE Commit(e)
  BY <1>1, <1>8 DEF Commit, ClaimTxn, Claimable
<1>9. CASE Settle(e)
  <2>1. PICK f \in flight[e] : SettleTxn(f.attempt, e, held[e], f.verdict)
    BY <1>9 DEF Settle
  <2>2. f.attempt.item = i
    BY <2>1 DEF SettleTxn
  <2>3. f.attempt = a
    BY <1>1, <2>1, <2>2 DEF SettleTxn, ClaimLive
  <2>4. QED
    BY <2>1, <2>3 DEF SettleTxn, LeaseActive, EpochInvariant, FlightsOwned
<1>10. QED
  BY <1>3, <1>4, <1>5, <1>6, <1>7, <1>8, <1>9 DEF StoreStep

\* A running row moves only under an unexpired lease: to its verdict under
\* the lease it was claimed under, to "parked" under a later one.
THEOREM OnlyHolderMoves == Spec => OnlyLeaseHolderMovesRunning
<1>1. TypeOK /\ StoreInvariant /\ EpochInvariant /\ [Next]_vars
        => [\A i \in Items : \A a \in row[i].claim :
              row'[i] # row[i] =>
                /\ lease.remaining > 0
                /\ \/ a.epoch = lease.epoch
                   \/ a.epoch < lease.epoch /\ row'[i].status = "parked"]_vars
  BY RunningStep
<1>2. QED
  BY <1>1, TypeCorrect, StoreSafe, EpochSafe, PTL DEF Spec, OnlyLeaseHolderMovesRunning
-----------------------------------------------------------------------------
(* The pool: rows running under the current lease against flights.         *)

\* Rows that each have a flight of their own are no more than the flights.
LEMMA RowsBehindFlights ==
    ASSUME NEW F, IsFiniteSet(F),
           NEW S, \A i \in S : \E f \in F : f.attempt.item = i
    PROVE  IsFiniteSet(S) /\ Cardinality(S) <= Cardinality(F)
<1> DEFINE G == {f \in F : f.attempt.item \in S}
           itemOf == [f \in G |-> f.attempt.item]
<1>1. IsFiniteSet(G) /\ Cardinality(G) <= Cardinality(F)
  BY FS_Subset
<1>2. itemOf \in Surjection(G, S)
  BY DEF Surjection
<1>3. IsFiniteSet(S) /\ Cardinality(S) <= Cardinality(G)
  BY <1>1, <1>2, FS_Surjection
<1>4. Cardinality(S) \in Int /\ Cardinality(G) \in Int /\ Cardinality(F) \in Int
  BY <1>1, <1>3, FS_CardinalityType
<1>5. QED
  BY <1>1, <1>3, <1>4

\* A subset of finitely many rows has no more of any tenant's.
LEMMA FewerRows ==
    ASSUME NEW S, IsFiniteSet(S), NEW T \in SUBSET S, NEW n \in Int, Cardinality(S) <= n
    PROVE  IsFiniteSet(T) /\ Cardinality(T) <= n
<1>1. IsFiniteSet(T) /\ Cardinality(T) <= Cardinality(S)
  BY FS_Subset
<1>2. Cardinality(S) \in Int /\ Cardinality(T) \in Int
  BY <1>1, FS_CardinalityType
<1>3. QED
  BY <1>1, <1>2

\* One more row fits where there is room.
LEMMA OneMoreFits ==
    ASSUME NEW S, IsFiniteSet(S), NEW x, NEW n \in Int, Cardinality(S) < n
    PROVE  IsFiniteSet(S \cup {x}) /\ Cardinality(S \cup {x}) <= n
<1>1. IsFiniteSet(S \cup {x})
  BY FS_AddElement
<1>2. Cardinality(S \cup {x}) = IF x \in S THEN Cardinality(S) ELSE Cardinality(S) + 1
  BY FS_AddElement
<1>3. Cardinality(S) \in Int
  BY FS_CardinalityType
<1>4. QED
  BY <1>1, <1>2, <1>3

\* The rows of tenant t that run under the current lease.
TenantRows(t) == {i \in CurrentRows : TenantOf[MissionOf[i]] = t}

LEMMA PoolByTenant ==
    PoolRespected <=>
        /\ Cardinality(CurrentRows) <= PoolSize
        /\ TenantCap # 0 => \A m \in Missions : Cardinality(TenantRows(TenantOf[m])) <= TenantCap
BY DEF PoolRespected, CurrentRows, TenantRows

\* While no row starts to run the bounds cannot be exceeded.
LEMMA FewerRespected ==
    ASSUME IsFiniteSet(CurrentRows), PoolRespected, CurrentRows' \subseteq CurrentRows
    PROVE  IsFiniteSet(CurrentRows)' /\ PoolRespected'
<1>1. PoolSize \in Int /\ TenantCap \in Int
  BY PoolAssumption
<1>2. IsFiniteSet(CurrentRows') /\ Cardinality(CurrentRows') <= PoolSize
  BY <1>1, PoolByTenant, FewerRows
<1>3. ASSUME TenantCap # 0, NEW m \in Missions
      PROVE  Cardinality(TenantRows(TenantOf[m])') <= TenantCap
  <2>1. TenantRows(TenantOf[m])' \subseteq TenantRows(TenantOf[m])
    BY DEF TenantRows
  <2>2. IsFiniteSet(TenantRows(TenantOf[m]))
    BY FS_Subset DEF TenantRows
  <2>3. Cardinality(TenantRows(TenantOf[m])) <= TenantCap
    BY <1>3, PoolByTenant
  <2>4. QED
    BY <1>1, <2>1, <2>2, <2>3, FewerRows
<1>4. QED
  BY <1>2, <1>3 DEF PoolRespected, CurrentRows, TenantRows

-----------------------------------------------------------------------------
(* What a step may do to the promises.                                     *)

\* A flight that is still behind a running row keeps its slot.
PromisesKept ==
    \A d \in Engines : HoldsLease(d) /\ pc'[d] # "dead" =>
        \A g \in flight[d] :
            g.phase # "finally" /\ g.attempt \in row'[g.attempt.item].claim =>
                \E h \in flight'[d] : h.attempt = g.attempt /\ h.phase # "finally"

Paced == PromisesKept /\ FlightsFinite' /\ TurnsEnd' /\ CommitHasRoom'

\* A flight behind a row is the row's own.
LEMMA PromiseOfRow ==
    ASSUME TypeOK, StoreInvariant, NEW i \in Items, NEW a \in row[i].claim
    PROVE  a.item = i /\ row[i].claim = {a} /\ Status(i) = "running" /\ a \in issued
BY DEF StoreInvariant, ClaimsIssued

LEMMA RoutinePool ==
    ASSUME TypeOK, StoreInvariant, PoolInvariant, Routine, Paced
    PROVE  PoolInvariant'
<1>1. ASSUME NEW i \in CurrentRows'
      PROVE  i \in CurrentRows /\ row'[i] = row[i]
  <2>1. i \in Items /\ row'[i].status = "running" /\ \E a \in row'[i].claim : a.epoch = lease'.epoch
    BY DEF CurrentRows, WithStatus, Status
  <2>2. row'[i] = row[i] /\ lease'.epoch = lease.epoch
    BY <2>1 DEF Routine, ClaimsKept, LeaseKept
  <2>3. QED
    BY <2>1, <2>2 DEF CurrentRows, WithStatus, Status
<1>2. IsFiniteSet(CurrentRows)' /\ PoolRespected'
  BY <1>1, FewerRespected DEF PoolInvariant
<1>3. PromisePerRow'
  <2>1. SUFFICES ASSUME NEW e \in Engines, HoldsLease(e)', pc'[e] \notin {"boot", "dead"},
                        NEW i \in CurrentRows'
                 PROVE  \E f \in flight'[e] : f.attempt \in row'[i].claim /\ f.phase # "finally"
    BY DEF PromisePerRow
  <2>2. HoldsLease(e)
    BY <2>1 DEF HoldsLease, LeaseActive, Routine, LeaseKept
  <2>3. pc[e] \notin {"boot", "dead"}
    BY <2>1, <2>2 DEF Routine, BootKept
  <2>4. i \in CurrentRows /\ i \in Items /\ row'[i] = row[i]
    BY <1>1 DEF CurrentRows, WithStatus
  <2>5. PICK g \in flight[e] : g.attempt \in row[i].claim /\ g.phase # "finally"
    BY <2>2, <2>3, <2>4 DEF PoolInvariant, PromisePerRow
  <2>6. g.attempt.item = i
    BY <2>4, <2>5, PromiseOfRow
  <2>7. QED
    BY <2>1, <2>2, <2>4, <2>5, <2>6 DEF Paced, PromisesKept
<1>4. QED
  BY <1>2, <1>3 DEF PoolInvariant, Paced

\* A step that moves no flight, of a loop between two turns.
Grounded ==
    /\ UNCHANGED flight
    /\ \A d \in Engines :
        /\ pc'[d] \notin AwaitPCs => pc[d] \notin AwaitPCs \/ InTurn(d)
        /\ pc'[d] = "commit" => pc[d] = "commit" /\ cand'[d] = cand[d]

LEMMA GroundedPaced ==
    ASSUME TypeOK, PoolInvariant, Grounded
    PROVE  Paced
<1>1. PromisesKept /\ FlightsFinite'
  BY DEF Grounded, PromisesKept, PoolInvariant, FlightsFinite
<1>2. TurnsEnd'
  BY DEF Grounded, PoolInvariant, TurnsEnd, InTurn
<1>3. CommitHasRoom'
  BY DEF Grounded, PoolInvariant, CommitHasRoom, TenantFlights
<1>4. QED
  BY <1>1, <1>2, <1>3 DEF Paced

LEMMA BootGrounded ==
    ASSUME TypeOK, NEW e \in Engines, BootStep(e)
    PROVE  Grounded
<1> USE DEF TypeOK, Grounded, storeVars, ledgerVars, historyVars, engineVars
<1>1. CASE Acquire(e)
  BY <1>1 DEF Acquire, Goto, AwaitPCs
<1>2. CASE Recover(e)
  BY <1>2 DEF Recover, Goto, At
<1>3. CASE CloseReceipt(e) \/ AckRecovery(e) \/ LeavePending(e)
  BY <1>3 DEF CloseReceipt, AckRecovery, LeavePending
<1>4. CASE ReceiptsDone(e) \/ BootFails(e)
  BY <1>4 DEF ReceiptsDone, BootFails, Throw, Goto, At
<1>5. QED
  BY <1>1, <1>2, <1>3, <1>4 DEF BootStep

LEMMA LoopGrounded ==
    ASSUME TypeOK, NEW e \in Engines, LoopStep(e), ~Select(e), ~Commit(e)
    PROVE  Grounded
<1> USE DEF TypeOK, Grounded, storeVars, ledgerVars, historyVars, engineVars
<1>1. CASE Top(e) \/ Reconcile(e)
  BY <1>1 DEF Top, Reconcile, Throw, Goto, At
<1>2. CASE Decide(e) \/ Park(e) \/ Publish(e)
  BY <1>2 DEF Decide, Park, Publish, At
<1>3. CASE DecideDone(e) \/ ParkDone(e) \/ PublishFails(e) \/ PublishDone(e)
  BY <1>3 DEF DecideDone, ParkDone, PublishFails, PublishDone, Throw, Goto, At
<1>4. CASE Notify(e)
  BY <1>4 DEF Notify
<1>5. CASE Project(e) \/ ProjectDone(e)
  BY <1>5 DEF Project, ProjectDone, Throw, Goto, At
<1>6. CASE ClaimNothing(e) \/ ClaimLosesLease(e)
  BY <1>6 DEF ClaimNothing, ClaimLosesLease, Throw, Goto, At
<1>7. CASE Sleep(e) \/ Resume(e) \/ Drained(e) \/ Close(e)
  BY <1>7 DEF Sleep, Resume, Drained, Close, Throw, Goto, At
<1>8. QED
  BY <1>1, <1>2, <1>3, <1>4, <1>5, <1>6, <1>7 DEF LoopStep, ApprovalStep

LEMMA EnvironmentGrounded ==
    ASSUME TypeOK, Tick \/ UNCHANGED vars \/ \E e \in Engines : Abort(e) \/ Renew(e)
    PROVE  Grounded
<1> USE DEF TypeOK, Grounded, vars, storeVars, ledgerVars, historyVars, engineVars
<1>1. CASE Tick \/ UNCHANGED vars
  BY <1>1 DEF Tick
<1>2. ASSUME NEW e \in Engines, Abort(e) \/ Renew(e)
      PROVE  Grounded
  BY <1>2 DEF Abort, Renew, Goto, At
<1>3. QED
  BY <1>1, <1>2

\* A crash drops the flights with the process that counted them.
LEMMA CrashPaced ==
    ASSUME TypeOK, PoolInvariant, NEW e \in Engines, Crash(e)
    PROVE  Paced
<1> USE DEF TypeOK
<1>1. /\ pc' = [pc EXCEPT ![e] = "dead"] /\ flight' = [flight EXCEPT ![e] = {}]
      /\ cand' = [cand EXCEPT ![e] = {}]
  BY DEF Crash, Goto
<1>2. PromisesKept
  BY <1>1 DEF PromisesKept
<1>3. FlightsFinite'
  BY <1>1, FS_EmptySet DEF FlightsFinite, PoolInvariant
<1>4. TurnsEnd'
  BY <1>1 DEF TurnsEnd, PoolInvariant
<1>5. CommitHasRoom'
  BY <1>1 DEF CommitHasRoom, PoolInvariant, TenantFlights
<1>6. QED
  BY <1>2, <1>3, <1>4, <1>5 DEF Paced

\* The scheduler looks for room, of the pool and of the tenant, and takes it.
LEMMA SelectPaced ==
    ASSUME TypeOK, PoolInvariant, NEW e \in Engines, Select(e)
    PROVE  Paced
<1> USE DEF TypeOK
<1>1. PICK i \in Offered(e) : cand' = [cand EXCEPT ![e] = {i}]
  BY DEF Select, OldestOf
<1>2. /\ UNCHANGED flight /\ pc' = [pc EXCEPT ![e] = "commit"]
      /\ pc[e] = "claim" /\ Cardinality(flight[e]) < PoolSize
  BY DEF Select, Goto, At
<1>3. PromisesKept /\ FlightsFinite'
  BY <1>2 DEF PromisesKept, PoolInvariant, FlightsFinite
<1>4. TurnsEnd'
  BY <1>2 DEF PoolInvariant, TurnsEnd, AwaitPCs
<1>5. TenantCap # 0 => Cardinality(TenantFlights(e, TenantOf[MissionOf[i]])) < TenantCap
  BY DEF Offered
<1>6. CommitHasRoom'
  BY <1>1, <1>2, <1>5 DEF PoolInvariant, CommitHasRoom, TenantFlights
<1>7. QED
  BY <1>3, <1>4, <1>6 DEF Paced

-----------------------------------------------------------------------------
(* Flights keep their slot until their row has moved.                      *)

\* A flight that goes on, or that ends with its row no longer running.
LEMMA AdvanceKeeps ==
    ASSUME TypeOK, NEW e \in Engines, NEW f \in flight[e], NEW p, NEW v,
           Advance(e, f, p, v), FlightsFinite,
           HoldsLease(e) /\ p = "finally" =>
                f.attempt \notin row'[f.attempt.item].claim
    PROVE  PromisesKept /\ FlightsFinite'
<1> DEFINE h == [attempt |-> f.attempt, phase |-> p, verdict |-> v]
<1>1. flight' = [flight EXCEPT ![e] = (flight[e] \ {f}) \cup {h}]
  BY DEF Advance
<1>2. /\ \A d \in Engines : d # e => flight'[d] = flight[d]
      /\ flight'[e] = (flight[e] \ {f}) \cup {h}
  BY <1>1 DEF TypeOK
<1>3. h.attempt = f.attempt /\ h.phase = p
  OBVIOUS
<1> HIDE DEF h
<1>4. PromisesKept
  <2>1. SUFFICES ASSUME NEW d \in Engines, HoldsLease(d), NEW g \in flight[d],
                        g.phase # "finally", g.attempt \in row'[g.attempt.item].claim
                 PROVE  \E k \in flight'[d] : k.attempt = g.attempt /\ k.phase # "finally"
    BY DEF PromisesKept
  <2>2. CASE d # e \/ g # f
    BY <1>2, <2>1, <2>2
  <2>3. CASE d = e /\ g = f
    BY <1>2, <1>3, <2>1, <2>3
  <2>4. QED
    BY <2>2, <2>3
<1>5. FlightsFinite'
  <2>1. IsFiniteSet(flight[e] \ {f})
    BY FS_RemoveElement DEF FlightsFinite
  <2>2. IsFiniteSet(flight'[e])
    BY <1>2, <2>1, FS_AddElement
  <2>3. QED
    BY <1>2, <2>2 DEF FlightsFinite
<1>6. QED
  BY <1>4, <1>5

LEMMA FlightKeeps ==
    ASSUME TypeOK, StoreInvariant, PoolInvariant, NEW e \in Engines, FlightStep(e)
    PROVE  PromisesKept /\ FlightsFinite'
<1> USE DEF PoolInvariant
<1>1. CASE Begin(e)
  BY <1>1, AdvanceKeeps DEF Begin
<1>2. CASE OpenReceipt(e)
  BY <1>2, AdvanceKeeps DEF OpenReceipt
<1>3. CASE Grant(e)
  BY <1>3, AdvanceKeeps DEF Grant
<1>4. CASE ProviderExits(e) \/ ProviderBreaks(e)
  BY <1>4, AdvanceKeeps DEF ProviderExits, ProviderBreaks
<1>5. CASE CheckLease(e)
  BY <1>5, AdvanceKeeps DEF CheckLease
<1>6. CASE Settle(e)
  <2>1. PICK f \in flight[e] : /\ SettleTxn(f.attempt, e, held[e], f.verdict)
                               /\ Advance(e, f, "finally", f.verdict)
    BY <1>6 DEF Settle
  <2>2. f.attempt.item \in Items
    BY DEF TypeOK, Flight, Attempt
  <2>3. row'[f.attempt.item].claim = {}
    BY <2>1, <2>2 DEF SettleTxn, Moved, TypeOK, StoreTypeOK
  <2>4. QED
    BY <2>1, <2>3, AdvanceKeeps
<1>7. CASE SettleRefused(e)
  <2>1. PICK f \in flight[e] : /\ ~ (ClaimLive(f.attempt) /\ HoldsLease(e))
                               /\ Advance(e, f, "finally", f.verdict)
    BY <1>7 DEF SettleRefused
  <2>2. f.attempt.item \in Items /\ UNCHANGED row
    BY <1>7 DEF SettleRefused, storeVars, TypeOK, Flight, Attempt
  <2>3. HoldsLease(e) => f.attempt \notin row'[f.attempt.item].claim
    BY <2>1, <2>2 DEF ClaimLive, StoreInvariant, ClaimsIssued
  <2>4. QED
    BY <2>1, <2>3, AdvanceKeeps
<1>8. CASE Finally(e)
  <2>1. PICK f \in flight[e] : /\ f.phase = "finally"
                               /\ flight' = [flight EXCEPT ![e] = flight[e] \ {f}]
    BY <1>8 DEF Finally, FlightTurn
  <2>2. PromisesKept
    BY <2>1 DEF PromisesKept, TypeOK
  <2>3. IsFiniteSet(flight[e] \ {f})
    BY FS_RemoveElement DEF FlightsFinite
  <2>4. FlightsFinite'
    BY <2>1, <2>3 DEF FlightsFinite, TypeOK
  <2>5. QED
    BY <2>2, <2>4
<1>9. QED
  BY <1>1, <1>2, <1>3, <1>4, <1>5, <1>6, <1>7, <1>8 DEF FlightStep

\* Flights move at the awaits of the loop only: never between Select and Commit.
LEMMA FlightAwaits ==
    ASSUME TypeOK, TurnsEnd, NEW e \in Engines, FlightStep(e)
    PROVE  pc[e] \in AwaitPCs
BY DEF TurnsEnd, FlightStep, Begin, OpenReceipt, Grant, ProviderExits, ProviderBreaks,
       CheckLease, Settle, SettleRefused, Finally, FlightTurn, FlightCont, SyncPhases

LEMMA FlightPaced ==
    ASSUME TypeOK, StoreInvariant, PoolInvariant, NEW e \in Engines, FlightStep(e)
    PROVE  Paced
<1>1. PromisesKept /\ FlightsFinite'
  BY FlightKeeps
<1>2. pc[e] \in AwaitPCs
  BY FlightAwaits DEF PoolInvariant
<1>3. UNCHANGED cand /\ \A d \in Engines : d # e => flight'[d] = flight[d]
  BY DEF FlightStep, Begin, OpenReceipt, Grant, ProviderExits, ProviderBreaks,
         CheckLease, Settle, SettleRefused, Finally, Advance, TypeOK
<1>4. pc'[e] \in AwaitPCs /\ \A d \in Engines : d # e => pc'[d] = pc[d]
  <2>1. CASE Finally(e)
    BY <1>2, <2>1 DEF Finally, AwaitPCs, TypeOK
  <2>2. CASE ~Finally(e)
    BY <1>2, <2>2 DEF FlightStep, Begin, OpenReceipt, Grant, ProviderExits, ProviderBreaks,
       CheckLease, Settle, SettleRefused
  <2>3. QED
    BY <2>1, <2>2
<1>5. TurnsEnd'
  BY <1>3, <1>4 DEF PoolInvariant, TurnsEnd
<1>6. CommitHasRoom'
  BY <1>3, <1>4 DEF PoolInvariant, CommitHasRoom, TenantFlights, AwaitPCs
<1>7. QED
  BY <1>1, <1>5, <1>6 DEF Paced

LEMMA PacedOrCommit ==
    ASSUME TypeOK, StoreInvariant, PoolInvariant, [Next]_vars
    PROVE  Paced \/ \E e \in Engines : Commit(e)
BY BootGrounded, LoopGrounded, EnvironmentGrounded, GroundedPaced, CrashPaced, SelectPaced,
   FlightPaced DEF Next, Exited, EngineStep

-----------------------------------------------------------------------------
(* Acquisition and recovery leave no row running under the lease.          *)

LEMMA EmptiedPool ==
    ASSUME PoolInvariant, Paced, CurrentRows' = {}
    PROVE  PoolInvariant'
<1>1. IsFiniteSet(CurrentRows)' /\ PoolRespected'
  BY FewerRespected DEF PoolInvariant
<1>2. PromisePerRow'
  BY DEF PromisePerRow
<1>3. QED
  BY <1>1, <1>2 DEF PoolInvariant, Paced

LEMMA AcquirePool ==
    ASSUME TypeOK, StoreInvariant, EpochInvariant, PoolInvariant, NEW e \in Engines, Acquire(e)
    PROVE  PoolInvariant'
<1>1. lease'.epoch = lease.epoch + 1 /\ UNCHANGED row
  BY DEF Acquire, AcquireLease
<1>2. \A i \in Items : \A a \in row[i].claim : a.epoch # lease'.epoch
  BY <1>1, PromiseOfRow DEF EpochInvariant, EpochsPast, TypeOK, StoreTypeOK, Lease, Attempt
<1>3. CurrentRows' = {}
  BY <1>1, <1>2 DEF CurrentRows, WithStatus
<1>4. Paced
  BY BootGrounded, GroundedPaced DEF BootStep
<1>5. QED
  BY <1>3, <1>4, EmptiedPool

LEMMA RecoverPool ==
    ASSUME TypeOK, PoolInvariant, NEW e \in Engines, Recover(e)
    PROVE  PoolInvariant'
<1>1. \A i \in Items : row'[i].status # "running"
  BY DEF Recover, RecoverTxn, Moved, Status
<1>2. CurrentRows' = {}
  BY <1>1 DEF CurrentRows, WithStatus, Status
<1>3. Paced
  BY BootGrounded, GroundedPaced DEF BootStep
<1>4. QED
  BY <1>2, <1>3, EmptiedPool

-----------------------------------------------------------------------------
(* The claim adds one row and one flight.                                  *)

LEMMA CommitPool ==
    ASSUME TypeOK, StoreInvariant, EpochInvariant, PoolInvariant, NEW e \in Engines, Commit(e)
    PROVE  PoolInvariant'
<1> USE DEF TypeOK, StoreTypeOK
<1>1. PICK i \in cand[e] :
          /\ ClaimTxn(i, e, held[e])
          /\ flight' = [flight EXCEPT ![e] = @ \cup
                {[attempt |-> ClaimFor(i), phase |-> "claimed", verdict |-> "none"]}]
  BY DEF Commit
<1> DEFINE n == [attempt |-> ClaimFor(i), phase |-> "claimed", verdict |-> "none"]
<1>0. /\ flight'[e] = flight[e] \cup {n}
      /\ \A d \in Engines : d # e => flight'[d] = flight[d]
      /\ n.attempt = ClaimFor(i) /\ n.phase = "claimed"
  BY <1>1
<1> HIDE DEF n
<1>2. /\ pc[e] = "commit" /\ pc' = [pc EXCEPT ![e] = "claim"]
      /\ cand' = [cand EXCEPT ![e] = {}]
      /\ UNCHANGED <<lease, held>>
  BY DEF Commit, At, Goto
<1>3. i \in Items /\ HoldsLease(e)
  BY <1>1 DEF ClaimTxn, HoldsLease
<1>4. /\ row'[i].status = "running" /\ row'[i].claim = {ClaimFor(i)}
      /\ \A j \in Items : j # i => row'[j] = row[j]
      /\ ClaimFor(i).epoch = lease.epoch /\ ClaimFor(i).item = i
  BY <1>1, <1>3 DEF ClaimTxn, ClaimFor
<1>5. CurrentRows' = CurrentRows \cup {i}
  BY <1>2, <1>3, <1>4 DEF CurrentRows, WithStatus, Status
<1>6. \A j \in CurrentRows : \E f \in flight[e] : f.attempt.item = j /\ f.attempt \in row[j].claim
                                                 /\ f.phase # "finally"
  BY <1>2, <1>3, PromiseOfRow DEF PoolInvariant, PromisePerRow, CurrentRows, WithStatus
<1>7. PoolSize \in Int /\ TenantCap \in Int
  BY PoolAssumption
<1>8. IsFiniteSet(CurrentRows') /\ Cardinality(CurrentRows') <= PoolSize
  <2>1. IsFiniteSet(CurrentRows) /\ Cardinality(CurrentRows) <= Cardinality(flight[e])
    BY <1>6, RowsBehindFlights DEF PoolInvariant, FlightsFinite
  <2>2. Cardinality(CurrentRows) \in Int /\ Cardinality(flight[e]) \in Int
    BY <2>1, FS_CardinalityType DEF PoolInvariant, FlightsFinite
  <2>3. Cardinality(flight[e]) < PoolSize
    BY <1>2 DEF PoolInvariant, CommitHasRoom
  <2>4. Cardinality(CurrentRows) < PoolSize
    BY <1>7, <2>1, <2>2, <2>3
  <2>5. QED
    BY <1>5, <1>7, <2>1, <2>4, OneMoreFits
<1>9. ASSUME TenantCap # 0, NEW m \in Missions
      PROVE  Cardinality(TenantRows(TenantOf[m])') <= TenantCap
  <2> DEFINE t == TenantOf[m]
             F == TenantFlights(e, t)
             R == TenantRows(t)
  <2>1. CASE TenantOf[MissionOf[i]] # t
    <3>1. TenantRows(t)' = R
      BY <1>5, <2>1 DEF TenantRows
    <3>2. QED
      BY <1>9, <3>1, PoolByTenant DEF PoolInvariant
  <2>2. CASE TenantOf[MissionOf[i]] = t
    <3>1. TenantRows(t)' = R \cup {i}
      BY <1>5, <2>2 DEF TenantRows
    <3>2. IsFiniteSet(F)
      BY FS_Subset DEF PoolInvariant, FlightsFinite, TenantFlights
    <3>3. \A j \in R : \E f \in F : f.attempt.item = j
      BY <1>6 DEF TenantRows, TenantFlights
    <3>4. IsFiniteSet(R) /\ Cardinality(R) <= Cardinality(F)
      BY <3>2, <3>3, RowsBehindFlights
    <3>5. Cardinality(R) \in Int /\ Cardinality(F) \in Int
      BY <3>2, <3>4, FS_CardinalityType
    <3>6. Cardinality(F) < TenantCap
      BY <1>2, <1>9, <2>2 DEF PoolInvariant, CommitHasRoom
    <3>7. Cardinality(R) < TenantCap
      BY <1>7, <3>4, <3>5, <3>6
    <3>8. Cardinality(R \cup {i}) <= TenantCap
      BY <1>7, <3>4, <3>7, OneMoreFits
    <3>9. QED
      BY <3>1, <3>8
  <2>3. QED
    BY <2>1, <2>2
<1>10. PoolRespected'
  BY <1>8, <1>9 DEF PoolRespected, CurrentRows, TenantRows
<1>11. PromisePerRow'
  <2>1. SUFFICES ASSUME NEW d \in Engines, HoldsLease(d), NEW j \in CurrentRows'
                 PROVE  \E f \in flight'[d] : f.attempt \in row'[j].claim /\ f.phase # "finally"
    BY <1>2 DEF PromisePerRow, HoldsLease, LeaseActive
  <2>2. d = e
    BY <1>3, <2>1 DEF HoldsLease, LeaseActive
  <2>3. CASE j = i
    BY <1>0, <1>4, <2>2, <2>3
  <2>4. CASE j # i
    <3>1. j \in CurrentRows /\ row'[j] = row[j]
      BY <1>4, <1>5, <2>1, <2>4 DEF CurrentRows, WithStatus
    <3>2. PICK f \in flight[e] : f.attempt \in row[j].claim /\ f.phase # "finally"
      BY <1>6, <3>1
    <3>3. QED
      BY <1>0, <2>2, <3>1, <3>2
  <2>5. QED
    BY <2>3, <2>4
<1>12. FlightsFinite'
  <2>1. IsFiniteSet(flight[e])
    BY DEF PoolInvariant, FlightsFinite
  <2>2. IsFiniteSet(flight[e] \cup {n})
    BY <2>1, FS_AddElement
  <2>3. QED
    BY <1>0, <2>2 DEF PoolInvariant, FlightsFinite
<1>13. TurnsEnd'
  <2>1. \A f \in flight'[e] : f \in flight[e] \/ f.phase = "claimed"
    BY <1>0
  <2>2. \A f \in flight'[e] : f.phase \notin SyncPhases
    BY <1>2, <2>1 DEF PoolInvariant, TurnsEnd, AwaitPCs, SyncPhases
  <2>3. QED
    BY <1>0, <1>2, <2>2 DEF PoolInvariant, TurnsEnd
<1>14. CommitHasRoom'
  BY <1>0, <1>2 DEF PoolInvariant, CommitHasRoom, TenantFlights
<1>15. QED
  BY <1>8, <1>10, <1>11, <1>12, <1>13, <1>14 DEF PoolInvariant

LEMMA InitPool == Init => PoolInvariant
<1>1. SUFFICES ASSUME Init PROVE PoolInvariant
  OBVIOUS
<1>2. CurrentRows = {}
  BY <1>1 DEF Init, StoreInit, CurrentRows, WithStatus, Status
<1>3. \A m \in Missions : TenantRows(TenantOf[m]) = {}
  BY <1>2 DEF TenantRows
<1>4. PoolRespected
  BY <1>2, <1>3, FS_EmptySet, PoolAssumption, PoolByTenant
<1>5. FlightsFinite /\ IsFiniteSet(CurrentRows)
  BY <1>1, <1>2, FS_EmptySet DEF Init, FlightsFinite
<1>6. PromisePerRow /\ TurnsEnd /\ CommitHasRoom
  BY <1>1, <1>2 DEF Init, PromisePerRow, TurnsEnd, CommitHasRoom
<1>7. QED
  BY <1>4, <1>5, <1>6 DEF PoolInvariant

LEMMA NextPool ==
    ASSUME TypeOK, StoreInvariant, EpochInvariant, PoolInvariant, [Next]_vars
    PROVE  PoolInvariant'
BY PacedOrCommit, RoutineOrNot, RoutinePool, AcquirePool, RecoverPool, CommitPool

THEOREM PoolSafe == Spec => []PoolInvariant
<1>1. TypeOK /\ StoreInvariant /\ EpochInvariant /\ PoolInvariant /\ [Next]_vars
        => PoolInvariant'
  BY NextPool
<1>2. QED
  BY <1>1, InitPool, TypeCorrect, StoreSafe, EpochSafe, PTL DEF Spec

\* The rows running under the current lease never exceed the pool or the cap of
\* their tenant, although the scheduler counts its own promises and the slot of
\* a flight is freed in another turn than the one that moves its row.
THEOREM PoolHolds == Spec => []PoolRespected
<1>1. PoolInvariant => PoolRespected
  BY DEF PoolInvariant
<1>2. QED
  BY <1>1, PoolSafe, PTL
=============================================================================
