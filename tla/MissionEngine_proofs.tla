------------------------- MODULE MissionEngine_proofs -------------------------
(***************************************************************************)
(* Proofs about MissionEngine for every number of engines, items, missions *)
(* and clock ticks.                                                        *)
(***************************************************************************)
EXTENDS MissionEngine, TLAPS

-----------------------------------------------------------------------------
(* Typing.                                                                 *)

LEMMA MovedType ==
    ASSUME StoreTypeOK, NEW i \in Items, NEW s \in ItemStatuses
    PROVE  Moved(i, s) \in Row
BY DEF Moved, StoreTypeOK, Row

LEMMA ClaimForType ==
    ASSUME StoreTypeOK, NEW i \in Items
    PROVE  ClaimFor(i) \in Attempt
BY DEF ClaimFor, StoreTypeOK, Row, Lease, Attempt

\* What one parking does: its row, with a request of its own or with none.
Parks(i) ==
    /\ i \in Items /\ i \in Guarded /\ Status(i) = "pending" /\ MissionOpen(i) /\ DepsDone(i)
    /\ row' = [row EXCEPT ![i] = Moved(i, "parked")]
    /\ \/ UNCHANGED approval
       \/ approval[i] = "none" /\ approval' = [approval EXCEPT ![i] = "outbox"]

LEMMA ParkOne ==
    ASSUME TypeOK, NEW e \in Engines, Park(e)
    PROVE  UNCHANGED <<row, approval>> \/ \E i \in Items : Parks(i)
BY DEF TypeOK, Park, ParkTxn, ParkInvalidTxn, ApprovalCandidates, Parkable, Parks

\* The timer, a crash and the lease operations keep every variable's type.
LEMMA EnvironmentType ==
    ASSUME TypeOK, NEW e \in Engines,
           Renew(e) \/ Crash(e) \/ Acquire(e) \/ Close(e)
    PROVE  TypeOK'
<1> USE TtlAssumption DEF TypeOK, StoreTypeOK, storeVars, engineVars, ledgerVars, historyVars
<1>1. CASE Renew(e)
  BY <1>1 DEF Renew, RenewedLease, HoldsLease, LeaseActive, Lease
<1>2. CASE Crash(e)
  BY <1>2 DEF Crash, Goto, PCs
<1>3. CASE Acquire(e)
  BY <1>3 DEF Acquire, AcquireLease, Goto, PCs, Lease
<1>4. CASE Close(e)
  BY <1>4 DEF Close, ReleasedLease, Goto, PCs, Lease
<1>5. QED
  BY <1>1, <1>2, <1>3, <1>4

LEMMA BootType ==
    ASSUME TypeOK, NEW e \in Engines, BootStep(e)
    PROVE  TypeOK'
<1> USE DEF TypeOK, StoreTypeOK, storeVars, engineVars, ledgerVars, historyVars
<1>1. CASE Acquire(e)
  BY <1>1, EnvironmentType
<1>2. CASE Recover(e)
  <2>1. \A i \in Items : Moved(i, "parked") \in Row
    BY MovedType DEF ItemStatuses
  <2>2. row' \in [Items -> Row]
    BY <1>2, <2>1 DEF Recover, RecoverTxn
  <2>3. recovered' \in SUBSET Attempt
    BY <1>2 DEF Recover, RecoverTxn, LiveClaims, WithStatus, Row
  <2>4. todo' \in [Engines -> SUBSET Attempt]
    BY <1>2, <2>3 DEF Recover
  <2>5. QED
    BY <1>2, <2>2, <2>3, <2>4 DEF Recover, Goto, PCs
<1>3. CASE CloseReceipt(e)
  BY <1>3 DEF CloseReceipt
<1>4. CASE AckRecovery(e)
  BY <1>4 DEF AckRecovery
<1>5. CASE LeavePending(e)
  BY <1>5 DEF LeavePending
<1>6. CASE ReceiptsDone(e)
  BY <1>6 DEF ReceiptsDone, Goto, PCs
<1>7. CASE BootFails(e)
  BY <1>7 DEF BootFails, Throw, Goto, PCs
<1>8. QED
  BY <1>1, <1>2, <1>3, <1>4, <1>5, <1>6, <1>7 DEF BootStep

LEMMA LoopType ==
    ASSUME TypeOK, NEW e \in Engines, LoopStep(e) \/ Abort(e)
    PROVE  TypeOK'
<1> USE MissionsAssumption, GuardedAssumption
    DEF TypeOK, StoreTypeOK, storeVars, engineVars, ledgerVars, historyVars, PCs, Goto
<1>1. CASE Top(e)
  BY <1>1 DEF Top, Throw
<1>2. CASE Abort(e)
  BY <1>2 DEF Abort
<1>3. CASE Reconcile(e)
  <2>1. \A i \in Items : Moved(i, "blocked") \in Row
    BY MovedType DEF ItemStatuses
  <2>2. row' \in [Items -> Row]
    BY <1>3, <2>1 DEF Reconcile, ReconcileTxn
  <2>3. {MissionOf[i] : i \in Doomed} \in SUBSET Missions
    BY DEF Doomed, WithStatus
  <2>4. changed' \in [Engines -> SUBSET Missions]
    BY <1>3, <2>3 DEF Reconcile
  <2>5. QED
    BY <1>3, <2>2, <2>4 DEF Reconcile
<1>4. CASE Decide(e)
  <2>1. PICK i \in Guarded, verdict \in Verdicts :
            /\ DecideTxn(i, verdict)
            /\ changed' = [changed EXCEPT ![e] = @ \cup {MissionOf[i]}]
    BY <1>4 DEF Decide
  <2>2. StatusAfter(verdict) \in ItemStatuses
    BY DEF StatusAfter, ItemStatuses
  <2>3. Moved(i, StatusAfter(verdict)) \in Row
    BY <2>2, MovedType
  <2>4. row' \in [Items -> Row]
    BY <2>1, <2>3 DEF DecideTxn
  <2>5. approval' \in [Items -> ApprovalStates]
    BY <2>1 DEF DecideTxn, ApprovalStates
  <2>6. changed' \in [Engines -> SUBSET Missions]
    BY <2>1
  <2>7. QED
    BY <1>4, <2>4, <2>5, <2>6 DEF Decide
<1>5. CASE DecideDone(e)
  BY <1>5 DEF DecideDone, ApprovalCandidates
<1>6. CASE Park(e)
  <2>1. \A i \in Items : Moved(i, "parked") \in Row
    BY MovedType DEF ItemStatuses
  <2>2. row' \in [Items -> Row]
    BY <1>6, <2>1, ParkOne DEF Parks
  <2>3. approval' \in [Items -> ApprovalStates]
    BY <1>6, ParkOne DEF Parks, ApprovalStates
  <2>4. cand' \in [Engines -> SUBSET Items]
    BY <1>6 DEF Park
  <2>5. QED
    BY <1>6, <2>2, <2>3, <2>4 DEF Park
<1>7. CASE ParkDone(e)
  BY <1>7 DEF ParkDone
<1>8. CASE Publish(e)
  BY <1>8 DEF Publish, ApprovalStates
<1>9. CASE PublishFails(e)
  BY <1>9 DEF PublishFails, Throw
<1>10. CASE PublishDone(e)
  BY <1>10 DEF PublishDone, Throw
<1>11. CASE Notify(e)
  BY <1>11 DEF Notify, HoldsLease, LeaseActive
<1>12. CASE Project(e)
  BY <1>12 DEF Project, CheckMission, Verdict, MissionStatuses
<1>13. CASE ProjectDone(e)
  BY <1>13 DEF ProjectDone, Throw
<1>14. CASE ClaimNothing(e)
  BY <1>14 DEF ClaimNothing
<1>15. CASE Select(e)
  <2>1. PICK i \in Items : cand' = [cand EXCEPT ![e] = {i}]
    BY <1>15 DEF Select, OldestOf, Offered, Due
  <2>2. QED
    BY <1>15, <2>1 DEF Select
<1>16. CASE Commit(e)
  <2>1. PICK i \in cand[e] :
            /\ ClaimTxn(i, e, held[e])
            /\ issued' = issued \cup {ClaimFor(i)}
            /\ flight' = [flight EXCEPT ![e] = @ \cup
                {[attempt |-> ClaimFor(i), phase |-> "claimed", verdict |-> "none"]}]
    BY <1>16 DEF Commit
  <2>2. i \in Items /\ ClaimFor(i) \in Attempt
    BY ClaimForType
  <2>3. row' \in [Items -> Row]
    BY <2>1, <2>2 DEF ClaimTxn, Row, ItemStatuses
  <2>4. flight' \in [Engines -> SUBSET Flight]
    BY <2>1, <2>2 DEF Flight, Phases, FlightVerdicts
  <2>5. QED
    BY <1>16, <2>1, <2>2, <2>3, <2>4 DEF Commit
<1>17. CASE ClaimLosesLease(e)
  BY <1>17 DEF ClaimLosesLease, Throw
<1>18. CASE Sleep(e)
  BY <1>18 DEF Sleep
<1>19. CASE Resume(e)
  BY <1>19 DEF Resume, Throw
<1>20. CASE Drained(e)
  BY <1>20 DEF Drained
<1>21. CASE Close(e)
  BY <1>21, EnvironmentType
<1>22. QED
  BY <1>1, <1>2, <1>3, <1>4, <1>5, <1>6, <1>7, <1>8, <1>9, <1>10, <1>11, <1>12,
     <1>13, <1>14, <1>15, <1>16, <1>17, <1>18, <1>19, <1>20, <1>21
     DEF LoopStep, ApprovalStep

LEMMA FlightType ==
    ASSUME TypeOK, NEW e \in Engines, FlightStep(e)
    PROVE  TypeOK'
<1> USE DEF TypeOK, StoreTypeOK, storeVars, engineVars, ledgerVars, historyVars
<1>1. ASSUME NEW f \in flight[e], NEW p \in Phases, NEW v \in FlightVerdicts,
             Advance(e, f, p, v), p \in {"returned", "settling"} => v # "none"
      PROVE  flight' \in [Engines -> SUBSET Flight]
  BY <1>1 DEF Advance, Flight
<1>2. \A f \in flight[e] : f.attempt \in Attempt /\ f.verdict \in FlightVerdicts
  BY DEF Flight
<1>3. CASE Begin(e)
  <2>1. PICK f \in flight[e] : \/ Advance(e, f, "finally", "none")
                               \/ Advance(e, f, "admitted", "none")
                               \/ Advance(e, f, "returned", "parked")
    BY <1>3 DEF Begin
  <2>2. flight' \in [Engines -> SUBSET Flight]
    BY <1>1, <2>1 DEF Phases, FlightVerdicts
  <2>3. fatal' \in [Engines -> BOOLEAN]
    BY <1>3, Zenon DEF Begin
  <2>4. QED
    BY <1>3, <2>2, <2>3 DEF Begin
<1>4. CASE OpenReceipt(e)
  <2>1. PICK f \in flight[e] : /\ opened' = opened \cup {<<f.attempt, lease.epoch>>}
                               /\ Advance(e, f, "granting", "none")
    BY <1>4 DEF OpenReceipt
  <2>2. flight' \in [Engines -> SUBSET Flight]
    BY <1>1, <2>1 DEF Phases, FlightVerdicts
  <2>3. opened' \in SUBSET (Attempt \X Nat)
    BY <1>2, <2>1 DEF Lease
  <2>4. QED
    BY <1>4, <2>2, <2>3 DEF OpenReceipt
<1>5. CASE Grant(e)
  <2>1. PICK f \in flight[e] :
            \/ Advance(e, f, "executing", "none") /\ called' = called \cup {f.attempt}
            \/ Advance(e, f, "returned", "parked") /\ UNCHANGED called
    BY <1>5 DEF Grant
  <2>2. flight' \in [Engines -> SUBSET Flight]
    BY <1>1, <2>1 DEF Phases, FlightVerdicts
  <2>3. QED
    BY <1>2, <1>5, <2>1, <2>2 DEF Grant
<1>6. CASE ProviderExits(e)
  <2>1. PICK f \in flight[e], v \in {"done", "failed", "parked"} :
            exited' = exited \cup {f.attempt} /\ Advance(e, f, "returned", v)
    BY <1>6 DEF ProviderExits
  <2>2. flight' \in [Engines -> SUBSET Flight]
    BY <1>1, <2>1 DEF Phases, FlightVerdicts
  <2>3. QED
    BY <1>2, <1>6, <2>1, <2>2 DEF ProviderExits
<1>7. CASE ProviderBreaks(e)
  BY <1>1, <1>7 DEF ProviderBreaks, Phases, FlightVerdicts
<1>8. CASE CheckLease(e)
  <2>1. PICK f \in flight[e] :
            /\ f.phase = "returned"
            /\ Advance(e, f, IF HoldsLease(e) THEN "settling" ELSE "finally", f.verdict)
    BY <1>8 DEF CheckLease, FlightTurn
  <2>2. f.verdict # "none"
    BY <2>1 DEF Flight
  <2>3. flight' \in [Engines -> SUBSET Flight]
    BY <1>1, <1>2, <2>1, <2>2 DEF Phases
  <2>4. fatal' \in [Engines -> BOOLEAN]
    BY <1>8, Zenon DEF CheckLease
  <2>5. QED
    BY <1>8, <2>3, <2>4 DEF CheckLease
<1>9. CASE Settle(e)
  <2>1. PICK f \in flight[e] : /\ f.phase = "settling"
                               /\ SettleTxn(f.attempt, e, held[e], f.verdict)
                               /\ settled' = settled \cup {f.attempt}
                               /\ Advance(e, f, "finally", f.verdict)
    BY <1>9 DEF Settle, FlightCont
  <2>2. flight' \in [Engines -> SUBSET Flight]
    BY <1>1, <1>2, <2>1 DEF Phases
  <2>3. f.attempt.item \in Items /\ f.verdict \in ItemStatuses
    BY <2>1 DEF Flight, FlightVerdicts, ItemStatuses, Attempt
  <2>4. row' \in [Items -> Row]
    BY <2>1, <2>3, MovedType DEF SettleTxn
  <2>5. QED
    BY <1>2, <1>9, <2>1, <2>2, <2>4 DEF Settle
<1>10. CASE SettleRefused(e)
  BY <1>1, <1>2, <1>10 DEF SettleRefused, Phases
<1>11. CASE Finally(e)
  <2>1. PICK f \in flight[e] :
            /\ flight' = [flight EXCEPT ![e] = @ \ {f}]
            /\ IF ~fatal[e] /\ HoldsLease(e)
               THEN CheckMission(e, MissionOf[f.attempt.item])
               ELSE UNCHANGED <<mission, notify>>
    BY <1>11 DEF Finally
  <2>2. MissionOf[f.attempt.item] \in Missions
    BY <1>2, MissionsAssumption DEF Attempt
  <2>3. /\ mission' \in [Missions -> MissionStatuses]
        /\ notify' \in [Engines -> SUBSET Missions]
    BY <2>1, <2>2 DEF CheckMission, Verdict, MissionStatuses
  <2>4. flight' \in [Engines -> SUBSET Flight]
    BY <2>1
  <2>5. fatal' \in [Engines -> BOOLEAN] /\ pc' \in [Engines -> PCs]
    BY <1>11 DEF Finally, PCs
  <2>6. QED
    BY <1>11, <2>3, <2>4, <2>5 DEF Finally
<1>12. QED
  BY <1>3, <1>4, <1>5, <1>6, <1>7, <1>8, <1>9, <1>10, <1>11 DEF FlightStep

LEMMA NextType ==
    ASSUME TypeOK, [Next]_vars
    PROVE  TypeOK'
<1>1. CASE Tick
  BY <1>1, TtlAssumption
     DEF Tick, TypeOK, StoreTypeOK, Lease, engineVars, ledgerVars, historyVars
<1>2. ASSUME NEW e \in Engines, EngineStep(e)
      PROVE  TypeOK'
  BY <1>2, EnvironmentType, BootType, LoopType, FlightType DEF EngineStep
<1>3. CASE UNCHANGED vars
  BY <1>3 DEF TypeOK, StoreTypeOK, vars, storeVars, engineVars, ledgerVars, historyVars
<1>4. QED
  BY <1>1, <1>2, <1>3 DEF Next, Exited

\* Every variable keeps its type: in particular no action writes a status, an
\* approval state or a claim the schema of the store does not know, and every
\* dispatch that returns has a verdict to settle.
THEOREM TypeCorrect == Spec => []TypeOK
<1>1. Init => TypeOK
  BY TtlAssumption DEF Init, StoreInit, TypeOK, StoreTypeOK, Lease, Row, ItemStatuses,
     ApprovalStates, MissionStatuses, PCs
<1>2. TypeOK /\ [Next]_vars => TypeOK'
  BY NextType
<1>3. QED
  BY <1>1, <1>2, PTL DEF Spec
=============================================================================
