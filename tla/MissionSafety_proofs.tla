------------------------- MODULE MissionSafety_proofs -------------------------
(***************************************************************************)
(* The safety of the mission engine, for every number of engines, items    *)
(* and missions, every dependency graph and every lease length.            *)
(***************************************************************************)
EXTENDS MissionInvariant, MissionEngine_proofs

-----------------------------------------------------------------------------
(* Which steps touch the store's record of the attempts.                   *)

Quiet ==
    /\ UNCHANGED <<row, approval, recovered, issued, settled>>
    /\ lease'.epoch >= lease.epoch

StoreStep(e) ==
    \/ Recover(e) \/ Reconcile(e) \/ Decide(e) \/ Park(e)
    \/ Publish(e) \/ Commit(e) \/ Settle(e)

\* Every other step leaves rows, requests and attempts as they are.
LEMMA QuietOrStore ==
    ASSUME TypeOK, [Next]_vars
    PROVE  Quiet \/ \E e \in Engines : StoreStep(e)
<1> USE DEF Quiet, vars, storeVars, engineVars, ledgerVars, historyVars
<1>0. lease.epoch \in Nat
  BY DEF TypeOK, StoreTypeOK, Lease
<1>1. CASE Tick
  BY <1>0, <1>1 DEF Tick, TypeOK, StoreTypeOK, Lease
<1>2. ASSUME NEW e \in Engines, BootStep(e), ~StoreStep(e)
      PROVE  Quiet
  <2>1. CASE Acquire(e)
    BY <1>0, <2>1 DEF Acquire, AcquireLease
  <2>2. CASE CloseReceipt(e)
    BY <1>0, <2>2 DEF CloseReceipt
  <2>3. CASE AckRecovery(e)
    BY <1>0, <2>3 DEF AckRecovery
  <2>4. CASE LeavePending(e) \/ ReceiptsDone(e) \/ BootFails(e)
    BY <1>0, <2>4 DEF LeavePending, ReceiptsDone, BootFails
  <2>5. QED
    BY <1>2, <2>1, <2>2, <2>3, <2>4 DEF BootStep, StoreStep
<1>3. ASSUME NEW e \in Engines, LoopStep(e), ~StoreStep(e)
      PROVE  Quiet
  <2>1. CASE Close(e)
    BY <1>0, <2>1 DEF Close, ReleasedLease, TypeOK, StoreTypeOK, Lease
  <2>2. CASE DecideDone(e) \/ ParkDone(e) \/ PublishFails(e) \/ PublishDone(e)
    BY <1>0, <2>2 DEF DecideDone, ParkDone, PublishFails, PublishDone
  <2>3. CASE Top(e) \/ Notify(e) \/ Project(e) \/ ProjectDone(e)
    BY <1>0, <2>3 DEF Top, Notify, Project, ProjectDone
  <2>4. CASE \/ ClaimNothing(e) \/ Select(e) \/ ClaimLosesLease(e)
             \/ Sleep(e) \/ Resume(e) \/ Drained(e)
    BY <1>0, <2>4 DEF ClaimNothing, Select, ClaimLosesLease, Sleep, Resume, Drained
  <2>5. QED
    BY <1>3, <2>1, <2>2, <2>3, <2>4 DEF LoopStep, ApprovalStep, StoreStep
<1>4. ASSUME NEW e \in Engines, FlightStep(e), ~StoreStep(e)
      PROVE  Quiet
  <2>1. CASE Begin(e) \/ OpenReceipt(e) \/ Grant(e) \/ ProviderExits(e)
    BY <1>0, <2>1 DEF Begin, OpenReceipt, Grant, ProviderExits
  <2>2. CASE ProviderBreaks(e) \/ CheckLease(e) \/ SettleRefused(e) \/ Finally(e)
    BY <1>0, <2>2 DEF ProviderBreaks, CheckLease, SettleRefused, Finally
  <2>3. QED
    BY <1>4, <2>1, <2>2 DEF FlightStep, StoreStep
<1>5. ASSUME NEW e \in Engines, Abort(e) \/ Renew(e) \/ Crash(e)
      PROVE  Quiet
  BY <1>0, <1>5 DEF Abort, Renew, RenewedLease, Crash, TypeOK, StoreTypeOK, Lease
<1>6. CASE UNCHANGED vars
  BY <1>0, <1>6
<1>7. QED
  BY <1>1, <1>2, <1>3, <1>4, <1>5, <1>6 DEF Next, Exited, EngineStep

-----------------------------------------------------------------------------
(* How a row may change.                                                   *)

\* A step gives each row a new status only out of "pending", "parked" or
\* "running"; a terminal row is never written.
LEMMA RowStep ==
    ASSUME TypeOK, [Next]_vars, NEW i \in Items, Status(i) \in TerminalStatuses
    PROVE  row'[i] = row[i]
<1> USE DEF TypeOK, StoreTypeOK, Status, TerminalStatuses
<1>1. CASE Quiet
  BY <1>1 DEF Quiet
<1>2. ASSUME NEW e \in Engines, StoreStep(e)
      PROVE  row'[i] = row[i]
  <2>1. CASE Recover(e)
    BY <2>1 DEF Recover, RecoverTxn
  <2>2. CASE Reconcile(e)
    BY <2>2 DEF Reconcile, ReconcileTxn, Doomed, WithStatus
  <2>3. CASE Decide(e)
    BY <2>3, GuardedAssumption DEF Decide, DecideTxn
  <2>4. CASE Park(e)
    BY <2>4, ParkOne DEF Parks
  <2>5. CASE Publish(e)
    BY <2>5 DEF Publish
  <2>6. CASE Commit(e)
    BY <2>6 DEF Commit, ClaimTxn, Claimable
  <2>7. CASE Settle(e)
    BY <2>7 DEF Settle, SettleTxn, ClaimLive
  <2>8. QED
    BY <1>2, <2>1, <2>2, <2>3, <2>4, <2>5, <2>6, <2>7 DEF StoreStep
<1>3. QED
  BY <1>1, <1>2, QuietOrStore

-----------------------------------------------------------------------------
(* The store invariant, one lemma for each step that touches it.           *)

LEMMA QuietStore ==
    ASSUME StoreInvariant, Quiet
    PROVE  StoreInvariant'
BY DEF StoreInvariant, Quiet, ClaimsIssued, RequestsGuarded, AttemptedNotPending,
       OneAttemptPerItem, DispatchWasEntitled, AttemptAccounted, LiveClaims, WithStatus, Status

\* A step that moves items which were never attempted, and no request that an
\* attempt rests on, keeps the invariant.
LEMMA UnattemptedStore ==
    ASSUME TypeOK, StoreInvariant, TypeOK',
           UNCHANGED <<issued, settled, recovered>>,
           \A i \in Items : row'[i] # row[i] =>
                /\ Status(i) \in {"pending", "parked"}
                /\ row'[i].status \in {"pending", "parked", "blocked"}
                /\ row'[i].claim = {}
                /\ \A a \in issued : a.item # i,
           \A i \in Items : approval'[i] # approval[i] =>
                i \in Guarded /\ \A a \in issued : a.item # i
    PROVE  StoreInvariant'
<1> USE DEF TypeOK, StoreTypeOK, Attempt
<1>1. \A a \in issued : row'[a.item] = row[a.item] /\ approval'[a.item] = approval[a.item]
  OBVIOUS
<1>2. \A i \in Items : (row'[i].status = "running" \/ Status(i) = "running") => row'[i] = row[i]
  BY DEF Status
<1>3. ClaimsIssued'
  <2>1. SUFFICES ASSUME NEW i \in Items
                 PROVE  /\ row'[i].status # "running" => row'[i].claim = {}
                        /\ row'[i].status = "running" =>
                            \E a \in issued : a.item = i /\ row'[i].claim = {a}
    BY DEF ClaimsIssued, Status
  <2>2. /\ row[i].status # "running" => row[i].claim = {}
        /\ row[i].status = "running" =>
             \E a \in issued : a.item = i /\ row[i].claim = {a}
    <3> HIDE DEF TypeOK, StoreTypeOK, Attempt
    <3> QED BY DEF StoreInvariant, ClaimsIssued, Status
  <2>3. CASE row'[i] = row[i]
    <3> HIDE DEF TypeOK, StoreTypeOK, Attempt
    <3>1. issued' = issued
      OBVIOUS
    <3> QED BY <2>2, <2>3, <3>1
  <2>4. CASE row'[i] # row[i]
    BY <2>4
  <2>5. QED
    BY <2>3, <2>4
<1>4. RequestsGuarded'
  BY DEF StoreInvariant, RequestsGuarded
<1>5. AttemptedNotPending' /\ OneAttemptPerItem'
  BY <1>1 DEF StoreInvariant, AttemptedNotPending, OneAttemptPerItem, Status
<1>6. DispatchWasEntitled'
  <2>1. \A i \in Items : Status(i) = "done" => row'[i] = row[i]
    BY DEF Status
  <2>2. QED
    BY <1>1, <2>1, DepsAssumption DEF StoreInvariant, DispatchWasEntitled, Status
<1>7. AttemptAccounted'
  <2>1. \A a : a \in LiveClaims' <=> a \in LiveClaims
    BY <1>2 DEF LiveClaims, WithStatus, Status
  <2>2. LiveClaims' = LiveClaims
    BY <2>1
  <2>3. QED
    BY <2>2 DEF StoreInvariant, AttemptAccounted
<1>8. QED
  BY <1>3, <1>4, <1>5, <1>6, <1>7 DEF StoreInvariant

LEMMA RecoverStore ==
    ASSUME TypeOK, StoreInvariant, NEW e \in Engines, Recover(e)
    PROVE  StoreInvariant'
<1> USE DEF TypeOK, StoreTypeOK
<1>1. /\ row' = [i \in Items |-> IF Status(i) = "running" THEN Moved(i, "parked") ELSE row[i]]
      /\ recovered' = recovered \cup LiveClaims
      /\ UNCHANGED <<approval, issued, settled>>
  BY DEF Recover, RecoverTxn, historyVars
<1>2. \A i \in Items : Status(i) # "running" => row'[i] = row[i]
  BY <1>1
<1>3. \A i \in Items : Status(i) = "running" =>
                        row'[i].status = "parked" /\ row'[i].claim = {}
  BY <1>1 DEF Moved
<1>4. ClaimsIssued'
  <2>1. SUFFICES ASSUME NEW i \in Items
                 PROVE  /\ row'[i].status # "running" => row'[i].claim = {}
                        /\ row'[i].status # "running"
    BY DEF ClaimsIssued, Status
  <2>2. CASE Status(i) = "running"
    BY <1>3, <2>2
  <2>3. CASE Status(i) # "running"
    BY <1>2, <2>3 DEF StoreInvariant, ClaimsIssued, Status
  <2>4. QED
    BY <2>2, <2>3
<1>5. RequestsGuarded' /\ OneAttemptPerItem'
  BY <1>1 DEF StoreInvariant, RequestsGuarded, OneAttemptPerItem
<1>6. AttemptedNotPending'
  BY <1>1, <1>2, <1>3 DEF StoreInvariant, AttemptedNotPending, Status, Attempt
<1>7. DispatchWasEntitled'
  BY <1>1, <1>2, DepsAssumption DEF StoreInvariant, DispatchWasEntitled, Status, Attempt
<1>8. AttemptAccounted'
  <2>1. \A i \in Items : row'[i].status # "running"
    BY <1>2, <1>3 DEF Status
  <2>2. LiveClaims' = {}
    BY <2>1 DEF LiveClaims, WithStatus, Status
  <2>3. QED
    BY <1>1, <2>2 DEF StoreInvariant, AttemptAccounted
<1>9. QED
  BY <1>4, <1>5, <1>6, <1>7, <1>8 DEF StoreInvariant

\* Reconciliation and the approval tick move items that were never attempted.
LEMMA AdmissionStore ==
    ASSUME TypeOK, TypeOK', StoreInvariant, NEW e \in Engines,
           Reconcile(e) \/ Decide(e) \/ Park(e) \/ Publish(e)
    PROVE  StoreInvariant'
<1> USE DEF TypeOK, StoreTypeOK
<1>1. \A i \in Items : Status(i) = "pending" \/ approval[i] \in {"outbox", "asked"} =>
                        \A a \in issued : a.item # i
  BY DEF StoreInvariant, AttemptedNotPending, Attempt
<1>2. UNCHANGED <<issued, settled, recovered>>
  BY DEF Reconcile, Decide, Park, Publish, historyVars
<1>3. CASE Reconcile(e)
  <2>1. /\ row' = [i \in Items |-> IF i \in Doomed THEN Moved(i, "blocked") ELSE row[i]]
        /\ UNCHANGED approval
    BY <1>3 DEF Reconcile, ReconcileTxn
  <2>2. \A i \in Items : row'[i] # row[i] =>
            Status(i) = "pending" /\ row'[i].status = "blocked" /\ row'[i].claim = {}
    BY <2>1 DEF Doomed, WithStatus, Moved
  <2>3. QED
    BY <1>1, <1>2, <2>1, <2>2, UnattemptedStore
<1>4. CASE Decide(e)
  <2>1. PICK i \in Guarded, verdict \in Verdicts : DecideTxn(i, verdict)
    BY <1>4 DEF Decide
  <2>2. i \in Items /\ \A a \in issued : a.item # i
    BY <1>1, <2>1, GuardedAssumption DEF DecideTxn
  <2>3. \A j \in Items : /\ row'[j] # row[j] => j = i
                         /\ approval'[j] # approval[j] => j = i
    BY <2>1, <2>2 DEF DecideTxn
  <2>4. row'[i] # row[i] => /\ Status(i) \in {"pending", "parked"}
                            /\ row'[i] = Moved(i, StatusAfter(verdict))
    BY <2>1, <2>2 DEF DecideTxn
  <2>5. StatusAfter(verdict) \in {"pending", "parked", "blocked"}
    BY DEF StatusAfter
  <2>6. QED
    BY <1>2, <2>2, <2>3, <2>4, <2>5, UnattemptedStore DEF Moved
<1>5. CASE Park(e)
  <2>1. CASE UNCHANGED <<row, approval>>
    BY <1>2, <2>1, UnattemptedStore
  <2>2. ASSUME NEW i \in Items, Parks(i) PROVE StoreInvariant'
    <3>1. i \in Guarded /\ Status(i) = "pending" /\ \A a \in issued : a.item # i
      BY <1>1, <2>2 DEF Parks
    <3>2. \A j \in Items : /\ row'[j] # row[j] => j = i
                           /\ approval'[j] # approval[j] => j = i
      BY <2>2 DEF Parks
    <3>3. row'[i] = Moved(i, "parked")
      BY <2>2 DEF Parks
    <3> QED BY <1>2, <3>1, <3>2, <3>3, UnattemptedStore DEF Moved
  <2> QED BY <1>5, <2>1, <2>2, ParkOne
<1>6. CASE Publish(e)
  <2>1. PICK i \in Guarded : /\ approval[i] = "outbox"
                             /\ approval' = [approval EXCEPT ![i] = "asked"]
                             /\ UNCHANGED row
    BY <1>6 DEF Publish
  <2>2. i \in Items /\ \A a \in issued : a.item # i
    BY <1>1, <2>1, GuardedAssumption
  <2>3. \A j \in Items : approval'[j] # approval[j] => j = i
    BY <2>1
  <2>4. QED
    BY <1>2, <2>1, <2>2, <2>3, UnattemptedStore
<1>7. QED
  BY <1>3, <1>4, <1>5, <1>6

\* A claim is made for a pending item, so for one that was never attempted.
LEMMA CommitStore ==
    ASSUME TypeOK, StoreInvariant, NEW e \in Engines, Commit(e)
    PROVE  StoreInvariant'
<1> USE DEF TypeOK, StoreTypeOK
<1>1. PICK i \in cand[e] : ClaimTxn(i, e, held[e]) /\ issued' = issued \cup {ClaimFor(i)}
  BY DEF Commit
<1>2. UNCHANGED <<approval, settled, recovered>>
  BY DEF Commit
<1>3. /\ i \in Items
      /\ ClaimFor(i) \in Attempt
      /\ ClaimFor(i).item = i
  BY ClaimForType DEF ClaimFor
<1>4. Claimable(i)
  BY <1>1 DEF ClaimTxn
<1>5. row'[i].status = "running" /\ row'[i].claim = {ClaimFor(i)}
  BY <1>1, <1>3 DEF ClaimTxn
<1>6. \A j \in Items : j # i => row'[j] = row[j]
  BY <1>1 DEF ClaimTxn
<1>7. Status(i) = "pending" /\ \A a \in issued : a.item # i
  BY <1>4 DEF Claimable, StoreInvariant, AttemptedNotPending
<1>8. ClaimsIssued'
  <2>1. SUFFICES ASSUME NEW j \in Items
                 PROVE  /\ row'[j].status # "running" => row'[j].claim = {}
                        /\ row'[j].status = "running" =>
                            \E a \in issued' : a.item = j /\ row'[j].claim = {a}
    BY DEF ClaimsIssued, Status
  <2>2. CASE j = i
    BY <1>1, <1>3, <1>5, <2>2
  <2>3. CASE j # i
    BY <1>1, <1>6, <2>3 DEF StoreInvariant, ClaimsIssued, Status
  <2>4. QED
    BY <2>2, <2>3
<1>9. RequestsGuarded'
  BY <1>2 DEF StoreInvariant, RequestsGuarded
<1>10. i \in Guarded => approval[i] = "allowed"
  BY <1>4 DEF Claimable, Authorised
<1>11. AttemptedNotPending'
  <2>1. SUFFICES ASSUME NEW a \in issued'
                 PROVE  /\ row'[a.item].status # "pending"
                        /\ approval[a.item] \notin {"outbox", "asked"}
    BY <1>2 DEF AttemptedNotPending, Status
  <2>2. CASE a \in issued
    BY <1>6, <1>7, <2>2 DEF StoreInvariant, AttemptedNotPending, Status, Attempt
  <2>3. CASE a = ClaimFor(i)
    BY <1>3, <1>5, <1>10, <2>3 DEF StoreInvariant, RequestsGuarded
  <2>4. QED
    BY <1>1, <2>2, <2>3
<1>12. OneAttemptPerItem'
  BY <1>1, <1>3, <1>7 DEF StoreInvariant, OneAttemptPerItem
<1>13. DispatchWasEntitled'
  <2>1. SUFFICES ASSUME NEW a \in issued'
                 PROVE  /\ a.item \in Guarded => approval[a.item] = "allowed"
                        /\ \A d \in Deps[a.item] : row'[d].status = "done"
    BY <1>2 DEF DispatchWasEntitled, Status
  <2>2. \A d \in Items : Status(d) = "done" => row'[d].status = "done"
    BY <1>6, <1>7 DEF Status
  <2>3. CASE a \in issued
    BY <2>2, <2>3, DepsAssumption DEF StoreInvariant, DispatchWasEntitled, Attempt
  <2>4. CASE a = ClaimFor(i)
    BY <1>3, <1>4, <1>10, <2>2, <2>4, DepsAssumption DEF Claimable, DepsDone
  <2>5. QED
    BY <1>1, <2>3, <2>4
<1>14. AttemptAccounted'
  <2>1. \A a : a \in LiveClaims' <=> a \in LiveClaims \/ a = ClaimFor(i)
    BY <1>3, <1>5, <1>6, <1>7 DEF LiveClaims, WithStatus, Status
  <2>2. LiveClaims' = LiveClaims \cup {ClaimFor(i)}
    BY <2>1
  <2>3. ClaimFor(i) \notin issued
    BY <1>3, <1>7
  <2>4. QED
    BY <1>1, <1>2, <2>2, <2>3 DEF StoreInvariant, AttemptAccounted
<1>15. QED
  BY <1>8, <1>9, <1>11, <1>12, <1>13, <1>14 DEF StoreInvariant

\* A settlement moves the one row whose claim it holds, and records it.
LEMMA SettleStore ==
    ASSUME TypeOK, StoreInvariant, NEW e \in Engines, Settle(e)
    PROVE  StoreInvariant'
<1> USE DEF TypeOK, StoreTypeOK
<1>1. PICK f \in flight[e] : /\ f.phase = "settling"
                             /\ SettleTxn(f.attempt, e, held[e], f.verdict)
                             /\ settled' = settled \cup {f.attempt}
  BY DEF Settle, FlightCont
<1>2. UNCHANGED <<approval, issued, recovered>>
  BY DEF Settle
<1> DEFINE c == f.attempt
<1>3. c \in Attempt /\ c.item \in Items /\ f.verdict \in {"done", "failed", "parked"}
  BY <1>1 DEF Flight, FlightVerdicts, Attempt
<1>4. Status(c.item) = "running" /\ c \in row[c.item].claim
  BY <1>1 DEF SettleTxn, ClaimLive
<1>5. c \in issued /\ row[c.item].claim = {c}
  BY <1>3, <1>4 DEF StoreInvariant, ClaimsIssued
<1>6. row'[c.item].status = f.verdict /\ row'[c.item].claim = {}
  BY <1>1, <1>3 DEF SettleTxn, Moved
<1>7. \A j \in Items : j # c.item => row'[j] = row[j]
  BY <1>1 DEF SettleTxn
<1> HIDE DEF c
<1>8. ClaimsIssued'
  <2>1. SUFFICES ASSUME NEW j \in Items
                 PROVE  /\ row'[j].status # "running" => row'[j].claim = {}
                        /\ row'[j].status = "running" =>
                            \E a \in issued : a.item = j /\ row'[j].claim = {a}
    BY <1>2 DEF ClaimsIssued, Status
  <2>2. CASE j = c.item
    BY <1>3, <1>6, <2>2
  <2>3. CASE j # c.item
    BY <1>7, <2>3 DEF StoreInvariant, ClaimsIssued, Status
  <2>4. QED
    BY <2>2, <2>3
<1>9. RequestsGuarded' /\ OneAttemptPerItem'
  BY <1>2 DEF StoreInvariant, RequestsGuarded, OneAttemptPerItem
<1>10. AttemptedNotPending'
  BY <1>2, <1>3, <1>6, <1>7 DEF StoreInvariant, AttemptedNotPending, Status, Attempt
<1>11. DispatchWasEntitled'
  BY <1>2, <1>4, <1>7, DepsAssumption DEF StoreInvariant, DispatchWasEntitled, Status, Attempt
<1>12. AttemptAccounted'
  <2>1. \A a : a \in LiveClaims' <=> a \in LiveClaims /\ a # c
    <3>1. \A i \in Items : i # c.item => c \notin row[i].claim
      BY <1>3 DEF StoreInvariant, ClaimsIssued
    <3>2. QED
      BY <1>3, <1>4, <1>5, <1>6, <1>7, <3>1 DEF LiveClaims, WithStatus, Status
  <2>2. LiveClaims' = LiveClaims \ {c}
    BY <2>1
  <2>3. c \in LiveClaims
    BY <1>3, <1>4 DEF LiveClaims, WithStatus
  <2>4. settled' = settled \cup {c}
    BY <1>1 DEF c
  <2>5. QED
    BY <1>2, <2>2, <2>3, <2>4 DEF StoreInvariant, AttemptAccounted
<1>13. QED
  BY <1>8, <1>9, <1>10, <1>11, <1>12 DEF StoreInvariant

LEMMA NextStore ==
    ASSUME TypeOK, StoreInvariant, [Next]_vars
    PROVE  StoreInvariant'
<1>1. TypeOK'
  BY NextType
<1>2. ASSUME NEW e \in Engines, StoreStep(e)
      PROVE  StoreInvariant'
  BY <1>1, <1>2, RecoverStore, AdmissionStore, CommitStore, SettleStore DEF StoreStep
<1>3. QED
  BY <1>2, QuietOrStore, QuietStore

LEMMA InitStore == Init => StoreInvariant
BY DEF Init, StoreInit, StoreInvariant, ClaimsIssued, RequestsGuarded, AttemptedNotPending,
       OneAttemptPerItem, DispatchWasEntitled, AttemptAccounted, LiveClaims, WithStatus, Status

THEOREM StoreSafe == Spec => []StoreInvariant
<1>1. Init => StoreInvariant
  BY InitStore
<1>2. TypeOK /\ StoreInvariant /\ [Next]_vars => StoreInvariant'
  BY NextStore
<1>3. QED
  BY <1>1, <1>2, TypeCorrect, PTL DEF Spec

\* No item is ever dispatched twice: neither a crash, nor a takeover, nor an
\* engine that comes back late leads to a second attempt.
THEOREM AtMostOneAttempt == Spec => []OneAttemptPerItem
<1>1. StoreInvariant => OneAttemptPerItem
  BY DEF StoreInvariant
<1>2. QED
  BY <1>1, StoreSafe, PTL

\* Every dispatch had its upstreams done and its approval, and still has.
THEOREM DispatchesEntitled == Spec => []DispatchWasEntitled
<1>1. StoreInvariant => DispatchWasEntitled
  BY DEF StoreInvariant
<1>2. QED
  BY <1>1, StoreSafe, PTL

\* Every attempt is running, settled or journaled, and only one of these.
THEOREM AttemptsAccounted == Spec => []AttemptAccounted
<1>1. StoreInvariant => AttemptAccounted
  BY DEF StoreInvariant
<1>2. QED
  BY <1>1, StoreSafe, PTL

-----------------------------------------------------------------------------
(* Missions.                                                               *)

LEMMA CheckStep ==
    ASSUME TypeOK, NEW e \in Engines, NEW m \in Missions, CheckMission(e, m), NEW n \in Missions
    PROVE  mission'[n] = mission[n] \/ (AllTerminal(n) /\ mission'[n] = Verdict(n))
BY DEF CheckMission, TypeOK, StoreTypeOK

\* A mission gets a status only where checkMissionComplete writes it.
LEMMA MissionWrite ==
    ASSUME TypeOK, [Next]_vars
    PROVE  UNCHANGED mission \/ \E e \in Engines, m \in Missions : CheckMission(e, m)
<1> USE DEF vars, storeVars, engineVars, ledgerVars, historyVars
<1>1. CASE Tick \/ UNCHANGED vars
  BY <1>1 DEF Tick
<1>2. ASSUME NEW e \in Engines, BootStep(e)
      PROVE  UNCHANGED mission
  BY <1>2 DEF BootStep, Acquire, Recover, CloseReceipt, AckRecovery, LeavePending,
              ReceiptsDone, BootFails
<1>3. ASSUME NEW e \in Engines, ApprovalStep(e)
      PROVE  UNCHANGED mission
  BY <1>3 DEF ApprovalStep, Decide, DecideDone, Park, ParkDone, Publish, PublishFails, PublishDone
<1>4. ASSUME NEW e \in Engines, LoopStep(e)
      PROVE  UNCHANGED mission \/ \E m \in Missions : CheckMission(e, m)
  <2>1. CASE Project(e)
    BY <2>1 DEF Project, TypeOK
  <2>2. CASE Top(e) \/ Reconcile(e) \/ Notify(e) \/ ProjectDone(e)
    BY <2>2 DEF Top, Reconcile, Notify, ProjectDone
  <2>3. CASE \/ ClaimNothing(e) \/ Select(e) \/ Commit(e) \/ ClaimLosesLease(e)
             \/ Sleep(e) \/ Resume(e) \/ Drained(e) \/ Close(e)
    BY <2>3 DEF ClaimNothing, Select, Commit, ClaimLosesLease, Sleep, Resume, Drained, Close
  <2>4. QED
    BY <1>3, <1>4, <2>1, <2>2, <2>3 DEF LoopStep
<1>5. ASSUME NEW e \in Engines, FlightStep(e)
      PROVE  UNCHANGED mission \/ \E m \in Missions : CheckMission(e, m)
  <2>1. CASE Finally(e)
    <3>1. PICK f \in flight[e] : UNCHANGED mission \/ CheckMission(e, MissionOf[f.attempt.item])
      BY <2>1 DEF Finally
    <3>2. MissionOf[f.attempt.item] \in Missions
      BY MissionsAssumption DEF TypeOK, Flight, Attempt
    <3>3. QED
      BY <3>1, <3>2
  <2>2. CASE Begin(e) \/ OpenReceipt(e) \/ Grant(e) \/ ProviderExits(e)
    BY <2>2 DEF Begin, OpenReceipt, Grant, ProviderExits
  <2>3. CASE ProviderBreaks(e) \/ CheckLease(e) \/ SettleRefused(e) \/ Settle(e)
    BY <2>3 DEF ProviderBreaks, CheckLease, SettleRefused, Settle
  <2>4. QED
    BY <1>5, <2>1, <2>2, <2>3 DEF FlightStep
<1>6. ASSUME NEW e \in Engines, Abort(e) \/ Renew(e) \/ Crash(e)
      PROVE  UNCHANGED mission
  BY <1>6 DEF Abort, Renew, Crash
<1>7. QED
  BY <1>1, <1>2, <1>4, <1>5, <1>6 DEF Next, Exited, EngineStep

LEMMA MissionStep ==
    ASSUME TypeOK, [Next]_vars, NEW n \in Missions
    PROVE  mission'[n] = mission[n] \/ (AllTerminal(n) /\ mission'[n] = Verdict(n))
BY MissionWrite, CheckStep

LEMMA NextMissions ==
    ASSUME TypeOK, MissionVerdictSound, [Next]_vars
    PROVE  MissionVerdictSound'
<1>1. SUFFICES ASSUME NEW m \in Missions, mission'[m] # "pending"
               PROVE  /\ \A i \in ItemsOf(m) : Status(i)' \in TerminalStatuses
                      /\ mission'[m] = "completed" <=> \A i \in ItemsOf(m) : Status(i)' = "done"
  BY DEF MissionVerdictSound, ItemsOf
<1>2. \A i \in ItemsOf(m) : i \in Items
  BY DEF ItemsOf
<1>3. /\ \A i \in ItemsOf(m) : Status(i) \in TerminalStatuses
      /\ mission'[m] = "completed" <=> \A i \in ItemsOf(m) : Status(i) = "done"
  <2>1. CASE mission'[m] = mission[m]
    BY <1>1, <2>1 DEF MissionVerdictSound
  <2>2. CASE AllTerminal(m) /\ mission'[m] = Verdict(m)
    BY <2>2 DEF AllTerminal, Verdict, TerminalStatuses
  <2>3. QED
    BY <2>1, <2>2, MissionStep
<1>4. \A i \in ItemsOf(m) : Status(i)' = Status(i)
  BY <1>2, <1>3, RowStep DEF Status
<1>5. QED
  BY <1>3, <1>4

\* A mission's verdict stands over items that are all terminal, and says
\* "completed" exactly when all of them are done, for ever.
THEOREM VerdictsSound == Spec => []MissionVerdictSound
<1>1. Init => MissionVerdictSound
  BY DEF Init, StoreInit, MissionVerdictSound
<1>2. TypeOK /\ MissionVerdictSound /\ [Next]_vars => MissionVerdictSound'
  BY NextMissions
<1>3. QED
  BY <1>1, <1>2, TypeCorrect, PTL DEF Spec

\* Terminal rows and mission verdicts are never written again, although two
\* flights of one mission may both check it and write its verdict.
THEOREM SettledStays == Spec => SettledIsFinal
<1>1. ASSUME TypeOK, MissionVerdictSound, [Next]_vars
      PROVE  [/\ \A i \in Items : Status(i) \in TerminalStatuses => row'[i] = row[i]
              /\ \A m \in Missions : mission[m] # "pending" => mission'[m] = mission[m]]_vars
  <2>1. \A i \in Items : Status(i) \in TerminalStatuses => row'[i] = row[i]
    BY <1>1, RowStep
  <2>2. ASSUME NEW m \in Missions, mission[m] # "pending"
        PROVE  mission'[m] = mission[m]
    <3>1. CASE AllTerminal(m) /\ mission'[m] = Verdict(m)
      <4>1. mission[m] \in MissionStatuses
        BY <1>1 DEF TypeOK, StoreTypeOK
      <4>2. mission[m] = Verdict(m)
        BY <1>1, <2>2, <3>1, <4>1
           DEF MissionVerdictSound, AllTerminal, Verdict, TerminalStatuses, MissionStatuses
      <4>3. QED
        BY <3>1, <4>2
    <3>2. QED
      BY <1>1, <3>1, MissionStep
  <2>3. QED
    BY <2>1, <2>2
<1>2. QED
  BY <1>1, TypeCorrect, VerdictsSound, PTL DEF Spec, SettledIsFinal
-----------------------------------------------------------------------------
(* Requests.                                                               *)

\* Upstreams that are done stay done.
LEMMA DepsStayDone ==
    ASSUME TypeOK, [Next]_vars, NEW i \in Items, DepsDone(i)
    PROVE  DepsDone(i)'
BY RowStep, DepsAssumption DEF DepsDone, Status, TerminalStatuses

LEMMA NextRequests ==
    ASSUME TypeOK, RequestsRest, [Next]_vars
    PROVE  RequestsRest'
<1> USE DEF TypeOK, StoreTypeOK
<1>1. SUFFICES ASSUME NEW i \in Items
               PROVE  /\ approval'[i] # "none" => DepsDone(i)'
                      /\ approval'[i] \in {"outbox", "asked"} => Status(i)' = "parked"
  BY DEF RequestsRest
<1> DEFINE Kept == /\ approval'[i] # "none" => DepsDone(i)
                   /\ approval'[i] \in {"outbox", "asked"} => row'[i].status = "parked"
<1>2. /\ approval[i] # "none" => DepsDone(i)
      /\ approval[i] \in {"outbox", "asked"} => row[i].status = "parked"
  BY DEF RequestsRest, Status
<1>3. ASSUME approval'[i] = approval[i], Status(i) = "parked" => row'[i] = row[i]
      PROVE  Kept
  BY <1>2, <1>3 DEF Status
<1>4. ASSUME Quiet PROVE Kept
  BY <1>3, <1>4 DEF Quiet
<1>5. ASSUME NEW e \in Engines, StoreStep(e)
      PROVE  Kept
  <2>1. CASE Recover(e)
    BY <1>3, <2>1 DEF Recover, RecoverTxn
  <2>2. CASE Reconcile(e)
    BY <1>3, <2>2 DEF Reconcile, ReconcileTxn, Doomed, WithStatus
  <2>3. CASE Decide(e)
    <3>1. PICK j \in Guarded, verdict \in Verdicts : DecideTxn(j, verdict)
      BY <2>3 DEF Decide
    <3>2. CASE j = i
      <4>1. approval'[i] = verdict /\ approval[i] = "asked"
        BY <3>1, <3>2 DEF DecideTxn
      <4> QED BY <1>2, <4>1 DEF Verdicts
    <3>3. CASE j # i
      BY <1>3, <3>1, <3>3 DEF DecideTxn
    <3> QED BY <3>2, <3>3
  <2>4. CASE Park(e)
    <3>1. CASE UNCHANGED <<row, approval>>
      BY <1>3, <3>1
    <3>2. CASE Parks(i)
      BY <3>2 DEF Parks, Moved
    <3>3. ASSUME NEW j \in Items \ {i}, Parks(j) PROVE Kept
      BY <1>3, <3>3 DEF Parks
    <3> QED BY <2>4, <3>1, <3>2, <3>3, ParkOne
  <2>5. CASE Publish(e)
    BY <1>2, <2>5 DEF Publish
  <2>6. CASE Commit(e)
    BY <1>3, <2>6 DEF Commit, ClaimTxn, Claimable
  <2>7. CASE Settle(e)
    BY <1>3, <2>7 DEF Settle, SettleTxn, ClaimLive
  <2> QED BY <1>5, <2>1, <2>2, <2>3, <2>4, <2>5, <2>6, <2>7 DEF StoreStep
<1>6. Kept
  BY <1>4, <1>5, QuietOrStore
<1> QED BY <1>6, DepsStayDone DEF Status

\* An approval is asked for only behind done upstreams, and while it is out its
\* item is parked: no reconciliation, claim or recovery moves it meanwhile.
THEOREM RequestsAlwaysRest == Spec => []RequestsRest
<1>1. Init => RequestsRest
  BY DEF Init, StoreInit, RequestsRest
<1>2. TypeOK /\ RequestsRest /\ [Next]_vars => RequestsRest'
  BY NextRequests
<1> QED BY <1>1, <1>2, TypeCorrect, PTL DEF Spec

-----------------------------------------------------------------------------
(* How often a row moves.                                                  *)

LEMMA NextFewMoves ==
    ASSUME TypeOK, RequestsRest, FewMoves, [Next]_vars
    PROVE  FewMoves'
<1> USE DEF TypeOK, StoreTypeOK, Row
<1>1. SUFFICES ASSUME NEW i \in Items
               PROVE  /\ row'[i].revision <= 4
                      /\ row'[i].status = "pending" =>
                            row'[i].revision = IF approval'[i] = "none" THEN 0 ELSE 2
                      /\ row'[i].status = "running" => row'[i].revision <= 3
                      /\ approval'[i] \in {"outbox", "asked"} => row'[i].revision = 1
  BY DEF FewMoves, Status
<1> DEFINE Few == /\ row'[i].revision <= 4
                  /\ row'[i].status = "pending" =>
                        row'[i].revision = IF approval'[i] = "none" THEN 0 ELSE 2
                  /\ row'[i].status = "running" => row'[i].revision <= 3
                  /\ approval'[i] \in {"outbox", "asked"} => row'[i].revision = 1
<1>2. /\ row[i].revision \in Nat /\ row[i].revision <= 4
      /\ row[i].status = "pending" => row[i].revision = IF approval[i] = "none" THEN 0 ELSE 2
      /\ row[i].status = "running" => row[i].revision <= 3
      /\ approval[i] \in {"outbox", "asked"} => row[i].revision = 1 /\ row[i].status = "parked"
  BY DEF FewMoves, RequestsRest, Status
<1>3. ASSUME row'[i] = row[i], approval'[i] = approval[i] PROVE Few
  BY <1>2, <1>3
<1>4. ASSUME NEW e \in Engines, StoreStep(e)
      PROVE  Few
  <2>1. CASE Recover(e)
    BY <1>2, <2>1 DEF Recover, RecoverTxn, Moved, Status
  <2>2. CASE Reconcile(e)
    BY <1>2, <2>2 DEF Reconcile, ReconcileTxn, Doomed, WithStatus, Moved, Status
  <2>3. CASE Decide(e)
    <3>1. PICK j \in Guarded, verdict \in Verdicts : DecideTxn(j, verdict)
      BY <2>3 DEF Decide
    <3>2. CASE j = i
      <4>1. approval[i] = "asked" /\ approval'[i] = verdict
        BY <3>1, <3>2 DEF DecideTxn
      <4>2. row'[i].revision = 2 /\ row'[i].status = StatusAfter(verdict)
        BY <1>2, <3>1, <3>2, <4>1 DEF DecideTxn, Moved, Status
      <4> QED BY <4>1, <4>2 DEF Verdicts, StatusAfter
    <3>3. CASE j # i
      BY <1>3, <3>1, <3>3 DEF DecideTxn
    <3> QED BY <3>2, <3>3
  <2>4. CASE Park(e)
    <3>1. CASE UNCHANGED <<row, approval>>
      BY <1>3, <3>1
    <3>2. CASE Parks(i)
      BY <1>2, <3>2 DEF Parks, Moved, Status
    <3>3. ASSUME NEW j \in Items \ {i}, Parks(j) PROVE Few
      BY <1>3, <3>3 DEF Parks
    <3> QED BY <2>4, <3>1, <3>2, <3>3, ParkOne
  <2>5. CASE Publish(e)
    BY <1>2, <2>5 DEF Publish
  <2>6. CASE Commit(e)
    BY <1>2, <2>6 DEF Commit, ClaimTxn, Claimable, Status
  <2>7. CASE Settle(e)
    <3>1. PICK f \in flight[e] : ClaimLive(f.attempt)
                /\ row' = [row EXCEPT ![f.attempt.item] = Moved(f.attempt.item, f.verdict)]
                /\ f.phase = "settling"
      BY <2>7 DEF Settle, SettleTxn, FlightCont
    <3>2. f.verdict \in {"done", "failed", "parked"}
      BY <3>1 DEF Flight, FlightVerdicts
    <3>3. approval' = approval
      BY <2>7 DEF Settle
    <3> QED BY <1>2, <3>1, <3>2, <3>3 DEF ClaimLive, Moved, Status
  <2> QED BY <1>4, <2>1, <2>2, <2>3, <2>4, <2>5, <2>6, <2>7 DEF StoreStep
<1> QED BY <1>3, <1>4, QuietOrStore DEF Quiet

\* A row moves at most four times in its life, through approval, attempt and end:
\* whatever engines, approvals and recoveries do, an item is not passed round.
THEOREM RowsMoveFinitely == Spec => []FewMoves
<1>1. Init => FewMoves
  BY DEF Init, StoreInit, FewMoves, Status
<1>2. TypeOK /\ RequestsRest /\ FewMoves /\ [Next]_vars => FewMoves'
  BY NextFewMoves
<1> QED BY <1>1, <1>2, TypeCorrect, RequestsAlwaysRest, PTL DEF Spec
=============================================================================
