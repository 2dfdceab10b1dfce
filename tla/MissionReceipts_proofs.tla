------------------------ MODULE MissionReceipts_proofs ------------------------
(***************************************************************************)
(* The mission store and the receipt ledger, two databases with no common  *)
(* transaction, agree on every attempt; a mission that is over has its     *)
(* verdict, or a process that owes it; and every iteration ends.           *)
(***************************************************************************)
EXTENDS MissionEpoch_proofs

-----------------------------------------------------------------------------
(* Steps that touch neither the ledger nor the fate of an attempt.         *)

Reported == {"done", "failed"}

LedgerKept == UNCHANGED <<opened, exited, orphaned, acked, recovered, settled, called>>

\* No flight learns a provider's verdict, and none is about to be granted that
\* was not before.
ReportsKept ==
    \A d \in Engines : \A f \in flight'[d] :
        f.verdict \in Reported \/ f.phase = "granting" =>
            \E g \in flight[d] :
                /\ g.attempt = f.attempt
                /\ f.verdict \in Reported => g.verdict = f.verdict
                /\ f.phase = "granting" => g.phase = "granting"

TodoKept == \A d \in Engines : todo'[d] \subseteq todo[d]

RowsKept == \A i \in Items : row'[i].status \in Reported => row'[i] = row[i]

Silent == LedgerKept /\ ReportsKept /\ TodoKept /\ RowsKept

LEMMA SilentReceipts ==
    ASSUME TypeOK, ReceiptInvariant, Silent
    PROVE  ReceiptInvariant'
<1> USE DEF TypeOK, StoreTypeOK
<1>1. FlightsReceipted'
  <2>1. SUFFICES ASSUME NEW d \in Engines, NEW f \in flight'[d]
                 PROVE  /\ f.verdict \in Reported => f.attempt \in exited
                        /\ f.phase = "granting" => \E p \in opened : p[1] = f.attempt
    BY DEF FlightsReceipted, Silent, LedgerKept, Reported
  <2>2. QED
    BY <2>1 DEF Silent, ReportsKept, ReceiptInvariant, FlightsReceipted, Reported
<1>2. TodoRecovered'
  BY DEF Silent, TodoKept, LedgerKept, ReceiptInvariant, TodoRecovered
<1>3. ReceiptsAgree'
  BY DEF Silent, LedgerKept, RowsKept, Reported, ReceiptInvariant, ReceiptsAgree, Status, Attempt
<1>4. QED
  BY <1>1, <1>2, <1>3 DEF ReceiptInvariant

LEMMA BootSilent ==
    ASSUME TypeOK, NEW e \in Engines, BootStep(e),
           ~Recover(e), ~CloseReceipt(e), ~AckRecovery(e)
    PROVE  Silent
<1> USE DEF TypeOK, StoreTypeOK, Silent, LedgerKept, ReportsKept, TodoKept, RowsKept,
            engineVars, storeVars, ledgerVars, historyVars
<1>1. CASE Acquire(e)
  BY <1>1 DEF Acquire
<1>2. CASE LeavePending(e)
  BY <1>2 DEF LeavePending
<1>3. CASE ReceiptsDone(e)
  BY <1>3 DEF ReceiptsDone
<1>4. CASE BootFails(e)
  BY <1>4 DEF BootFails
<1>5. QED
  BY <1>1, <1>2, <1>3, <1>4 DEF BootStep

LEMMA LoopSilent ==
    ASSUME TypeOK, NEW e \in Engines, LoopStep(e)
    PROVE  Silent
<1> USE DEF TypeOK, StoreTypeOK, Silent, LedgerKept, ReportsKept, TodoKept, RowsKept,
            engineVars, storeVars, ledgerVars, historyVars
<1>1. CASE Reconcile(e)
  <2>1. RowsKept
    BY <1>1 DEF Reconcile, ReconcileTxn, Moved, Reported
  <2>2. QED
    BY <1>1, <2>1 DEF Reconcile
<1>2. CASE Decide(e)
  <2>1. PICK i \in Guarded, verdict \in Verdicts : DecideTxn(i, verdict)
    BY <1>2 DEF Decide
  <2>2. i \in Items /\ StatusAfter(verdict) \notin Reported
    BY GuardedAssumption DEF StatusAfter, Reported
  <2>3. RowsKept
    BY <2>1, <2>2 DEF DecideTxn, Moved
  <2>4. QED
    BY <1>2, <2>3 DEF Decide
<1>3. CASE Park(e)
  <2>1. RowsKept
    BY <1>3, ParkOne DEF Parks, Moved, Reported
  <2>2. QED
    BY <1>3, <2>1 DEF Park
<1>4. CASE Commit(e)
  <2>1. PICK i \in cand[e] :
            /\ ClaimTxn(i, e, held[e])
            /\ flight' = [flight EXCEPT ![e] = @ \cup
                  {[attempt |-> ClaimFor(i), phase |-> "claimed", verdict |-> "none"]}]
    BY <1>4 DEF Commit
  <2>2. RowsKept
    BY <2>1 DEF ClaimTxn, Reported
  <2>3. ReportsKept
    <3>1. SUFFICES ASSUME NEW d \in Engines, NEW f \in flight'[d],
                          f.verdict \in Reported \/ f.phase = "granting"
                   PROVE  f \in flight[d]
      OBVIOUS
    <3>2. CASE d = e
      BY <2>1, <3>1, <3>2 DEF Reported
    <3>3. CASE d # e
      BY <2>1, <3>1, <3>3
    <3>4. QED
      BY <3>2, <3>3
  <2>4. QED
    BY <1>4, <2>2, <2>3 DEF Commit
<1>5. CASE ApprovalStep(e) /\ ~Decide(e) /\ ~Park(e)
  BY <1>5 DEF ApprovalStep, DecideDone, ParkDone, Publish, PublishFails, PublishDone
<1>6. CASE Top(e) \/ Notify(e) \/ Project(e) \/ ProjectDone(e)
  BY <1>6 DEF Top, Notify, Project, ProjectDone
<1>7. CASE \/ ClaimNothing(e) \/ Select(e) \/ ClaimLosesLease(e)
           \/ Sleep(e) \/ Resume(e) \/ Drained(e) \/ Close(e)
  BY <1>7 DEF ClaimNothing, Select, ClaimLosesLease, Sleep, Resume, Drained, Close
<1>8. QED
  BY <1>1, <1>2, <1>3, <1>4, <1>5, <1>6, <1>7 DEF LoopStep

LEMMA EnvironmentSilent ==
    ASSUME TypeOK, Tick \/ UNCHANGED vars \/ \E e \in Engines : Abort(e) \/ Renew(e) \/ Crash(e)
    PROVE  Silent
BY DEF TypeOK, StoreTypeOK, Silent, LedgerKept, ReportsKept, TodoKept, RowsKept,
       vars, engineVars, storeVars, ledgerVars, historyVars, Tick, Abort, Renew, Crash

\* A flight that moves on keeps its verdict or gives one the provider did not
\* report.
LEMMA AdvanceReports ==
    ASSUME TypeOK, NEW e \in Engines, NEW f \in flight[e], NEW p, NEW v, Advance(e, f, p, v),
           v \in Reported => v = f.verdict, p # "granting"
    PROVE  ReportsKept
BY DEF TypeOK, Advance, ReportsKept

LEMMA FlightSilent ==
    ASSUME TypeOK, NEW e \in Engines,
           Begin(e) \/ ProviderBreaks(e) \/ CheckLease(e) \/ SettleRefused(e) \/ Finally(e)
    PROVE  Silent
<1> USE DEF storeVars, ledgerVars, historyVars
<1>1. ReportsKept
  <2>1. CASE Begin(e)
    BY <2>1, AdvanceReports DEF Begin, Reported
  <2>2. CASE ProviderBreaks(e)
    BY <2>2, AdvanceReports DEF ProviderBreaks, Reported
  <2>3. CASE CheckLease(e)
    BY <2>3, AdvanceReports DEF CheckLease
  <2>4. CASE SettleRefused(e)
    BY <2>4, AdvanceReports DEF SettleRefused
  <2>5. CASE Finally(e)
    BY <2>5 DEF Finally, ReportsKept, TypeOK
  <2>6. QED
    BY <2>1, <2>2, <2>3, <2>4, <2>5
<1>2. LedgerKept /\ TodoKept /\ UNCHANGED row
  BY DEF Begin, ProviderBreaks, CheckLease, SettleRefused, Finally, LedgerKept, TodoKept
<1>3. QED
  BY <1>1, <1>2 DEF Silent, RowsKept

LEMMA SilentOrNot ==
    ASSUME TypeOK, [Next]_vars
    PROVE  Silent \/ \E e \in Engines :
              \/ Recover(e) \/ CloseReceipt(e) \/ AckRecovery(e)
              \/ OpenReceipt(e) \/ Grant(e) \/ ProviderExits(e) \/ Settle(e)
BY BootSilent, LoopSilent, FlightSilent, EnvironmentSilent DEF Next, Exited, EngineStep, FlightStep

-----------------------------------------------------------------------------
(* The recovery's side of the ledger.                                      *)

LEMMA RecoverReceipts ==
    ASSUME TypeOK, StoreInvariant, ReceiptInvariant, NEW e \in Engines, Recover(e)
    PROVE  ReceiptInvariant'
<1> USE DEF TypeOK, StoreTypeOK
<1>1. /\ row' = [i \in Items |-> IF Status(i) = "running" THEN Moved(i, "parked") ELSE row[i]]
      /\ recovered' = recovered \cup LiveClaims
      /\ todo' = [todo EXCEPT ![e] = recovered' \ acked]
      /\ UNCHANGED <<flight, opened, exited, orphaned, acked, settled, called>>
  BY DEF Recover, RecoverTxn, ledgerVars, historyVars
<1>2. FlightsReceipted'
  BY <1>1 DEF ReceiptInvariant, FlightsReceipted
<1>3. TodoRecovered'
  BY <1>1 DEF ReceiptInvariant, TodoRecovered
<1>4. \A i \in Items : row'[i].status \in Reported => row'[i] = row[i]
  BY <1>1 DEF Moved, Reported
<1>5. ReceiptsAgree'
  BY <1>1, <1>4 DEF ReceiptInvariant, ReceiptsAgree, StoreInvariant, AttemptAccounted,
     Status, Attempt, Reported
<1>6. QED
  BY <1>2, <1>3, <1>5 DEF ReceiptInvariant

LEMMA ReconcileReceipts ==
    ASSUME TypeOK, StoreInvariant, ReceiptInvariant, NEW e \in Engines,
           CloseReceipt(e) \/ AckRecovery(e)
    PROVE  ReceiptInvariant'
<1> USE DEF TypeOK, StoreTypeOK, storeVars, engineVars, historyVars, ledgerVars
<1>1. settled \cap recovered = {}
  BY DEF StoreInvariant, AttemptAccounted
<1>2. CASE CloseReceipt(e)
  <2>1. PICK a \in todo[e] : orphaned' = orphaned \cup {a}
    BY <1>2 DEF CloseReceipt
  <2>2. a \in recovered
    BY DEF ReceiptInvariant, TodoRecovered
  <2>3. ReceiptsAgree'
    BY <1>1, <1>2, <2>1, <2>2 DEF CloseReceipt, ReceiptInvariant, ReceiptsAgree, Status
  <2>4. FlightsReceipted' /\ TodoRecovered'
    BY <1>2 DEF CloseReceipt, ReceiptInvariant, FlightsReceipted, TodoRecovered
  <2>5. QED
    BY <2>3, <2>4 DEF ReceiptInvariant
<1>3. CASE AckRecovery(e)
  <2>1. PICK a \in todo[e] : /\ a \in exited \cup orphaned
                             /\ acked' = acked \cup {a}
                             /\ todo' = [todo EXCEPT ![e] = @ \ {a}]
    BY <1>3 DEF AckRecovery
  <2>2. a \in recovered
    BY DEF ReceiptInvariant, TodoRecovered
  <2>3. ReceiptsAgree'
    BY <1>3, <2>1, <2>2 DEF AckRecovery, ReceiptInvariant, ReceiptsAgree, Status
  <2>4. FlightsReceipted' /\ TodoRecovered'
    BY <1>3, <2>1 DEF AckRecovery, ReceiptInvariant, FlightsReceipted, TodoRecovered
  <2>5. QED
    BY <2>3, <2>4 DEF ReceiptInvariant
<1>4. QED
  BY <1>2, <1>3

-----------------------------------------------------------------------------
(* The dispatch's side of the ledger.                                      *)

\* What a flight that moves on must show to keep FlightsReceipted.
LEMMA AdvanceReceipted ==
    ASSUME TypeOK, FlightsReceipted, NEW e \in Engines, NEW f \in flight[e], NEW p, NEW v,
           Advance(e, f, p, v), opened \subseteq opened', exited \subseteq exited',
           v \in Reported => f.attempt \in exited',
           p = "granting" => \E q \in opened' : q[1] = f.attempt
    PROVE  FlightsReceipted'
BY DEF TypeOK, Advance, FlightsReceipted, Reported

LEMMA DispatchReceipts ==
    ASSUME TypeOK, ReceiptInvariant, NEW e \in Engines,
           OpenReceipt(e) \/ Grant(e) \/ ProviderExits(e)
    PROVE  ReceiptInvariant'
<1> USE DEF ReceiptInvariant, storeVars, historyVars, ledgerVars
<1>1. TodoRecovered'
  BY DEF OpenReceipt, Grant, ProviderExits, TodoRecovered
<1>2. CASE OpenReceipt(e)
  <2>1. PICK f \in flight[e] : /\ opened' = opened \cup {<<f.attempt, lease.epoch>>}
                               /\ Advance(e, f, "granting", "none")
    BY <1>2 DEF OpenReceipt
  <2>2. <<f.attempt, lease.epoch>> \in opened' /\ <<f.attempt, lease.epoch>>[1] = f.attempt
    BY <2>1
  <2>3. FlightsReceipted'
    BY <1>2, <2>1, <2>2, AdvanceReceipted DEF OpenReceipt, Reported
  <2>4. ReceiptsAgree'
    BY <1>2, <2>1 DEF OpenReceipt, ReceiptsAgree, Status
  <2>5. QED
    BY <1>1, <2>3, <2>4
<1>3. CASE Grant(e)
  <2>1. PICK f \in flight[e] :
            /\ f.phase = "granting"
            /\ \/ Advance(e, f, "executing", "none") /\ called' = called \cup {f.attempt}
               \/ Advance(e, f, "returned", "parked") /\ UNCHANGED called
    BY <1>3 DEF Grant, FlightCont
  <2>2. \E p \in opened : p[1] = f.attempt
    BY <2>1 DEF FlightsReceipted
  <2>3. FlightsReceipted'
    BY <1>3, <2>1, AdvanceReceipted DEF Grant, Reported
  <2>4. ReceiptsAgree'
    BY <1>3, <2>1, <2>2 DEF Grant, ReceiptsAgree, Status
  <2>5. QED
    BY <1>1, <2>3, <2>4
<1>4. CASE ProviderExits(e)
  <2>1. PICK f \in flight[e], v \in {"done", "failed", "parked"} :
            exited' = exited \cup {f.attempt} /\ Advance(e, f, "returned", v)
    BY <1>4 DEF ProviderExits
  <2>2. FlightsReceipted'
    BY <1>4, <2>1, AdvanceReceipted DEF ProviderExits
  <2>3. ReceiptsAgree'
    BY <1>4, <2>1 DEF ProviderExits, ReceiptsAgree, Status
  <2>4. QED
    BY <1>1, <2>2, <2>3
<1>5. QED
  BY <1>2, <1>3, <1>4

\* Settling is where the verdict reaches the store: the row's only attempt is
\* the one whose flight saw the transport event.
LEMMA SettleReceipts ==
    ASSUME TypeOK, StoreInvariant, ReceiptInvariant, NEW e \in Engines, Settle(e)
    PROVE  ReceiptInvariant'
<1> USE DEF TypeOK, StoreTypeOK
<1>1. PICK f \in flight[e] : /\ SettleTxn(f.attempt, e, held[e], f.verdict)
                             /\ settled' = settled \cup {f.attempt}
                             /\ Advance(e, f, "finally", f.verdict)
  BY DEF Settle
<1>2. UNCHANGED <<todo, recovered, opened, exited, orphaned, acked, called, issued>>
  BY DEF Settle, ledgerVars
<1> DEFINE c == f.attempt
<1>3. c \in Attempt /\ Status(c.item) = "running" /\ row[c.item].claim = {c} /\ c \in issued
  BY <1>1 DEF SettleTxn, ClaimLive, StoreInvariant, ClaimsIssued, Flight, Attempt
<1>4. c \in LiveClaims
  BY <1>3 DEF LiveClaims, WithStatus, Attempt
<1>5. FlightsReceipted'
  BY <1>1, <1>2, AdvanceReceipted DEF ReceiptInvariant, FlightsReceipted, Reported
<1>6. TodoRecovered'
  BY <1>2 DEF ReceiptInvariant, TodoRecovered
<1>7. \A j \in Items : j # c.item => row'[j] = row[j]
  BY <1>1 DEF SettleTxn
<1>8. row'[c.item].status = f.verdict
  BY <1>1, <1>3 DEF SettleTxn, Moved, Attempt
<1>9. \A a \in settled' : row'[a.item].status \in Reported => a \in exited
  <2>1. SUFFICES ASSUME NEW a \in settled', row'[a.item].status \in Reported
                 PROVE  a \in exited
    OBVIOUS
  <2>2. a \in issued
    BY <1>1, <1>3 DEF StoreInvariant, AttemptAccounted
  <2>3. CASE a.item = c.item
    <3>1. a = c
      BY <1>3, <2>2, <2>3 DEF StoreInvariant, OneAttemptPerItem
    <3>2. QED
      BY <1>8, <2>1, <3>1 DEF ReceiptInvariant, FlightsReceipted, Reported
  <2>4. CASE a.item # c.item
    BY <1>1, <1>7, <2>1, <2>2, <2>4
       DEF ReceiptInvariant, ReceiptsAgree, Status, Reported, Attempt
  <2>5. QED
    BY <2>3, <2>4
<1>10. orphaned' \subseteq recovered' \ settled'
  BY <1>1, <1>2, <1>4 DEF ReceiptInvariant, ReceiptsAgree, StoreInvariant, AttemptAccounted
<1>11. ReceiptsAgree'
  BY <1>2, <1>9, <1>10 DEF ReceiptInvariant, ReceiptsAgree, Status, Reported
<1>12. QED
  BY <1>5, <1>6, <1>11 DEF ReceiptInvariant

THEOREM ReceiptsSafe == Spec => []ReceiptInvariant
<1>1. Init => ReceiptInvariant
  BY DEF Init, StoreInit, ReceiptInvariant, FlightsReceipted, TodoRecovered, ReceiptsAgree
<1>2. TypeOK /\ StoreInvariant /\ ReceiptInvariant /\ [Next]_vars => ReceiptInvariant'
  BY SilentOrNot, SilentReceipts, RecoverReceipts, ReconcileReceipts, DispatchReceipts,
     SettleReceipts
<1>3. QED
  BY <1>1, <1>2, TypeCorrect, StoreSafe, PTL DEF Spec

\* A receipt is closed as unknown, or acknowledged, only for a journaled
\* attempt; a done or failed row rests on the provider's own event; and the
\* provider is called only behind a dispatch record.
THEOREM LedgerAgrees == Spec => []ReceiptsAgree
<1>1. ReceiptInvariant => ReceiptsAgree
  BY DEF ReceiptInvariant
<1>2. QED
  BY <1>1, ReceiptsSafe, PTL

-----------------------------------------------------------------------------
(* Who owes a mission its verdict.                                         *)

LEMMA NextChangedAtHead ==
    ASSUME TypeOK, ChangedAtHead, [Next]_vars
    PROVE  ChangedAtHead'
<1> USE DEF TypeOK, ChangedAtHead, storeVars, ledgerVars, historyVars, engineVars, Goto, At, Throw
<1>1. CASE Tick \/ UNCHANGED vars
  BY <1>1 DEF Tick, vars
<1>2. ASSUME NEW e \in Engines, BootStep(e)
      PROVE  ChangedAtHead'
  <2>1. CASE Acquire(e) \/ Recover(e) \/ ReceiptsDone(e) \/ BootFails(e)
    BY <2>1 DEF Acquire, Recover, ReceiptsDone, BootFails
  <2>2. CASE CloseReceipt(e) \/ AckRecovery(e) \/ LeavePending(e)
    BY <2>2 DEF CloseReceipt, AckRecovery, LeavePending
  <2> QED BY <1>2, <2>1, <2>2 DEF BootStep
<1>3. ASSUME NEW e \in Engines, ApprovalStep(e)
      PROVE  ChangedAtHead'
  <2>1. CASE Decide(e)
    BY <2>1 DEF Decide
  <2>2. CASE DecideDone(e) \/ Park(e) \/ ParkDone(e) \/ Publish(e)
    BY <2>2 DEF DecideDone, Park, ParkDone, Publish
  <2>3. CASE PublishFails(e) \/ PublishDone(e)
    BY <2>3 DEF PublishFails, PublishDone
  <2> QED BY <1>3, <2>1, <2>2, <2>3 DEF ApprovalStep
<1>4. ASSUME NEW e \in Engines, LoopStep(e)
      PROVE  ChangedAtHead'
  <2>1. CASE Top(e) \/ Reconcile(e)
    BY <2>1 DEF Top, Reconcile
  <2>2. CASE Notify(e)
    <3>1. UNCHANGED changed
      BY <2>2 DEF Notify
    <3>2. \A x \in Engines : pc'[x] = pc[x] \/ pc'[x] = "close"
      BY <2>2 DEF Notify
    <3> QED BY <3>1, <3>2
  <2>3. CASE Project(e) \/ ProjectDone(e)
    BY <2>3 DEF Project, ProjectDone
  <2>4. CASE ClaimNothing(e) \/ Select(e) \/ Commit(e) \/ ClaimLosesLease(e)
    BY <2>4 DEF ClaimNothing, Select, Commit, ClaimLosesLease
  <2>5. CASE Sleep(e) \/ Resume(e) \/ Drained(e) \/ Close(e)
    BY <2>5 DEF Sleep, Resume, Drained, Close
  <2> QED BY <1>3, <1>4, <2>1, <2>2, <2>3, <2>4, <2>5 DEF LoopStep
<1>5. ASSUME NEW e \in Engines, FlightStep(e)
      PROVE  ChangedAtHead'
  <2>1. UNCHANGED changed
    BY <1>5 DEF FlightStep, Begin, OpenReceipt, Grant, ProviderExits, ProviderBreaks,
                CheckLease, Settle, SettleRefused, Finally
  <2>2. UNCHANGED pc \/ (pc[e] = "wait" /\ pc' = [pc EXCEPT ![e] = "woken"])
    BY <1>5 DEF FlightStep, Begin, OpenReceipt, Grant, ProviderExits, ProviderBreaks,
                CheckLease, Settle, SettleRefused, Finally
  <2> QED BY <2>1, <2>2
<1>6. ASSUME NEW e \in Engines, Abort(e) \/ Renew(e) \/ Crash(e)
      PROVE  ChangedAtHead'
  BY <1>6 DEF Abort, Renew, Crash
<1> QED BY <1>1, <1>2, <1>4, <1>5, <1>6 DEF Next, Exited, EngineStep

\* A flight is put in the air with its attempt, which is recorded as issued.
LEMMA NextFlightsIssued ==
    ASSUME TypeOK, FlightsIssued, [Next]_vars
    PROVE  FlightsIssued'
<1>1. ASSUME Routine PROVE FlightsIssued'
  BY <1>1 DEF Routine, FlightsKept, ClaimsKept, FlightsIssued
<1>2. ASSUME NEW e \in Engines, Acquire(e) \/ Recover(e)
      PROVE  FlightsIssued'
  BY <1>2 DEF Acquire, Recover, FlightsIssued, historyVars
<1>3. ASSUME NEW e \in Engines, Commit(e)
      PROVE  FlightsIssued'
  BY <1>3 DEF Commit, FlightsIssued, TypeOK
<1> QED BY <1>1, <1>2, <1>3, RoutineOrNot

\* A process writes to no memory but its own.
LEMMA OwnMemory ==
    ASSUME TypeOK, NEW e \in Engines, EngineStep(e), NEW x \in Engines, x # e
    PROVE  /\ pc'[x] = pc[x] /\ held'[x] = held[x] /\ changed'[x] = changed[x]
           /\ notify'[x] = notify[x] /\ flight'[x] = flight[x] /\ fatal'[x] = fatal[x]
           /\ todo'[x] = todo[x]
<1> USE DEF storeVars, ledgerVars, historyVars, engineVars, Goto, Throw
<1> DEFINE Mine ==
        /\ pc'[x] = pc[x] /\ held'[x] = held[x] /\ changed'[x] = changed[x]
        /\ notify'[x] = notify[x] /\ flight'[x] = flight[x] /\ fatal'[x] = fatal[x]
        /\ todo'[x] = todo[x]
<1>1. ASSUME BootStep(e) PROVE Mine
  <2>1. CASE Acquire(e)
    BY <2>1 DEF Acquire, TypeOK
  <2>2. CASE Recover(e) \/ ReceiptsDone(e) \/ BootFails(e)
    BY <2>2 DEF Recover, ReceiptsDone, BootFails, TypeOK
  <2>3. CASE CloseReceipt(e) \/ AckRecovery(e) \/ LeavePending(e)
    BY <2>3 DEF CloseReceipt, AckRecovery, LeavePending, TypeOK
  <2> QED BY <1>1, <2>1, <2>2, <2>3 DEF BootStep
<1>2. ASSUME ApprovalStep(e) PROVE Mine
  <2>1. CASE Decide(e) \/ DecideDone(e) \/ Park(e) \/ ParkDone(e)
    BY <2>1 DEF Decide, DecideDone, Park, ParkDone, TypeOK
  <2>2. CASE Publish(e) \/ PublishFails(e) \/ PublishDone(e)
    BY <2>2 DEF Publish, PublishFails, PublishDone, TypeOK
  <2> QED BY <1>2, <2>1, <2>2 DEF ApprovalStep
<1>3. ASSUME LoopStep(e) PROVE Mine
  <2>1. CASE Top(e) \/ Reconcile(e) \/ ProjectDone(e)
    BY <2>1 DEF Top, Reconcile, ProjectDone, TypeOK
  <2>2. CASE Notify(e)
    BY <2>2 DEF Notify, TypeOK
  <2>3. CASE Project(e)
    BY <2>3 DEF Project, CheckMission, TypeOK
  <2>4. CASE ClaimNothing(e) \/ Select(e) \/ Commit(e) \/ ClaimLosesLease(e)
    BY <2>4 DEF ClaimNothing, Select, Commit, ClaimLosesLease, TypeOK
  <2>5. CASE Sleep(e) \/ Resume(e) \/ Drained(e) \/ Close(e)
    BY <2>5 DEF Sleep, Resume, Drained, Close, TypeOK
  <2> QED BY <1>2, <1>3, <2>1, <2>2, <2>3, <2>4, <2>5 DEF LoopStep
<1>4. ASSUME FlightStep(e) PROVE Mine
  <2>1. CASE Begin(e) \/ CheckLease(e) \/ SettleRefused(e)
    BY <2>1 DEF Begin, CheckLease, SettleRefused, Advance, TypeOK
  <2>2. CASE OpenReceipt(e) \/ Grant(e) \/ ProviderExits(e) \/ ProviderBreaks(e) \/ Settle(e)
    BY <2>2 DEF OpenReceipt, Grant, ProviderExits, ProviderBreaks, Settle, Advance, TypeOK
  <2>3. CASE Finally(e)
    BY <2>3 DEF Finally, CheckMission, TypeOK
  <2> QED BY <1>4, <2>1, <2>2, <2>3 DEF FlightStep
<1>5. ASSUME Abort(e) \/ Renew(e) \/ Crash(e) PROVE Mine
  BY <1>5 DEF Abort, Renew, Crash, TypeOK
<1> QED BY <1>1, <1>3, <1>4, <1>5 DEF EngineStep

\* An instance that has not started meets no error: it has no promise to break.
LEMMA NextOffIsCalm ==
    ASSUME TypeOK, OffIsInert, OffIsCalm, [Next]_vars
    PROVE  OffIsCalm'
<1> USE DEF storeVars, ledgerVars, historyVars, engineVars, Goto, At, Throw
<1>1. CASE Tick \/ UNCHANGED vars
  BY <1>1 DEF Tick, vars, OffIsCalm
<1>2. ASSUME NEW e \in Engines, EngineStep(e)
      PROVE  \/ pc'[e] # "off"
             \/ pc'[e] = pc[e] /\ fatal'[e] = fatal[e] /\ notify'[e] = notify[e]
  <2>1. CASE BootStep(e)
    BY <2>1 DEF BootStep, Acquire, Recover, CloseReceipt, AckRecovery, LeavePending,
                ReceiptsDone, BootFails, TypeOK
  <2>2. CASE ApprovalStep(e)
    BY <2>2 DEF ApprovalStep, Decide, DecideDone, Park, ParkDone, Publish, PublishFails,
                PublishDone, TypeOK
  <2>3. CASE Notify(e)
    <3>1. pc[e] # "off"
      BY <2>3 DEF Notify, OffIsCalm
    <3> QED BY <2>3, <3>1 DEF Notify, TypeOK
  <2>4. CASE Top(e) \/ Reconcile(e) \/ Project(e) \/ ProjectDone(e)
    BY <2>4 DEF Top, Reconcile, Project, ProjectDone, TypeOK
  <2>5. CASE ClaimNothing(e) \/ Select(e) \/ Commit(e) \/ ClaimLosesLease(e)
    BY <2>5 DEF ClaimNothing, Select, Commit, ClaimLosesLease, TypeOK
  <2>6. CASE Sleep(e) \/ Resume(e) \/ Drained(e) \/ Close(e)
    BY <2>6 DEF Sleep, Resume, Drained, Close, TypeOK
  <2>7. CASE FlightStep(e)
    <3>1. pc[e] # "off"
      BY <2>7 DEF OffIsInert, FlightStep, Begin, OpenReceipt, Grant, ProviderExits,
                  ProviderBreaks, CheckLease, Settle, SettleRefused, Finally
    <3>2. UNCHANGED pc \/ pc' = [pc EXCEPT ![e] = "woken"]
      BY <2>7 DEF FlightStep, Begin, OpenReceipt, Grant, ProviderExits, ProviderBreaks,
                  CheckLease, Settle, SettleRefused, Finally
    <3> QED BY <3>1, <3>2 DEF TypeOK
  <2>8. CASE Abort(e) \/ Renew(e) \/ Crash(e)
    BY <2>8 DEF Abort, Renew, Crash, TypeOK
  <2> QED BY <1>2, <2>1, <2>2, <2>3, <2>4, <2>5, <2>6, <2>7, <2>8 DEF EngineStep, LoopStep
<1>3. ASSUME NEW e \in Engines, EngineStep(e)
      PROVE  OffIsCalm'
  BY <1>2, <1>3, OwnMemory DEF OffIsCalm
<1> QED BY <1>1, <1>3 DEF Next, Exited

-----------------------------------------------------------------------------
(* An answer is given or passed on.                                        *)

LEMMA IssuedGrows ==
    ASSUME TypeOK, [Next]_vars
    PROVE  issued \subseteq issued'
BY RoutineOrNot DEF Routine, Acquire, Recover, Commit, historyVars

\* Process e forgets neither a mission, nor an ended flight, nor an error.
Steady(e) ==
    /\ changed[e] \subseteq changed'[e]
    /\ \A f \in flight[e] : f.phase = "finally" => f \in flight'[e]
    /\ fatal[e] => fatal'[e] /\ held'[e] = held[e]
    /\ pc[e] = "dead" => pc'[e] = "dead"

LEMMA SteadyAnswers ==
    ASSUME NEW e \in Engines, NEW m \in Missions, Steady(e), issued \subseteq issued',
           Answers(e, m) \/ pc[e] = "dead"
    PROVE  Answers(e, m)' \/ pc'[e] = "dead"
<1>1. CASE m \in changed[e]
  BY <1>1 DEF Steady, Answers
<1>2. ASSUME NEW f \in flight[e], f.phase = "finally", MissionOf[f.attempt.item] = m
      PROVE  Answers(e, m)'
  BY <1>2 DEF Steady, Answers
<1>3. CASE fatal[e] /\ \E a \in issued : a.epoch = held[e] /\ MissionOf[a.item] = m
  <2>1. fatal'[e] /\ held'[e] = held[e]
    BY <1>3 DEF Steady
  <2>2. PICK a \in issued : a.epoch = held[e] /\ MissionOf[a.item] = m
    BY <1>3
  <2>3. a \in issued' /\ a.epoch = held'[e]
    BY <2>1, <2>2
  <2> QED BY <2>1, <2>2, <2>3 DEF Answers
<1>4. CASE pc[e] = "dead"
  BY <1>4 DEF Steady
<1> QED BY <1>1, <1>2, <1>3, <1>4 DEF Answers

\* Moving on a flight that has not ended.
LEMMA AdvanceSteady ==
    ASSUME TypeOK, NEW e \in Engines, NEW f \in flight[e], NEW p, NEW v,
           f.phase # "finally", Advance(e, f, p, v)
    PROVE  \A g \in flight[e] : g.phase = "finally" => g \in flight'[e]
BY DEF Advance, TypeOK

LEMMA MostlySteady ==
    ASSUME TypeOK, ChangedAtHead, OffIsCalm, NEW e \in Engines, EngineStep(e),
           ~Crash(e), ~Project(e), ~Finally(e)
    PROVE  Steady(e)
<1> USE DEF storeVars, ledgerVars, historyVars, engineVars, Goto, At, Throw
<1>1. ASSUME BootStep(e) PROVE Steady(e)
  <2>1. CASE Acquire(e)
    BY <2>1 DEF Acquire, TypeOK, Steady, OffIsCalm
  <2>2. CASE Recover(e) \/ ReceiptsDone(e) \/ BootFails(e)
    BY <2>2 DEF Recover, ReceiptsDone, BootFails, TypeOK, Steady
  <2>3. CASE CloseReceipt(e) \/ AckRecovery(e) \/ LeavePending(e)
    BY <2>3 DEF CloseReceipt, AckRecovery, LeavePending, TypeOK, Steady
  <2> QED BY <1>1, <2>1, <2>2, <2>3 DEF BootStep
<1>2. ASSUME ApprovalStep(e) PROVE Steady(e)
  <2>1. CASE Decide(e)
    BY <2>1 DEF Decide, TypeOK, Steady
  <2>2. CASE DecideDone(e) \/ Park(e) \/ ParkDone(e)
    BY <2>2 DEF DecideDone, Park, ParkDone, TypeOK, Steady
  <2>3. CASE Publish(e) \/ PublishFails(e) \/ PublishDone(e)
    BY <2>3 DEF Publish, PublishFails, PublishDone, TypeOK, Steady
  <2> QED BY <1>2, <2>1, <2>2, <2>3 DEF ApprovalStep
<1>3. ASSUME LoopStep(e) PROVE Steady(e)
  <2>1. CASE Top(e)
    BY <2>1 DEF Top, TypeOK, Steady, ChangedAtHead
  <2>2. CASE Reconcile(e) \/ ProjectDone(e)
    BY <2>2 DEF Reconcile, ProjectDone, TypeOK, Steady
  <2>3. CASE Notify(e)
    <3>1. fatal[e] => fatal'[e]
      BY <2>3, Zenon DEF Notify, TypeOK
    <3> QED BY <2>3, <3>1 DEF Notify, TypeOK, Steady
  <2>4. CASE ClaimNothing(e) \/ Select(e) \/ ClaimLosesLease(e)
    BY <2>4 DEF ClaimNothing, Select, ClaimLosesLease, TypeOK, Steady
  <2>5. CASE Commit(e)
    BY <2>5 DEF Commit, TypeOK, Steady
  <2>6. CASE Sleep(e) \/ Resume(e) \/ Drained(e) \/ Close(e)
    BY <2>6 DEF Sleep, Resume, Drained, Close, TypeOK, Steady
  <2> QED BY <1>2, <1>3, <2>1, <2>2, <2>3, <2>4, <2>5, <2>6 DEF LoopStep
<1>4. ASSUME FlightStep(e) PROVE Steady(e)
  <2>1. \A f \in flight[e] : f.phase = "finally" => f \in flight'[e]
    BY <1>4, AdvanceSteady
       DEF FlightStep, Begin, OpenReceipt, Grant, ProviderExits, ProviderBreaks, CheckLease,
           Settle, SettleRefused, FlightTurn, FlightCont
  <2>2. UNCHANGED <<pc, held, changed>>
    BY <1>4 DEF FlightStep, Begin, OpenReceipt, Grant, ProviderExits, ProviderBreaks,
                CheckLease, Settle, SettleRefused
  <2>3. fatal[e] => fatal'[e]
    <3>1. CASE Begin(e) \/ CheckLease(e) \/ SettleRefused(e)
      BY <3>1, Zenon DEF Begin, CheckLease, SettleRefused, TypeOK
    <3>2. CASE OpenReceipt(e) \/ Grant(e) \/ ProviderExits(e) \/ ProviderBreaks(e) \/ Settle(e)
      BY <3>2 DEF OpenReceipt, Grant, ProviderExits, ProviderBreaks, Settle
    <3> QED BY <1>4, <3>1, <3>2 DEF FlightStep
  <2> QED BY <2>1, <2>2, <2>3 DEF Steady
<1>5. ASSUME Abort(e) \/ Renew(e) PROVE Steady(e)
  BY <1>5 DEF Abort, Renew, TypeOK, Steady
<1> QED BY <1>1, <1>3, <1>4, <1>5 DEF EngineStep

\* Looking at a mission that is over gives it its verdict.
LEMMA CheckAnswers ==
    ASSUME TypeOK, NEW e \in Engines, NEW m \in Missions, CheckMission(e, m), AllTerminal(m)
    PROVE  mission'[m] # "pending"
BY DEF CheckMission, Verdict, TypeOK, StoreTypeOK

LEMMA AnswersStay ==
    ASSUME TypeOK, ChangedAtHead, OffIsCalm, FlightsIssued, FlightsOwned, [Next]_vars,
           NEW e \in Engines, EngineStep(e), NEW m \in Missions, AllTerminal(m),
           mission'[m] = "pending", Answers(e, m) \/ pc[e] = "dead"
    PROVE  Answers(e, m)' \/ pc'[e] = "dead"
<1>1. CASE Crash(e)
  BY <1>1 DEF Crash, Goto, TypeOK
<1>2. CASE Project(e)
  <2>1. PICK k \in changed[e] : CheckMission(e, k) /\ changed' = [changed EXCEPT ![e] = @ \ {k}]
    BY <1>2 DEF Project
  <2>2. k # m
    BY <2>1, CheckAnswers
  <2>3. pc[e] # "dead" /\ UNCHANGED <<pc, held, fatal, flight, issued>>
    BY <1>2 DEF Project, At, historyVars
  <2>4. m \in changed[e] => m \in changed'[e]
    BY <2>1, <2>2 DEF TypeOK
  <2> QED BY <2>3, <2>4 DEF Answers
<1>3. CASE Finally(e)
  <2>1. PICK f \in flight[e] :
          /\ f.phase = "finally"
          /\ flight' = [flight EXCEPT ![e] = @ \ {f}]
          /\ ~fatal[e] /\ HoldsLease(e) => CheckMission(e, MissionOf[f.attempt.item])
          /\ pc[e] \in AwaitPCs
    BY <1>3 DEF Finally, FlightTurn
  <2>2. UNCHANGED <<held, changed, issued>>
    BY <1>3 DEF Finally, historyVars
  <2>3. fatal'[e] <=> fatal[e] \/ ~HoldsLease(e)
    BY <1>3, Zenon DEF Finally, TypeOK
  <2>4. CASE MissionOf[f.attempt.item] = m /\ ~fatal'[e]
    BY <2>1, <2>3, <2>4, CheckAnswers
  <2>5. CASE MissionOf[f.attempt.item] = m /\ fatal'[e]
    <3>1. f.attempt \in issued' /\ f.attempt.epoch = held'[e]
      BY <2>1, <2>2 DEF FlightsIssued, FlightsOwned
    <3> QED BY <2>5, <3>1 DEF Answers
  <2>6. CASE MissionOf[f.attempt.item] # m
    <3>1. CASE m \in changed[e]
      BY <2>2, <3>1 DEF Answers
    <3>2. ASSUME NEW g \in flight[e], g.phase = "finally", MissionOf[g.attempt.item] = m
          PROVE  Answers(e, m)'
      <4>1. g \in flight'[e]
        BY <2>1, <2>6, <3>2 DEF TypeOK
      <4> QED BY <3>2, <4>1 DEF Answers
    <3>3. CASE fatal[e] /\ \E a \in issued : a.epoch = held[e] /\ MissionOf[a.item] = m
      <4>1. fatal'[e]
        BY <2>3, <3>3
      <4> QED BY <2>2, <3>3, <4>1 DEF Answers
    <3>4. pc[e] # "dead"
      BY <2>1 DEF AwaitPCs
    <3> QED BY <3>1, <3>2, <3>3, <3>4 DEF Answers
  <2> QED BY <2>4, <2>5, <2>6
<1>4. CASE ~Crash(e) /\ ~Project(e) /\ ~Finally(e)
  BY <1>4, MostlySteady, SteadyAnswers, IssuedGrows
<1> QED BY <1>1, <1>2, <1>3, <1>4

\* Whoever ends the last item of a mission is the one to look at it.
LEMMA LastItemAnswered ==
    ASSUME TypeOK, [Next]_vars, NEW m \in Missions, ~AllTerminal(m), AllTerminal(m)'
    PROVE  \E e \in Engines : Answers(e, m)'
<1> USE DEF TypeOK, StoreTypeOK
<1>1. PICK i \in Items : /\ MissionOf[i] = m
                         /\ row[i].status \notin TerminalStatuses
                         /\ row'[i].status \in TerminalStatuses
  BY DEF AllTerminal, ItemsOf, Status
<1>2. ~Quiet
  BY <1>1 DEF Quiet
<1>3. PICK e \in Engines : StoreStep(e)
  BY <1>2, QuietOrStore
<1>4. CASE Recover(e)
  BY <1>1, <1>4 DEF Recover, RecoverTxn, Moved, TerminalStatuses
<1>5. CASE Reconcile(e)
  <2>1. i \in Doomed
    BY <1>1, <1>5 DEF Reconcile, ReconcileTxn
  <2>2. m \in changed'[e]
    BY <1>1, <1>5, <2>1 DEF Reconcile
  <2> QED BY <2>2 DEF Answers
<1>6. CASE Decide(e)
  <2>1. PICK j \in Guarded, verdict \in Verdicts :
          DecideTxn(j, verdict) /\ changed' = [changed EXCEPT ![e] = @ \cup {MissionOf[j]}]
    BY <1>6 DEF Decide
  <2>2. j = i
    BY <1>1, <2>1 DEF DecideTxn
  <2>3. m \in changed'[e]
    BY <1>1, <2>1, <2>2
  <2> QED BY <2>3 DEF Answers
<1>7. CASE Park(e) \/ Publish(e)
  BY <1>1, <1>7, ParkOne DEF Publish, Parks, Moved, TerminalStatuses
<1>8. CASE Commit(e)
  BY <1>1, <1>8 DEF Commit, ClaimTxn, TerminalStatuses
<1>9. CASE Settle(e)
  <2>1. PICK f \in flight[e] : SettleTxn(f.attempt, e, held[e], f.verdict)
                               /\ Advance(e, f, "finally", f.verdict)
    BY <1>9 DEF Settle
  <2>2. f.attempt.item = i
    BY <1>1, <2>1 DEF SettleTxn
  <2> DEFINE g == [attempt |-> f.attempt, phase |-> "finally", verdict |-> f.verdict]
  <2>3. g \in flight'[e]
    BY <2>1 DEF Advance
  <2>4. g.phase = "finally" /\ MissionOf[g.attempt.item] = m
    BY <1>1, <2>2
  <2> HIDE DEF g
  <2> QED BY <2>3, <2>4 DEF Answers
<1> QED BY <1>3, <1>4, <1>5, <1>6, <1>7, <1>8, <1>9 DEF StoreStep

LEMMA NextVerdictOwed ==
    ASSUME TypeOK, OffIsInert, FlightsOwned, VerdictInvariant, [Next]_vars
    PROVE  VerdictOwed'
<1> USE DEF VerdictInvariant
<1>1. SUFFICES ASSUME NEW m \in Missions, AllTerminal(m)', mission'[m] = "pending"
               PROVE  \E e \in Engines : Answers(e, m)' \/ pc'[e] = "dead"
  BY DEF VerdictOwed
<1>2. CASE ~AllTerminal(m)
  BY <1>1, <1>2, LastItemAnswered
<1>3. CASE AllTerminal(m)
  <2>1. mission[m] = "pending"
    BY <1>1, <1>3, MissionStep DEF Verdict
  <2>2. PICK x \in Engines : Answers(x, m) \/ pc[x] = "dead"
    BY <1>3, <2>1 DEF VerdictOwed
  <2>3. issued \subseteq issued'
    BY IssuedGrows
  <2>4. CASE Tick \/ UNCHANGED vars
    <3>1. Steady(x)
      BY <2>4 DEF Tick, Steady, vars, engineVars
    <3> QED BY <2>2, <2>3, <3>1, SteadyAnswers
  <2>5. ASSUME NEW e \in Engines, EngineStep(e)
        PROVE  Answers(x, m)' \/ pc'[x] = "dead"
    <3>1. CASE x = e
      BY <1>1, <1>3, <2>2, <2>5, <3>1, AnswersStay
    <3>2. CASE x # e
      <4>1. Steady(x)
        BY <2>5, <3>2, OwnMemory DEF Steady
      <4> QED BY <2>2, <2>3, <4>1, SteadyAnswers
    <3> QED BY <3>1, <3>2
  <2> QED BY <2>4, <2>5 DEF Next, Exited
<1> QED BY <1>2, <1>3

\* A mission whose items have all ended has its verdict, or a process that has
\* still to look at it or met a fatal error on the way, unless one has crashed:
\* shutting down in good order, taking over and deciding leave no mission open.
THEOREM VerdictsAlwaysOwed == Spec => []VerdictInvariant
<1>1. Init => VerdictInvariant
  BY DEF Init, StoreInit, VerdictInvariant, ChangedAtHead, FlightsIssued, OffIsCalm,
         VerdictOwed, MissionVerdictSound, AllTerminal, TerminalStatuses, Status, ItemsOf
<1>2. TypeOK /\ EpochInvariant /\ VerdictInvariant /\ [Next]_vars => VerdictInvariant'
  BY NextChangedAtHead, NextFlightsIssued, NextOffIsCalm, NextVerdictOwed, NextMissions
     DEF EpochInvariant, VerdictInvariant
<1> QED BY <1>1, <1>2, TypeCorrect, EpochSafe, PTL DEF Spec

-----------------------------------------------------------------------------
(* Receipts an earlier engine left open.                                   *)

\* The list of receipts to reconcile is made at recovery, shortened in the stage
\* that works it off, and dropped with the lease or the process.
LEMMA OwnTodo ==
    ASSUME TypeOK, NotifiedInTurn, NEW e \in Engines, EngineStep(e)
    PROVE  \/ todo'[e] = todo[e] /\ (pc[e] = "receipts" => pc'[e] = "receipts" \/ todo[e] = {})
           \/ Recover(e) \/ AckRecovery(e) \/ LeavePending(e)
           \/ BootFails(e) \/ Crash(e)
<1> USE DEF storeVars, ledgerVars, historyVars, engineVars, At, Goto, Throw, TypeOK
<1> DEFINE Same == todo'[e] = todo[e]
                   /\ (pc[e] = "receipts" => pc'[e] = "receipts" \/ todo[e] = {})
<1>1. CASE Acquire(e) \/ CloseReceipt(e) \/ ReceiptsDone(e)
  BY <1>1 DEF Acquire, CloseReceipt, ReceiptsDone
<1>2. CASE ApprovalStep(e)
  BY <1>2 DEF ApprovalStep, Decide, DecideDone, Park, ParkDone, Publish, PublishFails, PublishDone
<1>3. CASE Top(e) \/ Reconcile(e) \/ Project(e) \/ ProjectDone(e)
  BY <1>3 DEF Top, Reconcile, Project, ProjectDone
<1>4. CASE ClaimNothing(e) \/ Select(e) \/ Commit(e) \/ ClaimLosesLease(e)
  BY <1>4 DEF ClaimNothing, Select, Commit, ClaimLosesLease
<1>5. CASE Sleep(e) \/ Resume(e) \/ Drained(e) \/ Close(e) \/ Abort(e) \/ Renew(e)
  BY <1>5 DEF Sleep, Resume, Drained, Close, Abort, Renew
<1>6. CASE FlightStep(e)
  <2>1. UNCHANGED todo
    BY <1>6 DEF FlightStep, Begin, OpenReceipt, Grant, ProviderExits, ProviderBreaks,
                CheckLease, Settle, SettleRefused, Finally
  <2>2. UNCHANGED pc \/ pc[e] = "wait"
    BY <1>6 DEF FlightStep, Begin, OpenReceipt, Grant, ProviderExits, ProviderBreaks,
                CheckLease, Settle, SettleRefused, Finally
  <2> QED BY <2>1, <2>2
<1>7. CASE Notify(e)
  <2>1. UNCHANGED todo
    BY <1>7 DEF Notify
  <2>2. pc[e] # "receipts"
    BY <1>7 DEF Notify, NotifiedInTurn, AwaitPCs
  <2> QED BY <2>1, <2>2
<1> QED BY <1>1, <1>2, <1>3, <1>4, <1>5, <1>6, <1>7 DEF EngineStep, BootStep, LoopStep

LEMMA NextTodoAtReceipts ==
    ASSUME TypeOK, NotifiedInTurn, TodoAtReceipts, [Next]_vars
    PROVE  TodoAtReceipts'
<1> USE DEF storeVars, ledgerVars, historyVars, engineVars, At, Goto, Throw, TypeOK
<1>1. CASE Tick \/ UNCHANGED vars
  BY <1>1 DEF Tick, vars, TodoAtReceipts
<1>2. ASSUME NEW e \in Engines, EngineStep(e)
      PROVE  TodoAtReceipts'
  <2>1. pc'[e] # "receipts" => todo'[e] = {}
    <3>1. CASE Recover(e)
      BY <3>1 DEF Recover
    <3>2. CASE AckRecovery(e) \/ LeavePending(e)
      BY <3>2 DEF AckRecovery, LeavePending
    <3>3. CASE BootFails(e) \/ Crash(e)
      BY <3>3 DEF BootFails, Crash
    <3> QED BY <1>2, <3>1, <3>2, <3>3, OwnTodo DEF TodoAtReceipts
  <2> QED BY <1>2, <2>1, OwnMemory DEF TodoAtReceipts
<1> QED BY <1>1, <1>2 DEF Next, Exited

LEMMA NextNotifiedInTurn ==
    ASSUME TypeOK, NotifiedInTurn, [Next]_vars
    PROVE  NotifiedInTurn'
<1> USE DEF storeVars, ledgerVars, historyVars, engineVars, At, InTurn, Goto, TypeOK
<1>1. CASE Tick \/ UNCHANGED vars
  BY <1>1 DEF Tick, vars, NotifiedInTurn
<1>2. ASSUME NEW e \in Engines, EngineStep(e)
      PROVE  notify'[e] # {} => pc'[e] \in AwaitPCs \cup {"project"}
  <2>1. CASE Finally(e)
    BY <2>1 DEF Finally, FlightTurn, AwaitPCs
  <2>2. CASE Project(e)
    BY <2>2 DEF Project
  <2>3. CASE Notify(e) \/ Crash(e)
    BY <2>3 DEF Notify, Crash
  <2>4. CASE Acquire(e)
    BY <2>4 DEF Acquire, NotifiedInTurn, AwaitPCs
  <2>5. CASE BootStep(e) /\ ~Acquire(e)
    BY <2>5 DEF BootStep, Recover, CloseReceipt, AckRecovery, LeavePending, ReceiptsDone, BootFails
  <2>6. CASE ApprovalStep(e)
    BY <2>6 DEF ApprovalStep, Decide, DecideDone, Park, ParkDone, Publish, PublishFails, PublishDone
  <2>7. CASE Top(e) \/ Reconcile(e) \/ ProjectDone(e)
    BY <2>7 DEF Top, Reconcile, ProjectDone
  <2>8. CASE ClaimNothing(e) \/ Select(e) \/ Commit(e) \/ ClaimLosesLease(e)
    BY <2>8 DEF ClaimNothing, Select, Commit, ClaimLosesLease
  <2>9. CASE Sleep(e) \/ Resume(e) \/ Drained(e) \/ Close(e) \/ Abort(e) \/ Renew(e)
    BY <2>9 DEF Sleep, Resume, Drained, Close, Abort, Renew
  <2>10. CASE FlightStep(e) /\ ~Finally(e)
    BY <2>10 DEF FlightStep, FlightTurn, FlightCont, Begin, OpenReceipt, Grant, ProviderExits,
                 ProviderBreaks, CheckLease, Settle, SettleRefused
  <2> QED BY <1>2, <2>1, <2>2, <2>3, <2>4, <2>5, <2>6, <2>7, <2>8, <2>9, <2>10
          DEF EngineStep, BootStep, LoopStep
<1>3. ASSUME NEW e \in Engines, EngineStep(e)
      PROVE  NotifiedInTurn'
  BY <1>2, <1>3, OwnMemory DEF NotifiedInTurn
<1> QED BY <1>1, <1>3 DEF Next, Exited

\* Nothing is journaled or opened that the holder of the lease would have to
\* reconcile, and nothing acknowledged is taken back.
LedgerCalm ==
    /\ UNCHANGED <<held, recovered, opened>> /\ acked \subseteq acked'
    /\ LeaseKept /\ BootKept

LEMMA LedgerCalmOrNot ==
    ASSUME TypeOK, [Next]_vars
    PROVE  LedgerCalm \/ \E e \in Engines : Acquire(e) \/ Recover(e) \/ OpenReceipt(e)
<1>1. ASSUME NEW e \in Engines, Commit(e) PROVE LedgerCalm
  BY <1>1 DEF Commit, LedgerCalm, LeaseKept, BootKept, Goto, At, TypeOK, ledgerVars, storeVars
<1>2. ASSUME Routine, UNCHANGED <<recovered, opened>>, acked \subseteq acked' PROVE LedgerCalm
  BY <1>2 DEF Routine, LedgerCalm
<1>3. CASE Silent
  BY <1>1, <1>2, <1>3, RoutineOrNot DEF Silent, LedgerKept
<1>4. ASSUME NEW e \in Engines,
             CloseReceipt(e) \/ AckRecovery(e) \/ Grant(e) \/ ProviderExits(e) \/ Settle(e)
      PROVE  UNCHANGED <<recovered, opened>> /\ acked \subseteq acked'
  BY <1>4 DEF CloseReceipt, AckRecovery, Grant, ProviderExits, Settle, storeVars, ledgerVars
<1> QED BY <1>1, <1>2, <1>3, <1>4, RoutineOrNot, SilentOrNot

LEMMA NextReceiptsOwed ==
    ASSUME TypeOK, NotifiedInTurn, ReceiptsOwed, [Next]_vars
    PROVE  ReceiptsOwed'
<1> USE DEF storeVars, ledgerVars, historyVars, engineVars, TypeOK, StoreTypeOK, Lease
<1>1. SUFFICES ASSUME NEW e \in Engines, HoldsLease(e)', pc'[e] \notin {"boot", "dead"},
                      NEW p \in opened', p[1] \in recovered', p[2] < held'[e]
               PROVE  p[1] \in acked' \cup todo'[e]
  BY DEF ReceiptsOwed
<1>2. ASSUME NEW x \in Engines, Acquire(x) PROVE FALSE
  <2>1. lease'.owner = x /\ pc'[x] = "boot"
    BY <1>2 DEF Acquire, AcquireLease, Goto
  <2> QED BY <1>1, <2>1 DEF HoldsLease, LeaseActive
<1>3. ASSUME NEW x \in Engines, Recover(x) PROVE p[1] \in acked' \cup todo'[e]
  <2>1. UNCHANGED <<lease, acked>> /\ lease.owner = x /\ todo'[x] = recovered' \ acked
    BY <1>3 DEF Recover, RecoverTxn, LeaseActive
  <2>2. e = x
    BY <1>1, <2>1 DEF HoldsLease, LeaseActive
  <2> QED BY <1>1, <2>1, <2>2
<1>4. ASSUME NEW x \in Engines, OpenReceipt(x) PROVE p[1] \in acked' \cup todo'[e]
  <2>1. /\ UNCHANGED <<lease, recovered, acked, pc, held, todo>>
        /\ \E a : opened' = opened \cup {<<a, lease.epoch>>}
    BY <1>4 DEF OpenReceipt
  <2>2. HoldsLease(e) /\ held[e] = lease.epoch
    BY <1>1, <2>1 DEF HoldsLease, LeaseActive
  <2>3. p \in opened
    BY <1>1, <2>1, <2>2
  <2> QED BY <1>1, <2>1, <2>2, <2>3 DEF ReceiptsOwed
<1>5. CASE LedgerCalm
  <2>1. HoldsLease(e) /\ pc[e] \notin {"boot", "dead"}
    BY <1>1, <1>5 DEF LedgerCalm, LeaseKept, BootKept, HoldsLease, LeaseActive
  <2>2. p \in opened /\ p[1] \in acked \cup todo[e] /\ acked \subseteq acked'
    BY <1>1, <1>5, <2>1 DEF LedgerCalm, ReceiptsOwed
  <2>3. CASE AckRecovery(e)
    BY <2>2, <2>3 DEF AckRecovery
  <2>4. CASE LeavePending(e)
    <3>1. PICK a \in todo[e] : /\ \A q \in opened : q[1] = a => q[2] >= held[e]
                               /\ todo' = [todo EXCEPT ![e] = @ \ {a}]
      BY <2>4 DEF LeavePending
    <3>2. p[1] # a
      BY <1>1, <1>5, <2>2, <3>1 DEF LedgerCalm
    <3> QED BY <2>2, <3>1, <3>2
  <2>5. CASE BootFails(e) \/ Crash(e) \/ Recover(e)
    BY <1>1, <1>3, <2>1, <2>5 DEF BootFails, Crash, Goto
  <2>6. CASE todo'[e] = todo[e]
    BY <2>2, <2>6
  <2>7. todo'[e] = todo[e] \/ EngineStep(e)
    BY OwnMemory DEF Next, Exited, Tick, vars
  <2> QED BY <2>3, <2>4, <2>5, <2>6, <2>7, OwnTodo
<1> QED BY <1>2, <1>3, <1>4, <1>5, LedgerCalmOrNot

\* A receipt that an earlier engine opened for a journaled attempt is acknowledged
\* or on the list of the engine that took over, from its recovery on: no stage of
\* the boot drops one, and a deposed engine cannot slip one in behind its back.
THEOREM ReceiptsAlwaysOwed == Spec => []RecoveryInvariant
<1>1. Init => RecoveryInvariant
  BY DEF Init, StoreInit, RecoveryInvariant, TodoAtReceipts, NotifiedInTurn, ReceiptsOwed
<1>2. TypeOK /\ RecoveryInvariant /\ [Next]_vars => RecoveryInvariant'
  BY NextTodoAtReceipts, NextNotifiedInTurn, NextReceiptsOwed DEF RecoveryInvariant
<1> QED BY <1>1, <1>2, TypeCorrect, PTL DEF Spec

\* Before the first iteration of an engine that holds the lease, the dispatches of
\* earlier engines that it or they journaled are all acknowledged.
BootSettlesReceipts ==
    \A e \in Engines : HoldsLease(e) /\ pc[e] \notin {"boot", "receipts", "dead"} =>
        \A p \in opened : p[1] \in recovered /\ p[2] < held[e] => p[1] \in acked

\* The safety half of OrphanReceiptsAcknowledged.
THEOREM BootAlwaysSettlesReceipts == Spec => []BootSettlesReceipts
<1>1. RecoveryInvariant => BootSettlesReceipts
  BY DEF RecoveryInvariant, TodoAtReceipts, ReceiptsOwed, BootSettlesReceipts
<1> QED BY <1>1, ReceiptsAlwaysOwed, PTL

-----------------------------------------------------------------------------
\* Everything at once: the invariant the safety results rest on.
THEOREM Safe == Spec => []SafetyInvariant
<1>1. TypeOK /\ StoreInvariant /\ EpochInvariant /\ ReceiptInvariant /\ RecoveryInvariant
      /\ PoolInvariant /\ VerdictInvariant /\ RequestsRest /\ FewMoves => SafetyInvariant
  BY DEF SafetyInvariant
<1> QED BY <1>1, TypeCorrect, StoreSafe, EpochSafe, ReceiptsSafe, PoolSafe, VerdictsAlwaysOwed,
        ReceiptsAlwaysOwed, RequestsAlwaysRest, RowsMoveFinitely, PTL

-----------------------------------------------------------------------------
(* Every iteration ends.  The measure: rows, approvals and closed receipts *)
(* never go back, and each goes forward a few times in its life; else the  *)
(* process goes on to a later stage; else it has less to do in this one.   *)

Stage(l) ==
    CASE l = "off" -> 0      [] l = "boot" -> 1       [] l = "receipts" -> 2
      [] l = "top" -> 3      [] l = "reconcile" -> 4  [] l = "decide" -> 5
      [] l = "park" -> 6     [] l = "publish" -> 7    [] l = "repropagate" -> 8
      [] l = "project" -> 9  [] l = "claim" -> 10     [] l = "commit" -> 11
      [] l = "wait" -> 12    [] l = "woken" -> 13     [] l = "drain" -> 14
      [] l = "close" -> 15   [] l = "closed" -> 16    [] OTHER -> 17

Asked(s) == CASE s = "none" -> 0 [] s = "outbox" -> 1 [] s = "asked" -> 2 [] OTHER -> 3

Turn(p) ==
    CASE p = "claimed" -> 0   [] p = "admitted" -> 1 [] p = "granting" -> 2
      [] p = "executing" -> 3 [] p = "returned" -> 4 [] p = "settling" -> 5 [] OTHER -> 6

NeverBack ==
    /\ \A i \in Items : row'[i] = row[i] \/ row'[i].revision > row[i].revision
    /\ \A i \in Items : approval'[i] = approval[i] \/ Asked(approval'[i]) > Asked(approval[i])
    /\ orphaned \subseteq orphaned'

Shrinks(S, T) == T \subseteq S /\ T # S

\* One flight ends or moves on.
FlightForward(e) ==
    \E f \in flight[e] :
        \/ flight'[e] = flight[e] \ {f}
        \/ \E g \in flight'[e] : /\ Turn(g.phase) > Turn(f.phase)
                                 /\ flight'[e] = (flight[e] \ {f}) \cup {g}

\* In this order: a flight may leave a mission to notify, for example.
LessToDo(e) ==
    \/ Shrinks(todo[e], todo'[e]) /\ UNCHANGED <<flight, changed, notify>>
    \/ UNCHANGED todo /\ FlightForward(e)
    \/ UNCHANGED <<todo, flight>> /\ Shrinks(changed[e], changed'[e])
    \/ UNCHANGED <<todo, flight, changed>> /\ Shrinks(notify[e], notify'[e])
    \/ UNCHANGED <<todo, flight, changed, notify>> /\ Shrinks(cand[e], cand'[e])

Forward(e) ==
    \/ <<row, approval, orphaned>>' # <<row, approval, orphaned>>
    \/ Stage(pc'[e]) > Stage(pc[e])
    \/ pc'[e] = pc[e] /\ LessToDo(e)

IterationEnds(e) == pc[e] \in {"wait", "woken"} /\ pc'[e] = "top"

\* Whatever a process does, but renew its lease, takes it nearer to the end of the
\* iteration, and no process takes back what the store has got to: a decision, a
\* failed publication or a lost lease holds no iteration up.
EveryIterationEnds ==
    [][/\ NeverBack
       /\ \A e \in Engines :
            EngineStep(e) => Forward(e) \/ IterationEnds(e) \/ Renew(e)]_vars

LEMMA NextNeverBack ==
    ASSUME TypeOK, [Next]_vars
    PROVE  NeverBack
<1> USE DEF TypeOK, StoreTypeOK, Row
<1> DEFINE Onward(i) ==
        /\ row'[i] = row[i] \/ row'[i].revision > row[i].revision
        /\ approval'[i] = approval[i] \/ Asked(approval'[i]) > Asked(approval[i])
<1>1. ASSUME NEW i \in Items PROVE Onward(i)
  <2>1. row[i].revision \in Nat /\ row[i].revision + 1 > row[i].revision
    OBVIOUS
  <2>2. CASE Quiet
    BY <2>2 DEF Quiet
  <2>3. ASSUME NEW e \in Engines, StoreStep(e) PROVE Onward(i)
    <3>1. CASE Recover(e) \/ Reconcile(e)
      BY <2>1, <3>1 DEF Recover, RecoverTxn, Reconcile, ReconcileTxn, Moved
    <3>2. CASE Decide(e)
      <4>1. PICK j \in Guarded, verdict \in Verdicts : DecideTxn(j, verdict)
        BY <3>2 DEF Decide
      <4>2. Asked(verdict) > Asked("asked")
        BY DEF Asked, Verdicts
      <4> QED BY <2>1, <4>1, <4>2 DEF DecideTxn, Moved
    <3>3. CASE Park(e)
      <4>1. Asked("outbox") > Asked("none")
        BY DEF Asked
      <4> QED BY <2>1, <3>3, <4>1, ParkOne DEF Parks, Moved
    <3>4. CASE Publish(e)
      <4>1. Asked("asked") > Asked("outbox")
        BY DEF Asked
      <4> QED BY <3>4, <4>1 DEF Publish
    <3>5. CASE Commit(e)
      BY <2>1, <3>5 DEF Commit, ClaimTxn
    <3>6. CASE Settle(e)
      BY <2>1, <3>6 DEF Settle, SettleTxn, Moved
    <3> QED BY <2>3, <3>1, <3>2, <3>3, <3>4, <3>5, <3>6 DEF StoreStep
  <2> QED BY <2>2, <2>3, QuietOrStore
<1>2. orphaned \subseteq orphaned'
  BY SilentOrNot DEF Silent, LedgerKept, Recover, CloseReceipt, AckRecovery, OpenReceipt, Grant,
     ProviderExits, Settle, ledgerVars
<1> QED BY <1>1, <1>2 DEF NeverBack

LEMMA BootForward ==
    ASSUME TypeOK, NEW e \in Engines, BootStep(e)
    PROVE  Forward(e)
<1> USE DEF TypeOK, Forward, At, Goto, Throw, ledgerVars, engineVars, storeVars
<1>1. CASE Acquire(e) \/ Recover(e) \/ ReceiptsDone(e) \/ BootFails(e)
  BY <1>1 DEF Acquire, Recover, ReceiptsDone, BootFails, Stage
<1>2. CASE CloseReceipt(e)
  BY <1>2 DEF CloseReceipt, Unfinished
<1>3. CASE AckRecovery(e) \/ LeavePending(e)
  BY <1>3 DEF AckRecovery, LeavePending, LessToDo, Shrinks
<1> QED BY <1>1, <1>2, <1>3 DEF BootStep

LEMMA LoopForward ==
    ASSUME TypeOK, NEW e \in Engines, LoopStep(e) \/ Abort(e) \/ Crash(e)
    PROVE  Forward(e) \/ IterationEnds(e)
<1> USE DEF TypeOK, StoreTypeOK, Row, Forward, At, Goto, Throw
<1>1. CASE Top(e) \/ Reconcile(e) \/ DecideDone(e) \/ ParkDone(e) \/ PublishFails(e) \/ PublishDone(e)
  BY <1>1 DEF Top, Reconcile, DecideDone, ParkDone, PublishFails, PublishDone, Stage
<1>2. CASE Decide(e)
  <2>1. PICK i \in Guarded, verdict \in Verdicts : DecideTxn(i, verdict)
    BY <1>2 DEF Decide
  <2>2. approval'[i] = verdict /\ approval[i] = "asked"
    BY <2>1, GuardedAssumption DEF DecideTxn
  <2> QED BY <2>2 DEF Verdicts
<1>3. CASE Park(e)
  BY <1>3 DEF Park, LessToDo, Shrinks
<1>4. CASE Publish(e)
  <2>1. PICK i \in Guarded : approval[i] = "outbox" /\ approval' = [approval EXCEPT ![i] = "asked"]
    BY <1>4 DEF Publish
  <2>2. approval'[i] # approval[i]
    BY <2>1, GuardedAssumption
  <2> QED BY <2>2
<1>5. CASE Notify(e)
  <2>1. pc'[e] = pc[e] \/ Stage(pc'[e]) > Stage(pc[e]) \/ pc[e] = "close"
    BY <1>5 DEF Notify, AwaitPCs, Stage, PCs
  <2>2. pc'[e] = pc[e] \/ Stage(pc'[e]) > Stage(pc[e])
    BY <1>5, <2>1 DEF Notify
  <2>3. Shrinks(notify[e], notify'[e]) /\ UNCHANGED <<todo, flight, changed>>
    BY <1>5 DEF Notify, Shrinks
  <2> QED BY <2>2, <2>3 DEF LessToDo
<1>6. CASE Project(e)
  BY <1>6 DEF Project, CheckMission, LessToDo, Shrinks
<1>7. CASE ProjectDone(e) \/ ClaimNothing(e) \/ Select(e) \/ ClaimLosesLease(e)
  BY <1>7 DEF ProjectDone, ClaimNothing, Select, ClaimLosesLease, Stage
<1>8. CASE Commit(e)
  <2>1. PICK i \in Items : row'[i].revision = row[i].revision + 1
    BY <1>8 DEF Commit, ClaimTxn
  <2>2. row'[i].revision # row[i].revision
    BY <2>1
  <2> QED BY <2>2
<1>9. CASE Sleep(e) \/ Resume(e) \/ Drained(e) \/ Close(e) \/ Abort(e)
  BY <1>9 DEF Sleep, Resume, Drained, Close, Abort, Stage, IterationEnds
<1>10. CASE Crash(e)
  BY <1>10 DEF Crash, Alive, Stage, PCs
<1> QED BY <1>1, <1>2, <1>3, <1>4, <1>5, <1>6, <1>7, <1>8, <1>9, <1>10 DEF LoopStep, ApprovalStep

LEMMA AdvanceForward ==
    ASSUME TypeOK, NEW e \in Engines, NEW f \in flight[e], NEW p, NEW v,
           Advance(e, f, p, v), Turn(p) > Turn(f.phase)
    PROVE  FlightForward(e)
<1> DEFINE g == [attempt |-> f.attempt, phase |-> p, verdict |-> v]
<1>1. flight'[e] = (flight[e] \ {f}) \cup {g} /\ g.phase = p
  BY DEF TypeOK, Advance
<1> HIDE DEF g
<1> QED BY <1>1 DEF FlightForward

LEMMA FlightStepForward ==
    ASSUME TypeOK, NEW e \in Engines, FlightStep(e)
    PROVE  Forward(e)
<1> USE DEF FlightTurn, FlightCont
<1>1. FlightForward(e)
  <2>1. CASE Begin(e) \/ OpenReceipt(e) \/ Grant(e)
    BY <2>1, AdvanceForward DEF Begin, OpenReceipt, Grant, Turn
  <2>2. CASE ProviderExits(e) \/ ProviderBreaks(e) \/ CheckLease(e)
    BY <2>2, AdvanceForward DEF ProviderExits, ProviderBreaks, CheckLease, Turn
  <2>3. CASE Settle(e) \/ SettleRefused(e)
    BY <2>3, AdvanceForward DEF Settle, SettleRefused, Turn
  <2>4. CASE Finally(e)
    BY <2>4 DEF Finally, FlightForward, TypeOK
  <2> QED BY <2>1, <2>2, <2>3, <2>4 DEF FlightStep
<1>2. UNCHANGED todo
  BY DEF FlightStep, Begin, OpenReceipt, Grant, ProviderExits, ProviderBreaks, CheckLease,
         Settle, SettleRefused, Finally
<1>3. pc'[e] = pc[e] \/ Stage(pc'[e]) > Stage(pc[e])
  BY DEF TypeOK, Stage, FlightStep, Begin, OpenReceipt, Grant, ProviderExits, ProviderBreaks,
         CheckLease, Settle, SettleRefused, Finally
<1> QED BY <1>1, <1>2, <1>3 DEF Forward, LessToDo

\* Action property: no step of a process is in vain.  With the bounds on what a row,
\* an approval and a receipt go through (FewMoves, OneAttemptPerItem, ReceiptsAgree),
\* an iteration of the scheduler over a finite store ends.
THEOREM IterationsEnd == Spec => EveryIterationEnds
<1> DEFINE Goes == /\ NeverBack
                   /\ \A e \in Engines :
                        EngineStep(e) => Forward(e) \/ IterationEnds(e) \/ Renew(e)
<1>1. TypeOK /\ [Next]_vars => [Goes]_vars
  BY NextNeverBack, BootForward, LoopForward, FlightStepForward DEF EngineStep
<1>2. Spec => [][Goes]_vars
  BY <1>1, TypeCorrect, PTL DEF Spec
<1> QED BY <1>2, PTL DEF EveryIterationEnds
=============================================================================
