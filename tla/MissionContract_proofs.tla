------------------------ MODULE MissionContract_proofs ------------------------
(***************************************************************************)
(* The mission engine implements DispatchContract and keeps                *)
(* DependencyContract: step by step, what it does to items and missions is *)
(* what each of the two contracts allows.                                  *)
(***************************************************************************)
EXTENDS MissionReceipts_proofs

-----------------------------------------------------------------------------
(* The phases of single items.                                             *)

Attempted(i) == \E a \in issued : a.item = i

LEMMA WaitingPhase ==
    ASSUME NEW i \in Items, Status(i) \in {"pending", "parked"}, ~Attempted(i)
    PROVE  PhaseOf(i) = "waiting"
BY DEF PhaseOf, Attempted

\* Where neither the row nor the history of attempts moves, no phase does.
LEMMA SamePhase ==
    ASSUME NEW i \in Items, row'[i] = row[i], Attempted(i)' <=> Attempted(i)
    PROVE  PhaseOf(i)' = PhaseOf(i)
<1>1. Status(i)' = Status(i)
  BY DEF Status
<1>2. (\E a \in issued' : a.item = i) <=> (\E a \in issued : a.item = i)
  BY DEF Attempted
<1>3. QED
  BY <1>1, <1>2 DEF PhaseOf

-----------------------------------------------------------------------------
(* Reconciliation refuses for a cause: Doomed is the least closed set, so  *)
(* each member of it has an upstream that will never be done.              *)

LEMMA DoomedClosed ==
    ASSUME NEW j \in Items, Status(j) = "pending",
           \E d \in Deps[j] : d \in Doomed \/ Status(d) \in {"failed", "blocked"}
    PROVE  j \in Doomed
<1>1. SUFFICES ASSUME NEW S \in SUBSET WithStatus({"pending"}), ClosedUpward(S)
               PROVE  j \in S
  BY DEF Doomed, WithStatus
<1>2. Doomed \subseteq S
  BY <1>1 DEF Doomed
<1>3. QED
  BY <1>1, <1>2 DEF ClosedUpward, WithStatus

LEMMA DoomedForACause ==
    ASSUME NEW i \in Doomed
    PROVE  \E d \in Deps[i] : d \in Doomed \/ Status(d) \in {"failed", "blocked"}
<1>1. SUFFICES ASSUME ~ \E d \in Deps[i] : d \in Doomed \/ Status(d) \in {"failed", "blocked"}
               PROVE  FALSE
  OBVIOUS
<1> DEFINE S == Doomed \ {i}
<1>2. S \in SUBSET WithStatus({"pending"})
  BY DEF Doomed
<1>3. ClosedUpward(S)
  <2>1. SUFFICES ASSUME NEW j \in WithStatus({"pending"}),
                        \E d \in Deps[j] : d \in S \/ Status(d) \in {"failed", "blocked"}
                 PROVE  j \in S
    BY DEF ClosedUpward
  <2>2. j \in Doomed
    BY <2>1, DoomedClosed DEF WithStatus
  <2>3. j # i
    BY <1>1, <2>1
  <2>4. QED
    BY <2>2, <2>3
<1>4. i \in S
  BY <1>2, <1>3 DEF Doomed
<1>5. QED
  BY <1>4

LEMMA ReconcileRefuses ==
    ASSUME TypeOK, StoreInvariant, NEW e \in Engines, Reconcile(e)
    PROVE  Contract!Refuse(Doomed)
<1> USE DEF TypeOK, StoreTypeOK
<1>1. /\ row' = [i \in Items |-> IF i \in Doomed THEN Moved(i, "blocked") ELSE row[i]]
      /\ UNCHANGED <<issued, mission>>
  BY DEF Reconcile, ReconcileTxn, historyVars
<1>2. \A i \in Doomed : i \in Items /\ Status(i) = "pending" /\ ~Attempted(i)
  BY DEF Doomed, WithStatus, StoreInvariant, AttemptedNotPending, Attempted
<1>3. \A i \in Doomed : PhaseOf(i) = "waiting"
  BY <1>2, WaitingPhase
<1>4. \A d \in Items : Status(d) \in {"failed", "blocked"} => PhaseOf(d) \in {"failed", "refused"}
  BY DEF PhaseOf
<1>5. \A i \in Doomed : \E d \in Deps[i] : d \in Doomed \/ PhaseOf(d) \in {"failed", "refused"}
  BY <1>2, <1>4, DoomedForACause, DepsAssumption
<1>6. \A i \in Items : PhaseOf(i)' = IF i \in Doomed THEN "refused" ELSE PhaseOf(i)
  <2>1. SUFFICES ASSUME NEW i \in Items
                 PROVE  PhaseOf(i)' = IF i \in Doomed THEN "refused" ELSE PhaseOf(i)
    OBVIOUS
  <2>2. CASE i \in Doomed
    <3>1. Status(i)' = "blocked"
      BY <1>1, <2>2 DEF Moved, Status
    <3>2. QED
      BY <2>2, <3>1 DEF PhaseOf
  <2>3. CASE i \notin Doomed
    BY <1>1, <2>3, SamePhase DEF Attempted
  <2>4. QED
    BY <2>2, <2>3
<1>7. \A i \in Doomed : Deps[i] \subseteq Items
  BY <1>2, DepsAssumption
<1>8. QED
  BY <1>1, <1>2, <1>3, <1>5, <1>6, <1>7 DEF Contract!Refuse

-----------------------------------------------------------------------------
(* The other steps that move a row.                                        *)

LEMMA RecoverInterrupts ==
    ASSUME TypeOK, StoreInvariant, NEW e \in Engines, Recover(e)
    PROVE  Contract!Interrupt
<1> USE DEF TypeOK, StoreTypeOK
<1>1. /\ row' = [i \in Items |-> IF Status(i) = "running" THEN Moved(i, "parked") ELSE row[i]]
      /\ UNCHANGED <<issued, mission>>
  BY DEF Recover, RecoverTxn, historyVars
<1>2. \A i \in Items : PhaseOf(i)' = IF PhaseOf(i) = "inflight" THEN "held" ELSE PhaseOf(i)
  <2>1. SUFFICES ASSUME NEW i \in Items
                 PROVE  PhaseOf(i)' = IF PhaseOf(i) = "inflight" THEN "held" ELSE PhaseOf(i)
    OBVIOUS
  <2>2. CASE Status(i) = "running"
    <3>1. Status(i)' = "parked"
      BY <1>1, <2>2 DEF Moved, Status
    <3>2. \E a \in issued' : a.item = i
      BY <1>1, <2>2 DEF StoreInvariant, ClaimsIssued
    <3>3. QED
      BY <2>2, <3>1, <3>2 DEF PhaseOf
  <2>3. CASE Status(i) # "running"
    <3>1. PhaseOf(i) # "inflight"
      BY <2>3 DEF PhaseOf
    <3>2. PhaseOf(i)' = PhaseOf(i)
      BY <1>1, <2>3, SamePhase DEF Attempted
    <3>3. QED
      BY <3>1, <3>2
  <2>4. QED
    BY <2>2, <2>3
<1>3. QED
  BY <1>1, <1>2 DEF Contract!Interrupt

\* A decision blocks its item, which was never attempted, or leaves it waiting.
LEMMA DecideRefuses ==
    ASSUME TypeOK, StoreInvariant, NEW e \in Engines, Decide(e)
    PROVE  (\E S \in SUBSET Items : Contract!Refuse(S)) \/ UNCHANGED Contract!vars
<1> USE DEF TypeOK, StoreTypeOK
<1>1. PICK i \in Guarded, verdict \in Verdicts : DecideTxn(i, verdict)
  BY DEF Decide
<1>2. UNCHANGED <<issued, mission>>
  BY DEF Decide, historyVars
<1>3. i \in Items /\ ~Attempted(i)
  BY <1>1, GuardedAssumption
     DEF DecideTxn, StoreInvariant, AttemptedNotPending, Attempted
<1>4. \A j \in Items : j # i => PhaseOf(j)' = PhaseOf(j)
  <2>1. \A j \in Items : j # i => row'[j] = row[j]
    BY <1>1 DEF DecideTxn
  <2>2. QED
    BY <1>2, <2>1, SamePhase DEF Attempted
<1>5. CASE Status(i) \notin {"parked", "pending"}
  <2>1. row'[i] = row[i]
    BY <1>1, <1>5 DEF DecideTxn
  <2>2. PhaseOf(i)' = PhaseOf(i)
    BY <1>2, <1>3, <2>1, SamePhase DEF Attempted
  <2>3. QED
    BY <1>2, <1>4, <2>2 DEF Contract!vars
<1>6. CASE Status(i) \in {"parked", "pending"}
  <2>1. PhaseOf(i) = "waiting"
    BY <1>3, <1>6, WaitingPhase
  <2>2. Status(i)' = StatusAfter(verdict)
    BY <1>1, <1>3, <1>6 DEF DecideTxn, Moved, Status
  <2>3. CASE StatusAfter(verdict) = "blocked"
    <3>1. PhaseOf(i)' = "refused"
      BY <2>2, <2>3 DEF PhaseOf
    <3>2. Contract!Refuse({i})
      BY <1>1, <1>2, <1>3, <1>4, <2>1, <3>1 DEF Contract!Refuse
    <3>3. QED
      BY <1>3, <3>2
  <2>4. CASE StatusAfter(verdict) # "blocked"
    <3>1. Status(i)' \in {"pending", "parked"}
      BY <2>2, <2>4 DEF StatusAfter
    <3>2. PhaseOf(i)' = "waiting"
      BY <1>2, <1>3, <3>1 DEF PhaseOf, Attempted
    <3>3. QED
      BY <1>2, <1>4, <2>1, <3>2 DEF Contract!vars
  <2>5. QED
    BY <2>3, <2>4
<1>7. QED
  BY <1>5, <1>6

LEMMA ParkWaits ==
    ASSUME TypeOK, StoreInvariant, NEW e \in Engines, Park(e) \/ Publish(e)
    PROVE  UNCHANGED Contract!vars
<1> USE DEF TypeOK, StoreTypeOK
<1>1. UNCHANGED <<issued, mission>>
  BY DEF Park, Publish, historyVars
<1>2. CASE Park(e)
  <2>1. CASE UNCHANGED <<row, approval>>
    BY <1>1, <2>1, SamePhase DEF Contract!vars, Attempted
  <2>2. ASSUME NEW i \in Items, Parks(i) PROVE UNCHANGED Contract!vars
    <3>1. Status(i) = "pending" /\ ~Attempted(i)
      BY <2>2 DEF Parks, StoreInvariant, AttemptedNotPending, Attempted
    <3>2. \A j \in Items : j # i => PhaseOf(j)' = PhaseOf(j)
      <4>1. \A j \in Items : j # i => row'[j] = row[j]
        BY <2>2 DEF Parks
      <4> QED BY <1>1, <4>1, SamePhase DEF Attempted
    <3>3. Status(i)' = "parked"
      BY <2>2 DEF Parks, Moved, Status
    <3>4. PhaseOf(i) = "waiting" /\ PhaseOf(i)' = "waiting"
      BY <1>1, <3>1, <3>3 DEF PhaseOf, Attempted
    <3> QED BY <1>1, <3>2, <3>4 DEF Contract!vars
  <2> QED BY <1>2, <2>1, <2>2, ParkOne
<1>3. CASE Publish(e)
  BY <1>1, <1>3, SamePhase DEF Publish, Contract!vars, Attempted
<1>4. QED
  BY <1>2, <1>3

LEMMA CommitDispatches ==
    ASSUME TypeOK, StoreInvariant, NEW e \in Engines, Commit(e)
    PROVE  \E i \in Items : Contract!Dispatch(i)
<1> USE DEF TypeOK, StoreTypeOK
<1>1. PICK i \in cand[e] : ClaimTxn(i, e, held[e]) /\ issued' = issued \cup {ClaimFor(i)}
  BY DEF Commit
<1>2. i \in Items /\ Claimable(i) /\ ClaimFor(i).item = i
  BY <1>1 DEF ClaimTxn, ClaimFor
<1>3. UNCHANGED mission
  BY DEF Commit
<1>4. PhaseOf(i) = "waiting"
  BY <1>2, WaitingPhase DEF Claimable, StoreInvariant, AttemptedNotPending, Attempted
<1>5. \A d \in Deps[i] : d \in Items /\ PhaseOf(d) = "done"
  BY <1>2, DepsAssumption DEF Claimable, DepsDone, PhaseOf
<1>6. Status(i)' = "running"
  BY <1>1, <1>2 DEF ClaimTxn, Status
<1>7. PhaseOf(i)' = "inflight"
  BY <1>6 DEF PhaseOf
<1>8. \A j \in Items : j # i => PhaseOf(j)' = PhaseOf(j)
  <2>1. SUFFICES ASSUME NEW j \in Items, j # i
                 PROVE  PhaseOf(j)' = PhaseOf(j)
    OBVIOUS
  <2>2. row'[j] = row[j]
    BY <1>1, <2>1 DEF ClaimTxn
  <2>3. Attempted(j)' <=> Attempted(j)
    BY <1>1, <1>2, <2>1 DEF Attempted
  <2>4. QED
    BY <2>2, <2>3, SamePhase
<1>9. Contract!Dispatch(i)
  BY <1>2, <1>3, <1>4, <1>5, <1>7, <1>8 DEF Contract!Dispatch, Claimable, MissionOpen
<1>10. QED
  BY <1>2, <1>9

LEMMA SettleReports ==
    ASSUME TypeOK, StoreInvariant, NEW e \in Engines, Settle(e)
    PROVE  \E i \in Items : Contract!Report(i)
<1> USE DEF TypeOK, StoreTypeOK
<1>1. PICK f \in flight[e] : f.phase = "settling" /\ SettleTxn(f.attempt, e, held[e], f.verdict)
  BY DEF Settle, FlightCont
<1>2. UNCHANGED <<issued, mission>>
  BY DEF Settle
<1> DEFINE i == f.attempt.item
<1>3. i \in Items /\ f.verdict \in {"done", "failed", "parked"}
  BY <1>1 DEF Flight, FlightVerdicts, Attempt
<1>4. Status(i) = "running" /\ Attempted(i)
  BY <1>1, <1>3 DEF SettleTxn, ClaimLive, StoreInvariant, ClaimsIssued, Attempted
<1>5. Status(i)' = f.verdict
  BY <1>1, <1>3 DEF SettleTxn, Moved, Status
<1>6. PhaseOf(i) = "inflight"
  BY <1>4 DEF PhaseOf
<1>7. PhaseOf(i)' \in {"done", "failed", "held"}
  BY <1>2, <1>3, <1>4, <1>5 DEF PhaseOf, Attempted
<1>8. \A j \in Items : j # i => row'[j] = row[j]
  BY <1>1 DEF SettleTxn
<1>9. \A j \in Items : j # i => PhaseOf(j)' = PhaseOf(j)
  BY <1>2, <1>8, SamePhase DEF Attempted
<1>10. Contract!Report(i)
  BY <1>2, <1>3, <1>6, <1>7, <1>9 DEF Contract!Report
<1>11. QED
  BY <1>3, <1>10

-----------------------------------------------------------------------------
(* Verdicts.                                                               *)

LEMMA CheckConcludes ==
    ASSUME TypeOK, UNCHANGED <<row, issued>>, NEW e \in Engines, NEW m \in Missions,
           CheckMission(e, m)
    PROVE  Contract!Conclude(m) \/ UNCHANGED Contract!vars
<1>1. \A i \in Items : PhaseOf(i)' = PhaseOf(i)
  BY SamePhase DEF Attempted
<1>2. CASE ~AllTerminal(m)
  BY <1>1, <1>2 DEF CheckMission, Contract!vars
<1>3. CASE AllTerminal(m)
  <2>1. \A i \in ItemsOf(m) : /\ i \in Items
                              /\ PhaseOf(i) \in {"done", "failed", "refused"}
                              /\ PhaseOf(i) = "done" <=> Status(i) \notin {"failed", "blocked"}
    BY <1>3 DEF AllTerminal, TerminalStatuses, PhaseOf, ItemsOf
  <2>2. Verdict(m) = IF \A i \in ItemsOf(m) : PhaseOf(i) = "done" THEN "completed" ELSE "failed"
    BY <2>1 DEF Verdict
  <2>3. mission' = [mission EXCEPT ![m] = Verdict(m)] /\ ItemsOf(m) # {}
    BY <1>3 DEF CheckMission, AllTerminal
  <2>4. QED
    BY <1>1, <2>1, <2>2, <2>3 DEF Contract!Conclude, Contract!ItemsOf, Contract!Final, ItemsOf
<1>4. QED
  BY <1>2, <1>3

LEMMA ContractStep ==
    ASSUME TypeOK, StoreInvariant, [Next]_vars
    PROVE  [Contract!Next]_(Contract!vars)
<1>1. CASE Quiet
  <2>1. UNCHANGED <<row, issued>>
    BY <1>1 DEF Quiet
  <2>2. \A i \in Items : PhaseOf(i)' = PhaseOf(i)
    BY <2>1, SamePhase DEF Attempted
  <2>3. CASE UNCHANGED mission
    BY <2>2, <2>3 DEF Contract!vars
  <2>4. CASE \E e \in Engines, m \in Missions : CheckMission(e, m)
    BY <2>1, <2>4, CheckConcludes DEF Contract!Next
  <2>5. QED
    BY <2>3, <2>4, MissionWrite
<1>2. ASSUME NEW e \in Engines, StoreStep(e)
      PROVE  [Contract!Next]_(Contract!vars)
  <2>1. CASE Recover(e)
    BY <2>1, RecoverInterrupts DEF Contract!Next
  <2>2. CASE Reconcile(e)
    <3>1. Doomed \in SUBSET Items
      BY DEF Doomed, WithStatus
    <3>2. QED
      BY <2>2, <3>1, ReconcileRefuses DEF Contract!Next
  <2>3. CASE Decide(e)
    BY <2>3, DecideRefuses DEF Contract!Next
  <2>4. CASE Park(e) \/ Publish(e)
    BY <2>4, ParkWaits
  <2>5. CASE Commit(e)
    BY <2>5, CommitDispatches DEF Contract!Next
  <2>6. CASE Settle(e)
    BY <2>6, SettleReports DEF Contract!Next
  <2>7. QED
    BY <1>2, <2>1, <2>2, <2>3, <2>4, <2>5, <2>6 DEF StoreStep
<1>3. QED
  BY <1>1, <1>2, QuietOrStore

\* Seen through PhaseOf, the engines keep the dispatch contract: at most one
\* attempt per item and only behind its upstreams, interrupted attempts held
\* for good, refusals for a cause, verdicts when nothing can change any more.
THEOREM ContractImplemented == Spec => ImplementsContract
<1>1. Init => Contract!Init
  BY DEF Init, StoreInit, Contract!Init, PhaseOf, Status
<1>2. TypeOK /\ StoreInvariant /\ [Next]_vars => [Contract!Next]_(Contract!vars)
  BY ContractStep
<1>3. QED
  BY <1>1, <1>2, TypeCorrect, StoreSafe, PTL DEF Spec, ImplementsContract, Contract!Spec
-----------------------------------------------------------------------------
(* The engine keeps the dependency contract: what is parked for approval,  *)
(* or approved, runs.                                                      *)

LEMMA RowRuns ==
    ASSUME NEW i \in Items, ~Attempted(i),
           Status(i) = "parked" \/ (Status(i) = "pending" /\ approval[i] = "allowed")
    PROVE  RowOf(i) = "running"
BY DEF RowOf, AwaitsApproval, Approved, Attempted

\* Every other row is taken at its word.
LEMMA RowAsIs ==
    ASSUME NEW i \in Items, Status(i) = "parked" => Attempted(i),
           Status(i) = "pending" => approval[i] # "allowed"
    PROVE  RowOf(i) = Status(i)
BY DEF RowOf, AwaitsApproval, Approved, Attempted

LEMMA SameRow ==
    ASSUME NEW i \in Items, row'[i] = row[i], Attempted(i)' <=> Attempted(i),
           approval'[i] = "allowed" <=> approval[i] = "allowed"
    PROVE  RowOf(i)' = RowOf(i)
<1>1. Status(i)' = Status(i)
  BY DEF Status
<1>2. (\E a \in issued' : a.item = i) <=> (\E a \in issued : a.item = i)
  BY DEF Attempted
<1>3. AwaitsApproval(i)' <=> AwaitsApproval(i)
  BY <1>1, <1>2 DEF AwaitsApproval
<1>4. Approved(i)' <=> Approved(i)
  BY <1>1 DEF Approved
<1> QED BY <1>1, <1>3, <1>4 DEF RowOf

KeepsRows == [Rows!Next]_(Rows!vars)

LEMMA RowsStutter ==
    ASSUME \A i \in Items : RowOf(i)' = RowOf(i), UNCHANGED mission
    PROVE  KeepsRows
BY DEF KeepsRows, Rows!vars

LEMMA RowsMove ==
    ASSUME NEW S \in SUBSET Items, NEW from, NEW to,
           \A i \in S : RowOf(i) = from,
           \A i \in Items : RowOf(i)' = IF i \in S THEN to ELSE RowOf(i),
           UNCHANGED mission
    PROVE  Rows!Move(S, from, to) /\ S \in SUBSET Rows!Having(from)
BY DEF Rows!Move, Rows!Having

LEMMA RowEnds ==
    ASSUME NEW i \in Items, RowOf(i) = "running", RowOf(i)' \in TerminalStatuses,
           \A j \in Items : j # i => RowOf(j)' = RowOf(j), UNCHANGED mission
    PROVE  KeepsRows
<1>1. \A j \in Items : RowOf(j)' = IF j \in {i} THEN RowOf(i)' ELSE RowOf(j)
  OBVIOUS
<1>2. Rows!Move({i}, "running", RowOf(i)') /\ {i} \in SUBSET Rows!Having("running")
  BY <1>1, RowsMove
<1>3. RowOf(i)' \in Rows!Terminal
  BY DEF TerminalStatuses, Rows!Terminal, Rows!Failed
<1> QED BY <1>2, <1>3 DEF KeepsRows, Rows!Next, Rows!End

LEMMA RowRun ==
    ASSUME TypeOK, NEW i \in Items, RowOf(i) = "pending", RowOf(i)' = "running",
           MissionOpen(i), DepsDone(i),
           \A j \in Items : j # i => RowOf(j)' = RowOf(j), UNCHANGED mission
    PROVE  KeepsRows
<1>1. \A j \in Items : RowOf(j)' = IF j \in {i} THEN "running" ELSE RowOf(j)
  OBVIOUS
<1>2. Rows!Move({i}, "pending", "running") /\ {i} \in SUBSET Rows!Having("pending")
  BY <1>1, RowsMove
<1>3. \A d \in Deps[i] : d \in Items /\ MissionOf[d] = MissionOf[i] /\ RowOf(d) = "done"
  BY DepsAssumption, RowAsIs DEF DepsDone
<1>4. MissionOf[i] \notin {m \in Missions : mission[m] # "pending"}
  BY DEF MissionOpen
<1>5. Rows!Run(i)
  BY <1>2, <1>3, <1>4 DEF Rows!Run
<1> QED BY <1>2, <1>5 DEF KeepsRows, Rows!Next

LEMMA RecoverHolds ==
    ASSUME TypeOK, StoreInvariant, NEW e \in Engines, Recover(e)
    PROVE  KeepsRows
<1> DEFINE S == WithStatus({"running"})
<1>1. /\ row' = [i \in Items |-> IF Status(i) = "running" THEN Moved(i, "parked") ELSE row[i]]
      /\ UNCHANGED <<issued, mission, approval>>
  BY DEF Recover, RecoverTxn, historyVars
<1>2. \A i \in S : RowOf(i) = "running"
  BY RowAsIs DEF WithStatus
<1>3. ASSUME NEW i \in Items
      PROVE  RowOf(i)' = IF i \in S THEN "parked" ELSE RowOf(i)
  <2>1. CASE i \in S
    <3>1. Status(i)' = "parked"
      BY <1>1, <2>1 DEF Moved, Status, WithStatus
    <3>2. \E a \in issued' : a.item = i
      BY <1>1, <2>1 DEF StoreInvariant, ClaimsIssued, WithStatus
    <3> QED BY <2>1, <3>1, <3>2 DEF RowOf, AwaitsApproval, Approved
  <2>2. CASE i \notin S
    BY <1>1, <2>2, SameRow DEF WithStatus, Attempted
  <2> QED BY <2>1, <2>2
<1>4. Rows!Move(S, "running", "parked") /\ S \in SUBSET Rows!Having("running")
  BY <1>1, <1>2, <1>3, RowsMove DEF WithStatus
<1> QED BY <1>4 DEF KeepsRows, Rows!Next, Rows!Hold

\* What a reconciliation blocks was never parked or approved.
LEMMA ReconcileCascades ==
    ASSUME TypeOK, StoreInvariant, RequestsRest, NEW e \in Engines, Reconcile(e)
    PROVE  KeepsRows
<1>1. /\ row' = [i \in Items |-> IF i \in Doomed THEN Moved(i, "blocked") ELSE row[i]]
      /\ UNCHANGED <<issued, mission, approval>>
  BY DEF Reconcile, ReconcileTxn, historyVars
<1>2. \A i \in Doomed : i \in Items /\ Status(i) = "pending"
  BY DEF Doomed, WithStatus
<1>3. ASSUME NEW i \in Doomed PROVE approval[i] # "allowed"
  <2>1. PICK d \in Deps[i] : d \in Doomed \/ Status(d) \in {"failed", "blocked"}
    BY <1>3, DoomedForACause
  <2>2. ~DepsDone(i)
    BY <1>2, <2>1 DEF DepsDone
  <2> QED BY <1>2, <1>3, <2>2 DEF RequestsRest
<1>4. \A i \in Doomed : RowOf(i) = "pending"
  BY <1>2, <1>3, RowAsIs
<1>5. ASSUME NEW i \in Items
      PROVE  RowOf(i)' = IF i \in Doomed THEN "blocked" ELSE RowOf(i)
  <2>1. CASE i \in Doomed
    <3>1. Status(i)' = "blocked"
      BY <1>1, <2>1 DEF Moved, Status
    <3> QED BY <2>1, <3>1 DEF RowOf, AwaitsApproval, Approved
  <2>2. CASE i \notin Doomed
    BY <1>1, <2>2, SameRow DEF Attempted
  <2> QED BY <2>1, <2>2
<1>6. ASSUME NEW S \in SUBSET Doomed,
             \A j \in Doomed : (\E d \in Rows!Known(j) :
                d \in S \/ RowOf(d) \in {"failed", "blocked"}) => j \in S
      PROVE  S = Doomed
  <2>1. ASSUME NEW j \in WithStatus({"pending"}),
               \E d \in Deps[j] : d \in S \/ Status(d) \in {"failed", "blocked"}
        PROVE  j \in S
    <3>1. j \in Items /\ j \in Doomed
      BY <1>6, <2>1, DoomedClosed DEF WithStatus
    <3>2. PICK d \in Deps[j] : d \in S \/ Status(d) \in {"failed", "blocked"}
      BY <2>1
    <3>3. d \in Items /\ MissionOf[d] = MissionOf[j]
      BY <3>1, <3>2, DepsAssumption
    <3>4. Status(d) \in {"failed", "blocked"} => RowOf(d) = Status(d)
      BY <3>3, RowAsIs
    <3>5. RowOf(d) # "absent"
      BY <3>3 DEF TypeOK, StoreTypeOK, Row, ItemStatuses, RowOf, Status
    <3>6. d \in Rows!Known(j)
      BY <3>2, <3>3, <3>5 DEF Rows!Known
    <3> QED BY <1>6, <3>1, <3>2, <3>4, <3>6
  <2>2. ClosedUpward(S) /\ S \in SUBSET WithStatus({"pending"})
    BY <1>2, <2>1 DEF ClosedUpward, WithStatus
  <2> QED BY <1>6, <2>2 DEF Doomed
<1>7. Doomed \in SUBSET Rows!Having("pending")
  BY <1>2, <1>4 DEF Rows!Having
<1>8. Rows!LeadTo({}, Doomed)
  <2>1. \A d \in Items : [i \in Items |-> RowOf(i)][d] = RowOf(d)
    OBVIOUS
  <2>2. \A j \in Doomed : Rows!Known(j) \subseteq Items
    BY <1>2, DepsAssumption DEF Rows!Known
  <2> HIDE DEF Doomed
  <2> QED BY <1>6, <2>1, <2>2 DEF Rows!LeadTo, Rows!Failed
<1>9. Rows!Refuse({}, Doomed)
  BY <1>1, <1>5, <1>7, <1>8 DEF Rows!Refuse
<1> QED BY <1>7, <1>9 DEF KeepsRows, Rows!Next

LEMMA DecideEnds ==
    ASSUME TypeOK, StoreInvariant, RequestsRest, NEW e \in Engines, Decide(e)
    PROVE  KeepsRows
<1>1. PICK i \in Guarded, verdict \in Verdicts : DecideTxn(i, verdict)
  BY DEF Decide
<1>2. UNCHANGED <<issued, mission>>
  BY DEF Decide, historyVars
<1>3. i \in Items /\ ~Attempted(i) /\ Status(i) = "parked"
  BY <1>1, GuardedAssumption
     DEF DecideTxn, StoreInvariant, AttemptedNotPending, Attempted, RequestsRest
<1>4. RowOf(i) = "running"
  BY <1>3, RowRuns
<1>5. \A j \in Items : j # i => RowOf(j)' = RowOf(j)
  <2>1. \A j \in Items : j # i => row'[j] = row[j] /\ approval'[j] = approval[j]
    BY <1>1 DEF DecideTxn, TypeOK, StoreTypeOK
  <2> QED BY <1>2, <2>1, SameRow DEF Attempted
<1>6. Status(i)' = StatusAfter(verdict) /\ approval'[i] = verdict
  BY <1>1, <1>3 DEF DecideTxn, Moved, Status, TypeOK, StoreTypeOK
<1>7. CASE verdict \in {"denied", "expired"}
  <2>1. RowOf(i)' = "blocked"
    BY <1>6, <1>7 DEF StatusAfter, RowOf, AwaitsApproval, Approved
  <2> QED BY <1>2, <1>3, <1>4, <1>5, <2>1, RowEnds DEF TerminalStatuses
<1>8. CASE verdict \notin {"denied", "expired"}
  <2>1. RowOf(i)' = "running"
    BY <1>2, <1>3, <1>6, <1>8
       DEF StatusAfter, RowOf, AwaitsApproval, Approved, Attempted
  <2> QED BY <1>2, <1>4, <1>5, <2>1, RowsStutter
<1> QED BY <1>7, <1>8

LEMMA ParkRuns ==
    ASSUME TypeOK, StoreInvariant, RequestsRest, NEW e \in Engines, Park(e) \/ Publish(e)
    PROVE  KeepsRows
<1> USE DEF TypeOK, StoreTypeOK
<1>1. UNCHANGED <<issued, mission>>
  BY DEF Park, Publish, historyVars
<1>2. CASE Park(e)
  <2>1. CASE UNCHANGED <<row, approval>>
    BY <1>1, <2>1, SameRow, RowsStutter DEF Attempted
  <2>2. ASSUME NEW i \in Items, Parks(i) PROVE KeepsRows
    <3>1. Status(i) = "pending" /\ ~Attempted(i) /\ MissionOpen(i) /\ DepsDone(i)
      BY <2>2 DEF Parks, StoreInvariant, AttemptedNotPending, Attempted
    <3>2. \A j \in Items : j # i => RowOf(j)' = RowOf(j)
      <4>1. \A j \in Items : j # i => row'[j] = row[j] /\ approval'[j] = approval[j]
        BY <2>2 DEF Parks
      <4> QED BY <1>1, <4>1, SameRow DEF Attempted
    <3>3. Status(i)' = "parked"
      BY <2>2 DEF Parks, Moved, Status
    <3>4. RowOf(i)' = "running" /\ RowOf(i) \in {"pending", "running"}
      BY <1>1, <3>1, <3>3 DEF RowOf, AwaitsApproval, Approved, Attempted
    <3> QED BY <1>1, <3>1, <3>2, <3>4, RowRun, RowsStutter
  <2> QED BY <1>2, <2>1, <2>2, ParkOne
<1>3. CASE Publish(e)
  <2>1. \A i \in Items : /\ row'[i] = row[i]
                         /\ approval'[i] = "allowed" <=> approval[i] = "allowed"
    BY <1>3 DEF Publish
  <2> QED BY <1>1, <2>1, SameRow, RowsStutter DEF Attempted
<1> QED BY <1>2, <1>3

\* A claim starts its item, unless its approval has already.
LEMMA CommitRuns ==
    ASSUME TypeOK, StoreInvariant, NEW e \in Engines, Commit(e)
    PROVE  KeepsRows
<1> USE DEF TypeOK, StoreTypeOK
<1>1. PICK i \in cand[e] : ClaimTxn(i, e, held[e]) /\ issued' = issued \cup {ClaimFor(i)}
  BY DEF Commit
<1>2. i \in Items /\ Claimable(i) /\ ClaimFor(i).item = i
  BY <1>1 DEF ClaimTxn, ClaimFor
<1>3. UNCHANGED <<mission, approval>>
  BY DEF Commit
<1>4. Status(i) = "pending" /\ MissionOpen(i) /\ DepsDone(i) /\ ~Attempted(i)
  BY <1>2 DEF Claimable, StoreInvariant, AttemptedNotPending, Attempted
<1>5. RowOf(i)' = "running"
  <2>1. Status(i)' = "running"
    BY <1>1, <1>2 DEF ClaimTxn, Status
  <2> QED BY <2>1 DEF RowOf
<1>6. \A j \in Items : j # i => RowOf(j)' = RowOf(j)
  <2>1. SUFFICES ASSUME NEW j \in Items, j # i
                 PROVE  RowOf(j)' = RowOf(j)
    OBVIOUS
  <2>2. row'[j] = row[j]
    BY <1>1, <2>1 DEF ClaimTxn
  <2>3. Attempted(j)' <=> Attempted(j)
    BY <1>1, <1>2, <2>1 DEF Attempted
  <2> QED BY <1>3, <2>2, <2>3, SameRow
<1>7. CASE approval[i] = "allowed"
  <2>1. RowOf(i) = "running"
    BY <1>2, <1>4, <1>7, RowRuns
  <2> QED BY <1>3, <1>5, <1>6, <2>1, RowsStutter
<1>8. CASE approval[i] # "allowed"
  <2>1. RowOf(i) = "pending"
    BY <1>2, <1>4, <1>8, RowAsIs
  <2> QED BY <1>2, <1>3, <1>4, <1>5, <1>6, <2>1, RowRun
<1> QED BY <1>7, <1>8

LEMMA SettleEnds ==
    ASSUME TypeOK, StoreInvariant, NEW e \in Engines, Settle(e)
    PROVE  KeepsRows
<1> USE DEF TypeOK, StoreTypeOK
<1>1. PICK f \in flight[e] : f.phase = "settling" /\ SettleTxn(f.attempt, e, held[e], f.verdict)
  BY DEF Settle, FlightCont
<1>2. UNCHANGED <<issued, mission, approval>>
  BY DEF Settle
<1> DEFINE i == f.attempt.item
<1>3. i \in Items /\ f.verdict \in {"done", "failed", "parked"}
  BY <1>1 DEF Flight, FlightVerdicts, Attempt
<1>4. Status(i) = "running" /\ Attempted(i)
  BY <1>1, <1>3 DEF SettleTxn, ClaimLive, StoreInvariant, ClaimsIssued, Attempted
<1>5. Status(i)' = f.verdict
  BY <1>1, <1>3 DEF SettleTxn, Moved, Status
<1>6. RowOf(i) = "running" /\ RowOf(i)' = f.verdict
  BY <1>2, <1>3, <1>4, <1>5 DEF RowOf, AwaitsApproval, Approved, Attempted
<1>7. \A j \in Items : j # i => RowOf(j)' = RowOf(j)
  <2>1. \A j \in Items : j # i => row'[j] = row[j]
    BY <1>1 DEF SettleTxn
  <2> QED BY <1>2, <2>1, SameRow DEF Attempted
<1>8. CASE f.verdict \in {"done", "failed"}
  BY <1>2, <1>3, <1>6, <1>7, <1>8, RowEnds DEF TerminalStatuses
<1>9. CASE f.verdict = "parked"
  <2>1. \A j \in Items : RowOf(j)' = IF j \in {i} THEN "parked" ELSE RowOf(j)
    BY <1>6, <1>7, <1>9
  <2>2. {i} \in SUBSET Items /\ \A j \in {i} : RowOf(j) = "running"
    BY <1>3, <1>6
  <2> HIDE DEF i, TypeOK, StoreTypeOK
  <2>3. Rows!Move({i}, "running", "parked") /\ {i} \in SUBSET Rows!Having("running")
    BY <1>2, <2>1, <2>2, RowsMove
  <2> QED BY <2>3 DEF KeepsRows, Rows!Next, Rows!Hold
<1> QED BY <1>3, <1>8, <1>9

LEMMA CheckMissionConcludes ==
    ASSUME TypeOK, UNCHANGED <<row, issued, approval>>,
           NEW e \in Engines, NEW m \in Missions, CheckMission(e, m)
    PROVE  KeepsRows
<1>1. \A i \in Items : RowOf(i)' = RowOf(i)
  BY SameRow DEF Attempted
<1>2. CASE ~AllTerminal(m)
  BY <1>1, <1>2, RowsStutter DEF CheckMission
<1>3. CASE AllTerminal(m)
  <2>1. \A i \in ItemsOf(m) : i \in Items /\ MissionOf[i] = m /\ RowOf(i) \in TerminalStatuses
    BY <1>3, RowAsIs DEF AllTerminal, TerminalStatuses, ItemsOf
  <2>2. /\ \A i \in Items : MissionOf[i] = m => RowOf(i) \in TerminalStatuses
        /\ \E i \in Items : MissionOf[i] = m /\ RowOf(i) # "absent"
    BY <1>3, <2>1 DEF AllTerminal, TerminalStatuses, ItemsOf
  <2>3. mission' = [mission EXCEPT ![m] = Verdict(m)] /\ Verdict(m) # "pending"
    BY <1>3 DEF CheckMission, Verdict
  <2>4. {n \in Missions : mission'[n] # "pending"}
            = {n \in Missions : mission[n] # "pending"} \cup {m}
    BY <2>3 DEF TypeOK, StoreTypeOK
  <2>5. Rows!Conclude(m)
    BY <1>1, <2>2, <2>4 DEF Rows!Conclude, Rows!Terminal, Rows!Failed, TerminalStatuses
  <2> QED BY <2>5 DEF KeepsRows, Rows!Next
<1> QED BY <1>2, <1>3

LEMMA RowsStep ==
    ASSUME TypeOK, StoreInvariant, RequestsRest, [Next]_vars
    PROVE  KeepsRows
<1>1. CASE Quiet
  <2>1. UNCHANGED <<row, issued, approval>>
    BY <1>1 DEF Quiet
  <2>2. CASE UNCHANGED mission
    BY <2>1, <2>2, SameRow, RowsStutter DEF Attempted
  <2>3. CASE \E e \in Engines, m \in Missions : CheckMission(e, m)
    BY <2>1, <2>3, CheckMissionConcludes
  <2> QED BY <2>2, <2>3, MissionWrite
<1>2. ASSUME NEW e \in Engines, StoreStep(e)
      PROVE  KeepsRows
  BY <1>2, RecoverHolds, ReconcileCascades, DecideEnds, ParkRuns, CommitRuns, SettleEnds
     DEF StoreStep
<1> QED BY <1>1, <1>2, QuietOrStore

\* With several engines, crashes and late processes too, the rows only make the
\* steps of the contract that the dependency authority keeps: the two
\* specifications of one store agree on what may happen to an item.
THEOREM DependencyContractKeptByEngine == Spec => KeepsDependencyContract
<1>1. Init => Rows!Init
  BY MissionsAssumption DEF Init, StoreInit, Rows!Init, RowOf, AwaitsApproval, Approved, Status
<1>2. TypeOK /\ StoreInvariant /\ RequestsRest /\ [Next]_vars => [Rows!Next]_(Rows!vars)
  BY RowsStep DEF KeepsRows
<1> QED BY <1>1, <1>2, TypeCorrect, StoreSafe, RequestsAlwaysRest, PTL
        DEF Spec, KeepsDependencyContract, Rows!Spec
=============================================================================
