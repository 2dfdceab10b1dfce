--------------------------- MODULE MissionInvariant ---------------------------
(***************************************************************************)
(* The inductive strengthening of MissionEngine's safety invariants.  None *)
(* of them is inductive as it stands: that an item is claimed once rests   *)
(* on what can still become pending, that a running row is the lease       *)
(* holder's on which epochs claims and flights carry.                      *)
(***************************************************************************)
EXTENDS MissionEngine

-----------------------------------------------------------------------------
(* The store and the history of attempts.                                  *)

\* A claim is in a running row, one per row, and was issued for its item.
ClaimsIssued ==
    \A i \in Items :
        /\ Status(i) # "running" => row[i].claim = {}
        /\ Status(i) = "running" => \E a \in issued : a.item = i /\ row[i].claim = {a}

\* Only guarded items have requests.
RequestsGuarded == \A i \in Items : approval[i] # "none" => i \in Guarded

\* An attempted item is never pending again: nothing can redrive it, and no
\* request of it is still open that an "allowed" would make pending.
AttemptedNotPending ==
    \A a \in issued :
        /\ Status(a.item) # "pending"
        /\ approval[a.item] \notin {"outbox", "asked"}

\* A request is made under the conditions of a claim, which stay true, and its
\* item rests until the decision.
RequestsRest ==
    \A i \in Items :
        /\ approval[i] # "none" => DepsDone(i)
        /\ approval[i] \in {"outbox", "asked"} => Status(i) = "parked"

\* A row moves four times at most: into and out of an approval, into its attempt
\* and out of it.  Approvals, claims and recoveries cannot pass it round for ever.
FewMoves ==
    \A i \in Items :
        /\ row[i].revision <= 4
        /\ Status(i) = "pending" => row[i].revision = IF approval[i] = "none" THEN 0 ELSE 2
        /\ Status(i) = "running" => row[i].revision <= 3
        /\ approval[i] \in {"outbox", "asked"} => row[i].revision = 1

StoreInvariant ==
    /\ ClaimsIssued
    /\ RequestsGuarded
    /\ AttemptedNotPending
    /\ OneAttemptPerItem
    /\ DispatchWasEntitled
    /\ AttemptAccounted

-----------------------------------------------------------------------------
(* Epochs: who may hold the lease, and which claims are whose.             *)

\* An instance that has not started has no lease and no flight.
OffIsInert ==
    \A e \in Engines : pc[e] = "off" => lease.owner # e /\ flight[e] = {}

\* Claims and processes carry epochs the lease table has handed out.
EpochsPast ==
    /\ \A a \in issued : a.epoch <= lease.epoch
    /\ \A e \in Engines : held[e] <= lease.epoch

\* A flight carries the epoch its process acquired.
FlightsOwned ==
    \A e \in Engines : \A f \in flight[e] : f.attempt.epoch = held[e]

EpochInvariant ==
    /\ OffIsInert
    /\ EpochsPast
    /\ FlightsOwned
    /\ NoForeignRunning

-----------------------------------------------------------------------------
(* The receipt ledger.                                                     *)

\* A flight reports done or failed only on the provider's transport event, and
\* is granted only behind its dispatch record.
FlightsReceipted ==
    \A e \in Engines : \A f \in flight[e] :
        /\ f.verdict \in {"done", "failed"} => f.attempt \in exited
        /\ f.phase = "granting" => \E p \in opened : p[1] = f.attempt

\* Receipts are reconciled for journaled attempts only.
TodoRecovered == \A e \in Engines : todo[e] \subseteq recovered

\* Receipts are reconciled at boot, before the first iteration.
TodoAtReceipts == \A e \in Engines : pc[e] # "receipts" => todo[e] = {}

\* What an earlier engine left open of the attempts journaled so far, the holder
\* of the lease has acknowledged or has still on its list.
ReceiptsOwed ==
    \A e \in Engines : HoldsLease(e) /\ pc[e] \notin {"boot", "dead"} =>
        \A p \in opened :
            p[1] \in recovered /\ p[2] < held[e] => p[1] \in acked \cup todo[e]

\* A verdict is told in the turn that wrote it.
NotifiedInTurn ==
    \A e \in Engines : notify[e] # {} => pc[e] \in AwaitPCs \cup {"project"}

RecoveryInvariant == TodoAtReceipts /\ NotifiedInTurn /\ ReceiptsOwed

ReceiptInvariant ==
    /\ FlightsReceipted
    /\ TodoRecovered
    /\ ReceiptsAgree

-----------------------------------------------------------------------------
(* The pool.  The scheduler counts the promises of its own flights, so the *)
(* rows are bounded only as long as every row is behind one of them.       *)

\* The rows running under the current lease.
CurrentRows ==
    {i \in WithStatus({"running"}) : \E a \in row[i].claim : a.epoch = lease.epoch}

FlightsFinite == \A e \in Engines : IsFiniteSet(flight[e])

\* A flight hands its slot back only when its row has moved or its lease is lost.
PromisePerRow ==
    \A e \in Engines :
        HoldsLease(e) /\ pc[e] \notin {"boot", "dead"} =>
            \A i \in CurrentRows : \E f \in flight[e] :
                f.attempt \in row[i].claim /\ f.phase # "finally"

\* No flight is half way through a turn while the loop itself runs.
TurnsEnd ==
    \A e \in Engines : pc[e] \notin AwaitPCs =>
        \A f \in flight[e] : f.phase \notin SyncPhases

\* The room that Select saw is still there when the claim is written.
CommitHasRoom ==
    \A e \in Engines : pc[e] = "commit" =>
        /\ Cardinality(flight[e]) < PoolSize
        /\ TenantCap # 0 => \A i \in cand[e] :
            Cardinality(TenantFlights(e, TenantOf[MissionOf[i]])) < TenantCap

PoolInvariant ==
    /\ FlightsFinite
    /\ PromisePerRow
    /\ TurnsEnd
    /\ CommitHasRoom
    /\ IsFiniteSet(CurrentRows)
    /\ PoolRespected

-----------------------------------------------------------------------------
(* Mission verdicts: who still has to give one.                            *)

\* The missions an iteration has changed are looked at before it claims.
ChangedAtHead ==
    \A e \in Engines : changed[e] # {} =>
        pc[e] \in {"reconcile", "decide", "park", "publish", "repropagate", "project",
                  "close", "closed"}

FlightsIssued == \A e \in Engines : \A f \in flight[e] : f.attempt \in issued

\* An instance that has not started has met no error.
OffIsCalm == \A e \in Engines : pc[e] = "off" => ~fatal[e] /\ notify[e] = {}

\* Process e has mission m still to look at, or would have, but met a fatal error.
Answers(e, m) ==
    \/ m \in changed[e]
    \/ \E f \in flight[e] : f.phase = "finally" /\ MissionOf[f.attempt.item] = m
    \/ fatal[e] /\ \E a \in issued : a.epoch = held[e] /\ MissionOf[a.item] = m

\* A mission that is over has its verdict or a process that answers for it,
\* unless one has crashed: losing the lease and throwing leave a trace.
VerdictOwed ==
    \A m \in Missions :
        AllTerminal(m) /\ mission[m] = "pending" =>
            \E e \in Engines : Answers(e, m) \/ pc[e] = "dead"

VerdictInvariant ==
    /\ ChangedAtHead
    /\ FlightsIssued
    /\ OffIsCalm
    /\ VerdictOwed
    /\ MissionVerdictSound

-----------------------------------------------------------------------------
\* What every reachable state satisfies, and every step preserves.
SafetyInvariant ==
    /\ TypeOK
    /\ StoreInvariant
    /\ EpochInvariant
    /\ ReceiptInvariant
    /\ RecoveryInvariant
    /\ PoolInvariant
    /\ VerdictInvariant
    /\ RequestsRest
    /\ FewMoves
=============================================================================
