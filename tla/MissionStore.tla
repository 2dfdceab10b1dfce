---------------------------- MODULE MissionStore ----------------------------
(***************************************************************************)
(* The durable state of the autonomous engine: the SQLite mission store,   *)
(* src/orchestra/autonomous/mission-store/sqlite-mission-store.ts.         *)
(*                                                                         *)
(* The store is passive.  Every operation below is one IMMEDIATE SQLite    *)
(* transaction or one UPDATE, hence one atomic step, and any process that  *)
(* has the file open may perform it; MissionEngine says which process does *)
(* so, and when.                                                           *)
(*                                                                         *)
(* Work items belong to list missions created in one transaction with a    *)
(* validated, acyclic, mission-local graph and no explicit graph authority *)
(* (the default "legacy" dependency mode), admitted under one runner       *)
(* registry revision, all of the one kind production runs ("task").        *)
(***************************************************************************)
EXTENDS Integers, FiniteSets

CONSTANTS
    Engines,      \* engine process instances; a restart is another instance
    NoEngine,     \* owner_id of a lease table that has never had a row
    Items,        \* ids of the work items
    Missions,     \* ids of the missions
    MissionOf,    \* mission_id of every item
    Deps,         \* depends_on of every item
    Guarded,      \* items whose policy is not 'auto'
    Ttl           \* lease lifetime, in clock ticks

ASSUME EnginesAssumption == NoEngine \notin Engines
ASSUME MissionsAssumption == MissionOf \in [Items -> Missions]
ASSUME DepsAssumption ==
    /\ Deps \in [Items -> SUBSET Items]
    /\ \A i \in Items : \A d \in Deps[i] : MissionOf[d] = MissionOf[i]
ASSUME GuardedAssumption == Guarded \subseteq Items
ASSUME TtlAssumption == Ttl \in Nat \ {0}

VARIABLES
    lease,        \* the singleton row of mission_engine_lease
    row,          \* work_items: status, revision and the live dispatch claim
    approval,     \* work_item_approvals: "none", or how far the request got
    mission,      \* missions: status
    recovered,    \* mission_dispatch_recoveries: the attempts journaled
    acked         \* mission_dispatch_recovery_acknowledgements

storeVars == <<lease, row, approval, mission, recovered, acked>>

(***************************************************************************)
(* An attempt is one dispatch claim.  attempt_id is a fresh UUID in the    *)
(* code; the item, the epoch of the lease it was issued under and the item *)
(* revision it fences stand for it here.                                   *)
(***************************************************************************)
Attempt == [item : Items, epoch : Nat, revision : Nat]

ItemStatuses == {"pending", "running", "done", "failed", "blocked", "parked"}
TerminalStatuses == {"done", "failed", "blocked"}
Verdicts == {"allowed", "denied", "expired", "deferred", "escalated"}
ApprovalStates == {"none", "outbox", "asked"} \cup Verdicts
MissionStatuses == {"pending", "completed", "failed"}

Lease == [owner : Engines \cup {NoEngine}, epoch : Nat, remaining : 0 .. Ttl]
Row == [status : ItemStatuses, revision : Nat, claim : SUBSET Attempt]

StoreTypeOK ==
    /\ lease \in Lease
    /\ row \in [Items -> Row]
    /\ approval \in [Items -> ApprovalStates]
    /\ mission \in [Missions -> MissionStatuses]
    /\ recovered \in SUBSET Attempt
    /\ acked \in SUBSET Attempt

StoreInit ==
    /\ lease = [owner |-> NoEngine, epoch |-> 0, remaining |-> 0]
    /\ row = [i \in Items |-> [status |-> "pending", revision |-> 0, claim |-> {}]]
    /\ approval = [i \in Items |-> "none"]
    /\ mission = [m \in Missions |-> "pending"]
    /\ recovered = {}
    /\ acked = {}

-----------------------------------------------------------------------------
(* The engine lease.  remaining is expires_at_ms - now, never below zero.  *)

LeaseActive(e, epoch) ==
    lease.owner = e /\ lease.epoch = epoch /\ lease.remaining > 0

AcquireLease(e) ==
    /\ lease.remaining = 0
    /\ lease' = [owner |-> e, epoch |-> lease.epoch + 1, remaining |-> Ttl]

\* An expired lease cannot be revived, not even by its last owner.
RenewedLease(e, epoch) ==
    IF LeaseActive(e, epoch) THEN [lease EXCEPT !.remaining = Ttl] ELSE lease

\* Release matches the owner and the epoch only: it also clears an expired row.
ReleasedLease(e, epoch) ==
    IF lease.owner = e /\ lease.epoch = epoch
    THEN [lease EXCEPT !.remaining = 0]
    ELSE lease

-----------------------------------------------------------------------------
(* Work items.                                                             *)

Status(i) == row[i].status
WithStatus(S) == {i \in Items : Status(i) \in S}
ItemsOf(m) == {i \in Items : MissionOf[i] = m}

\* The claims of the rows that are running now.
LiveClaims == UNION {row[i].claim : i \in WithStatus({"running"})}

\* Every status change bumps the revision and clears the claim columns.
Moved(i, status) ==
    [status |-> status, revision |-> row[i].revision + 1, claim |-> {}]

DepsDone(i) == \A d \in Deps[i] : Status(d) = "done"
MissionOpen(i) == mission[MissionOf[i]] = "pending"

\* Mutant: the claim relies on the approval tick having parked guarded items.
AuthorisedByTick(i) == i \in Items

Authorised(i) == i \notin Guarded \/ approval[i] = "allowed"

Claimable(i) ==
    /\ Status(i) = "pending"
    /\ MissionOpen(i)
    /\ Authorised(i)
    /\ DepsDone(i)

Due == {i \in Items : Claimable(i)}

\* The row is still the one this claim was issued for.
ClaimLive(a) == Status(a.item) = "running" /\ a \in row[a.item].claim

ClaimFor(i) == [item |-> i, epoch |-> lease.epoch, revision |-> row[i].revision + 1]

\* Mutant: the claim without the engine lease in its WHERE clause.
ClaimTxnUnfenced(i, e, epoch) ==
    /\ Claimable(i)
    /\ row' = [row EXCEPT ![i] = [status |-> "running",
                                  revision |-> @.revision + 1,
                                  claim |-> {[ClaimFor(i) EXCEPT !.epoch = epoch]}]]

\* claimItemWithAuthority: the UPDATE and its whole WHERE clause.
ClaimTxn(i, e, epoch) ==
    /\ Claimable(i)
    /\ LeaseActive(e, epoch)
    /\ row' = [row EXCEPT ![i] = [status |-> "running",
                                  revision |-> @.revision + 1,
                                  claim |-> {ClaimFor(i)}]]

\* Mutant: the settlement compares the claim but not the engine lease.
SettleTxnUnfenced(a, e, epoch, status) ==
    /\ ClaimLive(a)
    /\ row' = [row EXCEPT ![a.item] = Moved(a.item, status)]

\* Mutant: the settlement updates the row by its id alone.
SettleTxnBlind(a, e, epoch, status) ==
    row' = [row EXCEPT ![a.item] = Moved(a.item, status)]

\* settleClaimedItem: compare the exact claim and the lease, then swap.
SettleTxn(a, e, epoch, status) ==
    /\ ClaimLive(a)
    /\ LeaseActive(e, epoch)
    /\ row' = [row EXCEPT ![a.item] = Moved(a.item, status)]

(***************************************************************************)
(* reconcilePendingDependencies: the pending items with a failed or blocked*)
(* item upstream, directly or through other pending items, are blocked in  *)
(* one transaction.  Doomed is the least set closed under "depends on".    *)
(***************************************************************************)
ClosedUpward(S) ==
    \A i \in WithStatus({"pending"}) :
        (\E d \in Deps[i] : d \in S \/ Status(d) \in {"failed", "blocked"}) => i \in S

\* Mutant: the sweep does not ask for pending rows.
DoomedAnyStatus ==
    {i \in Items : \A S \in SUBSET Items :
        (\A j \in Items : (\E d \in Deps[j] :
            d \in S \/ Status(d) \in {"failed", "blocked"}) => j \in S) => i \in S}

Doomed ==
    {i \in WithStatus({"pending"}) :
        \A S \in SUBSET WithStatus({"pending"}) : ClosedUpward(S) => i \in S}

ReconcileTxn ==
    row' = [i \in Items |-> IF i \in Doomed THEN Moved(i, "blocked") ELSE row[i]]

\* Mutant: recovery redrives interrupted attempts.
RecoverTxnRedrives(e, epoch) ==
    /\ LeaseActive(e, epoch)
    /\ recovered' = recovered \cup LiveClaims
    /\ row' = [i \in Items |->
                IF Status(i) = "running" THEN Moved(i, "pending") ELSE row[i]]

\* Mutant: recovery parks the rows and forgets their claims.
RecoverTxnForgets(e, epoch) ==
    /\ LeaseActive(e, epoch)
    /\ UNCHANGED recovered
    /\ row' = [i \in Items |->
                IF Status(i) = "running" THEN Moved(i, "parked") ELSE row[i]]

\* Mutant: recovery journals the claims and leaves the rows running.
RecoverTxnJournalsOnly(e, epoch) ==
    /\ LeaseActive(e, epoch)
    /\ recovered' = recovered \cup LiveClaims
    /\ UNCHANGED row

\* recover: journal every running claim, then park its row.
RecoverTxn(e, epoch) ==
    /\ LeaseActive(e, epoch)
    /\ recovered' = recovered \cup LiveClaims
    /\ row' = [i \in Items |->
                IF Status(i) = "running" THEN Moved(i, "parked") ELSE row[i]]

-----------------------------------------------------------------------------
(* Approvals of guarded items.                                             *)

\* What the UPDATE of a parking asks of the row.
Parkable(i) == i \in Guarded /\ Status(i) = "pending" /\ MissionOpen(i) /\ DepsDone(i)

\* Mutant: an approval is asked for before the item's dependencies are done.
CandidatesAhead ==
    {i \in Guarded : Status(i) = "pending" /\ MissionOpen(i) /\ approval[i] = "none"}

ApprovalCandidates == {i \in Items : Parkable(i) /\ approval[i] = "none"}

\* parkItemForApproval: the row and its request in one transaction.
ParkTxn(i) ==
    /\ i \in ApprovalCandidates
    /\ row' = [row EXCEPT ![i] = Moved(i, "parked")]
    /\ approval' = [approval EXCEPT ![i] = "outbox"]

\* parkInvalidApprovalCandidate: parked with no request to decide.  Unlike
\* the listing, the UPDATE does not ask whether a request exists by now.
ParkInvalidTxn(i) ==
    /\ Parkable(i)
    /\ row' = [row EXCEPT ![i] = Moved(i, "parked")]
    /\ UNCHANGED approval

StatusAfter(verdict) ==
    CASE verdict = "allowed"                -> "pending"
      [] verdict \in {"denied", "expired"}  -> "blocked"
      [] OTHER                              -> "parked"

\* applyApprovalDecision: the first decision of a pending request wins.
DecideTxn(i, verdict) ==
    /\ approval[i] = "asked"
    /\ approval' = [approval EXCEPT ![i] = verdict]
    /\ row' = IF Status(i) \in {"parked", "pending"}
              THEN [row EXCEPT ![i] = Moved(i, StatusAfter(verdict))]
              ELSE row

-----------------------------------------------------------------------------
(* Missions.                                                               *)

AllTerminal(m) ==
    /\ ItemsOf(m) # {}
    /\ \A i \in ItemsOf(m) : Status(i) \in TerminalStatuses

\* Mutant: only a failed item fails its mission, a blocked one does not.
VerdictIgnoresBlocked(m) ==
    IF \E i \in ItemsOf(m) : Status(i) = "failed" THEN "failed" ELSE "completed"

Verdict(m) ==
    IF \E i \in ItemsOf(m) : Status(i) \in {"failed", "blocked"}
    THEN "failed" ELSE "completed"
=============================================================================
