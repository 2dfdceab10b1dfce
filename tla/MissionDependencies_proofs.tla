----------------------- MODULE MissionDependencies_proofs -----------------------
(***************************************************************************)
(* The dependency authority, for every graph, every set of missions and    *)
(* every pair of reconciliation bounds: nothing runs before its upstream   *)
(* items are done, the counters never withhold an item for good, and a     *)
(* failure is never forgotten.                                             *)
(***************************************************************************)
EXTENDS MissionDependencies, FiniteSetTheorems, WellFoundedInduction, TLAPS

-----------------------------------------------------------------------------
(* A chunk: the first n elements of a finite set of numbers.               *)

\* What is below (above) a number of S grows with it.
LEMMA SegmentsGrow ==
    ASSUME NEW S \in SUBSET Nat, NEW i \in S, NEW k \in S, i < k
    PROVE  /\ {j \in S : j < i} \subseteq {j \in S : j < k}
           /\ i \in {j \in S : j < k} /\ i \notin {j \in S : j < i}
           /\ {j \in S : j > k} \subseteq {j \in S : j > i}
           /\ k \in {j \in S : j > i} /\ k \notin {j \in S : j > k}
<1>1. \A j \in S : (j < i => j < k) /\ (j > k => j > i)
  OBVIOUS
<1>2. ~(i < i) /\ ~(k > k)
  OBVIOUS
<1> QED BY <1>1, <1>2, Zenon

\* A nonempty finite set of numbers has a least element: of the sets of what is
\* below an element of S, one is minimal under strict inclusion.
LEMMA LeastElement ==
    ASSUME NEW S \in SUBSET Nat, IsFiniteSet(S), S # {}
    PROVE  \E x \in S : \A y \in S : x <= y
<1> DEFINE Below(i) == {j \in S : j < i}
           T == {Below(i) : i \in S}
<1>1. T \subseteq FiniteSubsetsOf(S)
  BY FS_Subset DEF FiniteSubsetsOf
<1>2. T # {}
  OBVIOUS
<1> HIDE DEF T
<1>3. PICK t \in T : \A s \in T : ~ (<<s, t>> \in StrictSubsetOrdering(S))
  BY <1>1, <1>2, FS_StrictSubsetOrderingWellFounded, WFMin
<1>4. PICK x \in S : t = Below(x)
  BY DEF T
<1>5. SUFFICES ASSUME NEW y \in S, ~(x <= y) PROVE FALSE
  OBVIOUS
<1>6. y < x
  BY <1>5
<1>7. Below(y) \subseteq Below(x) /\ y \in Below(x) /\ y \notin Below(y)
  BY <1>6, SegmentsGrow
<1>8. <<Below(y), t>> \in StrictSubsetOrdering(S)
  BY <1>4, <1>7 DEF StrictSubsetOrdering
<1>9. Below(y) \in T
  BY DEF T
<1> QED BY <1>3, <1>8, <1>9

\* And a greatest one, likewise, so the library's Max is one of its elements.
LEMMA GreatestElement ==
    ASSUME NEW S \in SUBSET Nat, IsFiniteSet(S), S # {}
    PROVE  Max(S) \in S /\ \A y \in S : Max(S) >= y
<1> DEFINE Above(i) == {j \in S : j > i}
           T == {Above(i) : i \in S}
<1>1. T \subseteq FiniteSubsetsOf(S)
  BY FS_Subset DEF FiniteSubsetsOf
<1>2. T # {}
  OBVIOUS
<1> HIDE DEF T
<1>3. PICK t \in T : \A s \in T : ~ (<<s, t>> \in StrictSubsetOrdering(S))
  BY <1>1, <1>2, FS_StrictSubsetOrderingWellFounded, WFMin
<1>4. PICK x \in S : t = Above(x)
  BY DEF T
<1>5. ASSUME NEW y \in S, ~(x >= y) PROVE FALSE
  <2>1. x < y
    BY <1>5
  <2>2. Above(y) \subseteq Above(x) /\ y \in Above(x) /\ y \notin Above(y)
    BY <2>1, SegmentsGrow
  <2>3. <<Above(y), t>> \in StrictSubsetOrdering(S)
    BY <1>4, <2>2 DEF StrictSubsetOrdering
  <2>4. Above(y) \in T
    BY DEF T
  <2> QED BY <1>3, <2>3, <2>4
<1>6. \A y \in S : x >= y
  BY <1>5
<1> QED BY <1>6 DEF Max

\* More than n elements cannot have n different ranks.
LEMMA RanksCollide ==
    ASSUME NEW S, IsFiniteSet(S), NEW n \in Nat, Cardinality(S) \in Nat,
           Cardinality(S) > n, NEW rank \in [S -> 0 .. n - 1]
    PROVE  \E x, y \in S : x # y /\ rank[x] = rank[y]
<1> DEFINE T == 0 .. n - 1
<1>1. IsFiniteSet(T) /\ Cardinality(T) = n
  <2>1. 0 \in Int /\ n - 1 \in Int
    OBVIOUS
  <2>2. /\ IsFiniteSet(0 .. n - 1)
        /\ Cardinality(0 .. n - 1) = IF 0 > n - 1 THEN 0 ELSE (n - 1) - 0 + 1
    BY <2>1, FS_Interval, Zenon
  <2> QED BY <2>2
<1>2. Cardinality(T) < Cardinality(S)
  BY <1>1
<1>3. rank \in [S -> T]
  OBVIOUS
<1> HIDE DEF T
<1> QED BY <1>1, <1>2, <1>3, FS_PigeonHole

\* The first n elements: some, at most n, and all before the rest.
LEMMA FirstElements ==
    ASSUME NEW A \in SUBSET Nat, IsFiniteSet(A), A # {}, NEW n \in Nat \ {0}
    PROVE  /\ FirstOf(n, A) \subseteq A
           /\ IsFiniteSet(FirstOf(n, A)) /\ Cardinality(FirstOf(n, A)) \in 0 .. n
           /\ Max(FirstOf(n, A)) \in FirstOf(n, A)
           /\ \A i \in A \ FirstOf(n, A) : i > Max(FirstOf(n, A))
<1> DEFINE Below(i) == {j \in A : j < i}
           C == FirstOf(n, A)
<1>1. \A i \in A : IsFiniteSet(Below(i)) /\ Cardinality(Below(i)) \in Nat
  BY FS_Subset, FS_CardinalityType
<1>2. \A i, k \in A : i < k => Cardinality(Below(i)) < Cardinality(Below(k))
  <2> SUFFICES ASSUME NEW i \in A, NEW k \in A, i < k
               PROVE  Cardinality(Below(i)) < Cardinality(Below(k))
    OBVIOUS
  <2>1. Below(i) \subseteq Below(k) /\ i \in Below(k) /\ i \notin Below(i)
    BY SegmentsGrow
  <2>2. Cardinality(Below(i)) <= Cardinality(Below(k))
    BY <1>1, <2>1, FS_Subset
  <2>3. Cardinality(Below(i)) # Cardinality(Below(k))
    BY <1>1, <2>1, FS_Subset
  <2> QED BY <1>1, <2>2, <2>3
<1> HIDE DEF Below
<1>3. C = {i \in A : Cardinality(Below(i)) < n}
  BY DEF Below, FirstOf
<1> HIDE DEF C
<1>4. C \subseteq A /\ IsFiniteSet(C)
  BY <1>3, FS_Subset
<1>5. C # {}
  <2>1. PICK x \in A : \A y \in A : x <= y
    BY LeastElement
  <2>2. \A y \in A : ~(y < x)
    BY <2>1
  <2>3. Below(x) = {}
    BY <2>2 DEF Below
  <2>4. Cardinality(Below(x)) = 0
    BY <2>3, FS_EmptySet
  <2>5. 0 < n
    OBVIOUS
  <2>6. x \in A /\ Cardinality(Below(x)) < n
    BY <2>4, <2>5
  <2> QED BY <1>3, <2>6, Zenon
<1>6. Cardinality(C) \in 0 .. n
  <2>1. Cardinality(C) \in Nat
    BY <1>4, FS_CardinalityType
  <2>2. ASSUME Cardinality(C) > n PROVE FALSE
    <3> DEFINE rank == [i \in C |-> Cardinality(Below(i))]
    <3>1. rank \in [C -> 0 .. n - 1]
      <4>1. \A i \in C : Cardinality(Below(i)) \in 0 .. n - 1
        BY <1>1, <1>3
      <4> QED BY <4>1
    <3> HIDE DEF rank
    <3>3. \E x, y \in C : x # y /\ rank[x] = rank[y]
      <4>1. IsFiniteSet(C) /\ n \in Nat
        BY <1>4
      <4>2. Cardinality(C) > n
        BY <2>2
      <4>3. \A f \in [C -> 0 .. n - 1] : \E x, y \in C : x # y /\ f[x] = f[y]
        BY <2>1, <4>1, <4>2, RanksCollide, Zenon
      <4> QED BY <3>1, <4>3, Zenon
    <3>4. PICK x \in C, y \in C : x # y /\ rank[x] = rank[y]
      BY <3>3
    <3>5. Cardinality(Below(x)) = Cardinality(Below(y))
      BY <3>4 DEF rank
    <3>6. x < y \/ y < x
      BY <3>4, <1>4
    <3> QED BY <1>1, <1>2, <1>4, <3>5, <3>6
  <2> QED BY <2>1, <2>2
<1>7. Max(C) \in C /\ \A i \in C : Max(C) >= i
  BY <1>4, <1>5, GreatestElement
<1>9. ASSUME NEW i \in A \ C PROVE i > Max(C)
  <2>1. Cardinality(Below(i)) >= n
    BY <1>1, <1>3
  <2>2. Cardinality(Below(Max(C))) < n /\ Max(C) \in A
    BY <1>3, <1>7
  <2>3. i # Max(C)
    BY <1>7
  <2>4. ~(i < Max(C))
    <3>1. ASSUME i < Max(C) PROVE FALSE
      <4>1. i \in A
        OBVIOUS
      <4>2. Cardinality(Below(i)) < Cardinality(Below(Max(C)))
        BY <1>2, <2>2, <3>1, <4>1
      <4>3. Cardinality(Below(i)) \in Nat /\ Cardinality(Below(Max(C))) \in Nat
        BY <1>1, <2>2, <4>1
      <4> QED BY <2>1, <2>2, <4>2, <4>3
    <3> QED BY <3>1
  <2>5. i \in Nat /\ Max(C) \in Nat
    BY <2>2
  <2> QED BY <2>3, <2>4, <2>5
<1> QED BY <1>4, <1>6, <1>7, <1>9 DEF C

-----------------------------------------------------------------------------
(* Sets of upstream items.                                                 *)

LEMMA DepsFinite ==
    ASSUME NEW i \in Items, NEW T \in SUBSET Deps[i], NEW U \in SUBSET T
    PROVE  /\ IsFiniteSet(T) /\ Cardinality(T) \in Nat
           /\ Cardinality(U) \in Nat /\ Cardinality(U) <= Cardinality(T)
<1>1. Deps[i] \subseteq Items
  BY DepsAssumption
<1>2. IsFiniteSet(Items)
  BY ItemsAssumption
<1>3. IsFiniteSet(T)
  BY <1>1, <1>2, FS_Subset
<1>4. IsFiniteSet(U)
  BY <1>3, FS_Subset
<1> QED BY <1>3, <1>4, FS_Subset, FS_CardinalityType

\* A valid graph keeps the edges of a projected item inside its mission.
LEMMA EdgesLocal ==
    ASSUME TypeOK, GraphStaysValid, NEW i \in Items, Projected(i), NEW d \in Deps[i]
    PROVE  d \in Items /\ MissionOf[d] = MissionOf[i] /\ status[d] # "absent"
<1>1. MissionOf[i] \in Missions
  BY MissionsAssumption
<1>2. i \in Present(MissionOf[i]) /\ ValidGraph(Present(MissionOf[i]))
  BY <1>1 DEF GraphStaysValid, Projected, Present, AuthorityOf
<1>3. d \in Present(MissionOf[i])
  BY <1>2 DEF ValidGraph
<1> QED BY <1>3 DEF Present

THEOREM InitInvariant == Init => DependencyInvariant
<1> SUFFICES ASSUME Init PROVE DependencyInvariant
  OBVIOUS
<1>1. TypeOK
  BY BoundsAssumption DEF Init, TypeOK, Statuses, AuthorityStates, Job, NoJob
<1>2. GraphStaysValid
  <2> SUFFICES ASSUME NEW m \in Missions PROVE ValidGraph(Present(m))
    BY DEF GraphStaysValid
  <2>1. Present(m) = {}
    BY DEF Init, Present
  <2> QED BY <2>1 DEF ValidGraph
<1>3. QueueComplete
  BY DEF Init, QueueComplete, NoJob, Terminal, Failed
<1>4. RunsBehindDone /\ ProjectionCatchesUp /\ FailureNotForgotten
  BY DEF Init, RunsBehindDone, ProjectionCatchesUp, FailureNotForgotten, Projected
<1> QED BY <1>1, <1>2, <1>3, <1>4 DEF DependencyInvariant

-----------------------------------------------------------------------------
(* Changes of the status column with the trigger behind them.              *)

\* Rows that are not over move on, to a run only if they are satisfied: every
\* operation on the status column does no more.
LiveRowsMove(next) ==
    /\ next \in [Items -> Statuses]
    /\ \A i \in Items : next[i] # status[i] =>
            /\ status[i] \in {"pending", "running", "parked"}
            /\ next[i] \in Terminal \cup {"running", "parked"}
            /\ next[i] = "running" => Satisfied(i)

LEMMA SetStatusInvariant ==
    ASSUME DependencyInvariant, NEW next, LiveRowsMove(next), SetStatus(next),
           UNCHANGED <<authority, remaining, failures, concluded>>, budget' \in 0 .. MaxEdges
    PROVE  DependencyInvariant'
<1> USE DEF DependencyInvariant
<1>1. TypeOK'
  <2>1. job' \in [Items -> Job]
    BY DEF TypeOK, SetStatus, Queued, NewJob, Job
  <2> QED BY <2>1 DEF TypeOK, SetStatus, LiveRowsMove
<1>2. \A i \in Items : (status'[i] = "absent") <=> (status[i] = "absent")
  BY DEF SetStatus, LiveRowsMove, Terminal, Failed
<1>3. \A m \in Missions : Present(m)' = Present(m)
  BY <1>2 DEF Present
<1>4. GraphStaysValid'
  BY <1>3 DEF GraphStaysValid, ValidGraph
<1>5. \A u \in Items : status[u] \in Terminal => status'[u] = status[u] /\ job'[u] = job[u]
  BY DEF SetStatus, LiveRowsMove, Queued, Triggered, Terminal, Failed
<1>6. \A u \in Items : status[u] \notin Terminal /\ status'[u] \in Terminal /\ AuthorityOf(u) = "active" =>
        job'[u] = NewJob
  BY DEF SetStatus, Queued, Triggered, QueueComplete
<1>7. QueueComplete'
  <2> SUFFICES ASSUME NEW u \in Items
               PROVE  (job[u].state # "none")' <=> (status[u] \in Terminal /\ AuthorityOf(u) = "active")'
    BY DEF QueueComplete
  <2>1. AuthorityOf(u)' = AuthorityOf(u)
    BY DEF AuthorityOf
  <2>2. CASE status[u] \in Terminal
    BY <1>5, <2>1, <2>2 DEF QueueComplete
  <2>3. CASE status[u] \notin Terminal /\ status'[u] \in Terminal /\ AuthorityOf(u) = "active"
    BY <1>6, <2>1, <2>3 DEF NewJob
  <2>4. CASE status[u] \notin Terminal /\ ~(status'[u] \in Terminal /\ AuthorityOf(u) = "active")
    <3>1. job[u].state = "none"
      BY <2>4 DEF QueueComplete
    <3>2. job'[u] = job[u]
      BY <2>4 DEF SetStatus, Queued, Triggered
    <3> QED BY <2>1, <2>4, <3>1, <3>2
  <2> QED BY <2>2, <2>3, <2>4
<1>8. RunsBehindDone'
  <2> SUFFICES ASSUME NEW i \in Items, status'[i] = "running", NEW d \in Deps[i]
               PROVE  MissionOf[d] = MissionOf[i] /\ status'[d] = "done"
    BY DEF RunsBehindDone
  <2>1. MissionOf[d] = MissionOf[i] /\ status[d] = "done"
    BY DEF SetStatus, LiveRowsMove, Satisfied, RunsBehindDone
  <2>2. d \in Items
    BY DepsAssumption
  <2> QED BY <1>5, <2>1, <2>2 DEF Terminal
<1>9. ProjectionCatchesUp'
  <2> SUFFICES ASSUME NEW i \in Items, Projected(i)'
               PROVE  /\ remaining'[i] <= Cardinality(Owed(i)')
                      /\ failures'[i] > 0 => FailedDeps(i)' # {}
    BY DEF ProjectionCatchesUp
  <2>1. Projected(i) /\ AuthorityOf(i)' = AuthorityOf(i)
    BY <1>2 DEF Projected, AuthorityOf
  <2>2. \A d \in Deps[i] : d \in Items /\ AuthorityOf(d) = AuthorityOf(i)
    BY <2>1, EdgesLocal DEF AuthorityOf
  <2>3. ASSUME NEW d \in Owed(i) PROVE d \in Owed(i)'
    <3>1. d \in Deps[i] /\ d \in Items /\ AuthorityOf(d) = AuthorityOf(i)
      BY <2>2 DEF Owed
    <3>2. CASE status[d] \in Terminal
      BY <1>5, <2>1, <3>1, <3>2 DEF Owed
    <3>3. CASE status'[d] \notin Terminal
      BY <3>1, <3>3 DEF Owed, Terminal
    <3>4. CASE status[d] \notin Terminal /\ status'[d] \in Terminal /\ AuthorityOf(i) = "active"
      <4>1. job'[d] = NewJob
        BY <1>6, <3>1, <3>4
      <4>2. 0 < i
        BY ItemsAssumption
      <4> QED BY <3>1, <4>1, <4>2 DEF Owed, NewJob
    <3>5. CASE status[d] \notin Terminal /\ status'[d] \in Terminal /\ AuthorityOf(i) # "active"
      <4>1. AuthorityOf(i) = "migration-pending" /\ AuthorityOf(d)' = "migration-pending"
        BY <2>1, <3>1, <3>5 DEF Projected, AuthorityOf
      <4>2. job'[d].state = "none"
        BY <1>7, <3>1, <4>1 DEF QueueComplete
      <4> QED BY <2>1, <3>1, <4>1, <4>2 DEF Owed
    <3> QED BY <3>2, <3>3, <3>4, <3>5
  <2>4. Cardinality(Owed(i)) \in Nat /\ Cardinality(Owed(i)') \in Nat
        /\ Cardinality(Owed(i)) <= Cardinality(Owed(i)')
    <3>1. Owed(i)' \in SUBSET Deps[i] /\ Owed(i) \in SUBSET Owed(i)'
      BY <2>3 DEF Owed
    <3> QED BY <3>1, DepsFinite
  <2>5. remaining'[i] <= Cardinality(Owed(i)')
    BY <2>1, <2>4 DEF ProjectionCatchesUp, TypeOK
  <2>6. failures'[i] > 0 => FailedDeps(i)' # {}
    <3> SUFFICES ASSUME failures'[i] > 0 PROVE FailedDeps(i)' # {}
      OBVIOUS
    <3>1. PICK d \in Deps[i] : status[d] \in Failed
      BY <2>1 DEF ProjectionCatchesUp, FailedDeps
    <3>2. status'[d] \in Failed
      BY <1>5, <2>2, <3>1 DEF Terminal
    <3> QED BY <3>2 DEF FailedDeps
  <2> QED BY <2>5, <2>6
<1>10. FailureNotForgotten'
  <2> SUFFICES ASSUME NEW i \in Items, NEW d \in Deps[i],
                      (status[i] = "pending" /\ AuthorityOf(i) = "active" /\ status[d] \in Failed)'
               PROVE  ((job[d].state = "pending" /\ job[d].cursor < i) \/ failures[i] > 0)'
    BY DEF FailureNotForgotten
  <2>1. status[i] = "pending" /\ AuthorityOf(i) = "active"
    BY DEF SetStatus, LiveRowsMove, Terminal, Failed, AuthorityOf
  <2>2. d \in Items /\ AuthorityOf(d) = "active"
    BY <2>1, EdgesLocal DEF AuthorityOf, Projected
  <2>3. CASE status[d] \in Terminal
    BY <1>5, <2>1, <2>2, <2>3 DEF FailureNotForgotten
  <2>4. CASE status[d] \notin Terminal
    <3>1. job'[d] = NewJob
      BY <1>6, <2>2, <2>4 DEF Terminal
    <3>2. 0 < i
      BY ItemsAssumption
    <3> QED BY <3>1, <3>2 DEF NewJob
  <2> QED BY <2>3, <2>4
<1> QED BY <1>1, <1>4, <1>7, <1>8, <1>9, <1>10

LEMMA ClaimInvariant ==
    ASSUME DependencyInvariant, NEW i \in Items, Claim(i)
    PROVE  DependencyInvariant'
<1> DEFINE next == [status EXCEPT ![i] = "running"]
<1>1. LiveRowsMove(next)
  BY DEF LiveRowsMove, Claim, Due, DependencyInvariant, TypeOK, Statuses
<1>2. SetStatus(next) /\ UNCHANGED <<authority, remaining, failures, concluded>> /\ budget' \in 0 .. MaxEdges
  BY DEF Claim, DependencyInvariant, TypeOK
<1> QED BY <1>1, <1>2, SetStatusInvariant

LEMMA SettleInvariant ==
    ASSUME DependencyInvariant, NEW i \in Items, NEW outcome \in Terminal, Settle(i, outcome)
    PROVE  DependencyInvariant'
<1> DEFINE next == [status EXCEPT ![i] = outcome]
<1>1. LiveRowsMove(next)
  BY DEF LiveRowsMove, Settle, DependencyInvariant, TypeOK, Statuses, Terminal, Failed
<1>2. SetStatus(next) /\ UNCHANGED <<authority, remaining, failures, concluded>> /\ budget' \in 0 .. MaxEdges
  BY DEF Settle, DependencyInvariant, TypeOK
<1> QED BY <1>1, <1>2, SetStatusInvariant

LEMMA QuarantineInvariant ==
    ASSUME DependencyInvariant, NEW i \in Items, NEW outcome \in {"parked", "failed"},
           Quarantine(i, outcome)
    PROVE  DependencyInvariant'
<1> DEFINE next == [status EXCEPT ![i] = outcome]
<1>1. LiveRowsMove(next)
  BY DEF LiveRowsMove, Quarantine, DependencyInvariant, TypeOK, Statuses, Terminal, Failed
<1>2. SetStatus(next) /\ UNCHANGED <<authority, remaining, failures, concluded>> /\ budget' \in 0 .. MaxEdges
  BY DEF Quarantine, DependencyInvariant, TypeOK
<1> QED BY <1>1, <1>2, SetStatusInvariant

LEMMA RecoverInvariant ==
    ASSUME DependencyInvariant, NEW S \in SUBSET Items, Recover(S)
    PROVE  DependencyInvariant'
<1> DEFINE next == [i \in Items |-> IF i \in S THEN "parked" ELSE status[i]]
<1>1. LiveRowsMove(next)
  BY DEF LiveRowsMove, Recover, DependencyInvariant, TypeOK, Statuses, Terminal, Failed
<1>2. SetStatus(next) /\ UNCHANGED <<authority, remaining, failures, concluded>> /\ budget' \in 0 .. MaxEdges
  BY DEF Recover, DependencyInvariant, TypeOK
<1> QED BY <1>1, <1>2, SetStatusInvariant

\* The pass over the missions with no authority row changes pending items only.
LEMMA BeginReconcileInvariant ==
    ASSUME DependencyInvariant, BeginReconcile
    PROVE  DependencyInvariant'
<1>1. PICK C \in SUBSET LegacyPending :
        /\ Cut(C, LegacyPending)
        /\ LET broken == C \cup {i \in LegacyPending : Missing(i)}
               doomed == Behind(broken, LegacyPending)
           IN  SetStatus([i \in Items |->
                    IF i \in broken THEN "failed"
                    ELSE IF i \in doomed THEN "blocked"
                    ELSE status[i]])
  BY DEF BeginReconcile
<1> DEFINE broken == C \cup {i \in LegacyPending : Missing(i)}
           doomed == Behind(broken, LegacyPending)
           next == [i \in Items |-> IF i \in broken THEN "failed"
                                    ELSE IF i \in doomed THEN "blocked"
                                    ELSE status[i]]
<1>2. broken \subseteq LegacyPending /\ doomed \subseteq LegacyPending
  BY DEF Behind
<1>3. SetStatus(next)
  BY <1>1
<1> HIDE DEF broken, doomed
<1>4. LiveRowsMove(next)
  BY <1>2 DEF LiveRowsMove, LegacyPending, DependencyInvariant, TypeOK, Statuses, Terminal, Failed
<1>5. UNCHANGED <<authority, remaining, failures, concluded>> /\ budget' \in 0 .. MaxEdges
  BY BoundsAssumption DEF BeginReconcile
<1> QED BY <1>3, <1>4, <1>5, SetStatusInvariant

-----------------------------------------------------------------------------
(* Operations on the graph.                                                *)

LEMMA EnqueueInvariant ==
    ASSUME DependencyInvariant, NEW S \in Batches, Enqueue(S)
    PROVE  DependencyInvariant'
<1> USE DEF DependencyInvariant
<1>1. S \subseteq Items
  BY BatchesAssumption
<1>2. \A i \in Items : /\ AuthorityOf(i)' = AuthorityOf(i)
                       /\ i \notin S => status'[i] = status[i]
                       /\ i \in S => status[i] = "absent" /\ status'[i] = "pending"
  BY DEF Enqueue, AuthorityOf
<1>3. \A i \in Items : status[i] # "absent" => status'[i] = status[i]
  BY <1>2
<1>4. TypeOK'
  <2>1. \A i \in Items : Cardinality(NotDone(i)) \in Nat /\ Cardinality(FailedDeps(i)) \in Nat
    BY DepsFinite DEF NotDone, FailedDeps
  <2>2. remaining' \in [Items -> Nat] /\ failures' \in [Items -> Nat]
    BY <2>1 DEF Enqueue, TypeOK
  <2>3. status' \in [Items -> Statuses]
    BY DEF Enqueue, TypeOK, Statuses
  <2> QED BY <2>2, <2>3 DEF Enqueue, TypeOK
<1>5. GraphStaysValid'
  <2> SUFFICES ASSUME NEW m \in Missions, authority'[m] \in {"migration-pending", "active"}
               PROVE  ValidGraph(Present(m)')
    BY DEF GraphStaysValid, ValidGraph
  <2> DEFINE new == {j \in S : MissionOf[j] = m}
  <2>1. Present(m)' = Present(m) \cup new
    BY <1>1, <1>2 DEF Present
  <2>2. CASE new = {}
    BY <2>1, <2>2 DEF Enqueue, GraphStaysValid
  <2>3. CASE new # {}
    <3>1. PICK j \in S : MissionOf[j] = m
      BY <2>3
    <3>2. Admits(m, new)
      BY <3>1 DEF Enqueue
    <3>3. authority[m] # "none"
      BY DEF Enqueue
    <3> QED BY <2>1, <3>2, <3>3 DEF Admits
  <2> QED BY <2>2, <2>3
<1>6. QueueComplete'
  BY <1>2 DEF QueueComplete, Enqueue, Terminal, Failed
<1>7. RunsBehindDone'
  <2> SUFFICES ASSUME NEW i \in Items, status'[i] = "running", NEW d \in Deps[i]
               PROVE  MissionOf[d] = MissionOf[i] /\ status'[d] = "done"
    BY DEF RunsBehindDone
  <2>1. MissionOf[d] = MissionOf[i] /\ status[d] = "done"
    BY <1>2 DEF RunsBehindDone
  <2> QED BY <1>3, <2>1, DepsAssumption
<1>8. ProjectionCatchesUp'
  <2> SUFFICES ASSUME NEW i \in Items, Projected(i)'
               PROVE  /\ remaining'[i] <= Cardinality(Owed(i)')
                      /\ failures'[i] > 0 => FailedDeps(i)' # {}
    BY DEF ProjectionCatchesUp
  <2>1. Deps[i] \subseteq Items
    BY DepsAssumption
  <2>2. Owed(i)' \in SUBSET Deps[i]
    BY DEF Owed
  <2>3. CASE i \in S
    <3>1. AuthorityOf(i) = "active"
      <4>1. Admits(MissionOf[i], {j \in S : MissionOf[j] = MissionOf[i]})
        BY <2>3 DEF Enqueue
      <4> QED BY <1>2, <4>1 DEF Admits, Projected, AuthorityOf
    <3>2. remaining'[i] = Cardinality(NotDone(i)) /\ failures'[i] = Cardinality(FailedDeps(i))
      BY <2>3, <3>1 DEF Enqueue
    <3>3. NotDone(i) \in SUBSET Owed(i)'
      BY <1>2, <2>1 DEF NotDone, Owed
    <3>4. Cardinality(NotDone(i)) <= Cardinality(Owed(i)')
      BY <2>2, <3>3, DepsFinite
    <3>5. ASSUME failures'[i] > 0 PROVE FailedDeps(i)' # {}
      <4>1. FailedDeps(i) # {}
        BY <3>2, <3>5, FS_EmptySet
      <4>2. PICK d \in Deps[i] : status[d] \in Failed
        BY <4>1 DEF FailedDeps
      <4>3. status'[d] \in Failed
        BY <1>3, <2>1, <4>2 DEF Failed
      <4> QED BY <4>3 DEF FailedDeps
    <3> QED BY <3>2, <3>4, <3>5
  <2>4. CASE i \notin S
    <3>1. Projected(i) /\ remaining'[i] = remaining[i] /\ failures'[i] = failures[i]
      BY <1>2, <2>4 DEF Projected, Enqueue
    <3>2. \A d \in Deps[i] : status'[d] = status[d]
      BY <1>3, <3>1, <2>1, EdgesLocal
    <3>3. Owed(i)' = Owed(i) /\ FailedDeps(i)' = FailedDeps(i)
      BY <1>2, <3>2 DEF Owed, FailedDeps, Enqueue
    <3> QED BY <3>1, <3>3 DEF ProjectionCatchesUp
  <2> QED BY <2>3, <2>4
<1>9. FailureNotForgotten'
  <2> SUFFICES ASSUME NEW i \in Items, NEW d \in Deps[i],
                      (status[i] = "pending" /\ AuthorityOf(i) = "active" /\ status[d] \in Failed)'
               PROVE  ((job[d].state = "pending" /\ job[d].cursor < i) \/ failures[i] > 0)'
    BY DEF FailureNotForgotten
  <2>1. d \in Items /\ status[d] \in Failed /\ AuthorityOf(i) = "active"
    BY <1>2, DepsAssumption DEF Failed
  <2>2. CASE i \in S
    <3>1. d \in FailedDeps(i)
      BY <2>1 DEF FailedDeps
    <3>2. failures'[i] = Cardinality(FailedDeps(i))
      BY <2>1, <2>2 DEF Enqueue
    <3>3. IsFiniteSet(FailedDeps(i)) /\ Cardinality(FailedDeps(i)) \in Nat
      BY DepsFinite DEF FailedDeps
    <3>4. Cardinality(FailedDeps(i)) # 0
      BY <3>1, <3>3, FS_EmptySet
    <3> QED BY <3>2, <3>3, <3>4
  <2>3. CASE i \notin S
    BY <1>2, <2>1, <2>3 DEF FailureNotForgotten, Enqueue
  <2> QED BY <2>2, <2>3
<1> QED BY <1>4, <1>5, <1>6, <1>7, <1>8, <1>9

\* The preparation counts what is not done, and owes every upstream item.
LEMMA PrepareInvariant ==
    ASSUME DependencyInvariant, NEW m \in Missions, Prepare(m)
    PROVE  DependencyInvariant'
<1> USE DEF DependencyInvariant
<1>1. UNCHANGED <<status, job, concluded, budget>> /\ authority[m] = "none"
  BY DEF Prepare
<1>2. /\ authority' = [authority EXCEPT ![m] = authority'[m]]
      /\ \/ authority'[m] = "migration-pending" /\ ValidGraph(Present(m))
         \/ authority'[m] = "quarantined"
  BY DEF Prepare, TypeOK
<1>3. \A i \in Items : MissionOf[i] # m => /\ AuthorityOf(i)' = AuthorityOf(i)
                                           /\ remaining'[i] = remaining[i]
                                           /\ failures'[i] = failures[i]
  BY <1>2, MissionsAssumption DEF Prepare, AuthorityOf, Present, TypeOK
<1>4. \A i \in Items : MissionOf[i] = m => job[i].state = "none" /\ AuthorityOf(i)' # "active"
  BY <1>1, <1>2 DEF QueueComplete, AuthorityOf, TypeOK
<1>5. TypeOK'
  <2>1. \A i \in Items : Cardinality(NotDone(i)) \in Nat /\ Cardinality(FailedDeps(i)) \in Nat
    BY DepsFinite DEF NotDone, FailedDeps
  <2>2. remaining' \in [Items -> Nat] /\ failures' \in [Items -> Nat]
    BY <2>1 DEF Prepare, TypeOK
  <2>3. authority' \in [Missions -> AuthorityStates]
    BY <1>2 DEF TypeOK, AuthorityStates
  <2> QED BY <1>1, <2>2, <2>3 DEF TypeOK
<1>6. GraphStaysValid'
  <2> SUFFICES ASSUME NEW k \in Missions, authority'[k] \in {"migration-pending", "active"}
               PROVE  ValidGraph(Present(k)')
    BY DEF GraphStaysValid, ValidGraph
  <2>1. Present(k)' = Present(k)
    BY <1>1 DEF Present
  <2> QED BY <1>2, <2>1 DEF GraphStaysValid, TypeOK
<1>7. QueueComplete'
  <2> SUFFICES ASSUME NEW i \in Items
               PROVE  (job[i].state # "none")' <=> (status[i] \in Terminal /\ AuthorityOf(i) = "active")'
    BY DEF QueueComplete
  <2>1. CASE MissionOf[i] = m
    BY <1>1, <1>4, <2>1
  <2>2. CASE MissionOf[i] # m
    BY <1>1, <1>3, <2>2 DEF QueueComplete
  <2> QED BY <2>1, <2>2
<1>8. RunsBehindDone'
  BY <1>1 DEF RunsBehindDone
<1>9. ProjectionCatchesUp'
  <2> SUFFICES ASSUME NEW i \in Items, Projected(i)'
               PROVE  /\ remaining'[i] <= Cardinality(Owed(i)')
                      /\ failures'[i] > 0 => FailedDeps(i)' # {}
    BY DEF ProjectionCatchesUp
  <2>1. FailedDeps(i)' = FailedDeps(i)
    BY <1>1 DEF FailedDeps
  <2>2. CASE MissionOf[i] = m
    <3>1. AuthorityOf(i)' = "migration-pending" /\ ValidGraph(Present(m)) /\ i \in Present(m)
      BY <1>1, <1>2, <2>2 DEF Projected, AuthorityOf, Present, TypeOK
    <3>2. remaining'[i] = Cardinality(NotDone(i)) /\ failures'[i] = Cardinality(FailedDeps(i))
      BY <3>1 DEF Prepare
    <3>3. \A d \in Deps[i] : job[d].state = "none"
      BY <1>4, <3>1 DEF ValidGraph, Present
    <3>4. NotDone(i) \in SUBSET Owed(i)' /\ Owed(i)' \in SUBSET Deps[i]
      BY <1>1, <3>1, <3>3 DEF NotDone, Owed
    <3>5. Cardinality(NotDone(i)) <= Cardinality(Owed(i)')
      BY <3>4, DepsFinite
    <3> QED BY <2>1, <3>2, <3>5, FS_EmptySet
  <2>3. CASE MissionOf[i] # m
    <3>1. Owed(i)' = Owed(i) /\ Projected(i)
      BY <1>1, <1>3, <2>3 DEF Owed, Projected
    <3> QED BY <1>3, <2>1, <2>3, <3>1 DEF ProjectionCatchesUp
  <2> QED BY <2>2, <2>3
<1>10. FailureNotForgotten'
  BY <1>1, <1>3, <1>4 DEF FailureNotForgotten
<1> QED BY <1>5, <1>6, <1>7, <1>8, <1>9, <1>10

\* The cutover queues a job for every upstream item that is already over.
LEMMA ActivateInvariant ==
    ASSUME DependencyInvariant, NEW m \in Missions, Activate(m)
    PROVE  DependencyInvariant'
<1> USE DEF DependencyInvariant
<1>1. /\ UNCHANGED <<status, remaining, failures, concluded, budget>>
      /\ authority[m] = "migration-pending"
      /\ authority' = [authority EXCEPT ![m] = "active"]
  BY DEF Activate
<1>2. \A i \in Items : MissionOf[i] # m => AuthorityOf(i)' = AuthorityOf(i) /\ job'[i] = job[i]
  BY <1>1, MissionsAssumption DEF Activate, AuthorityOf, TypeOK, Queued, Seeded, Present
<1>3. \A i \in Items : MissionOf[i] = m =>
        /\ AuthorityOf(i) = "migration-pending" /\ AuthorityOf(i)' = "active"
        /\ job[i].state = "none"
  BY <1>1 DEF AuthorityOf, TypeOK, QueueComplete
<1>4. \A i \in Items : MissionOf[i] = m =>
        job'[i] = IF status[i] \in Terminal THEN NewJob ELSE job[i]
  BY <1>3 DEF Activate, Queued, Seeded, Present, Terminal, Failed
<1>5. TypeOK'
  <2>1. job' \in [Items -> Job]
    BY DEF Activate, TypeOK, Queued, NewJob, Job
  <2> QED BY <1>1, <2>1 DEF TypeOK, AuthorityStates
<1>6. GraphStaysValid'
  <2> SUFFICES ASSUME NEW k \in Missions, authority'[k] \in {"migration-pending", "active"}
               PROVE  ValidGraph(Present(k)')
    BY DEF GraphStaysValid, ValidGraph
  <2>1. Present(k)' = Present(k)
    BY <1>1 DEF Present
  <2> QED BY <1>1, <2>1 DEF GraphStaysValid, TypeOK
<1>7. QueueComplete'
  <2> SUFFICES ASSUME NEW i \in Items
               PROVE  (job[i].state # "none")' <=> (status[i] \in Terminal /\ AuthorityOf(i) = "active")'
    BY DEF QueueComplete
  <2>1. CASE MissionOf[i] = m
    BY <1>1, <1>3, <1>4, <2>1 DEF NewJob
  <2>2. CASE MissionOf[i] # m
    BY <1>1, <1>2, <2>2 DEF QueueComplete
  <2> QED BY <2>1, <2>2
<1>8. RunsBehindDone'
  BY <1>1 DEF RunsBehindDone
<1>9. ProjectionCatchesUp'
  <2> SUFFICES ASSUME NEW i \in Items, Projected(i)'
               PROVE  /\ remaining'[i] <= Cardinality(Owed(i)')
                      /\ failures'[i] > 0 => FailedDeps(i)' # {}
    BY DEF ProjectionCatchesUp
  <2>1. Projected(i)
    BY <1>1, <1>2, <1>3 DEF Projected
  <2>2. \A d \in Deps[i] : d \in Items /\ MissionOf[d] = MissionOf[i]
    BY <2>1, EdgesLocal
  <2>3. ASSUME NEW d \in Owed(i) PROVE d \in Owed(i)'
    <3>1. d \in Deps[i] /\ d \in Items /\ MissionOf[d] = MissionOf[i]
      BY <2>2 DEF Owed
    <3>2. CASE MissionOf[i] = m
      <4>1. CASE status[d] = "done"
        <5>1. job'[d] = NewJob /\ 0 < i
          BY <1>4, <3>1, <3>2, <4>1, ItemsAssumption DEF Terminal
        <5> QED BY <3>1, <5>1 DEF Owed, NewJob
      <4>2. CASE status[d] # "done"
        BY <1>1, <3>1, <4>2 DEF Owed
      <4> QED BY <4>1, <4>2
    <3>3. CASE MissionOf[i] # m
      BY <1>1, <1>2, <3>1, <3>3 DEF Owed
    <3> QED BY <3>2, <3>3
  <2>4. Owed(i)' \in SUBSET Deps[i] /\ Owed(i) \in SUBSET Owed(i)'
    BY <2>3 DEF Owed
  <2>5. Cardinality(Owed(i)) \in Nat /\ Cardinality(Owed(i)') \in Nat
        /\ Cardinality(Owed(i)) <= Cardinality(Owed(i)')
    BY <2>4, DepsFinite
  <2>6. FailedDeps(i)' = FailedDeps(i)
    BY <1>1 DEF FailedDeps
  <2> QED BY <1>1, <2>1, <2>5, <2>6 DEF ProjectionCatchesUp, TypeOK
<1>10. FailureNotForgotten'
  <2> SUFFICES ASSUME NEW i \in Items, NEW d \in Deps[i],
                      (status[i] = "pending" /\ AuthorityOf(i) = "active" /\ status[d] \in Failed)'
               PROVE  ((job[d].state = "pending" /\ job[d].cursor < i) \/ failures[i] > 0)'
    BY DEF FailureNotForgotten
  <2>1. Projected(i)
    BY <1>1, <1>2, <1>3 DEF Projected
  <2>2. d \in Items /\ MissionOf[d] = MissionOf[i]
    BY <2>1, EdgesLocal
  <2>3. CASE MissionOf[i] = m
    <3>1. job'[d] = NewJob /\ 0 < i
      BY <1>1, <1>4, <2>2, <2>3, ItemsAssumption DEF Terminal
    <3> QED BY <3>1 DEF NewJob
  <2>4. CASE MissionOf[i] # m
    BY <1>1, <1>2, <2>2, <2>4 DEF FailureNotForgotten
  <2> QED BY <2>3, <2>4
<1> QED BY <1>5, <1>6, <1>7, <1>8, <1>9, <1>10

-----------------------------------------------------------------------------
(* The reconciliation of the normalized missions.                          *)

\* A dependant that a job still owes a visit lies ahead of it.
LEMMA OwedIsAhead ==
    ASSUME DependencyInvariant, NEW i \in Items, Projected(i), NEW u \in Deps[i],
           job[u].cursor < i
    PROVE  u \in Items /\ i \in Ahead(u)
BY EdgesLocal DEF DependencyInvariant, Ahead, Projected, TypeOK

LEMMA CloseJobInvariant ==
    ASSUME DependencyInvariant, NEW u \in Items, CloseJob(u)
    PROVE  DependencyInvariant'
<1> USE DEF DependencyInvariant
<1>1. /\ UNCHANGED <<status, authority, remaining, failures, concluded, budget>>
      /\ job[u].state = "pending" /\ Ahead(u) = {}
      /\ job' = [job EXCEPT ![u].state = "done"]
  BY DEF CloseJob, NextJob, PendingJobs
<1>2. \A d \in Items : d # u => job'[d] = job[d]
  BY <1>1 DEF TypeOK
<1>3. job'[u].state = "done"
  BY <1>1 DEF TypeOK
<1>4. TypeOK'
  BY <1>1 DEF TypeOK, Job
<1>5. GraphStaysValid' /\ RunsBehindDone'
  BY <1>1 DEF GraphStaysValid, ValidGraph, Present, RunsBehindDone
<1>6. QueueComplete'
  BY <1>1, <1>2, <1>3 DEF QueueComplete, AuthorityOf
<1>7. ProjectionCatchesUp'
  <2> SUFFICES ASSUME NEW i \in Items, Projected(i)'
               PROVE  /\ remaining'[i] <= Cardinality(Owed(i)')
                      /\ failures'[i] > 0 => FailedDeps(i)' # {}
    BY DEF ProjectionCatchesUp
  <2>1. Projected(i) /\ FailedDeps(i)' = FailedDeps(i)
    BY <1>1 DEF Projected, AuthorityOf, FailedDeps
  <2>2. ASSUME NEW d \in Owed(i) PROVE d \in Owed(i)'
    <3>1. d \in Deps[i] /\ d \in Items
      BY DepsAssumption DEF Owed
    <3>2. CASE d # u
      BY <1>1, <1>2, <3>1, <3>2 DEF Owed, AuthorityOf
    <3>3. CASE d = u
      <4>1. ~(job[d].cursor < i)
        BY <1>1, <2>1, <3>1, <3>3, OwedIsAhead
      <4> QED BY <1>1, <3>1, <3>3, <4>1 DEF Owed
    <3> QED BY <3>2, <3>3
  <2>3. Owed(i)' \in SUBSET Deps[i] /\ Owed(i) \in SUBSET Owed(i)'
    BY <2>2 DEF Owed
  <2>4. Cardinality(Owed(i)) \in Nat /\ Cardinality(Owed(i)') \in Nat
        /\ Cardinality(Owed(i)) <= Cardinality(Owed(i)')
    BY <2>3, DepsFinite
  <2> QED BY <1>1, <2>1, <2>4 DEF ProjectionCatchesUp, TypeOK
<1>8. FailureNotForgotten'
  <2> SUFFICES ASSUME NEW i \in Items, NEW d \in Deps[i],
                      status[i] = "pending", AuthorityOf(i) = "active", status[d] \in Failed
               PROVE  ((job[d].state = "pending" /\ job[d].cursor < i) \/ failures[i] > 0)'
    BY <1>1 DEF FailureNotForgotten, AuthorityOf
  <2>1. d \in Items /\ Projected(i)
    BY DepsAssumption DEF Projected
  <2>2. CASE d # u
    BY <1>1, <1>2, <2>1, <2>2 DEF FailureNotForgotten
  <2>3. CASE d = u
    <3>1. ~(job[d].cursor < i)
      BY <1>1, <2>1, <2>3, OwedIsAhead
    <3> QED BY <1>1, <3>1 DEF FailureNotForgotten
  <2> QED BY <2>2, <2>3
<1> QED BY <1>4, <1>5, <1>6, <1>7, <1>8

\* A job that has advanced is a job in the same state.
Advanced(j, c, t) == [j EXCEPT !.cursor = c, !.turn = t]

LEMMA JobAdvances ==
    ASSUME NEW j \in Job, NEW c \in Nat, NEW t \in Nat
    PROVE  /\ Advanced(j, c, t) \in Job
           /\ Advanced(j, c, t).state = j.state
           /\ Advanced(j, c, t).cursor = c
BY DEF Job, Advanced

LEMMA AdvanceJobInvariant ==
    ASSUME DependencyInvariant, NEW u \in Items, AdvanceJob(u)
    PROVE  DependencyInvariant'
<1> USE DEF DependencyInvariant
<1> DEFINE n == IF MaxEdgesPerJob <= budget THEN MaxEdgesPerJob ELSE budget
           chunk == Chunk(u, n)
           next == [i \in Items |->
                        IF i \in chunk /\ Blocks(u) /\ status[i] = "pending"
                        THEN "blocked" ELSE status[i]]
<1>1. n \in Nat \ {0} /\ n <= budget /\ budget \in 0 .. MaxEdges
  BY BoundsAssumption DEF AdvanceJob, TypeOK
<1>2. /\ chunk \subseteq Ahead(u)
      /\ Cardinality(chunk) \in 0 .. n
      /\ Max(chunk) \in chunk
      /\ \A i \in Ahead(u) \ chunk : i > Max(chunk)
  <2>1. Ahead(u) \in SUBSET Nat /\ IsFiniteSet(Ahead(u)) /\ Ahead(u) # {}
    <3>1. Ahead(u) \subseteq Items
      BY DEF Ahead
    <3>2. Items \subseteq Nat /\ IsFiniteSet(Items)
      BY ItemsAssumption
    <3> QED BY <3>1, <3>2, FS_Subset DEF AdvanceJob
  <2> HIDE DEF n
  <2> QED BY <1>1, <2>1, FirstElements DEF Chunk
<1>3. /\ UNCHANGED <<authority, concluded>>
      /\ job[u].state = "pending"
      /\ status' = next
      /\ remaining' = [i \in Items |->
                    IF i \in chunk THEN Decremented(remaining[i]) ELSE remaining[i]]
      /\ failures' = [i \in Items |->
                    IF i \in chunk /\ Blocks(u) THEN failures[i] + 1 ELSE failures[i]]
      /\ job' = [Queued(Triggered(next)) EXCEPT
                        ![u].cursor = Max(chunk), ![u].turn = @ + 1]
      /\ budget' = budget - Cardinality(chunk)
  BY DEF AdvanceJob, NextJob, PendingJobs, CursorAfter
<1> HIDE DEF n, chunk
<1>4. \A i \in Items : status'[i] # status[i] =>
        i \in chunk /\ Blocks(u) /\ status[i] = "pending" /\ status'[i] = "blocked"
  BY <1>3
<1>5. status[u] \in Terminal /\ AuthorityOf(u) = "active"
  BY <1>3 DEF QueueComplete
<1>6. \A i \in Items : AuthorityOf(i)' = AuthorityOf(i)
  BY <1>3 DEF AuthorityOf
<1>7. \A d \in Items : status[d] \in Terminal => status'[d] = status[d]
  BY <1>4 DEF Terminal, Failed
<1>8. \A d \in Items \ {u} : job'[d] = IF d \in Triggered(next) THEN NewJob ELSE job[d]
  BY <1>3 DEF Queued
<1>9. job[u] \in Job /\ Max(chunk) \in Nat
  <2>1. Max(chunk) \in Items
    BY <1>2 DEF Ahead
  <2> QED BY <2>1, ItemsAssumption DEF TypeOK
<1>10. job'[u] \in Job /\ job'[u].state = "pending" /\ job'[u].cursor = Max(chunk)
  <2>1. Queued(Triggered(next))[u] = job[u]
    BY <1>3 DEF Queued, Triggered
  <2>2. job'[u] = [job[u] EXCEPT !.cursor = Max(chunk), !.turn = job[u].turn + 1]
    BY <1>3, <2>1 DEF Queued
  <2>3. job[u].turn + 1 \in Nat
    BY <1>9 DEF Job
  <2> DEFINE k == Advanced(job[u], Max(chunk), job[u].turn + 1)
  <2>4. job'[u] = k
    BY <2>2 DEF Advanced
  <2>5. k \in Job /\ k.state = job[u].state /\ k.cursor = Max(chunk)
    BY <1>9, <2>3, JobAdvances
  <2> HIDE DEF k
  <2> QED BY <1>3, <2>4, <2>5
<1>11. \A d \in Items \ {u} : status[d] \in Terminal => job'[d] = job[d]
  BY <1>3, <1>7, <1>8 DEF Triggered
<1>12. \A d \in Items \ {u} :
        (status[d] \notin Terminal /\ status'[d] \in Terminal /\ AuthorityOf(d) = "active") =>
            job'[d] = NewJob
  BY <1>3, <1>8 DEF Triggered, QueueComplete
<1>13. \A d \in Items \ {u} : status'[d] = status[d] => job'[d] = job[d]
  BY <1>3, <1>8 DEF Triggered
<1>14. TypeOK'
  <2>1. job' \in [Items -> Job]
    <3>1. NewJob \in Job /\ \A d \in Items : job[d] \in Job
      BY DEF TypeOK, NewJob, Job
    <3>2. \A d \in Items \ {u} : job'[d] \in Job
      BY <1>8, <3>1
    <3>3. \A d \in Items : job'[d] \in Job
      BY <1>10, <3>2
    <3>4. job' = [d \in Items |-> job'[d]]
      BY <1>3 DEF Queued
    <3> QED BY <3>3, <3>4
  <2>2. status' \in [Items -> Statuses]
    BY <1>3 DEF TypeOK, Statuses, Terminal, Failed
  <2>3. remaining' \in [Items -> Nat]
    BY <1>3 DEF TypeOK, Decremented
  <2>4. failures' \in [Items -> Nat]
    BY <1>3 DEF TypeOK
  <2>5. budget' \in 0 .. MaxEdges
    BY <1>1, <1>2, <1>3, BoundsAssumption
  <2> QED BY <1>3, <2>1, <2>2, <2>3, <2>4, <2>5 DEF TypeOK
<1>15. GraphStaysValid'
  <2>1. \A m \in Missions : Present(m)' = Present(m)
    BY <1>4 DEF Present
  <2> QED BY <1>3, <2>1 DEF GraphStaysValid, ValidGraph
<1>16. QueueComplete'
  <2> SUFFICES ASSUME NEW d \in Items
               PROVE  (job[d].state # "none")' <=> (status[d] \in Terminal /\ AuthorityOf(d) = "active")'
    BY DEF QueueComplete
  <2>1. CASE d = u
    BY <1>5, <1>6, <1>7, <1>10, <2>1
  <2>2. CASE d # u /\ status'[d] = status[d]
    BY <1>6, <1>13, <2>2 DEF QueueComplete
  <2>3. CASE d # u /\ status'[d] # status[d] /\ AuthorityOf(d) = "active"
    <3>1. status'[d] \in Terminal /\ status[d] \notin Terminal
      BY <1>4, <2>3 DEF Terminal, Failed
    <3> QED BY <1>6, <1>12, <2>3, <3>1 DEF NewJob
  <2>4. CASE d # u /\ status'[d] # status[d] /\ AuthorityOf(d) # "active"
    <3>1. job'[d] = job[d]
      BY <1>8, <2>4 DEF Triggered
    <3> QED BY <1>6, <2>4, <3>1 DEF QueueComplete
  <2> QED BY <2>1, <2>2, <2>3, <2>4
<1>17. RunsBehindDone'
  <2> SUFFICES ASSUME NEW i \in Items, status'[i] = "running", NEW d \in Deps[i]
               PROVE  MissionOf[d] = MissionOf[i] /\ status'[d] = "done"
    BY DEF RunsBehindDone
  <2>1. MissionOf[d] = MissionOf[i] /\ status[d] = "done"
    BY <1>4 DEF RunsBehindDone
  <2> QED BY <1>7, <2>1, DepsAssumption DEF Terminal
<1>18. ProjectionCatchesUp'
  <2> SUFFICES ASSUME NEW i \in Items, Projected(i)'
               PROVE  /\ remaining'[i] <= Cardinality(Owed(i)')
                      /\ failures'[i] > 0 => FailedDeps(i)' # {}
    BY DEF ProjectionCatchesUp
  <2>1. Projected(i)
    BY <1>4, <1>6 DEF Projected
  <2>2. \A d \in Deps[i] : d \in Items /\ AuthorityOf(d) = AuthorityOf(i)
    BY <2>1, EdgesLocal DEF AuthorityOf
  <2>3. ASSUME NEW d \in Owed(i), d # u PROVE d \in Owed(i)'
    <3>1. d \in Deps[i] /\ d \in Items \ {u} /\ AuthorityOf(d) = AuthorityOf(i)
      BY <2>2, <2>3 DEF Owed
    <3>2. CASE status'[d] = status[d]
      BY <1>6, <1>13, <3>1, <3>2 DEF Owed
    <3>3. CASE status'[d] # status[d]
      <4>1. status'[d] = "blocked"
        BY <1>4, <3>1, <3>3
      <4> QED BY <3>1, <4>1 DEF Owed
    <3> QED BY <3>2, <3>3
  <2>4. ASSUME i \notin chunk, u \in Owed(i) PROVE u \in Owed(i)'
    <3>1. u \in Deps[i] /\ (status[u] # "done" \/ job[u].cursor < i)
      BY <1>3, <2>4 DEF Owed
    <3>2. CASE status[u] # "done"
      BY <1>5, <1>7, <3>1, <3>2 DEF Owed
    <3>3. CASE job[u].cursor < i
      <4>1. i > Max(chunk)
        BY <1>2, <2>1, <2>4, <3>1, <3>3, OwedIsAhead
      <4>2. i \in Nat
        BY ItemsAssumption
      <4> QED BY <1>9, <1>10, <3>1, <4>1, <4>2 DEF Owed
    <3> QED BY <3>1, <3>2, <3>3
  <2>5. /\ Owed(i) \in SUBSET Deps[i] /\ Owed(i)' \in SUBSET Deps[i]
        /\ IsFiniteSet(Owed(i)) /\ IsFiniteSet(Owed(i)')
        /\ Cardinality(Owed(i)) \in Nat /\ Cardinality(Owed(i)') \in Nat
    <3>1. Owed(i) \in SUBSET Deps[i] /\ Owed(i)' \in SUBSET Deps[i]
      BY DEF Owed
    <3> QED BY <3>1, DepsFinite
  <2>6. remaining'[i] <= Cardinality(Owed(i)')
    <3>1. remaining[i] \in Nat /\ remaining[i] <= Cardinality(Owed(i))
      BY <2>1 DEF ProjectionCatchesUp, TypeOK
    <3>2. CASE i \notin chunk
      <4>1. Owed(i) \in SUBSET Owed(i)'
        BY <2>3, <2>4, <3>2
      <4>2. Cardinality(Owed(i)) <= Cardinality(Owed(i)')
        BY <2>5, <4>1, DepsFinite
      <4>3. remaining'[i] = remaining[i]
        BY <1>3, <3>2
      <4> QED BY <2>5, <3>1, <4>2, <4>3
    <3>3. CASE i \in chunk
      <4>1. Owed(i) \subseteq Owed(i)' \cup {u}
        BY <2>3
      <4>2. /\ IsFiniteSet(Owed(i)' \cup {u})
            /\ Cardinality(Owed(i)' \cup {u}) \in Nat
            /\ Cardinality(Owed(i)' \cup {u}) <= Cardinality(Owed(i)') + 1
        <5>1. /\ IsFiniteSet(Owed(i)' \cup {u})
              /\ \/ Cardinality(Owed(i)' \cup {u}) = Cardinality(Owed(i)')
                 \/ Cardinality(Owed(i)' \cup {u}) = Cardinality(Owed(i)') + 1
          BY <2>5, FS_AddElement
        <5> QED BY <2>5, <5>1
      <4>3. Cardinality(Owed(i)) <= Cardinality(Owed(i)' \cup {u})
        BY <4>1, <4>2, FS_Subset
      <4>4. remaining'[i] = Decremented(remaining[i])
        BY <1>3, <3>3
      <4> QED BY <2>5, <3>1, <4>2, <4>3, <4>4 DEF Decremented
    <3> QED BY <3>2, <3>3
  <2>7. ASSUME failures'[i] > 0 PROVE FailedDeps(i)' # {}
    <3>1. CASE i \in chunk /\ Blocks(u)
      <4>1. u \in Deps[i] /\ status'[u] \in Failed
        BY <1>2, <1>5, <1>7, <3>1 DEF Ahead, Blocks
      <4> QED BY <4>1 DEF FailedDeps
    <3>2. CASE ~(i \in chunk /\ Blocks(u))
      <4>1. failures[i] > 0
        BY <1>3, <2>7, <3>2
      <4>2. PICK d \in Deps[i] : status[d] \in Failed
        BY <2>1, <4>1 DEF ProjectionCatchesUp, FailedDeps
      <4>3. status'[d] \in Failed
        BY <1>7, <2>2, <4>2 DEF Terminal
      <4> QED BY <4>3 DEF FailedDeps
    <3> QED BY <3>1, <3>2
  <2> QED BY <2>6, <2>7
<1>19. FailureNotForgotten'
  <2> SUFFICES ASSUME NEW i \in Items, NEW d \in Deps[i],
                      (status[i] = "pending" /\ AuthorityOf(i) = "active" /\ status[d] \in Failed)'
               PROVE  ((job[d].state = "pending" /\ job[d].cursor < i) \/ failures[i] > 0)'
    BY DEF FailureNotForgotten
  <2>1. /\ status[i] = "pending" /\ AuthorityOf(i) = "active"
        /\ ~(i \in chunk /\ Blocks(u))
    BY <1>3, <1>4, <1>6
  <2>2. d \in Items /\ AuthorityOf(d) = "active" /\ Projected(i)
    BY <2>1, EdgesLocal DEF AuthorityOf, Projected
  <2>3. failures'[i] = failures[i]
    BY <1>3, <2>1
  <2>4. CASE status[d] \notin Terminal
    <3>1. job'[d] = NewJob /\ 0 < i
      BY <1>5, <1>12, <2>2, <2>4, ItemsAssumption DEF Terminal
    <3> QED BY <3>1 DEF NewJob
  <2>5. CASE status[d] \in Terminal /\ d # u
    BY <1>7, <1>11, <2>1, <2>2, <2>3, <2>5 DEF FailureNotForgotten
  <2>6. CASE d = u
    <3>1. i \notin chunk /\ status[u] \in Failed
      BY <1>5, <1>7, <2>1, <2>6 DEF Blocks
    <3>2. CASE failures[i] > 0
      BY <2>3, <3>2
    <3>3. CASE job[u].cursor < i
      <4>1. i > Max(chunk)
        BY <1>2, <2>2, <2>6, <3>1, <3>3, OwedIsAhead
      <4>2. i \in Nat
        BY ItemsAssumption
      <4> QED BY <1>9, <1>10, <2>6, <4>1, <4>2
    <3> QED BY <2>1, <2>6, <3>1, <3>2, <3>3 DEF FailureNotForgotten
  <2> QED BY <2>4, <2>5, <2>6
<1> QED BY <1>14, <1>15, <1>16, <1>17, <1>18, <1>19

-----------------------------------------------------------------------------
(* The specification.                                                      *)

LEMMA DependencyStep ==
    ASSUME DependencyInvariant, [Next]_vars
    PROVE  DependencyInvariant'
<1>1. CASE BeginReconcile
  BY <1>1, BeginReconcileInvariant
<1>2. ASSUME NEW u \in Items, CloseJob(u) PROVE DependencyInvariant'
  BY <1>2, CloseJobInvariant
<1>3. ASSUME NEW u \in Items, AdvanceJob(u) PROVE DependencyInvariant'
  BY <1>3, AdvanceJobInvariant
<1>4. CASE EndReconcile \/ UNCHANGED vars \/ \E m \in Missions : Conclude(m)
  <2>1. /\ UNCHANGED <<status, authority, remaining, failures, job>>
        /\ concluded' \subseteq Missions /\ budget' \in 0 .. MaxEdges
    BY <1>4, BoundsAssumption
    DEF EndReconcile, Conclude, vars, DependencyInvariant, TypeOK
  <2>2. TypeOK'
    BY <2>1 DEF DependencyInvariant, TypeOK
  <2>3. GraphStaysValid' /\ QueueComplete'
    BY <2>1 DEF DependencyInvariant, GraphStaysValid, ValidGraph, Present, QueueComplete,
                AuthorityOf
  <2>4. RunsBehindDone' /\ FailureNotForgotten'
    BY <2>1 DEF DependencyInvariant, RunsBehindDone, FailureNotForgotten, AuthorityOf
  <2>5. ProjectionCatchesUp'
    <3>1. \A i \in Items : Projected(i)' = Projected(i) /\ Owed(i)' = Owed(i)
                           /\ FailedDeps(i)' = FailedDeps(i)
      BY <2>1 DEF Projected, Owed, FailedDeps, AuthorityOf
    <3> QED BY <2>1, <3>1 DEF DependencyInvariant, ProjectionCatchesUp
  <2> QED BY <2>2, <2>3, <2>4, <2>5 DEF DependencyInvariant
<1>5. ASSUME NEW i \in Items, Claim(i) PROVE DependencyInvariant'
  BY <1>5, ClaimInvariant
<1>6. ASSUME NEW i \in Items, NEW outcome \in Terminal, Settle(i, outcome)
      PROVE  DependencyInvariant'
  BY <1>6, SettleInvariant
<1>7. ASSUME NEW i \in Items, NEW outcome \in {"parked", "failed"}, Quarantine(i, outcome)
      PROVE  DependencyInvariant'
  BY <1>7, QuarantineInvariant
<1>8. ASSUME NEW S \in Batches, Enqueue(S) PROVE DependencyInvariant'
  BY <1>8, EnqueueInvariant
<1>9. ASSUME NEW m \in Missions, Prepare(m) PROVE DependencyInvariant'
  BY <1>9, PrepareInvariant
<1>10. ASSUME NEW m \in Missions, Activate(m) PROVE DependencyInvariant'
  BY <1>10, ActivateInvariant
<1>11. ASSUME NEW S \in SUBSET Items, Recover(S) PROVE DependencyInvariant'
  BY <1>11, RecoverInvariant
<1> QED BY <1>1, <1>2, <1>3, <1>4, <1>5, <1>6, <1>7, <1>8, <1>9, <1>10, <1>11
        DEF Next, Reconcile, Dispatch

\* The inductive invariant holds in every reachable state.
THEOREM DependencyInvariantHolds == Spec => []DependencyInvariant
<1>1. Init => DependencyInvariant
  BY InitInvariant
<1>2. DependencyInvariant /\ [Next]_vars => DependencyInvariant'
  BY DependencyStep
<1> QED BY <1>1, <1>2, PTL DEF Spec

\* Every state of the authority has its type: no counter goes below zero, which
\* the CHECK constraint of work_item_dependency_readiness would refuse.
THEOREM DependencyTypeCorrect == Spec => []TypeOK
<1>1. DependencyInvariant => TypeOK
  BY DEF DependencyInvariant
<1> QED BY <1>1, DependencyInvariantHolds, PTL

\* The graph of a mission under normalized authority is complete and acyclic,
\* whatever is enqueued (enqueueItem, validateNormalizedItems).
THEOREM GraphAlwaysValid == Spec => []GraphStaysValid
<1>1. DependencyInvariant => GraphStaysValid
  BY DEF DependencyInvariant
<1> QED BY <1>1, DependencyInvariantHolds, PTL

\* The queue has a job of exactly the terminal items of the active missions
\* (the trigger, seedTerminalDependencyJobs).
THEOREM QueueAlwaysComplete == Spec => []QueueComplete
<1>1. DependencyInvariant => QueueComplete
  BY DEF DependencyInvariant
<1> QED BY <1>1, DependencyInvariantHolds, PTL

\* No item runs before the items it depends on are done (dependenciesSatisfied,
\* which claimItemWithAuthority evaluates on the edges).
THEOREM AlwaysRunsBehindDone == Spec => []RunsBehindDone
<1>1. DependencyInvariant => RunsBehindDone
  BY DEF DependencyInvariant
<1> QED BY <1>1, DependencyInvariantHolds, PTL

\* The counters never withhold an item that the queue has passed, for any budget
\* and any size of a chunk (queryDue, reconcilePendingDependencies).
THEOREM ProjectionAlwaysCatchesUp == Spec => []ProjectionCatchesUp
<1>1. DependencyInvariant => ProjectionCatchesUp
  BY DEF DependencyInvariant
<1> QED BY <1>1, DependencyInvariantHolds, PTL

\* No failure is lost on its way to the items behind it, although a transaction
\* may end in the middle of a job (reconcilePendingDependencies).
THEOREM FailureNeverForgotten == Spec => []FailureNotForgotten
<1>1. DependencyInvariant => FailureNotForgotten
  BY DEF DependencyInvariant
<1> QED BY <1>1, DependencyInvariantHolds, PTL

-----------------------------------------------------------------------------
(* What a refusal is for.                                                  *)

\* What the reconciliation of a legacy mission blocks is behind a failure: the
\* least set would be smaller without an item that is not.
LEMMA BlockedBehind ==
    ASSUME NEW P \in SUBSET Items, NEW F \in SUBSET P, NEW i \in Behind(F, P), i \notin F
    PROVE  \E d \in Known(i) : d \in Behind(F, P) \/ status[d] \in Failed
<1> DEFINE Closed(S) ==
        /\ F \subseteq S
        /\ \A j \in P : (\E d \in Known(j) : d \in S \/ status[d] \in Failed) => j \in S
<1>1. \A j \in P : j \in Behind(F, P) <=> \A S \in SUBSET P : Closed(S) => j \in S
  BY DEF Behind
<1>2. Behind(F, P) \subseteq P
  BY DEF Behind
<1> SUFFICES ASSUME \A d \in Known(i) : d \notin Behind(F, P) /\ status[d] \notin Failed
             PROVE  FALSE
  OBVIOUS
<1> DEFINE S == Behind(F, P) \ {i}
<1>3. S \in SUBSET P
  BY <1>2
<1>4. F \subseteq S
  BY <1>1
<1>5. ASSUME NEW j \in P, NEW d \in Known(j), d \in S \/ status[d] \in Failed PROVE j \in S
  <2>1. j # i
    BY <1>5
  <2>2. j \in Behind(F, P)
    <3>1. SUFFICES ASSUME NEW T \in SUBSET P, Closed(T) PROVE j \in T
      BY <1>1
    <3>2. d \in T \/ status[d] \in Failed
      BY <1>1, <1>2, <1>5, <3>1
    <3> QED BY <3>1, <3>2
  <2> QED BY <2>1, <2>2
<1>6. Closed(S)
  BY <1>4, <1>5
<1> HIDE DEF Closed
<1>7. i \in S
  BY <1>1, <1>2, <1>3, <1>6
<1> QED BY <1>7

\* A cycle of some items is a cycle of more.
LEMMA CyclesGrow ==
    ASSUME NEW P \in SUBSET Items, NEW C \in SUBSET P, NEW i, OnCycle(i, C)
    PROVE  OnCycle(i, P)
<1> SUFFICES ASSUME NEW S \in SUBSET P, Known(i) \cap P \subseteq S,
                    \A j \in S : Known(j) \cap P \subseteq S
             PROVE  i \in S
  BY DEF OnCycle
<1>1. Known(i) \cap C \subseteq S \cap C /\ S \cap C \in SUBSET C
  OBVIOUS
<1>2. \A j \in S \cap C : Known(j) \cap C \subseteq S \cap C
  OBVIOUS
<1> QED BY <1>1, <1>2 DEF OnCycle

\* Action property: nothing is blocked or failed without a cause, at whatever
\* point of its reconciliation a mission is (reconcilePendingDependencies).
THEOREM AlwaysRefusedForCause == Spec => RefusedForCause
<1> DEFINE Caused(i) ==
        /\ status'[i] = "blocked" => \E d \in Deps[i] : status'[d] \in Failed
        /\ status'[i] = "failed" =>
                \/ i \in Unfit
                \/ i \in LegacyPending /\ (Missing(i) \/ OnCycle(i, LegacyPending))
           Refusals == \A i \in Items : status[i] = "pending" => Caused(i)
<1>1. DependencyInvariant /\ [Next]_vars => [Refusals]_vars
  <2> SUFFICES ASSUME DependencyInvariant, Next, NEW i \in Items, status[i] = "pending"
               PROVE  Caused(i)
    OBVIOUS
  <2>1. CASE status'[i] \notin Failed
    BY <2>1 DEF Failed
  <2>2. CASE BeginReconcile
    <3>1. PICK C \in SUBSET LegacyPending :
            /\ Cut(C, LegacyPending)
            /\ LET broken == C \cup {k \in LegacyPending : Missing(k)}
                   doomed == Behind(broken, LegacyPending)
               IN  SetStatus([k \in Items |->
                        IF k \in broken THEN "failed"
                        ELSE IF k \in doomed THEN "blocked"
                        ELSE status[k]])
      BY <2>2 DEF BeginReconcile
    <3> DEFINE broken == C \cup {k \in LegacyPending : Missing(k)}
               doomed == Behind(broken, LegacyPending)
    <3>2. status' = [k \in Items |-> IF k \in broken THEN "failed"
                                     ELSE IF k \in doomed THEN "blocked"
                                     ELSE status[k]]
      BY <3>1 DEF SetStatus
    <3>3. broken \in SUBSET LegacyPending /\ LegacyPending \in SUBSET Items
      BY DEF LegacyPending
    <3>4. \A k \in broken : OnCycle(k, LegacyPending) \/ Missing(k)
      <4>1. \A k \in C : OnCycle(k, LegacyPending)
        BY <3>1, <3>3, CyclesGrow DEF Cut
      <4> QED BY <4>1
    <3> HIDE DEF broken
    <3>5. CASE i \in broken
      BY <3>2, <3>3, <3>4, <3>5
    <3>6. CASE i \in doomed /\ i \notin broken
      <4>1. PICK d \in Known(i) : d \in doomed \/ status[d] \in Failed
        BY <3>3, <3>6, BlockedBehind
      <4>2. d \in Items /\ d \in Deps[i]
        BY <4>1 DEF Known, Present
      <4>3. status'[d] \in Failed
        BY <3>2, <4>1, <4>2 DEF Failed
      <4>4. status'[i] = "blocked"
        BY <3>2, <3>6
      <4> QED BY <4>2, <4>3, <4>4
    <3>7. CASE i \notin doomed /\ i \notin broken
      BY <3>2, <3>7
    <3> QED BY <3>5, <3>6, <3>7
  <2>3. ASSUME NEW u \in Items, AdvanceJob(u), status'[i] \in Failed PROVE Caused(i)
    <3>1. i \in Ahead(u) /\ Blocks(u) /\ status'[i] = "blocked"
      BY <2>3 DEF AdvanceJob, Chunk, FirstOf, Failed
    <3>2. u \in Deps[i] /\ status'[u] \in Failed
      BY <2>3, <3>1 DEF AdvanceJob, Ahead, Blocks, Failed
    <3> QED BY <3>1, <3>2
  <2>4. ASSUME NEW k \in Items, Claim(k) PROVE status'[i] \notin Failed
    BY <2>4 DEF Claim, SetStatus, Failed, DependencyInvariant, TypeOK
  <2>5. ASSUME NEW k \in Items, NEW outcome \in Terminal, Settle(k, outcome)
        PROVE  status'[i] \notin Failed
    BY <2>5 DEF Settle, SetStatus, Failed, DependencyInvariant, TypeOK
  <2>6. ASSUME NEW k \in Items, NEW outcome \in {"parked", "failed"}, Quarantine(k, outcome)
        PROVE  Caused(i)
    BY <2>6 DEF Quarantine, SetStatus, DependencyInvariant, TypeOK
  <2>7. ASSUME NEW S \in Batches, Enqueue(S) PROVE status'[i] \notin Failed
    BY <2>7 DEF Enqueue, Failed
  <2>8. ASSUME NEW S \in SUBSET Items, Recover(S) PROVE status'[i] \notin Failed
    BY <2>8 DEF Recover, SetStatus, Failed
  <2>9. ASSUME UNCHANGED status PROVE status'[i] \notin Failed
    BY <2>9 DEF Failed
  <2> QED BY <2>1, <2>2, <2>3, <2>4, <2>5, <2>6, <2>7, <2>8, <2>9
          DEF Next, Reconcile, Dispatch, CloseJob, EndReconcile, Prepare, Activate, Conclude
<1>2. RefusedForCause <=> [][Refusals]_vars
  BY DEF RefusedForCause
<1> QED BY <1>1, <1>2, DependencyInvariantHolds, PTL DEF Spec

-----------------------------------------------------------------------------
(* A transaction of the reconciliation ends.                               *)

\* Each step of an open transaction spends of its budget, or closes a job and
\* opens none; nothing else runs until it has ended.  So it ends, whatever the
\* number of jobs and dependants and however jobs queue further jobs.
TransactionEnds ==
    [][budget > 0 =>
        \/ budget' < budget
        \/ budget' = budget /\ PendingJobs' \subseteq PendingJobs /\ PendingJobs' # PendingJobs]_vars

LEMMA ChunkSpends ==
    ASSUME DependencyInvariant, NEW u \in Items, AdvanceJob(u)
    PROVE  budget' < budget
<1> DEFINE n == IF MaxEdgesPerJob <= budget THEN MaxEdgesPerJob ELSE budget
           chunk == Chunk(u, n)
<1>1. n \in Nat \ {0} /\ budget \in Nat
  BY BoundsAssumption DEF AdvanceJob, DependencyInvariant, TypeOK
<1>2. Ahead(u) \in SUBSET Nat /\ IsFiniteSet(Ahead(u)) /\ Ahead(u) # {}
  <2>1. Ahead(u) \subseteq Items
    BY DEF Ahead
  <2> QED BY <2>1, ItemsAssumption, FS_Subset DEF AdvanceJob
<1>3. IsFiniteSet(chunk) /\ Cardinality(chunk) \in 0 .. n /\ Max(chunk) \in chunk
  <2> HIDE DEF n
  <2> QED BY <1>1, <1>2, FirstElements DEF Chunk
<1>4. Cardinality(chunk) # 0
  <2> HIDE DEF chunk
  <2> QED BY <1>3, FS_EmptySet
<1>5. budget' = budget - Cardinality(chunk)
  BY DEF AdvanceJob
<1> HIDE DEF chunk, n
<1> QED BY <1>1, <1>3, <1>4, <1>5

\* Action property: the loop of reconcilePendingDependencies over its jobs ends.
THEOREM TransactionsEnd == Spec => TransactionEnds
<1> DEFINE Spent ==
        budget > 0 =>
            \/ budget' < budget
            \/ budget' = budget /\ PendingJobs' \subseteq PendingJobs /\ PendingJobs' # PendingJobs
<1>1. DependencyInvariant /\ [Next]_vars => [Spent]_vars
  <2> SUFFICES ASSUME DependencyInvariant, Next, budget > 0 PROVE Spent
    OBVIOUS
  <2>1. ASSUME NEW u \in Items, CloseJob(u) PROVE Spent
    <3>1. u \in PendingJobs /\ budget' = budget /\ job' = [job EXCEPT ![u].state = "done"]
      BY <2>1 DEF CloseJob, NextJob
    <3>2. PendingJobs' = PendingJobs \ {u}
      BY <3>1 DEF PendingJobs, DependencyInvariant, TypeOK, Job
    <3> QED BY <3>1, <3>2
  <2>2. ASSUME NEW u \in Items, AdvanceJob(u) PROVE Spent
    BY <2>2, ChunkSpends
  <2>3. CASE EndReconcile
    BY <2>3 DEF EndReconcile, DependencyInvariant, TypeOK
  <2>4. budget # 0
    OBVIOUS
  <2> QED BY <2>1, <2>2, <2>3, <2>4
          DEF Next, Reconcile, Dispatch, BeginReconcile, Claim, Settle, Quarantine, Enqueue, Recover,
              Prepare, Activate, Conclude
<1>2. TransactionEnds <=> [][Spent]_vars
  BY DEF TransactionEnds
<1> QED BY <1>1, <1>2, DependencyInvariantHolds, PTL DEF Spec

-----------------------------------------------------------------------------
(* The contract of the dependency authority.                               *)

KeepsContract == [Contract!Next]_(Contract!vars)

\* The statuses of some items of status s are set, and nothing else that the
\* contract sees.
LEMMA MoveStep ==
    ASSUME NEW S \in SUBSET Items, NEW s, NEW next,
           \A i \in S : status[i] = s,
           SetStatus([i \in Items |-> IF i \in S THEN next ELSE status[i]]),
           UNCHANGED concluded
    PROVE  Contract!Move(S, s, next)
BY DEF SetStatus, Contract!Move, Contract!Having

LEMMA ItemStep ==
    ASSUME DependencyInvariant, NEW i \in Items, NEW next,
           SetStatus([status EXCEPT ![i] = next]), UNCHANGED concluded
    PROVE  Contract!Move({i}, status[i], next)
<1>1. [status EXCEPT ![i] = next] = [k \in Items |-> IF k \in {i} THEN next ELSE status[k]]
  BY DEF DependencyInvariant, TypeOK
<1> QED BY <1>1, MoveStep

LEMMA KnownIsKnown == \A i \in Items : Contract!Known(i) = Known(i)
BY DepsAssumption DEF Contract!Known, Known, Present

\* A legacy mission is reconciled as a whole, so the set it refuses is the least.
LEMMA BehindLeads ==
    ASSUME NEW F \in SUBSET LegacyPending
    PROVE  /\ F \subseteq Behind(F, LegacyPending)
           /\ Behind(F, LegacyPending) \subseteq LegacyPending
           /\ Contract!LeadTo(F, Behind(F, LegacyPending))
<1> DEFINE P == LegacyPending
           Closed(S) ==
                /\ F \subseteq S
                /\ \A j \in P : (\E d \in Known(j) : d \in S \/ status[d] \in Failed) => j \in S
           R == Behind(F, P)
<1>1. R = {i \in P : \A S \in SUBSET P : Closed(S) => i \in S}
  BY DEF Behind
<1>2. F \subseteq R /\ R \subseteq P /\ P \subseteq Items
  BY <1>1 DEF LegacyPending
<1>3. Closed(R)
  BY <1>1, <1>2
<1>4. ASSUME NEW S \in SUBSET R, F \subseteq S,
             \A j \in R : (\E d \in Known(j) : d \in S \/ status[d] \in Failed) => j \in S
      PROVE  S = R
  <2>1. Closed(S)
    BY <1>3, <1>4
  <2> QED BY <1>1, <1>2, <1>4, <2>1
<1>5. \A j \in R : Contract!Known(j) = Known(j)
  BY <1>2, KnownIsKnown
<1> HIDE DEF R
<1>6. Contract!LeadTo(F, R)
  BY <1>4, <1>5 DEF Contract!LeadTo, Contract!Failed, Failed
<1> QED BY <1>2, <1>6 DEF R

LEMMA ReconcileRefuses ==
    ASSUME DependencyInvariant, BeginReconcile
    PROVE  KeepsContract
<1> DEFINE P == LegacyPending
<1>1. PICK C \in SUBSET P :
        /\ Cut(C, P)
        /\ LET broken == C \cup {i \in P : Missing(i)}
               doomed == Behind(broken, P)
           IN  SetStatus([i \in Items |->
                    IF i \in broken THEN "failed"
                    ELSE IF i \in doomed THEN "blocked"
                    ELSE status[i]])
  BY DEF BeginReconcile
<1> DEFINE F == C \cup {i \in P : Missing(i)}
           R == Behind(F, P)
<1>2. F \subseteq R /\ R \subseteq P /\ Contract!LeadTo(F, R)
  <2>1. F \in SUBSET P
    OBVIOUS
  <2> HIDE DEF F
  <2> QED BY <2>1, BehindLeads
<1>3. P \subseteq Contract!Having("pending")
  BY DEF LegacyPending, Contract!Having
<1>4. ASSUME NEW i \in F PROVE Deps[i] # Contract!Known(i) \/ Contract!Circular(i)
  <2>1. i \in Items
    BY DEF LegacyPending
  <2>2. CASE Missing(i)
    BY <2>1, <2>2, KnownIsKnown DEF Missing, Known
  <2>3. CASE i \in C
    <3>1. OnCycle(i, Contract!Having("pending"))
      <4>1. Contract!Having("pending") \in SUBSET Items
        BY DEF Contract!Having
      <4> QED BY <1>1, <1>3, <2>3, <4>1, CyclesGrow DEF Cut
    <3>2. Contract!Circular(i)
      <4>1. \A j \in Contract!Having("pending") \cup {i} : Contract!Known(j) = Known(j)
        BY <2>1, KnownIsKnown DEF Contract!Having
      <4> QED BY <3>1, <4>1 DEF OnCycle, Contract!Circular
    <3> QED BY <3>2
  <2> QED BY <2>2, <2>3
<1>5. /\ status' = [i \in Items |->
            IF i \in F THEN "failed" ELSE IF i \in R THEN "blocked" ELSE status[i]]
      /\ UNCHANGED concluded
  BY <1>1 DEF BeginReconcile, SetStatus
<1> HIDE DEF F, R, P
<1>6. Contract!Refuse(F, R)
  BY <1>2, <1>3, <1>4, <1>5 DEF Contract!Refuse
<1>7. R \in SUBSET Contract!Having("pending") /\ F \in SUBSET R
  BY <1>2, <1>3
<1> QED BY <1>6, <1>7 DEF KeepsContract, Contract!Next

\* A chunk behind a failed item is refused for that one.
LEMMA AdvanceRefuses ==
    ASSUME DependencyInvariant, NEW u \in Items, AdvanceJob(u)
    PROVE  KeepsContract
<1> DEFINE chunk == Chunk(u, IF MaxEdgesPerJob <= budget THEN MaxEdgesPerJob ELSE budget)
           R == {i \in chunk : Blocks(u) /\ status[i] = "pending"}
<1>1. status' = [i \in Items |-> IF i \in R THEN "blocked" ELSE status[i]] /\ UNCHANGED concluded
  BY DEF AdvanceJob
<1>2. chunk \subseteq Ahead(u)
  BY DEF Chunk, FirstOf
<1>3. R \in SUBSET Contract!Having("pending")
  BY <1>2 DEF Ahead, Contract!Having
<1>4. \A i \in R : u \in Contract!Known(i) /\ status[u] \in Failed
  BY <1>2 DEF Ahead, Contract!Known, Blocks, Failed
<1> HIDE DEF R
<1>5. Contract!LeadTo({}, R)
  BY <1>4 DEF Contract!LeadTo, Contract!Failed, Failed
<1>6. Contract!Refuse({}, R)
  BY <1>1, <1>3, <1>5 DEF Contract!Refuse
<1> QED BY <1>3, <1>6 DEF KeepsContract, Contract!Next

LEMMA ContractStep ==
    ASSUME DependencyInvariant, [Next]_vars
    PROVE  KeepsContract
<1> USE DEF KeepsContract
<1>1. CASE UNCHANGED <<status, concluded>>
  BY <1>1 DEF Contract!vars
<1>2. ASSUME NEW i \in Items, Claim(i) PROVE Contract!Next
  <2>1. Contract!Move({i}, "pending", "running")
    BY <1>2, ItemStep DEF Claim, Due
  <2>2. Contract!Run(i)
    BY <1>2, <2>1 DEF Claim, Due, Satisfied, Contract!Run
  <2> QED BY <2>1, <2>2 DEF Contract!Next, Contract!Move
<1>3. ASSUME NEW i \in Items, NEW outcome \in Terminal, Settle(i, outcome) PROVE Contract!Next
  <2>1. Contract!Move({i}, "running", outcome)
    BY <1>3, ItemStep DEF Settle
  <2>2. i \in Contract!Having("running") /\ outcome \in Contract!Terminal
    BY <2>1 DEF Contract!Move, Terminal, Failed, Contract!Terminal, Contract!Failed
  <2> QED BY <2>1, <2>2 DEF Contract!Next, Contract!End
<1>4. ASSUME NEW i \in Items, NEW outcome \in {"parked", "failed"}, Quarantine(i, outcome)
      PROVE  Contract!Next
  <2>1. Contract!Move({i}, status[i], outcome)
    BY <1>4, ItemStep DEF Quarantine
  <2>2. Contract!Withdraw(i, outcome)
    BY <1>4, <2>1 DEF Quarantine, Contract!Withdraw
  <2> QED BY <2>2 DEF Contract!Next, Contract!Withdraw
<1>5. ASSUME NEW S \in Batches, Enqueue(S) PROVE Contract!Next
  <2>1. S \in SUBSET Items
    BY BatchesAssumption
  <2>2. Contract!Move(S, "absent", "pending")
    BY <1>5, <2>1 DEF Enqueue, Contract!Move, Contract!Having
  <2>3. S \in SUBSET Contract!Having("absent")
    BY <2>2 DEF Contract!Move
  <2> QED BY <2>2, <2>3 DEF Contract!Next, Contract!Enqueue
<1>6. ASSUME NEW S \in SUBSET Items, Recover(S) PROVE Contract!Next
  <2>1. Contract!Move(S, "running", "parked")
    BY <1>6, MoveStep DEF Recover
  <2>2. S \in SUBSET Contract!Having("running")
    BY <2>1 DEF Contract!Move
  <2> QED BY <2>1, <2>2 DEF Contract!Next, Contract!Hold
<1>7. ASSUME NEW m \in Missions, Conclude(m) PROVE Contract!Next
  <2>1. Contract!Conclude(m)
    BY <1>7 DEF Conclude, Present, Contract!Conclude, Terminal, Failed, Contract!Terminal,
                Contract!Failed
  <2> QED BY <2>1 DEF Contract!Next
<1> QED BY <1>1, <1>2, <1>3, <1>4, <1>5, <1>6, <1>7, ReconcileRefuses, AdvanceRefuses
        DEF Next, Reconcile, Dispatch, CloseJob, EndReconcile, Prepare, Activate, vars

\* The rows of items and missions only make the steps of the contract, under
\* either authority, for every graph, budget and order of jobs.
THEOREM DependencyContractKept == Spec => ImplementsContract
<1>1. Init => Contract!Init
  BY DEF Init, Contract!Init
<1>2. DependencyInvariant /\ [Next]_vars => [Contract!Next]_(Contract!vars)
  BY ContractStep DEF KeepsContract
<1> QED BY <1>1, <1>2, DependencyInvariantHolds, PTL DEF Spec, ImplementsContract, Contract!Spec
=============================================================================
