--------------------------- MODULE MCMissionEngine ---------------------------
(***************************************************************************)
(* Instances of MissionEngine for TLC: three items of one mission, as a    *)
(* fork or with two roots, or fewer, and four items over three tenants.    *)
(***************************************************************************)
EXTENDS MissionInvariant, TLC

CONSTANTS first, second, guarded, fourth, m1, m2, m3

MCRank == (first :> 1) @@ (second :> 2) @@ (guarded :> 3)
MCTenantOf == (m1 :> "t1") @@ (m2 :> "t2") @@ (m3 :> "t3")

\* One mission: an item, and two that depend on it.
MCMissionOf == (first :> m1) @@ (second :> m1) @@ (guarded :> m1)
MCFork == (first :> {}) @@ (second :> {first}) @@ (guarded :> {first})

\* One mission: two roots, the first of which holds up the guarded item.
MCRoots == (first :> {}) @@ (second :> {}) @@ (guarded :> {first})

\* Three missions of three tenants: independent items, two of the first tenant.
MCThreeMissions == (first :> m1) @@ (second :> m1) @@ (guarded :> m2) @@ (fourth :> m3)
MCFourRank == MCRank @@ (fourth :> 4)
MCParallel == (first :> {}) @@ (second :> {}) @@ (guarded :> {}) @@ (fourth :> {})

\* Two items of one mission, the second behind the first.
MCPairMissionOf == (first :> m1) @@ (second :> m1)
MCPairDeps == (first :> {}) @@ (second :> {first})
MCPairParallel == (first :> {}) @@ (second :> {})
MCPairRank == (first :> 1) @@ (second :> 2)

\* One item alone.
MCOneMissionOf == first :> m1
MCOneDeps == first :> {}
MCOneRank == first :> 1

\* Engine instances are interchangeable.
MCSymmetry == Permutations(Engines)
=============================================================================
