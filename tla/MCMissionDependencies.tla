------------------------- MODULE MCMissionDependencies -------------------------
(***************************************************************************)
(* Instances of MissionDependencies for TLC.                               *)
(***************************************************************************)
EXTENDS MissionDependencies, TLC

CONSTANTS m1, m2

MCSingletons == {{i} : i \in Items}

\* In one mission a root, an item behind it and a join behind both; in another
\* an item that waits for itself.
MCMissionOf == [i \in Items |-> IF i <= 3 THEN m1 ELSE m2]
MCDeps == (1 :> {}) @@ (2 :> {1}) @@ (3 :> {1, 2}) @@ (4 :> {4})

\* A root and an item behind it, in one mission.
MCPairMissionOf == (1 :> m1) @@ (2 :> m1)
MCPairDeps == (1 :> {}) @@ (2 :> {1})
=============================================================================
