--------------------------- MODULE MCClusterSync ---------------------------
(* Topologies for the model-checking runs of ClusterSync. *)
EXTENDS ClusterSync, TLC

Pair   == {1, 2}
Triple == {1, 2, 3}

\* cluster_peers of each node.
EachOther   == [n \in Pair |-> Pair \ {n}]
AllOthers   == [n \in Triple |-> Triple \ {n}]
FirstToRest == [n \in Triple |-> IF n = 1 THEN {2, 3} ELSE {}]

\* cluster_sync_policy of each node.
PerNode     == [n \in Node |-> "lww_per_node"]
TwoPolicies == [n \in Triple |-> IF n = 3 THEN "global_lww" ELSE "primary_writer"]

\* The goroutines of a node are interchangeable.
SlotSymmetry == Permutations(Slot)
=============================================================================
