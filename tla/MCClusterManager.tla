-------------------------- MODULE MCClusterManager --------------------------
(* Instances of ClusterManager for model checking. *)
EXTENDS ClusterManager, TLC

CONSTANTS n1, g1, g2, w1, w2, k1, k2

MCSymmetry == Permutations({g1, g2}) \cup Permutations({w1, w2})
              \cup Permutations({k1, k2})
=============================================================================
