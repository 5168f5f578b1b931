----------------------------- MODULE MCCluster -----------------------------
(* Cluster on small instances. *)
EXTENDS Cluster, TLC

NodeSymmetry == Permutations(Node)
NodeAppSymmetry == NodeSymmetry \cup Permutations(App)
=============================================================================
