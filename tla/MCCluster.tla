----------------------------- MODULE MCCluster -----------------------------
(* Instances of Cluster for TLC. *)
EXTENDS Cluster

CONSTANTS m1, m2, h1, on
============================================================================
