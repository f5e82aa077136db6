------------------------------ MODULE MCCluster ------------------------------
(* Whole jobs on small instances.  No symmetry: some runs check liveness.   *)
EXTENDS Cluster
==============================================================================
