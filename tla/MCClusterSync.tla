--------------------------- MODULE MCClusterSync ---------------------------
(* ClusterSync on three nodes: two that form a cluster, one that joins it.  *)
EXTENDS ClusterSync

CONSTANTS n1, n2, n3, r1
=============================================================================
