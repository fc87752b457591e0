--------------------------- MODULE MCClusterStart ---------------------------
(* ClusterStart for TLC. *)
EXTENDS ClusterStart
==============================================================================
