---------------------------- MODULE MCClusterStop ----------------------------
(* ClusterStop for TLC. *)
EXTENDS ClusterStop
==============================================================================
