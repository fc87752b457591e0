---------------------------- MODULE MCStateStore ----------------------------
(* StateStore for TLC: one cluster of up to two instances. *)
EXTENDS StateStore
==============================================================================
