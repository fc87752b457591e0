--------------------------- MODULE MCLiveDisplay ---------------------------
(* LiveDisplay for TLC. *)
EXTENDS LiveDisplay
==============================================================================
