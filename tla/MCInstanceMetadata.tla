------------------------- MODULE MCInstanceMetadata -------------------------
(* InstanceMetadata for TLC. *)
EXTENDS InstanceMetadata, TLC

Symmetry == Permutations(Command) \cup Permutations(Key)
==============================================================================
