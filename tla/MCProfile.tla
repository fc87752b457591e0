------------------------------ MODULE MCProfile ------------------------------
(* Profile for TLC: two backups, which are interchangeable, and two edits. *)
EXTENDS Profile, TLC

Backups == Permutations(Second)
==============================================================================
