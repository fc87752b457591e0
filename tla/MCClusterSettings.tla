-------------------------- MODULE MCClusterSettings --------------------------
(* ClusterSettings for TLC: two instances, sixteen addresses, a base that  *)
(* is all of them, one that is half of them, one that is a single          *)
(* subnetwork, and one whose subnetworks would be larger than itself.      *)
EXTENDS ClusterSettings, TLC

MCBases == {[ip |-> 0,  size |-> 16, sub |-> 4],
            [ip |-> 0,  size |-> 8,  sub |-> 4],
            [ip |-> 12, size |-> 4,  sub |-> 4],
            [ip |-> 8,  size |-> 2,  sub |-> 4]}

Instances == Permutations(Worker)
==============================================================================
