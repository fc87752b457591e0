--------------------------- MODULE MCCostEstimate ---------------------------
(* CostEstimate for TLC: two SKUs tie for SPOT cores, a Preemptible one    *)
(* that names the region is ranked above them, and the disk is the same    *)
(* however the instance is provisioned; the catalogue lists the five       *)
(* upwards or downwards.                                                   *)
EXTENDS CostEstimate, SequencesExt

MCSku == {[id |-> 1, part |-> "core", usage |-> "Spot", regionBonus |-> 0],
          [id |-> 2, part |-> "core", usage |-> "Spot", regionBonus |-> 0],
          [id |-> 3, part |-> "core", usage |-> "Preemptible", regionBonus |-> 2],
          [id |-> 4, part |-> "core", usage |-> "OnDemand", regionBonus |-> 0],
          [id |-> 5, part |-> "disk", usage |-> "OnDemand", regionBonus |-> 0]}

\* With the Preemptible SKU, without it, and with one Spot SKU alone.
MCFirstPrices ==
    {[s \in MCSku |-> IF s.id \in missing THEN 0 ELSE IF s.id = 2 THEN 2 ELSE 1] :
        missing \in {{}, {3}, {2, 3}}}

MCListings == LET up == [n \in 1 .. 5 |-> CHOOSE s \in MCSku : s.id = n]
              IN  {up, Reverse(up)}

Symmetry == Permutations(Command)

(***************************************************************************)
(* Two states are one for TLC when no later step and no property tells     *)
(* them apart.  A command that is to look takes from the cache only what   *)
(* it will not resolve; once it has looked, offered and since only grow:   *)
(* if its prices are right now they stay so, and it matters no more which  *)
(* they are, but for what it has still to write and for their unit.        *)
(***************************************************************************)
Right(c, prices) ==
    \A p \in Part : /\ prices[p] \in offered[KeyOf(c, p)]
                    /\ request[c].refresh => prices[p] \in since[c][KeyOf(c, p)]

Found(c) == [p \in Part |-> data[c][KeyOf(c, p)]]

Pending(c) == IF Right(c, Found(c)) THEN <<\E p \in Part : Found(c)[p] \in OddPrice>>
                                    ELSE <<request[c], data[c], since[c]>>

Seen(c) ==
    CASE at[c] = "idle"              -> <<>>
      [] at[c] \in {"load", "look"}  ->
           <<request[c], [p \in Part |-> since[c][KeyOf(c, p)]],
             [k \in Keys |-> IF k \in ToResolve(c) THEN None ELSE data[c][k]]>>
      [] at[c] \in {"save", "write"} -> <<data[c], Pending(c)>>
      [] at[c] \in {"rename", "price"} -> Pending(c)
      [] at[c] = "done"              -> <<Right(c, quote[c])>>

View == <<catalogue, changes, offered, files, at, [c \in Command |-> Seen(c)]>>
==============================================================================
