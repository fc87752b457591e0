------------------------------ MODULE MCGpunow ------------------------------
(* Gpunow for TLC. *)
EXTENDS Gpunow

(***************************************************************************)
(* Two states are one for TLC when no guard of a later step and neither    *)
(* property tells them apart.  Of an entry these see the number of         *)
(* instances, which are on record, what ssh makes of the state of its      *)
(* target, whether it is marked deleted, and whether it was only created;  *)
(* of a listing, what the command has still to look at.                    *)
(***************************************************************************)
SeenState(i, s) ==
    IF s = "ABSENT" THEN s
    ELSE IF i \notin SshTargets THEN "recorded"
    ELSE IF s \in {"TERMINATED", "TERMINATING"} THEN "refused"
    ELSE IF s = "READY" THEN s ELSE "awaited"

SeenEntry(e) ==
    <<e.known, e.num, [i \in Index |-> SeenState(i, e.inst[i].state)],
      IF e.status \in {"", "deleted"} THEN e.status ELSE "live",
      e.action = "create">>

SeenListing ==
    [i \in Index |-> IF cmd.op = "sync" \/ pc[i] = "report" THEN seen[i]
                                                            ELSE "NONE"]

View == <<SeenEntry(entry), SeenEntry(loaded), cmd, pc, SeenListing, ssh,
          inst, setup, unrecorded>>
==============================================================================
