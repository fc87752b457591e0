--------------------------- MODULE ReportedStates ---------------------------
(***************************************************************************)
(* What the commands of gpunow take for granted of state.json: it is a     *)
(* register in which every goroutine has a field of its own.  A report     *)
(* replaces its reporter's field in one step, leaves the fields of the     *)
(* others alone, and is never undone by an older one.  StateFile           *)
(* implements this with a load, a temporary file and a rename.             *)
(***************************************************************************)
EXTENDS Naturals

CONSTANTS
    Reporter,      \* who reports
    MaxReports     \* bound on the reports of one reporter

VARIABLE reported  \* the number of each reporter's last report on record

Init == reported = [r \in Reporter |-> 0]

\* Reports may go missing, but not come back.
Report(r) ==
    \E n \in reported[r] + 1 .. MaxReports :
        reported' = [reported EXCEPT ![r] = n]

Next == \E r \in Reporter : Report(r)

Spec == Init /\ [][Next]_reported
==============================================================================
