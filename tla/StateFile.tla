------------------------------ MODULE StateFile ------------------------------
(***************************************************************************)
(* How one gpunow process keeps state.json while a cluster starts: the     *)
(* goroutine of the command records the cluster before and after, and in   *)
(* between every instance's goroutine reports the states of its instance   *)
(* under the mutex of clusterStateUpdateFn.  Each of these is a whole      *)
(* read-modify-write of the file: load, write state.json.tmp, rename.  It  *)
(* may fail at every step, and the process may be killed at any moment     *)
(* and the command be run again, on what the killed one left.              *)
(*                                                                         *)
(* Reports are numbered, and the numbers go on over restarts, so that the  *)
(* file shows whose last report it holds; what a report does to an entry   *)
(* is module ClusterEntry.  Several processes at once are not protected    *)
(* from each other and not modelled.                                       *)
(***************************************************************************)
EXTENDS Naturals

CONSTANTS
    Worker,        \* the goroutines of the instances
    Main,          \* the goroutine of the command
    Free,          \* the holder of a free mutex
    Torn, Absent,  \* a file cut short, and no file
    MaxReports,    \* bound on the reports of one goroutine
    Faults         \* which things may go wrong

ASSUME FileAssumption ==
    /\ MaxReports \in Nat
    /\ Main \notin Worker
    /\ Free \notin Worker
    /\ Faults \subseteq {"io", "kill"}

Reporter == Worker \cup {Main}
Content  == [Reporter -> 0 .. MaxReports]

ASSUME TornAssumption == Torn \notin Content

VARIABLES
    phase,         \* what the command is about
    pc,            \* where each goroutine is in its report
    serial,        \* the number of its last report
    mutex,         \* the mutex of clusterStateUpdateFn
    buf,           \* the data each goroutine has loaded
    file,          \* state.json
    tmp,           \* state.json.tmp
    unwritten      \* whose last report did not reach the file (history)

vars == <<phase, pc, serial, mutex, buf, file, tmp, unwritten>>

Phases  == {"idle", "create", "start", "record"}
Writing == {"load", "open", "write", "rename", "return"}

TypeOK ==
    /\ phase \in Phases
    /\ pc \in [Reporter -> {"off", "think", "lock"} \cup Writing]
    /\ serial \in Content
    /\ mutex \in Worker \cup {Free}
    /\ buf \in [Reporter -> Content]
    /\ file \in Content \cup {Torn}
    /\ tmp \in Content \cup {Torn, Absent}
    /\ unwritten \subseteq Reporter

NoReports == [r \in Reporter |-> 0]

\* A missing state.json reads as an empty one.
Init ==
    /\ phase = "idle"
    /\ pc = [r \in Reporter |-> "off"]
    /\ serial = NoReports
    /\ mutex = Free
    /\ buf = [r \in Reporter |-> NoReports]
    /\ file = NoReports
    /\ tmp = Absent
    /\ unwritten = {}

-----------------------------------------------------------------------------
(***************************************************************************)
(* The command                                                             *)
(***************************************************************************)
disk == <<file, tmp>>

\* The goroutine of the command records the cluster, without the mutex.
MainRecords(next) ==
    /\ serial[Main] < MaxReports
    /\ phase' = next
    /\ serial' = [serial EXCEPT ![Main] = @ + 1]
    /\ pc' = [pc EXCEPT ![Main] = "load"]

WorkersBegin ==
    /\ phase' = "start"
    /\ pc' = [r \in Reporter |-> IF r = Main THEN "off" ELSE "think"]
    /\ UNCHANGED serial

\* "create --start" records the creation first, "start" does not.
Begin ==
    /\ phase = "idle"
    /\ MainRecords("create") \/ WorkersBegin
    /\ UNCHANGED <<mutex, buf, disk, unwritten>>

CreateRecorded ==
    /\ phase = "create"
    /\ pc[Main] = "off"
    /\ WorkersBegin
    /\ UNCHANGED <<mutex, buf, disk, unwritten>>

\* Mutant: the command does not wait for the instances' goroutines.
JoinEarly ==
    /\ phase = "start"
    /\ MainRecords("record")
    /\ UNCHANGED <<mutex, buf, disk, unwritten>>

\* service.Start has returned.  Its error ends the command.
Join ==
    /\ phase = "start"
    /\ \A w \in Worker : pc[w] = "off"
    /\ \/ MainRecords("record")
       \/ phase' = "idle" /\ UNCHANGED <<pc, serial>>
    /\ UNCHANGED <<mutex, buf, disk, unwritten>>

End ==
    /\ phase = "record"
    /\ pc[Main] = "off"
    /\ phase' = "idle"
    /\ UNCHANGED <<pc, serial, mutex, buf, disk, unwritten>>

\* The process is killed; the files stay as they are.
Kill ==
    /\ "kill" \in Faults
    /\ phase # "idle"
    /\ phase' = "idle"
    /\ pc' = [r \in Reporter |-> "off"]
    /\ mutex' = Free
    /\ unwritten' = unwritten \cup
                    {r \in Reporter : pc[r] \in {"lock", "load", "open", "write", "rename"}}
    /\ UNCHANGED <<serial, buf, disk>>

-----------------------------------------------------------------------------
(***************************************************************************)
(* A report                                                                *)
(***************************************************************************)
Goto(r, from, to) ==
    /\ pc[r] = from
    /\ pc' = [pc EXCEPT ![r] = to]

\* An instance's goroutine has something to report, or is finished.
Ask(w) ==
    /\ serial[w] < MaxReports
    /\ Goto(w, "think", "lock")
    /\ serial' = [serial EXCEPT ![w] = @ + 1]
    /\ UNCHANGED <<phase, mutex, buf, disk, unwritten>>

Finish(w) ==
    /\ Goto(w, "think", "off")
    /\ UNCHANGED <<phase, serial, mutex, buf, disk, unwritten>>

\* Mutant: no mutex.
LockMissing(w) ==
    /\ Goto(w, "lock", "load")
    /\ UNCHANGED <<phase, serial, mutex, buf, disk, unwritten>>

Lock(w) ==
    /\ mutex = Free
    /\ Goto(w, "lock", "load")
    /\ mutex' = w
    /\ UNCHANGED <<phase, serial, buf, disk, unwritten>>

Load(r) ==
    /\ file # Torn
    /\ Goto(r, "load", "open")
    /\ buf' = [buf EXCEPT ![r] = file]
    /\ UNCHANGED <<phase, serial, mutex, disk, unwritten>>

\* Mutant: the file is written in place.
OpenInPlace(r) ==
    /\ Goto(r, "open", "write")
    /\ file' = Torn
    /\ UNCHANGED <<phase, serial, mutex, buf, tmp, unwritten>>

\* os.WriteFile truncates the temporary file, whatever was left in it,
Open(r) ==
    /\ Goto(r, "open", "write")
    /\ tmp' = Torn
    /\ UNCHANGED <<phase, serial, mutex, buf, file, unwritten>>

\* and writes all of the data.
Updated(r) == [buf[r] EXCEPT ![r] = serial[r]]

Write(r) ==
    /\ Goto(r, "write", "rename")
    /\ tmp' = Updated(r)
    /\ UNCHANGED <<phase, serial, mutex, buf, file, unwritten>>

Rename(r) ==
    /\ Goto(r, "rename", "return")
    /\ file' = tmp
    /\ tmp' = Absent
    /\ unwritten' = unwritten \ {r}
    /\ UNCHANGED <<phase, serial, mutex, buf>>

\* Mutant: an error returns without unlocking.
GiveUpLocked(r) ==
    /\ "io" \in Faults
    /\ pc[r] \in {"load", "open", "write", "rename"}
    /\ pc' = [pc EXCEPT ![r] = IF r = Main THEN "off" ELSE "think"]
    /\ unwritten' = unwritten \cup {r}
    /\ UNCHANGED <<phase, serial, mutex, buf, disk>>

\* A step fails: the report is given up, with a line in the debug log, and
\* the goroutine goes on.
GiveUp(r) ==
    /\ pc[r] \in {"load", "open", "write", "rename"}
    /\ "io" \in Faults \/ (pc[r] = "load" /\ file = Torn)
    /\ pc' = [pc EXCEPT ![r] = "return"]
    /\ unwritten' = unwritten \cup {r}
    /\ UNCHANGED <<phase, serial, mutex, buf, disk>>

\* The deferred Unlock.
Return(r) ==
    /\ Goto(r, "return", IF r = Main THEN "off" ELSE "think")
    /\ mutex' = IF r = Main THEN mutex ELSE Free
    /\ UNCHANGED <<phase, serial, buf, disk, unwritten>>

-----------------------------------------------------------------------------
CommandStep == CreateRecorded \/ Join \/ End

WorkerStep(w) == Ask(w) \/ Finish(w) \/ Lock(w)

ReportStep(r) ==
    \/ Load(r) \/ Open(r) \/ Write(r) \/ Rename(r) \/ GiveUp(r) \/ Return(r)

Next ==
    \/ Begin \/ Kill \/ CommandStep
    \/ \E w \in Worker : WorkerStep(w)
    \/ \E r \in Reporter : ReportStep(r)

Spec == Init /\ [][Next]_vars

\* Every goroutine that can run does; sync.Mutex hands itself to whoever has
\* waited for it long enough.
Fairness ==
    /\ \A w \in Worker : SF_vars(Lock(w)) /\ WF_vars(Finish(w))
    /\ \A r \in Reporter : WF_vars(ReportStep(r))

FairSpec == Spec /\ Fairness

-----------------------------------------------------------------------------
(***************************************************************************)
(* Properties                                                              *)
(***************************************************************************)

\* state.json is whole at every moment, so that every command that follows,
\* after a crash or beside this one, can read it.
FileComplete == file # Torn

\* A report that was written stands: the file holds the last report of each
\* goroutine that is not in the middle of one, unless writing it failed.  No
\* other goroutine, and no later run, puts an older one back.
ReportsStand ==
    \A r \in Reporter \ unwritten :
        pc[r] \in {"off", "think", "return"} => file[r] = serial[r]

\* The file is the register of ReportedStates.
Register == INSTANCE ReportedStates WITH reported <- file

Refinement == Register!Spec

\* A goroutine that wants to report gets to do so, or the process is killed.
ReportEnds == \A w \in Worker : pc[w] = "lock" ~> pc[w] \in {"off", "think"}

\* The invariant the proofs use: a worker writes only with the mutex, the
\* command only while no worker is there; so one goroutine at a time is
\* between its load and its rename, and what it loaded is what the file is.
Exclusion ==
    /\ \A w \in Worker : pc[w] \in Writing <=> mutex = w
    /\ phase # "start" => \A w \in Worker : pc[w] = "off"
    /\ phase \in {"idle", "start"} => pc[Main] = "off"
    /\ pc[Main] \in Writing \cup {"off"}

FileInv ==
    /\ file \in Content
    /\ \A r \in Reporter :
          /\ file[r] <= serial[r]
          /\ pc[r] \in {"lock", "load", "open", "write", "rename"}
                => file[r] < serial[r]
          /\ pc[r] \in {"open", "write", "rename"} => buf[r] = file
          /\ pc[r] = "rename" => tmp = Updated(r)

FileInductive == TypeOK /\ Exclusion /\ FileInv /\ ReportsStand
==============================================================================
