---------------------------- MODULE Gpunow_proofs ----------------------------
(***************************************************************************)
(* Proofs about Gpunow, for every bound on the size of the cluster and     *)
(* every set of ssh targets: no instance is lost sight of, whatever is     *)
(* interrupted and whatever cannot be written where, but for the instances *)
(* that were never seen (unrecorded).  What the operations do to the entry *)
(* is proved in StateStore_proofs.                                         *)
(***************************************************************************)
EXTENDS Gpunow, StateStore_proofs

-----------------------------------------------------------------------------
(***************************************************************************)
(* The inductive invariant                                                 *)
(***************************************************************************)
Accounted(i) == OnRecord(i) \/ i \in unrecorded

\* Only a start probes.
ProbesAreStarts ==
    \A i \in Index : pc[i] \in {"probe", "ready"} => cmd.op = "start"

\* A start reports an instance, or fails to, before it boots it.
StartIsAccounted ==
    cmd.op = "start" =>
        \A i \in Index : pc[i] \notin {"off", "report"} => Accounted(i)

\* No instance appears after a stop, a delete or a sync has listed them.
NothingNew ==
    cmd.op \in {"stop", "delete", "sync"} =>
        \A i \in Index : inst[i] # "NONE" => seen[i] # "NONE"

\* A delete is through with the instances it has deleted, or has not listed.
DeleteIsThrough ==
    cmd.op = "delete" =>
        \A i \in Index : /\ pc[i] = "off" => seen[i] = "NONE"
                         /\ pc[i] \in {"acted", "done"} => inst[i] = "NONE"

CommandInv ==
    /\ TypeOK
    /\ EntryOK(entry) /\ EntryOK(loaded)
    /\ NoOrphans /\ DeletedIsGone
    /\ ProbesAreStarts /\ StartIsAccounted /\ NothingNew /\ DeleteIsThrough

-----------------------------------------------------------------------------
(***************************************************************************)
(* What a step does to the entry and to the instances                      *)
(***************************************************************************)

\* The step keeps the entry sound and account of every instance.
EntryGrows ==
    /\ EntryOK(entry')
    /\ unrecorded' \in SUBSET Index
    /\ \A i \in Index : Accounted(i) => Accounted(i)'

\* The step brings no instance into being.
NoneAppears == \A i \in Index : inst'[i] # "NONE" => inst[i] # "NONE"

\* An update of the entry that keeps what is on record.
LEMMA WriteGrows ==
  ASSUME TypeOK, NEW new, EntryOK(new), NEW puts, Write(new, puts),
         Keeps(entry, new), new.status = "deleted" => entry.status = "deleted",
         \A i \in Index : i \in puts =>
             new.known /\ i \in Recorded(new.inst) /\ new.status # "deleted"
  PROVE  EntryGrows
<1>1. entry' = new /\ unrecorded' = unrecorded \ puts
  BY Zenon DEF Write
<1>2. unrecorded' \in SUBSET Index
  BY <1>1, Zenon DEF TypeOK
<1>3. ASSUME NEW i \in Index, Accounted(i)
      PROVE  Accounted(i)'
  <2>1. CASE OnRecord(i)
    BY <1>1, <2>1, Zenon DEF Accounted, OnRecord, Keeps
  <2>2. CASE i \in unrecorded
    BY <1>1, <2>2, Zenon DEF Accounted, OnRecord
  <2> QED BY <1>3, <2>1, <2>2, Zenon DEF Accounted
<1> QED BY <1>1, <1>2, <1>3, Zenon DEF EntryGrows

\* A record that stays as it is.
LEMMA SameGrows ==
  ASSUME TypeOK, EntryOK(entry), UNCHANGED record
  PROVE  EntryGrows
BY Zenon DEF EntryGrows, Accounted, OnRecord, record, TypeOK

\* A report, written or not: after the first one of a start the instance is
\* accounted for.
LEMMA ReportGrows ==
  ASSUME TypeOK, EntryOK(entry), NEW i \in Index, NEW s \in InstanceStates,
         NEW ip \in BOOLEAN, ip => s \in {"PROVISIONING", "READY"},
         Report(i, s, ip)
  PROVE  EntryGrows /\ (s = "STARTING" \/ Accounted(i) => Accounted(i)')
<1> DEFINE new == RecordClusterInstanceState(entry, i, s, ip)
<1>1. CASE Write(new, {i})
  <2>1. EntryOK(new)
    BY InstanceStateOK
  <2>2. /\ Keeps(entry, new)
        /\ new.known /\ i \in Recorded(new.inst) /\ new.status # "deleted"
    BY InstanceStateKeeps
  <2> HIDE DEF new
  <2>3. EntryGrows
    BY <1>1, <2>1, <2>2, WriteGrows
  <2>4. Accounted(i)'
    BY <1>1, <2>2, Zenon DEF Write, Accounted, OnRecord
  <2> QED BY <2>3, <2>4
<1>2. CASE /\ UNCHANGED entry
           /\ unrecorded' = IF s = "STARTING" /\ ~OnRecord(i)
                            THEN unrecorded \cup {i} ELSE unrecorded
  <2>1. unrecorded \in SUBSET Index /\ unrecorded \subseteq unrecorded'
    BY <1>2, Zenon DEF TypeOK
  <2>2. unrecorded' \in SUBSET Index
    BY <1>2, <2>1, Zenon
  <2>3. \A j \in Index : Accounted(j) => Accounted(j)'
    BY <1>2, <2>1, Zenon DEF Accounted, OnRecord
  <2>4. s = "STARTING" => Accounted(i)'
    BY <1>2, Zenon DEF Accounted, OnRecord
  <2>5. EntryGrows
    BY <1>2, <2>2, <2>3, Zenon DEF EntryGrows
  <2> QED BY <2>3, <2>4, <2>5, Zenon
<1> QED BY <1>1, <1>2, Zenon DEF Report

\* What is accounted for stays so.
LEMMA GrowsKeeps ==
  ASSUME EntryGrows, NEW i \in Index, Accounted(i)
  PROVE  Accounted(i)'
BY Zenon DEF EntryGrows

\* The two properties in one.
LEMMA AllAccounted ==
  ASSUME TRUE
  PROVE  NoOrphans /\ DeletedIsGone
           <=> \A i \in Index : inst[i] # "NONE" => Accounted(i)
BY Zenon DEF NoOrphans, DeletedIsGone, Accounted, OnRecord

LEMMA AllAccountedNext ==
  ASSUME \A i \in Index : inst'[i] # "NONE" => Accounted(i)'
  PROVE  NoOrphans' /\ DeletedIsGone'
BY Zenon DEF NoOrphans, DeletedIsGone, Accounted, OnRecord

-----------------------------------------------------------------------------
(***************************************************************************)
(* Kinds of steps                                                          *)
(***************************************************************************)

\* No orphan and no instance of a deleted cluster comes of a step that only
\* adds to the entry and brings no instance into being.
LEMMA GrowsSafe ==
  ASSUME NoOrphans, DeletedIsGone, EntryGrows, NoneAppears
  PROVE  NoOrphans' /\ DeletedIsGone'
BY AllAccounted, AllAccountedNext, Zenon DEF EntryGrows, NoneAppears

\* A step beside the command in the first terminal.
LEMMA Beside ==
  ASSUME CommandInv, TypeOK', UNCHANGED first, EntryGrows, NoneAppears
  PROVE  CommandInv'
<1> USE DEF first
<1>1. NoOrphans' /\ DeletedIsGone'
  BY GrowsSafe DEF CommandInv
<1>2. ProbesAreStarts'
  BY Zenon DEF CommandInv, ProbesAreStarts
<1>3. StartIsAccounted'
  BY GrowsKeeps, Zenon DEF CommandInv, StartIsAccounted
<1>4. NothingNew'
  BY Zenon DEF CommandInv, NothingNew, NoneAppears
<1>5. DeleteIsThrough'
  BY Zenon DEF CommandInv, DeleteIsThrough, NoneAppears
<1>6. EntryOK(entry') /\ EntryOK(loaded')
  BY Zenon DEF CommandInv, EntryGrows
<1> QED BY <1>1, <1>2, <1>3, <1>4, <1>5, <1>6, Zenon DEF CommandInv

\* A step of the command with one instance that is not created by it.
LEMMA OneInstance ==
  ASSUME CommandInv, TypeOK', UNCHANGED <<cmd, seen, loaded>>, EntryGrows,
         NoneAppears,
         NEW i \in Index, NEW to, pc' = [pc EXCEPT ![i] = to],
         to \notin {"off", "report"},
         to \in {"probe", "ready"} => cmd.op = "start",
         cmd.op = "start" => Accounted(i)',
         cmd.op = "delete" /\ to \in {"acted", "done"} => inst'[i] = "NONE"
  PROVE  CommandInv'
<1>0. /\ pc'[i] = to
      /\ \A j \in Index : j # i => pc'[j] = pc[j]
  BY Zenon DEF CommandInv, TypeOK
<1>1. NoOrphans' /\ DeletedIsGone'
  BY GrowsSafe DEF CommandInv
<1>2. ProbesAreStarts'
  <2> SUFFICES ASSUME NEW j \in Index, pc'[j] \in {"probe", "ready"}
               PROVE  cmd'.op = "start"
    BY Zenon DEF ProbesAreStarts
  <2>1. CASE j = i
    BY <1>0, <2>1, Zenon
  <2>2. CASE j # i
    BY <1>0, <2>2, Zenon DEF CommandInv, ProbesAreStarts
  <2> QED BY <2>1, <2>2
<1>3. StartIsAccounted'
  <2> SUFFICES ASSUME cmd'.op = "start", NEW j \in Index,
                      pc'[j] \notin {"off", "report"}
               PROVE  Accounted(j)'
    BY Zenon DEF StartIsAccounted
  <2>1. CASE j = i
    BY <2>1, Zenon
  <2>2. CASE j # i
    <3>1. Accounted(j)
      BY <1>0, <2>2, Zenon DEF CommandInv, StartIsAccounted
    <3> QED BY <3>1, GrowsKeeps
  <2> QED BY <2>1, <2>2
<1>4. NothingNew'
  BY Zenon DEF CommandInv, NothingNew, NoneAppears
<1>5. DeleteIsThrough'
  <2> SUFFICES ASSUME cmd'.op = "delete", NEW j \in Index
               PROVE  /\ pc'[j] = "off" => seen'[j] = "NONE"
                      /\ pc'[j] \in {"acted", "done"} => inst'[j] = "NONE"
    BY Zenon DEF DeleteIsThrough
  <2>1. CASE j = i
    BY <1>0, <2>1, Zenon
  <2>2. CASE j # i
    <3>1. /\ pc[j] = "off" => seen[j] = "NONE"
          /\ pc[j] \in {"acted", "done"} => inst[j] = "NONE"
      BY Zenon DEF CommandInv, DeleteIsThrough
    <3> QED BY <1>0, <2>2, <3>1, Zenon DEF NoneAppears
  <2> QED BY <2>1, <2>2
<1>6. EntryOK(entry') /\ EntryOK(loaded')
  BY Zenon DEF CommandInv, EntryGrows
<1> QED BY <1>1, <1>2, <1>3, <1>4, <1>5, <1>6, Zenon DEF CommandInv

\* The variables of the command after it has returned.
LEMMA ReturnType ==
  ASSUME TypeOK, Return, entry' \in Entry, unrecorded' \in SUBSET Index
  PROVE  TypeOK'
<1>1. loaded' \in Entry
  BY NoEntryOK, Zenon DEF Return, EntryOK
<1>2. cmd' \in [op : {"idle", "start", "stop", "delete", "sync"}, n : 0 .. MaxInstances]
  <2>1. 0 \in 0 .. MaxInstances
    BY MaxInstancesAssumption, SMT
  <2> QED BY <2>1, Zenon DEF Return, NoCommand
<1>3. pc' \in [Index -> {"off", "report", "act", "acted", "probe", "ready",
                         "done", "failed"}]
  BY Zenon DEF Return, Off
<1>4. seen' \in [Index -> CloudStates]
  BY Zenon DEF Return, Nothing, CloudStates
<1> QED BY <1>1, <1>2, <1>3, <1>4, Zenon DEF TypeOK, Return, cloud

\* The command returns.
LEMMA Returns ==
  ASSUME CommandInv, Return, EntryOK(entry'),
         unrecorded' \in SUBSET Index,
         \A i \in Index : inst[i] # "NONE" => Accounted(i)'
  PROVE  CommandInv'
<1>1. TypeOK'
  BY ReturnType, Zenon DEF CommandInv, EntryOK
<1>2. inst' = inst /\ cmd'.op = "idle" /\ \A i \in Index : pc'[i] = "off"
  BY Zenon DEF Return, cloud, NoCommand, Off
<1>3. NoOrphans' /\ DeletedIsGone'
  BY <1>2, AllAccountedNext, Zenon
<1>4. ProbesAreStarts' /\ StartIsAccounted'
  BY <1>2, Zenon DEF ProbesAreStarts, StartIsAccounted
<1>5. NothingNew' /\ DeleteIsThrough'
  BY <1>2, Zenon DEF NothingNew, DeleteIsThrough
<1>6. EntryOK(loaded')
  BY NoEntryOK, Zenon DEF Return
<1> QED BY <1>1, <1>3, <1>4, <1>5, <1>6, Zenon DEF CommandInv

\* An instance that exists is accounted for.
LEMMA ExistingAccounted ==
  ASSUME CommandInv, NEW i \in Index, inst[i] # "NONE"
  PROVE  Accounted(i)
BY AllAccounted, Zenon DEF CommandInv

-----------------------------------------------------------------------------
(***************************************************************************)
(* create, update                                                          *)
(***************************************************************************)
\* A create, or the part of "create --start" that is one.
LEMMA CreatedGrows ==
  ASSUME CommandInv, NEW n \in 1 .. MaxInstances, Created(n) \/ UNCHANGED record
  PROVE  EntryGrows
<1> DEFINE new == LaunchEntry(LoadEntry(entry), n, FALSE, "create")
<1>1. CASE Created(n)
  <2>1. n \in 0 .. MaxInstances /\ "create" \in Actions
    BY SMT DEF Actions
  <2>2. EntryOK(LoadEntry(entry)) /\ Keeps(entry, LoadEntry(entry))
    BY LoadOK, LoadKeeps DEF CommandInv
  <2>3. Write(new, 0 .. n - 1)
    BY <1>1, Zenon DEF Created, RecordClusterCreate
  <2>4. /\ EntryOK(new) /\ Keeps(LoadEntry(entry), new)
        /\ new.known /\ new.status # "deleted"
        /\ 0 .. n - 1 \subseteq Recorded(new.inst)
    BY <2>1, <2>2, LaunchOK, LaunchKeeps
  <2> HIDE DEF new
  <2>5. Keeps(entry, new)
    BY <2>2, <2>4, Zenon DEF Keeps
  <2>6. \A i \in Index : i \in 0 .. n - 1 =>
            new.known /\ i \in Recorded(new.inst) /\ new.status # "deleted"
    BY <2>4, Zenon
  <2> QED BY <2>3, <2>4, <2>5, <2>6, WriteGrows DEF CommandInv
<1>2. CASE UNCHANGED record
  BY <1>2, SameGrows DEF CommandInv
<1> QED BY <1>1, <1>2

LEMMA RecordStep ==
  ASSUME CommandInv, Create \/ Update
  PROVE  CommandInv'
<1>1. EntryGrows
  <2>1. CASE Create
    BY <2>1, CreatedGrows, Zenon DEF Create
  <2>2. CASE Update
    <3> DEFINE new == RecordClusterUpdate(entry)
    <3>1. /\ EntryOK(new) /\ Keeps(entry, new)
          /\ new.status = "deleted" => entry.status = "deleted"
      BY UpdateOK, UpdateKeeps DEF CommandInv
    <3>2. Write(new, {})
      BY <2>2, Zenon DEF Update
    <3> HIDE DEF new
    <3> QED BY <3>1, <3>2, WriteGrows DEF CommandInv
  <2> QED BY <2>1, <2>2
<1>2. UNCHANGED <<cmd, pc, seen, loaded, ssh, inst, setup>>
  BY Zenon DEF Create, Update, cloud
<1>3. TypeOK'
  BY <1>1, <1>2, Zenon DEF CommandInv, TypeOK, EntryGrows, EntryOK
<1> QED BY <1>1, <1>2, <1>3, Beside DEF first, NoneAppears

(***************************************************************************)
(* start                                                                   *)
(***************************************************************************)
LEMMA LaunchStep ==
  ASSUME CommandInv, NEW n \in 0 .. MaxInstances, Launch(n), EntryGrows,
         UNCHANGED <<seen, loaded, ssh, cloud>>
  PROVE  CommandInv'
<1>1. /\ cmd' = [op |-> "start", n |-> n]
      /\ pc' = [i \in Index |-> IF i < n THEN "report" ELSE "off"]
  BY Zenon DEF Launch
<1>2. UNCHANGED <<seen, loaded, ssh, inst, setup>>
  BY Zenon DEF cloud
<1>4. cmd'.op = "start" /\ \A i \in Index : pc'[i] \in {"report", "off"}
  BY <1>1, Zenon
<1>5. TypeOK'
  <2>1. cmd' \in [op : {"idle", "start", "stop", "delete", "sync"}, n : 0 .. MaxInstances]
    BY <1>1, Zenon
  <2>2. pc' \in [Index -> {"off", "report", "act", "acted", "probe", "ready",
                           "done", "failed"}]
    BY <1>1, Zenon
  <2>3. entry' \in Entry /\ unrecorded' \in SUBSET Index
    BY Zenon DEF EntryGrows, EntryOK
  <2> QED BY <1>2, <2>1, <2>2, <2>3, Zenon DEF CommandInv, TypeOK
<1>6. NoOrphans' /\ DeletedIsGone'
  BY <1>2, GrowsSafe, Zenon DEF CommandInv, NoneAppears
<1>7. ProbesAreStarts' /\ StartIsAccounted'
  BY <1>4, Zenon DEF ProbesAreStarts, StartIsAccounted
<1>8. NothingNew' /\ DeleteIsThrough'
  BY <1>4, Zenon DEF NothingNew, DeleteIsThrough
<1>9. EntryOK(entry') /\ EntryOK(loaded')
  BY <1>2, Zenon DEF CommandInv, EntryGrows
<1> QED BY <1>5, <1>6, <1>7, <1>8, <1>9, Zenon DEF CommandInv

LEMMA BeginStartStep ==
  ASSUME CommandInv, BeginStart \/ BeginCreateStart
  PROVE  CommandInv'
<1>1. CASE BeginStart
  <2>1. PICK n \in 1 .. MaxInstances \cup {entry.num} : Launch(n)
    BY <1>1, Zenon DEF BeginStart
  <2>2. n \in 0 .. MaxInstances
    <3>1. entry.num \in 0 .. MaxInstances
      BY Fields DEF CommandInv
    <3> QED BY <3>1, SMT
  <2>3. EntryGrows /\ UNCHANGED <<seen, loaded, ssh, cloud>>
    BY <1>1, SameGrows DEF BeginStart, CommandInv
  <2> QED BY <2>1, <2>2, <2>3, LaunchStep
<1>2. CASE BeginCreateStart
  <2>1. PICK n \in 1 .. MaxInstances :
           (Created(n) \/ UNCHANGED record) /\ Launch(n)
    BY <1>2, Zenon DEF BeginCreateStart
  <2>2. EntryGrows
    BY <2>1, CreatedGrows
  <2>3. n \in 0 .. MaxInstances
    BY SMT
  <2>4. UNCHANGED <<seen, loaded, ssh, cloud>>
    BY <1>2, Zenon DEF BeginCreateStart
  <2> QED BY <2>1, <2>2, <2>3, <2>4, LaunchStep
<1> QED BY <1>1, <1>2

\* The type invariant over a step of one instance.
LEMMA InstanceType ==
  ASSUME TypeOK, NEW i \in Index,
         NEW to \in {"act", "acted", "probe", "ready", "done", "failed"},
         pc' = [pc EXCEPT ![i] = to], entry' \in Entry,
         unrecorded' \in SUBSET Index,
         UNCHANGED <<cmd, seen, loaded, ssh>>,
         inst' \in [Index -> CloudStates],
         setup' \in [Index -> {"none", "running", "interrupted", "ready"}]
  PROVE  TypeOK'
<1>1. pc' \in [Index -> {"off", "report", "act", "acted", "probe", "ready",
                         "done", "failed"}]
  BY Zenon DEF TypeOK
<1> QED BY <1>1, Zenon DEF TypeOK

\* A step of one instance that leaves the cloud alone.
LEMMA Reporting ==
  ASSUME CommandInv, NEW i \in Index, EntryGrows,
         NEW to \in {"act", "acted", "probe", "ready", "done", "failed"},
         pc' = [pc EXCEPT ![i] = to],
         UNCHANGED <<cmd, seen, loaded, ssh, cloud>>,
         to \in {"probe", "ready"} => cmd.op = "start",
         cmd.op = "start" => Accounted(i)',
         cmd.op = "delete" /\ to \in {"acted", "done"} => inst[i] = "NONE"
  PROVE  CommandInv'
<1>1. NoneAppears
  BY Zenon DEF NoneAppears, cloud
<1>2. TypeOK'
  <2>1. TypeOK /\ entry' \in Entry /\ unrecorded' \in SUBSET Index
    BY Zenon DEF CommandInv, EntryGrows, EntryOK
  <2>2. inst' \in [Index -> CloudStates]
    BY Zenon DEF cloud, CommandInv, TypeOK
  <2>3. setup' \in [Index -> {"none", "running", "interrupted", "ready"}]
    BY Zenon DEF cloud, CommandInv, TypeOK
  <2> QED BY <2>1, <2>2, <2>3, InstanceType
<1>3. to \notin {"off", "report"}
  BY Zenon
<1>4. inst' = inst
  BY Zenon DEF cloud
<1> QED BY <1>1, <1>2, <1>3, <1>4, OneInstance

LEMMA StartReportsStep ==
  ASSUME CommandInv, NEW i \in Index, StartReports(i)
  PROVE  CommandInv'
<1>1. EntryGrows /\ Accounted(i)'
  BY ReportGrows DEF StartReports, CommandInv, InstanceStates
<1> QED BY <1>1, Reporting DEF StartReports, Goto

LEMMA ReportProvisioningStep ==
  ASSUME CommandInv, NEW i \in Index, ReportProvisioning(i)
  PROVE  CommandInv'
<1>1. EntryGrows /\ (Accounted(i) => Accounted(i)')
  <2>1. (inst[i] = "RUNNING") \in BOOLEAN
    BY Zenon
  <2>2. Report(i, "PROVISIONING", inst[i] = "RUNNING")
    BY Zenon DEF ReportProvisioning
  <2> QED BY <2>1, <2>2, ReportGrows DEF CommandInv, InstanceStates
<1>2. Accounted(i)
  BY Zenon DEF ReportProvisioning, Goto, CommandInv, StartIsAccounted
<1> QED BY <1>1, <1>2, Reporting DEF ReportProvisioning, Goto

LEMMA ReportReadyStep ==
  ASSUME CommandInv, NEW i \in Index, ReportReady(i)
  PROVE  CommandInv'
<1>1. EntryGrows /\ (Accounted(i) => Accounted(i)')
  BY ReportGrows DEF ReportReady, CommandInv, InstanceStates
<1>2. cmd.op = "start" /\ Accounted(i)
  BY Zenon DEF ReportReady, Goto, CommandInv, ProbesAreStarts, StartIsAccounted
<1> QED BY <1>1, <1>2, Reporting DEF ReportReady, Goto

LEMMA ProbeReadyStep ==
  ASSUME CommandInv, NEW i \in Index, ProbeReady(i)
  PROVE  CommandInv'
<1>1. EntryGrows
  BY SameGrows DEF ProbeReady, CommandInv
<1>2. cmd.op = "start" /\ Accounted(i)
  BY Zenon DEF ProbeReady, Goto, CommandInv, ProbesAreStarts, StartIsAccounted
<1>3. Accounted(i)'
  BY <1>1, <1>2, GrowsKeeps
<1> QED BY <1>1, <1>2, <1>3, Reporting DEF ProbeReady, Goto

LEMMA InstanceFailsStep ==
  ASSUME CommandInv, NEW i \in Index, InstanceFails(i)
  PROVE  CommandInv'
<1>1. EntryGrows
  BY SameGrows DEF InstanceFails, CommandInv
<1>2. cmd.op = "start" => Accounted(i)
  BY Zenon DEF InstanceFails, CommandInv, StartIsAccounted
<1>3. cmd.op = "start" => Accounted(i)'
  BY <1>1, <1>2, GrowsKeeps
<1> QED BY <1>1, <1>3, Reporting DEF InstanceFails

\* The one step that brings an instance into being: it is accounted for.
LEMMA BootStep ==
  ASSUME CommandInv, NEW i \in Index, Boot(i)
  PROVE  CommandInv'
<1>0. /\ cmd.op = "start" /\ pc[i] = "act"
      /\ pc' = [pc EXCEPT ![i] = "acted"]
      /\ inst' = [inst EXCEPT ![i] = "RUNNING"]
      /\ setup' = [setup EXCEPT ![i] = IF inst[i] = "NONE" THEN "running" ELSE @]
      /\ UNCHANGED <<entry, unrecorded, cmd, seen, loaded, ssh>>
  BY Zenon DEF Boot, Goto, record
<1>1. TypeOK'
  <2>1. inst' \in [Index -> CloudStates]
    BY <1>0, Zenon DEF CommandInv, TypeOK, CloudStates
  <2>2. setup' \in [Index -> {"none", "running", "interrupted", "ready"}]
    BY <1>0, Zenon DEF CommandInv, TypeOK
  <2>3. TypeOK /\ entry' \in Entry /\ unrecorded' \in SUBSET Index
    BY <1>0, Zenon DEF CommandInv, TypeOK
  <2> QED BY <1>0, <2>1, <2>2, <2>3, InstanceType
<1>2. /\ inst'[i] = "RUNNING"
      /\ \A j \in Index : j # i => inst'[j] = inst[j] /\ pc'[j] = pc[j]
      /\ pc'[i] = "acted"
  BY <1>0, Zenon DEF CommandInv, TypeOK
<1>3. Accounted(i)
  BY <1>0, Zenon DEF CommandInv, StartIsAccounted
<1>4. \A j \in Index : inst'[j] # "NONE" => Accounted(j)
  BY <1>2, <1>3, ExistingAccounted
<1>5. NoOrphans' /\ DeletedIsGone'
  BY <1>0, <1>4, AllAccountedNext, Zenon DEF Accounted, OnRecord
<1>6. ProbesAreStarts'
  BY <1>0, Zenon DEF ProbesAreStarts
<1>7. StartIsAccounted'
  BY <1>0, <1>2, <1>3, Zenon DEF CommandInv, StartIsAccounted, Accounted, OnRecord
<1>8. NothingNew' /\ DeleteIsThrough'
  BY <1>0, Zenon DEF NothingNew, DeleteIsThrough
<1> QED BY <1>0, <1>1, <1>5, <1>6, <1>7, <1>8, Zenon DEF CommandInv

LEMMA JoinStartStep ==
  ASSUME CommandInv, JoinStart
  PROVE  CommandInv'
<1> DEFINE new == LaunchEntry(LoadEntry(entry), cmd.n, FALSE, "start")
<1>1. EntryGrows
  <2>1. CASE UNCHANGED record
    BY <2>1, SameGrows DEF CommandInv
  <2>2. CASE Write(RecordClusterStart(entry, cmd.n, FALSE), 0 .. cmd.n - 1)
    <3>1. Write(new, 0 .. cmd.n - 1)
      BY <2>2, Zenon DEF RecordClusterStart
    <3>2. cmd.n \in 0 .. MaxInstances /\ "start" \in Actions
      BY Zenon DEF CommandInv, TypeOK, Actions
    <3>3. EntryOK(LoadEntry(entry)) /\ Keeps(entry, LoadEntry(entry))
      BY LoadOK, LoadKeeps DEF CommandInv
    <3>4. /\ EntryOK(new) /\ Keeps(LoadEntry(entry), new)
          /\ new.known /\ new.status # "deleted"
          /\ 0 .. cmd.n - 1 \subseteq Recorded(new.inst)
      BY <3>2, <3>3, LaunchOK, LaunchKeeps
    <3> HIDE DEF new
    <3>5. Keeps(entry, new)
      BY <3>3, <3>4, Zenon DEF Keeps
    <3>6. \A i \in Index : i \in 0 .. cmd.n - 1 =>
              new.known /\ i \in Recorded(new.inst) /\ new.status # "deleted"
      BY <3>4, Zenon
    <3> QED BY <3>1, <3>4, <3>5, <3>6, WriteGrows DEF CommandInv
  <2> QED BY <2>1, <2>2, Zenon DEF JoinStart
<1>2. \A i \in Index : inst[i] # "NONE" => Accounted(i)'
  BY <1>1, ExistingAccounted, GrowsKeeps
<1> QED BY <1>1, <1>2, Returns, Zenon DEF JoinStart, EntryGrows

(***************************************************************************)
(* stop, stop --delete                                                     *)
(***************************************************************************)
LEMMA BeginStopStep ==
  ASSUME CommandInv, BeginStop
  PROVE  CommandInv'
<1>1. PICK op \in {"stop", "delete"} : cmd' = [op |-> op, n |-> 0]
  BY Zenon DEF BeginStop
<1>2. /\ seen' = inst
      /\ pc' = [i \in Index |-> IF inst[i] = "NONE" THEN "off" ELSE "report"]
      /\ UNCHANGED <<entry, unrecorded, loaded, ssh, inst, setup>>
  BY Zenon DEF BeginStop, cloud, record
<1>3. /\ cmd'.op \in {"stop", "delete"}
      /\ \A i \in Index : pc'[i] = IF inst[i] = "NONE" THEN "off" ELSE "report"
  BY <1>1, <1>2, Zenon
<1>4. TypeOK'
  <2>1. 0 \in 0 .. MaxInstances
    BY MaxInstancesAssumption, SMT
  <2>2. cmd' \in [op : {"idle", "start", "stop", "delete", "sync"}, n : 0 .. MaxInstances]
    BY <1>1, <2>1, Zenon
  <2>3. pc' \in [Index -> {"off", "report", "act", "acted", "probe", "ready",
                           "done", "failed"}]
    BY <1>2, Zenon
  <2> QED BY <1>2, <2>2, <2>3, Zenon DEF CommandInv, TypeOK
<1>5. NoOrphans' /\ DeletedIsGone' /\ EntryOK(entry') /\ EntryOK(loaded')
  BY <1>2, Zenon DEF CommandInv, NoOrphans, DeletedIsGone
<1>6. ProbesAreStarts'
  <2>1. \A i \in Index : pc'[i] \in {"off", "report"}
    BY <1>3, Zenon
  <2> QED BY <2>1, Zenon DEF ProbesAreStarts
<1>7. StartIsAccounted'
  BY <1>3, Zenon DEF StartIsAccounted
<1>8. NothingNew'
  BY <1>2, Zenon DEF NothingNew
<1>9. DeleteIsThrough'
  <2> SUFFICES ASSUME NEW i \in Index
               PROVE  /\ pc'[i] = "off" => seen'[i] = "NONE"
                      /\ pc'[i] \in {"acted", "done"} => inst'[i] = "NONE"
    BY Zenon DEF DeleteIsThrough
  <2>1. pc'[i] = IF inst[i] = "NONE" THEN "off" ELSE "report"
    BY <1>3
  <2>2. CASE inst[i] = "NONE"
    BY <1>2, <2>1, <2>2, Zenon
  <2>3. CASE inst[i] # "NONE"
    BY <2>1, <2>3, Zenon
  <2> QED BY <2>2, <2>3
<1> QED BY <1>4, <1>5, <1>6, <1>7, <1>8, <1>9, Zenon DEF CommandInv

LEMMA StopReportsStep ==
  ASSUME CommandInv, NEW i \in Index, StopReports(i)
  PROVE  CommandInv'
<1>1. PICK s \in {"TERMINATED", "TERMINATING"} : Report(i, s, FALSE)
  BY Zenon DEF StopReports
<1>2. EntryGrows
  BY <1>1, ReportGrows DEF CommandInv, InstanceStates
<1>3. PICK to \in {"done", "act"} :
        /\ pc' = [pc EXCEPT ![i] = to]
        /\ cmd.op = "delete" => to = "act"
  BY Zenon DEF StopReports, Goto
<1>4. cmd.op # "start"
  BY Zenon DEF StopReports
<1> QED BY <1>2, <1>3, <1>4, Reporting DEF StopReports

LEMMA StopInstanceStep ==
  ASSUME CommandInv, NEW i \in Index, StopInstance(i)
  PROVE  CommandInv'
<1>0. /\ cmd.op \in {"stop", "delete"} /\ inst[i] # "NONE"
      /\ pc' = [pc EXCEPT ![i] = "acted"]
      /\ UNCHANGED <<entry, unrecorded, cmd, seen, loaded, ssh>>
      /\ \/ cmd.op = "delete" /\ Remove(i)
         \/ cmd.op = "stop" /\ Halt(i)
  BY Zenon DEF StopInstance, Goto, record
<1>1. EntryGrows
  BY <1>0, SameGrows DEF CommandInv, record
<1>2. PICK s \in {"NONE", "TERMINATED"} :
        /\ inst' = [inst EXCEPT ![i] = s]
        /\ cmd.op = "delete" => s = "NONE"
  BY <1>0, Zenon DEF Remove, Halt
<1>3. /\ inst'[i] = s /\ inst' \in [Index -> CloudStates]
      /\ \A j \in Index : j # i => inst'[j] = inst[j]
  BY <1>2, Zenon DEF CommandInv, TypeOK, CloudStates
<1>4. NoneAppears
  BY <1>0, <1>3, Zenon DEF NoneAppears
<1>5. setup' \in [Index -> {"none", "running", "interrupted", "ready"}]
  BY <1>0, Zenon DEF Remove, Halt, CommandInv, TypeOK
<1>6. TypeOK'
  BY <1>0, <1>3, <1>5, InstanceType DEF CommandInv, TypeOK
<1>7. CASE cmd.op = "delete"
  <2>1. inst'[i] = "NONE" /\ cmd.op # "start"
    BY <1>2, <1>3, <1>7, Zenon
  <2> QED BY <1>0, <1>1, <1>4, <1>6, <2>1, OneInstance
<1>8. CASE cmd.op = "stop"
  BY <1>0, <1>1, <1>4, <1>6, <1>8, OneInstance
<1> QED BY <1>0, <1>7, <1>8

LEMMA ReportTerminatedStep ==
  ASSUME CommandInv, NEW i \in Index, ReportTerminated(i)
  PROVE  CommandInv'
<1>1. EntryGrows /\ cmd.op # "start"
  BY ReportGrows, Zenon DEF ReportTerminated, CommandInv, InstanceStates
<1>2. cmd.op = "delete" => inst[i] = "NONE"
  BY Zenon DEF ReportTerminated, Goto, CommandInv, DeleteIsThrough
<1> QED BY <1>1, <1>2, Reporting DEF ReportTerminated, Goto

\* The cluster is forgotten only when every instance is gone.
LEMMA JoinStopStep ==
  ASSUME CommandInv, JoinStop
  PROVE  CommandInv'
<1>0. Return /\ Joined /\ cmd.op \in {"stop", "delete"}
  BY Zenon DEF JoinStop
<1>1. CASE UNCHANGED record
  <2>1. EntryGrows
    BY <1>1, SameGrows DEF CommandInv
  <2>2. \A i \in Index : inst[i] # "NONE" => Accounted(i)'
    BY <2>1, ExistingAccounted, GrowsKeeps
  <2> QED BY <1>0, <2>1, <2>2, Returns, Zenon DEF EntryGrows
<1>2. CASE ~Failed /\ cmd.op = "delete" /\ Write(NoEntry, {})
  <2>1. entry' = NoEntry /\ unrecorded' = unrecorded
    BY <1>2, Zenon DEF Write
  <2>2. \A i \in Index : pc[i] \in {"off", "done"}
    BY <1>0, <1>2, Zenon DEF Failed, Joined
  <2>3. \A i \in Index : inst[i] = "NONE"
    BY <1>2, <2>2, Zenon DEF CommandInv, DeleteIsThrough, NothingNew
  <2>4. EntryOK(entry') /\ unrecorded' \in SUBSET Index
    BY <2>1, NoEntryOK, Zenon DEF CommandInv, TypeOK
  <2> QED BY <1>0, <2>3, <2>4, Returns, Zenon
<1>3. CASE Write(RecordClusterStop(entry, FALSE), {})
  <2> DEFINE new == RecordClusterStop(entry, FALSE)
  <2>1. EntryOK(new) /\ Keeps(entry, new) /\ new.status # "deleted"
    BY StopOK, StopKeeps DEF CommandInv
  <2>2. Write(new, {})
    BY <1>3
  <2> HIDE DEF new
  <2>3. EntryGrows
    BY <2>1, <2>2, WriteGrows DEF CommandInv
  <2>4. \A i \in Index : inst[i] # "NONE" => Accounted(i)'
    BY <2>3, ExistingAccounted, GrowsKeeps
  <2> QED BY <1>0, <2>3, <2>4, Returns, Zenon DEF EntryGrows
<1> QED BY <1>1, <1>2, <1>3, Zenon DEF JoinStop

LEMMA KillStep ==
  ASSUME CommandInv, Kill
  PROVE  CommandInv'
<1>1. EntryGrows
  BY SameGrows DEF Kill, CommandInv
<1>2. \A i \in Index : inst[i] # "NONE" => Accounted(i)'
  BY <1>1, ExistingAccounted, GrowsKeeps
<1> QED BY <1>1, <1>2, Returns, Zenon DEF Kill, EntryGrows

(***************************************************************************)
(* status sync                                                             *)
(***************************************************************************)
LEMMA SyncLoadStep ==
  ASSUME CommandInv, SyncLoad
  PROVE  CommandInv'
<1>1. /\ cmd' = [op |-> "sync", n |-> 0] /\ loaded' = LoadEntry(entry)
      /\ seen' = inst
      /\ UNCHANGED <<entry, unrecorded, pc, ssh, inst, setup>>
      /\ cmd.op = "idle"
  BY Zenon DEF SyncLoad, cloud, record, Idle
<1>2. EntryOK(loaded') /\ EntryOK(entry')
  BY <1>1, LoadOK DEF CommandInv
<1>3. TypeOK'
  <2>1. 0 \in 0 .. MaxInstances
    BY MaxInstancesAssumption, SMT
  <2>2. cmd' \in [op : {"idle", "start", "stop", "delete", "sync"}, n : 0 .. MaxInstances]
    BY <1>1, <2>1, Zenon
  <2> QED BY <1>1, <1>2, <2>2, Zenon DEF CommandInv, TypeOK, EntryOK
<1>4. NoOrphans' /\ DeletedIsGone'
  BY <1>1, Zenon DEF CommandInv, NoOrphans, DeletedIsGone
<1>5. cmd'.op = "sync"
  BY <1>1, Zenon
<1>6. ProbesAreStarts'
  BY <1>1, Zenon DEF CommandInv, ProbesAreStarts
<1>7. StartIsAccounted' /\ DeleteIsThrough' /\ NothingNew'
  BY <1>1, <1>5, Zenon DEF StartIsAccounted, DeleteIsThrough, NothingNew
<1> QED BY <1>2, <1>3, <1>4, <1>6, <1>7, Zenon DEF CommandInv

\* What the listing makes of a stale entry: every instance that exists now
\* was listed.
LEMMA SyncSaveStep ==
  ASSUME CommandInv, SyncSave
  PROVE  CommandInv'
<1>1. Live \in [Index -> LiveInstance]
  <2> SUFFICES ASSUME NEW i \in Index
               PROVE  [status |-> seen[i], ip |-> seen[i] = "RUNNING"] \in LiveInstance
    BY Zenon DEF Live
  <2>1. seen[i] \in {"NONE", "RUNNING", "TERMINATED"}
    BY Zenon DEF CommandInv, TypeOK, CloudStates
  <2>2. seen[i] \in ComputeStatuses \cup {"NONE"}
    BY <2>1, Zenon DEF ComputeStatuses
  <2>3. (seen[i] = "RUNNING") \in BOOLEAN
    BY Zenon
  <2>4. seen[i] \in {"NONE", "TERMINATED"} => ~(seen[i] = "RUNNING")
    BY Zenon
  <2> QED BY <2>2, <2>3, <2>4, Zenon DEF LiveInstance
<1>2. \A i \in Index : i \in Listed(Live) <=> seen[i] # "NONE"
  BY Zenon DEF Live, Listed
<1>3. /\ Return /\ EntryOK(loaded)
      /\ entry' = SyncEntry(loaded, Live) /\ unrecorded' \in SUBSET Index
  BY Zenon DEF SyncSave, Write, CommandInv, TypeOK
<1>4. \A i \in Index : inst[i] # "NONE" => seen[i] # "NONE"
  BY Zenon DEF SyncSave, CommandInv, NothingNew
<1>5. CASE Listed(Live) # {}
  <2>1. entry' = SyncFound(loaded, Live)
    BY <1>3, <1>5, Zenon DEF SyncEntry
  <2>2. EntryOK(entry')
    BY <1>1, <1>3, <2>1, SyncFoundOK
  <2>3. /\ entry'.known /\ entry'.status # "deleted"
        /\ Listed(Live) \subseteq Recorded(entry'.inst)
    BY <1>1, <1>3, <2>1, SyncFoundKeeps
  <2>4. \A i \in Index : inst[i] # "NONE" => i \in Recorded(entry'.inst)
    BY <1>2, <1>4, <2>3, Zenon
  <2>5. \A i \in Index : inst[i] # "NONE" => Accounted(i)'
    BY <2>3, <2>4, Zenon DEF Accounted, OnRecord
  <2> QED BY <1>3, <2>2, <2>5, Returns
<1>6. CASE Listed(Live) = {}
  <2>1. entry' = SyncMissing(loaded) \/ entry' = loaded
    BY <1>3, <1>6, Zenon DEF SyncEntry
  <2>2. EntryOK(entry')
    BY <1>3, <2>1, SyncMissingOK
  <2>3. \A i \in Index : inst[i] = "NONE"
    BY <1>2, <1>4, <1>6, Zenon
  <2> QED BY <1>3, <2>2, <2>3, Returns
<1> QED BY <1>5, <1>6

(***************************************************************************)
(* ssh, and the instances by themselves                                    *)
(***************************************************************************)
LEMMA SshStep ==
  ASSUME CommandInv,
         SshResolve \/ SshGate \/ SshRecord \/ SshProbe \/ SshRecordReady \/ SshEnds
  PROVE  CommandInv'
<1> DEFINE At == {"idle", "gate", "record", "wait", "ready", "connected"}
<1>1. UNCHANGED <<cmd, pc, seen, loaded, inst, setup>>
  BY Zenon DEF SshResolve, SshGate, SshRecord, SshProbe, SshRecordReady, SshEnds,
     first, cloud
<1>2. ssh \in [at : At, i : Index] /\ ssh.i \in Index
  BY Zenon DEF CommandInv, TypeOK
<1>3. NoSession \in [at : At, i : Index]
  <2>1. 0 \in Index
    BY MaxInstancesAssumption, SMT DEF Index
  <2> QED BY <2>1, Zenon DEF NoSession
<1>4. ASSUME NEW from \in At, NEW to \in At, SshGoto(from, to)
      PROVE  ssh' \in [at : At, i : Index]
  <2>1. ssh' = [ssh EXCEPT !.at = to]
    BY <1>4, Zenon DEF SshGoto
  <2> QED BY <1>2, <2>1, Zenon
<1>5. ssh' \in [at : At, i : Index]
  <2>1. CASE SshResolve
    <3>1. PICK i \in SshTargets : ssh' = [at |-> "gate", i |-> i]
      BY <2>1, Zenon DEF SshResolve
    <3>2. i \in Index
      BY SshTargetsAssumption, Zenon
    <3> QED BY <3>1, <3>2, Zenon
  <2>2. CASE SshGate
    <3>1. \/ SshGoto("gate", "connected") \/ SshGoto("gate", "record")
          \/ ssh' = NoSession
      BY <2>2, Zenon DEF SshGate
    <3> QED BY <1>3, <1>4, <3>1, Zenon
  <2>3. CASE SshRecord
    BY <1>4, <2>3, Zenon DEF SshRecord
  <2>4. CASE SshProbe
    BY <1>4, <2>4, Zenon DEF SshProbe
  <2>5. CASE SshRecordReady
    BY <1>4, <2>5, Zenon DEF SshRecordReady
  <2>6. CASE SshEnds
    BY <1>3, <2>6, Zenon DEF SshEnds
  <2> QED BY <2>1, <2>2, <2>3, <2>4, <2>5, <2>6
<1>6. EntryGrows
  <2>1. CASE SshRecord
    <3>1. Report(ssh.i, "PROVISIONING", TRUE)
      BY <2>1, Zenon DEF SshRecord
    <3> QED BY <1>2, <3>1, ReportGrows DEF CommandInv, InstanceStates
  <2>2. CASE SshRecordReady
    <3>1. Report(ssh.i, "READY", TRUE)
      BY <2>2, Zenon DEF SshRecordReady
    <3> QED BY <1>2, <3>1, ReportGrows DEF CommandInv, InstanceStates
  <2>3. CASE SshResolve \/ SshGate \/ SshProbe \/ SshEnds
    <3>1. UNCHANGED record
      BY <2>3, Zenon DEF SshResolve, SshGate, SshProbe, SshEnds
    <3> QED BY <3>1, SameGrows DEF CommandInv
  <2> QED BY <2>1, <2>2, <2>3
<1>7. TypeOK'
  BY <1>1, <1>5, <1>6, Zenon DEF CommandInv, TypeOK, EntryGrows, EntryOK
<1>8. UNCHANGED first /\ NoneAppears
  BY <1>1, Zenon DEF first, NoneAppears
<1> QED BY <1>6, <1>7, <1>8, Beside

LEMMA InstanceAloneStep ==
  ASSUME CommandInv, NEW i \in Index, Preempt(i) \/ SetupDone(i)
  PROVE  CommandInv'
<1>1. UNCHANGED <<entry, unrecorded, cmd, pc, seen, loaded, ssh>>
  BY Zenon DEF Preempt, SetupDone, first, record
<1>2. inst' \in [Index -> CloudStates] /\ NoneAppears
  <2>1. CASE Preempt(i)
    <3>1. PICK s \in {"NONE", "TERMINATED"} : inst' = [inst EXCEPT ![i] = s]
      BY <2>1, Zenon DEF Preempt, Remove, Halt
    <3>2. /\ inst' \in [Index -> CloudStates]
          /\ \A j \in Index : j # i => inst'[j] = inst[j]
      BY <3>1, Zenon DEF CommandInv, TypeOK, CloudStates
    <3> QED BY <2>1, <3>2, Zenon DEF NoneAppears, Preempt
  <2>2. CASE SetupDone(i)
    BY <2>2, Zenon DEF SetupDone, NoneAppears, CommandInv, TypeOK
  <2> QED BY <2>1, <2>2
<1>3. setup' \in [Index -> {"none", "running", "interrupted", "ready"}]
  BY Zenon DEF Preempt, SetupDone, Remove, Halt, CommandInv, TypeOK
<1>4. TypeOK'
  BY <1>1, <1>2, <1>3, Zenon DEF CommandInv, TypeOK
<1>5. EntryGrows
  BY <1>1, SameGrows DEF CommandInv, record
<1> QED BY <1>1, <1>2, <1>4, <1>5, Beside DEF first

-----------------------------------------------------------------------------
\* Before the first command.
LEMMA InitInv ==
  ASSUME Init
  PROVE  CommandInv
<1>1. EntryOK(entry) /\ EntryOK(loaded)
  BY NoEntryOK DEF Init
<1>2. TypeOK
  <2>1. 0 \in 0 .. MaxInstances /\ 0 \in Index
    BY MaxInstancesAssumption, SMT DEF Index
  <2>2. NoCommand \in [op : {"idle", "start", "stop", "delete", "sync"},
                      n : 0 .. MaxInstances]
    BY <2>1, Zenon DEF NoCommand
  <2>3. NoSession \in [at : {"idle", "gate", "record", "wait", "ready", "connected"},
                      i : Index]
    BY <2>1, Zenon DEF NoSession
  <2>4. Off \in [Index -> {"off", "report", "act", "acted", "probe", "ready",
                           "done", "failed"}]
    BY Zenon DEF Off
  <2>5. Nothing \in [Index -> CloudStates]
    BY Zenon DEF Nothing, CloudStates
  <2>6. setup \in [Index -> {"none", "running", "interrupted", "ready"}]
    BY Zenon DEF Init
  <2> QED BY <1>1, <2>2, <2>3, <2>4, <2>5, <2>6, Zenon DEF Init, TypeOK, EntryOK
<1>3. \A i \in Index : inst[i] = "NONE" /\ pc[i] = "off"
  BY Zenon DEF Init, Nothing, Off
<1>4. NoOrphans /\ DeletedIsGone /\ ProbesAreStarts
  BY <1>3, Zenon DEF NoOrphans, DeletedIsGone, ProbesAreStarts
<1>5. cmd.op = "idle"
  BY Zenon DEF Init, NoCommand
<1>6. StartIsAccounted /\ NothingNew /\ DeleteIsThrough
  BY <1>5, Zenon DEF StartIsAccounted, NothingNew, DeleteIsThrough
<1> QED BY <1>1, <1>2, <1>4, <1>6, Zenon DEF CommandInv

\* What a command has listed, reported and loaded stays consistent with the
\* record and the cloud, for clusters of any size.
THEOREM CommandsConsistent == Spec => []CommandInv
<1>1. CommandInv /\ [Next]_vars => CommandInv'
  <2> SUFFICES ASSUME CommandInv, [Next]_vars PROVE CommandInv'
    OBVIOUS
  <2>1. ASSUME NEW i \in Index, InstanceStep(i) PROVE CommandInv'
    <3>1. CASE StartReports(i) \/ Boot(i) \/ ReportProvisioning(i) \/ ProbeReady(i)
      BY <3>1, StartReportsStep, BootStep, ReportProvisioningStep, ProbeReadyStep
    <3>2. CASE ReportReady(i) \/ StopReports(i) \/ StopInstance(i)
      BY <3>2, ReportReadyStep, StopReportsStep, StopInstanceStep
    <3>3. CASE ReportTerminated(i) \/ InstanceFails(i)
      BY <3>3, ReportTerminatedStep, InstanceFailsStep
    <3> QED BY <2>1, <3>1, <3>2, <3>3 DEF InstanceStep
  <2>2. CASE Create \/ Update \/ BeginStart \/ BeginCreateStart \/ JoinStart
    BY <2>2, RecordStep, BeginStartStep, JoinStartStep
  <2>3. CASE BeginStop \/ JoinStop \/ Kill
    BY <2>3, BeginStopStep, JoinStopStep, KillStep
  <2>4. CASE SyncLoad \/ SyncSave
    BY <2>4, SyncLoadStep, SyncSaveStep
  <2>5. CASE UNCHANGED vars
    <3>1. EntryGrows
      BY <2>5, SameGrows DEF vars, record, CommandInv
    <3>2. TypeOK' /\ UNCHANGED first /\ NoneAppears
      BY <2>5, Zenon DEF vars, first, NoneAppears, TypeOK, CommandInv
    <3> QED BY <3>1, <3>2, Beside
  <2> QED BY <2>1, <2>2, <2>3, <2>4, <2>5, SshStep, InstanceAloneStep DEF Next
<1> QED BY <1>1, InitInv, PTL DEF Spec

\* Every variable of the commands keeps to its set.
THEOREM TypeCorrect == Spec => []TypeOK
<1>1. CommandInv => TypeOK
  BY DEF CommandInv
<1> QED BY <1>1, CommandsConsistent, PTL

\* No instance exists that state.json does not name, unless the report of
\* the start that made it could not be written and nothing was since.
THEOREM NeverOrphaned == Spec => []NoOrphans
<1>1. CommandInv => NoOrphans
  BY DEF CommandInv
<1> QED BY <1>1, CommandsConsistent, PTL

\* A cluster called deleted has no instance, with the same exception.
THEOREM DeletedAlwaysGone == Spec => []DeletedIsGone
<1>1. CommandInv => DeletedIsGone
  BY DEF CommandInv
<1> QED BY <1>1, CommandsConsistent, PTL
=============================================================================
