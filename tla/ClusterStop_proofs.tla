-------------------------- MODULE ClusterStop_proofs --------------------------
(***************************************************************************)
(* Proofs about ClusterStop, for any number of instances and of firewall   *)
(* rules and any faults: what a stop or delete records, forgets, takes     *)
(* down and keeps is sound wherever it fails or is killed.                 *)
(***************************************************************************)
EXTENDS ClusterStop, TLAPS

-----------------------------------------------------------------------------
(***************************************************************************)
(* The inductive invariant                                                 *)
(***************************************************************************)
Active == {"report", "autoDelete", "call", "operation", "reportDone"}

\* Workers run only while they are waited for.
WorkersJoined == \A w \in Worker : pc[w] \in Active => main = "join"

\* There is no worker before the listing, and past the join none has failed.
AllWell ==
    /\ main = "list" => \A w \in Worker : pc[w] = "off"
    /\ main \in {"delete", "wait", "record", "ok"} =>
          \A w \in Worker : pc[w] \in {"off", "done"}

\* An instance without a worker does not exist.
Unlisted ==
    main \in {"join", "delete", "wait", "record", "ok"} =>
        \A w \in Worker : pc[w] = "off" => inst[w] = "NONE"

\* What was listed as stopped still is before its worker begins.
ListedStopped ==
    \A w \in Worker : pc[w] = "report" /\ seen[w] = "TERMINATED" => Stopped(w)

\* What a worker is through with is stopped, or deleted.
Through ==
    \A w \in Worker : pc[w] \in {"reportDone", "done"} =>
        Stopped(w) /\ (opts.delete => inst[w] = "NONE")

\* A worker reports before it calls.
Reported ==
    \A w \in Worker : pc[w] \in {"autoDelete", "call", "operation"} =>
        recorded[w] = "TERMINATING"

\* The teardown, in its order.
Progress ==
    /\ main \in {"list", "join"} => res = 1
    /\ main \in {"delete", "wait"} =>
          opts.delete /\ \A r \in Resource : r < res => ~resource[r]
    /\ \A r, q \in Resource : q < r /\ ~resource[r] => ~resource[q]
    /\ (\E r \in Resource : ~resource[r]) => \A w \in Worker : inst[w] = "NONE"

\* The end of a delete.
Deleted ==
    main \in {"record", "ok"} /\ opts.delete =>
        /\ \A w \in Worker : inst[w] = "NONE"
        /\ Listed # {} => \A r \in Resource : ~resource[r]

\* A disk that is to be kept is set so before its instance is deleted.
DisksSet ==
    /\ ~(opts.keepDisks /\ opts.deleteDisks)
    /\ opts.delete /\ opts.keepDisks =>
          \A w \in Worker : pc[w] \in {"call", "operation"} => disk[w] # "auto"

StopInv ==
    /\ TypeOK
    /\ TerminatedIsStopped /\ ForgottenHasNoInstance
    /\ WorkersJoined /\ AllWell /\ Unlisted /\ ListedStopped /\ Through /\ Reported
    /\ Progress /\ Deleted /\ DisksSet

-----------------------------------------------------------------------------
(***************************************************************************)
(* Compute Engine                                                          *)
(***************************************************************************)

\* What is stopped stays stopped, what is gone stays gone.
StaysDown ==
    \A w \in Worker : /\ Stopped(w) => Stopped(w)'
                      /\ inst[w] = "NONE" => inst'[w] = "NONE"

\* No disk is set to go with its instance.
NoDiskSet == \A w \in Worker : disk'[w] = "auto" => disk[w] = "auto"

\* The shape of a step of Compute Engine.
LEMMA CloudShape ==
  ASSUME TypeOK, NEW w \in Worker, CloudStep(w) \/ Preempt(w)
  PROVE  /\ StaysDown /\ NoDiskSet
         /\ inst' \in [Worker -> CloudStatuses]
         /\ disk' \in [Worker -> {"none", "auto", "kept"}]
         /\ UNCHANGED <<main, opts, res, pc, seen, cancelled, recorded,
                        keepDefault, resource>>
<1>0. /\ inst \in [Worker -> CloudStatuses]
      /\ disk \in [Worker -> {"none", "auto", "kept"}]
  BY Zenon DEF TypeOK
<1>1. inst[w] \notin {"TERMINATED", "NONE"}
  BY Zenon DEF CloudStep, InstanceStopped, InstanceDeleted, Preempt
<1>2. PICK s \in {"TERMINATED", "RUNNING", "NONE"} : inst' = [inst EXCEPT ![w] = s]
  BY Zenon DEF CloudStep, InstanceStopped, InstanceDeleted, Preempt, Remove
<1>3. /\ inst' \in [Worker -> CloudStatuses]
      /\ \A v \in Worker : v # w => inst'[v] = inst[v]
  BY <1>0, <1>2, Zenon DEF CloudStatuses
<1>4. StaysDown
  <2> SUFFICES ASSUME NEW v \in Worker
               PROVE  /\ Stopped(v) => Stopped(v)'
                      /\ inst[v] = "NONE" => inst'[v] = "NONE"
    BY Zenon DEF StaysDown
  <2>1. CASE v = w
    BY <1>1, <2>1, Zenon DEF Stopped
  <2>2. CASE v # w
    BY <1>3, <2>2, Zenon DEF Stopped
  <2> QED BY <2>1, <2>2
<1>5. \/ disk' = disk
      \/ disk' = [disk EXCEPT ![w] = IF @ = "auto" THEN "none" ELSE @]
  BY Zenon DEF CloudStep, InstanceStopped, InstanceDeleted, Preempt, Remove
<1>6. disk' \in [Worker -> {"none", "auto", "kept"}]
  BY <1>0, <1>5, Zenon
<1>7. NoDiskSet
  BY <1>0, <1>5, Zenon DEF NoDiskSet
<1>8. UNCHANGED <<local, store, resource>>
  BY Zenon DEF CloudStep, InstanceStopped, InstanceDeleted, Preempt, Remove
<1> QED BY <1>3, <1>4, <1>6, <1>7, <1>8, Zenon DEF local, store

LEMMA CloudStepInv ==
  ASSUME StopInv, NEW v \in Worker, CloudStep(v) \/ Preempt(v)
  PROVE  StopInv'
<1>0. /\ StaysDown /\ NoDiskSet
      /\ inst' \in [Worker -> CloudStatuses]
      /\ disk' \in [Worker -> {"none", "auto", "kept"}]
      /\ UNCHANGED <<main, opts, res, pc, seen, cancelled, recorded,
                     keepDefault, resource>>
  BY CloudShape DEF StopInv
<1>1. TypeOK'
  BY <1>0, Zenon DEF StopInv, TypeOK
<1>2. TerminatedIsStopped' /\ ForgottenHasNoInstance'
  BY <1>0, Zenon DEF StopInv, TerminatedIsStopped, ForgottenHasNoInstance, StaysDown
<1>3. WorkersJoined' /\ AllWell' /\ Reported'
  BY <1>0, Zenon DEF StopInv, WorkersJoined, AllWell, Reported
<1>4. Unlisted'
  BY <1>0, Zenon DEF StopInv, Unlisted, StaysDown
<1>5. ListedStopped' /\ Through'
  BY <1>0, Zenon DEF StopInv, ListedStopped, Through, StaysDown
<1>6. Progress'
  BY <1>0, Zenon DEF StopInv, Progress, StaysDown
<1>7. Deleted'
  BY <1>0, Zenon DEF StopInv, Deleted, Listed, StaysDown
<1>8. DisksSet'
  BY <1>0, Zenon DEF StopInv, DisksSet, NoDiskSet
<1> QED BY <1>1, <1>2, <1>3, <1>4, <1>5, <1>6, <1>7, <1>8, Zenon DEF StopInv

-----------------------------------------------------------------------------
(***************************************************************************)
(* The workers                                                             *)
(***************************************************************************)

\* A worker's step from one place to another, in general: the conditions
\* say what has to be shown of each kind.
LEMMA WorkerStepInv ==
  ASSUME StopInv, NEW w \in Worker, pc[w] \in Active,
         NEW to \in {"autoDelete", "call", "operation", "reportDone", "done", "failed"},
         pc' = [pc EXCEPT ![w] = to],
         UNCHANGED <<main, opts, res, seen, keepDefault, resource>>,
         cancelled' \in BOOLEAN,
         recorded' \in [Worker -> InstanceStates \cup {"ABSENT"}],
         \A v \in Worker : v # w => recorded'[v] = recorded[v],
         recorded'[w] = "ABSENT" => recorded[w] = "ABSENT",
         recorded'[w] = "TERMINATED" => Stopped(w)',
         to \in {"autoDelete", "call", "operation"} => recorded'[w] = "TERMINATING",
         inst' \in [Worker -> CloudStatuses],
         \A v \in Worker : v # w => inst'[v] = inst[v],
         inst[w] = "NONE" => inst'[w] = "NONE",
         to \in {"reportDone", "done"} => Stopped(w)' /\ (opts.delete => inst'[w] = "NONE"),
         disk' \in [Worker -> {"none", "auto", "kept"}],
         \A v \in Worker : v # w => disk'[v] = disk[v],
         opts.delete /\ opts.keepDisks /\ to \in {"call", "operation"}
            => disk'[w] # "auto"
  PROVE  StopInv'
<1>0. /\ pc'[w] = to
      /\ \A v \in Worker : v # w => pc'[v] = pc[v]
      /\ main = "join"
  BY Zenon DEF StopInv, TypeOK, WorkersJoined
<1>1. TypeOK'
  <2>1. pc' \in [Worker -> WorkerSteps]
    BY Zenon DEF StopInv, TypeOK, WorkerSteps
  <2> QED BY <2>1, Zenon DEF StopInv, TypeOK
<1>2. TerminatedIsStopped'
  <2> SUFFICES ASSUME NEW v \in Worker, recorded'[v] = "TERMINATED"
               PROVE  Stopped(v)'
    BY Zenon DEF TerminatedIsStopped
  <2>1. CASE v = w
    BY <2>1, Zenon
  <2>2. CASE v # w
    BY <2>2, Zenon DEF StopInv, TerminatedIsStopped, Stopped
  <2> QED BY <2>1, <2>2
<1>3. ForgottenHasNoInstance'
  <2> SUFFICES ASSUME \A v \in Worker : recorded'[v] = "ABSENT"
               PROVE  \A v \in Worker : inst'[v] = "NONE"
    BY Zenon DEF ForgottenHasNoInstance
  <2>1. \A v \in Worker : recorded[v] = "ABSENT"
    BY Zenon
  <2>2. \A v \in Worker : inst[v] = "NONE"
    BY <2>1, Zenon DEF StopInv, ForgottenHasNoInstance
  <2> QED BY <2>2, Zenon
<1>4. WorkersJoined' /\ AllWell'
  BY <1>0, Zenon DEF WorkersJoined, AllWell
<1>5. Unlisted'
  BY <1>0, Zenon DEF StopInv, Unlisted
<1>6. ListedStopped'
  BY <1>0, Zenon DEF StopInv, ListedStopped, Stopped
<1>7. Through'
  <2> SUFFICES ASSUME NEW v \in Worker, pc'[v] \in {"reportDone", "done"}
               PROVE  Stopped(v)' /\ (opts'.delete => inst'[v] = "NONE")
    BY Zenon DEF Through
  <2>1. CASE v = w
    BY <1>0, <2>1, Zenon
  <2>2. CASE v # w
    BY <1>0, <2>2, Zenon DEF StopInv, Through, Stopped
  <2> QED BY <2>1, <2>2
<1>8. Reported'
  BY <1>0, Zenon DEF StopInv, Reported
<1>9. Progress'
  <2>1. (\E r \in Resource : ~resource[r]) => \A v \in Worker : inst'[v] = "NONE"
    BY Zenon DEF StopInv, Progress
  <2>2. main' = "join" /\ res' = 1 /\ resource' = resource
    BY <1>0, Zenon DEF StopInv, Progress
  <2>3. \A r, q \in Resource : q < r /\ ~resource[r] => ~resource[q]
    BY Zenon DEF StopInv, Progress
  <2> QED BY <2>1, <2>2, <2>3, Zenon DEF Progress
<1>10. Deleted'
  BY <1>0, Zenon DEF Deleted
<1>11. DisksSet'
  <2>1. ~(opts'.keepDisks /\ opts'.deleteDisks)
    BY Zenon DEF StopInv, DisksSet
  <2>2. ASSUME opts'.delete, opts'.keepDisks, NEW v \in Worker,
               pc'[v] \in {"call", "operation"}
        PROVE  disk'[v] # "auto"
    <3>1. CASE v = w
      BY <1>0, <2>2, <3>1, Zenon
    <3>2. CASE v # w
      BY <1>0, <2>2, <3>2, Zenon DEF StopInv, DisksSet
    <3> QED BY <3>1, <3>2
  <2> QED BY <2>1, <2>2, Zenon DEF DisksSet
<1> QED
  BY <1>1, <1>2, <1>3, <1>4, <1>5, <1>6, <1>7, <1>8, <1>9, <1>10, <1>11, Zenon
     DEF StopInv

\* A step that leaves the cloud alone.
LEMMA QuietStep ==
  ASSUME StopInv, NEW w \in Worker, pc[w] \in Active,
         NEW to \in {"autoDelete", "call", "operation", "reportDone", "done", "failed"},
         pc' = [pc EXCEPT ![w] = to],
         UNCHANGED <<main, opts, res, seen, keepDefault, resource, inst, disk>>,
         cancelled' \in BOOLEAN,
         \/ UNCHANGED recorded
         \/ Record(w, "TERMINATING")
         \/ Record(w, "TERMINATED") /\ Stopped(w) /\ to = "done",
         to \in {"autoDelete", "call", "operation"} => recorded'[w] = "TERMINATING",
         to \in {"reportDone", "done"} => Stopped(w) /\ (opts.delete => inst[w] = "NONE"),
         opts.delete /\ opts.keepDisks /\ to \in {"call", "operation"} => disk[w] # "auto"
  PROVE  StopInv'
<1>0. /\ recorded \in [Worker -> InstanceStates \cup {"ABSENT"}]
      /\ inst \in [Worker -> CloudStatuses]
      /\ disk \in [Worker -> {"none", "auto", "kept"}]
  BY Zenon DEF StopInv, TypeOK
<1>1. recorded' \in [Worker -> InstanceStates \cup {"ABSENT"}]
  BY <1>0, Zenon DEF Record, InstanceStates
<1>2. \A v \in Worker : v # w => recorded'[v] = recorded[v]
  BY <1>0, Zenon DEF Record
<1>3. \/ recorded'[w] = recorded[w]
      \/ recorded'[w] = "TERMINATING"
      \/ recorded'[w] = "TERMINATED" /\ Stopped(w)
  BY <1>0, Zenon DEF Record
<1>4. recorded'[w] = "ABSENT" => recorded[w] = "ABSENT"
  BY <1>3, Zenon
<1>6. recorded'[w] = "TERMINATED" => Stopped(w)
  <2>1. recorded[w] = "TERMINATED" => Stopped(w)
    BY Zenon DEF StopInv, TerminatedIsStopped
  <2> QED BY <1>3, <2>1, Zenon
<1>5. Stopped(w) => Stopped(w)'
  BY Zenon DEF Stopped
<1> QED BY <1>0, <1>1, <1>2, <1>4, <1>5, <1>6, WorkerStepInv

LEMMA ReportStep ==
  ASSUME StopInv, NEW w \in Worker, Report(w)
  PROVE  StopInv'
<1>0. /\ pc[w] = "report" /\ pc[w] \in Active
      /\ UNCHANGED <<main, opts, res, seen, cancelled, keepDefault, resource, inst, disk>>
      /\ recorded \in [Worker -> InstanceStates \cup {"ABSENT"}]
      /\ cancelled' \in BOOLEAN
  BY Zenon DEF Report, Goto, cloud, Active, StopInv, TypeOK
<1>1. CASE opts.delete
  <2>1. Record(w, "TERMINATING") /\ pc' = [pc EXCEPT ![w] = "autoDelete"]
    BY <1>1, Zenon DEF Report, Goto
  <2>2. recorded'[w] = "TERMINATING"
    BY <1>0, <2>1, Zenon DEF Record
  <2> QED BY <1>0, <2>1, <2>2, QuietStep
<1>2. CASE ~opts.delete /\ seen[w] = "TERMINATED"
  <2>1. Record(w, "TERMINATED") /\ pc' = [pc EXCEPT ![w] = "done"]
    BY <1>2, Zenon DEF Report, Goto
  <2>2. Stopped(w)
    BY <1>0, <1>2, Zenon DEF StopInv, ListedStopped
  <2> QED BY <1>0, <1>2, <2>1, <2>2, QuietStep
<1>3. CASE ~opts.delete /\ seen[w] # "TERMINATED"
  <2>1. Record(w, "TERMINATING") /\ pc' = [pc EXCEPT ![w] = "call"]
    BY <1>3, Zenon DEF Report, Goto
  <2>2. recorded'[w] = "TERMINATING"
    BY <1>0, <2>1, Zenon DEF Record
  <2> QED BY <1>0, <1>3, <2>1, <2>2, QuietStep
<1> QED BY <1>1, <1>2, <1>3

LEMMA FailStep ==
  ASSUME StopInv, NEW w \in Worker, CallFails(w) \/ OperationFailed(w)
  PROVE  StopInv'
<1>1. /\ pc[w] \in Active
      /\ pc' = [pc EXCEPT ![w] = "failed"]
      /\ cancelled' \in BOOLEAN
      /\ UNCHANGED <<main, opts, res, seen, recorded, keepDefault, resource, inst, disk>>
  BY Zenon DEF CallFails, OperationFailed, Active, store, cloud
<1> QED BY <1>1, QuietStep

LEMMA OperationDoneStep ==
  ASSUME StopInv, NEW w \in Worker, OperationDone(w)
  PROVE  StopInv'
<1>1. /\ pc[w] \in Active
      /\ pc' = [pc EXCEPT ![w] = "reportDone"]
      /\ cancelled' \in BOOLEAN
      /\ UNCHANGED <<main, opts, res, seen, recorded, keepDefault, resource, inst, disk>>
  BY Zenon DEF OperationDone, Goto, Active, store, cloud, StopInv, TypeOK
<1>2. Stopped(w) /\ (opts.delete => inst[w] = "NONE")
  BY Zenon DEF OperationDone, Achieved, Stopped
<1> QED BY <1>1, <1>2, QuietStep

LEMMA ReportDoneStep ==
  ASSUME StopInv, NEW w \in Worker, ReportDone(w)
  PROVE  StopInv'
<1>1. /\ pc[w] \in Active /\ pc[w] = "reportDone"
      /\ pc' = [pc EXCEPT ![w] = "done"]
      /\ cancelled' \in BOOLEAN
      /\ Record(w, "TERMINATED")
      /\ UNCHANGED <<main, opts, res, seen, keepDefault, resource, inst, disk>>
  BY Zenon DEF ReportDone, Goto, Active, cloud, StopInv, TypeOK
<1>2. Stopped(w) /\ (opts.delete => inst[w] = "NONE")
  BY <1>1, Zenon DEF StopInv, Through
<1> QED BY <1>1, <1>2, QuietStep

LEMMA SetAutoDeleteStep ==
  ASSUME StopInv, NEW w \in Worker, SetAutoDelete(w)
  PROVE  StopInv'
<1>1. PICK to \in {"call", "failed"} : pc' = [pc EXCEPT ![w] = to]
  BY Zenon DEF SetAutoDelete, Goto
<1>2. /\ pc[w] = "autoDelete" /\ pc[w] \in Active
      /\ cancelled' \in BOOLEAN
      /\ UNCHANGED <<main, opts, res, seen, recorded, keepDefault, resource, inst>>
  BY Zenon DEF SetAutoDelete, Goto, Active, store, StopInv, TypeOK
<1>3. PICK d \in {"auto", "kept"} : /\ disk' = [disk EXCEPT ![w] = d]
                                    /\ d = "auto" => AutoDelete
  BY Zenon DEF SetAutoDelete
<1>4. /\ disk' \in [Worker -> {"none", "auto", "kept"}]
      /\ \A v \in Worker : v # w => disk'[v] = disk[v]
      /\ disk'[w] = d
  BY <1>3, Zenon DEF StopInv, TypeOK
<1>5. opts.keepDisks => disk'[w] # "auto"
  BY <1>3, <1>4, Zenon DEF AutoDelete, StopInv, DisksSet
<1>6. recorded[w] = "TERMINATING" /\ recorded \in [Worker -> InstanceStates \cup {"ABSENT"}]
  BY <1>2, Zenon DEF StopInv, Reported, TypeOK
<1>7. recorded'[w] # "TERMINATED" /\ recorded'[w] = "TERMINATING"
  BY <1>2, <1>6, Zenon
<1>8. inst' \in [Worker -> CloudStatuses]
  BY <1>2, Zenon DEF StopInv, TypeOK
<1> QED BY <1>1, <1>2, <1>4, <1>5, <1>6, <1>7, <1>8, WorkerStepInv

LEMMA CallStep ==
  ASSUME StopInv, NEW w \in Worker, Call(w)
  PROVE  StopInv'
<1>1. PICK to \in {"operation", "failed"} : pc' = [pc EXCEPT ![w] = to]
  BY Zenon DEF Call, Goto
<1>2. /\ pc[w] = "call" /\ pc[w] \in Active /\ inst[w] # "NONE"
      /\ cancelled' \in BOOLEAN
      /\ UNCHANGED <<main, opts, res, seen, recorded, keepDefault, resource, disk>>
  BY Zenon DEF Call, Goto, Active, store, StopInv, TypeOK
<1>3. PICK s \in CloudStatuses : inst' = [inst EXCEPT ![w] = s]
  <2>1. inst[w] \in CloudStatuses
    BY Zenon DEF StopInv, TypeOK
  <2> QED BY <2>1, Zenon DEF Call, CloudStatuses
<1>4. /\ inst' \in [Worker -> CloudStatuses]
      /\ \A v \in Worker : v # w => inst'[v] = inst[v]
  BY <1>3, Zenon DEF StopInv, TypeOK
<1>5. recorded[w] = "TERMINATING" /\ recorded \in [Worker -> InstanceStates \cup {"ABSENT"}]
  BY <1>2, Zenon DEF StopInv, Reported, TypeOK
<1>6. recorded'[w] # "TERMINATED" /\ recorded'[w] = "TERMINATING"
  BY <1>2, <1>5, Zenon
<1>7. opts.delete /\ opts.keepDisks => disk'[w] # "auto"
  BY <1>2, Zenon DEF StopInv, DisksSet
<1>8. disk' \in [Worker -> {"none", "auto", "kept"}]
  BY <1>2, Zenon DEF StopInv, TypeOK
<1> QED BY <1>1, <1>2, <1>4, <1>5, <1>6, <1>7, <1>8, WorkerStepInv

-----------------------------------------------------------------------------
(***************************************************************************)
(* The command                                                             *)
(***************************************************************************)

\* A step of the command between its workers and its resources.
LEMMA MainStepInv ==
  ASSUME StopInv, main # "join" \/ \A w \in Worker : pc[w] \notin Active,
         UNCHANGED <<opts, pc, seen, cancelled, recorded, keepDefault, inst, disk>>,
         main' \in MainSteps, res' \in Resource,
         resource' \in [Resource -> BOOLEAN],
         AllWell', Unlisted', Progress', Deleted'
  PROVE  StopInv'
<1>1. TypeOK'
  BY Zenon DEF StopInv, TypeOK
<1>2. TerminatedIsStopped' /\ ForgottenHasNoInstance'
  BY Zenon DEF StopInv, TerminatedIsStopped, ForgottenHasNoInstance, Stopped
<1>3. WorkersJoined'
  BY Zenon DEF StopInv, WorkersJoined
<1>4. ListedStopped' /\ Through' /\ Reported'
  BY Zenon DEF StopInv, ListedStopped, Through, Reported, Stopped
<1>5. DisksSet'
  BY Zenon DEF StopInv, DisksSet
<1> QED BY <1>1, <1>2, <1>3, <1>4, <1>5, Zenon DEF StopInv

\* While resources are deleted there is no instance.
LEMMA TeardownFacts ==
  ASSUME StopInv, main \in {"delete", "wait"}
  PROVE  /\ opts.delete /\ \A w \in Worker : inst[w] = "NONE"
         /\ \A w \in Worker : pc[w] \in {"off", "done"}
         /\ \A r \in Resource : r < res => ~resource[r]
         /\ res \in Resource /\ resource \in [Resource -> BOOLEAN]
<1>1. opts.delete /\ \A r \in Resource : r < res => ~resource[r]
  BY Zenon DEF StopInv, Progress
<1>2. \A w \in Worker : pc[w] \in {"off", "done"}
  BY Zenon DEF StopInv, AllWell
<1>3. ASSUME NEW w \in Worker PROVE inst[w] = "NONE"
  <2>1. CASE pc[w] = "off"
    BY <2>1, Zenon DEF StopInv, Unlisted
  <2>2. CASE pc[w] = "done"
    BY <1>1, <2>2, Zenon DEF StopInv, Through
  <2> QED BY <1>2, <2>1, <2>2, Zenon
<1>4. res \in Resource /\ resource \in [Resource -> BOOLEAN]
  BY Zenon DEF StopInv, TypeOK
<1> QED BY <1>1, <1>2, <1>3, <1>4

\* The resource is gone, or as it was.
ResourceStep ==
    /\ resource' \in [Resource -> BOOLEAN]
    /\ \A r \in Resource : r # res => resource'[r] = resource[r]
    /\ ~resource[res] => ~resource'[res]

LEMMA Shape ==
  ASSUME resource \in [Resource -> BOOLEAN], res \in Resource,
         UNCHANGED resource \/ resource' = [resource EXCEPT ![res] = FALSE]
  PROVE  ResourceStep
BY Zenon DEF ResourceStep

\* The resources of a smaller number go first.
LEMMA OrderKept ==
  ASSUME StopInv, main \in {"delete", "wait"}, ResourceStep
  PROVE  /\ \A r, q \in Resource : q < r /\ ~resource'[r] => ~resource'[q]
         /\ \A r \in Resource : r < res => ~resource'[r]
<1>0. /\ res \in Resource
      /\ \A r \in Resource : r < res => ~resource[r]
      /\ \A r, q \in Resource : q < r /\ ~resource[r] => ~resource[q]
  BY TeardownFacts DEF StopInv, Progress
<1>1. \A r \in Resource : r < res => ~resource'[r]
  <2> SUFFICES ASSUME NEW r \in Resource, r < res PROVE ~resource'[r]
    OBVIOUS
  <2>1. r # res
    BY <1>0, StopAssumption, SMT DEF Resource, Network
  <2> QED BY <1>0, <2>1, Zenon DEF ResourceStep
<1>2. ASSUME NEW r \in Resource, NEW q \in Resource, q < r, ~resource'[r]
      PROVE  ~resource'[q]
  <2>1. CASE r = res
    BY <1>1, <1>2, <2>1, Zenon
  <2>2. CASE r # res
    <3>1. ~resource[q]
      BY <1>0, <1>2, <2>2, Zenon DEF ResourceStep
    <3> QED BY <3>1, Zenon DEF ResourceStep
  <2> QED BY <2>1, <2>2
<1> QED BY <1>1, <1>2, Zenon

\* The deletion of a resource begins, or fails.
LEMMA TeardownHeld ==
  ASSUME StopInv, main \in {"delete", "wait"}, main' \in {"wait", "err"},
         UNCHANGED <<opts, res, pc, seen, cancelled, store, inst, disk>>,
         ResourceStep
  PROVE  StopInv'
<1>0. /\ opts.delete /\ \A w \in Worker : inst[w] = "NONE"
      /\ \A w \in Worker : pc[w] \in {"off", "done"}
      /\ res \in Resource
  BY TeardownFacts
<1>1. AllWell' /\ Unlisted' /\ Deleted'
  BY <1>0, Zenon DEF AllWell, Unlisted, Deleted
<1>2. Progress'
  BY <1>0, OrderKept, Zenon DEF Progress
<1>3. main' \in MainSteps /\ resource' \in [Resource -> BOOLEAN]
  BY Zenon DEF MainSteps, ResourceStep
<1> QED BY <1>0, <1>1, <1>2, <1>3, MainStepInv DEF store

\* A resource is gone: the next one, or the end.
LEMMA TeardownGoesOn ==
  ASSUME StopInv, main \in {"delete", "wait"}, ResourceStep, ~resource'[res],
         ResourceGone
  PROVE  StopInv'
<1>0. /\ opts.delete /\ \A w \in Worker : inst[w] = "NONE"
      /\ \A w \in Worker : pc[w] \in {"off", "done"}
      /\ res \in Resource
  BY TeardownFacts
<1>1. /\ UNCHANGED <<opts, pc, seen, cancelled, store, inst, disk>>
      /\ main' \in {"record", "delete"}
  BY Zenon DEF ResourceGone
<1>2. /\ \A r, q \in Resource : q < r /\ ~resource'[r] => ~resource'[q]
      /\ \A r \in Resource : r < res => ~resource'[r]
  BY OrderKept
<1>3. AllWell' /\ Unlisted'
  BY <1>0, <1>1, Zenon DEF AllWell, Unlisted
<1>4. CASE res = Network
  <2>1. main' = "record" /\ res' = res
    BY <1>4, Zenon DEF ResourceGone
  <2>2. \A r \in Resource : ~resource'[r]
    <3> SUFFICES ASSUME NEW r \in Resource PROVE ~resource'[r]
      OBVIOUS
    <3>1. r < res \/ r = res
      BY <1>4, StopAssumption, SMT DEF Resource, Network
    <3> QED BY <1>2, <3>1, Zenon
  <2>3. Progress' /\ Deleted'
    BY <1>0, <1>1, <1>2, <2>1, <2>2, Zenon DEF Progress, Deleted
  <2>4. main' \in MainSteps /\ resource' \in [Resource -> BOOLEAN]
    BY <2>1, Zenon DEF MainSteps, ResourceStep
  <2> QED BY <1>0, <1>1, <1>3, <2>1, <2>3, <2>4, MainStepInv DEF store
<1>5. CASE res # Network
  <2>1. main' = "delete" /\ res' = res + 1
    BY <1>5, Zenon DEF ResourceGone
  <2>2. res' \in Resource
    BY <1>0, <1>5, <2>1, StopAssumption, SMT DEF Resource, Network
  <2>3. \A r \in Resource : r < res' => ~resource'[r]
    <3> SUFFICES ASSUME NEW r \in Resource, r < res' PROVE ~resource'[r]
      OBVIOUS
    <3>1. r < res \/ r = res
      BY <1>0, <2>1, StopAssumption, SMT DEF Resource, Network
    <3> QED BY <1>2, <3>1, Zenon
  <2>4. Progress' /\ Deleted'
    BY <1>0, <1>1, <1>2, <2>1, <2>3, Zenon DEF Progress, Deleted
  <2>5. main' \in MainSteps /\ resource' \in [Resource -> BOOLEAN]
    BY <2>1, Zenon DEF MainSteps, ResourceStep
  <2> QED BY <1>0, <1>1, <1>3, <2>1, <2>2, <2>4, <2>5, MainStepInv DEF store
<1> QED BY <1>4, <1>5

LEMMA TeardownStep ==
  ASSUME StopInv, DeleteResource \/ ResourceDeleted
  PROVE  StopInv'
<1>0. /\ main \in {"delete", "wait"} /\ res \in Resource
      /\ resource \in [Resource -> BOOLEAN]
  BY Zenon DEF DeleteResource, ResourceDeleted, StopInv, TypeOK
<1>1. CASE DeleteResource
  <2>1. ResourceStep
    BY <1>0, <1>1, Shape DEF DeleteResource
  <2>2. CASE ResourceGone /\ ~resource[res]
    <3>1. ~resource'[res]
      BY <2>1, <2>2, Zenon DEF ResourceStep
    <3> QED BY <1>0, <2>1, <2>2, <3>1, TeardownGoesOn
  <2>3. CASE /\ main' = "wait"
             /\ UNCHANGED <<opts, res, pc, seen, cancelled, store, inst, disk>>
    BY <1>0, <2>1, <2>3, TeardownHeld
  <2> QED BY <1>1, <2>2, <2>3 DEF DeleteResource
<1>2. CASE ResourceDeleted
  <2>1. CASE resource' = [resource EXCEPT ![res] = FALSE] /\ ResourceGone
    <3>1. ResourceStep /\ ~resource'[res]
      BY <1>0, <2>1, Shape, Zenon
    <3> QED BY <1>0, <2>1, <3>1, TeardownGoesOn
  <2>2. CASE /\ main' = "err"
             /\ UNCHANGED <<opts, res, pc, seen, cancelled, store, resource, inst, disk>>
    <3>1. ResourceStep
      BY <1>0, <2>2, Shape
    <3> QED BY <1>0, <2>2, <3>1, TeardownHeld
  <2> QED BY <1>2, <2>1, <2>2 DEF ResourceDeleted
<1> QED BY <1>1, <1>2

LEMMA MainCallFailsStep ==
  ASSUME StopInv, MainCallFails
  PROVE  StopInv'
<1>0. /\ main \in {"list", "delete", "wait"} /\ main' = "err"
      /\ res \in Resource /\ resource \in [Resource -> BOOLEAN]
      /\ UNCHANGED <<opts, res, pc, seen, cancelled, store, inst, disk>>
  BY Zenon DEF MainCallFails, StopInv, TypeOK
<1>1. CASE main \in {"delete", "wait"}
  <2>1. ResourceStep
    BY <1>0, Shape DEF MainCallFails
  <2> QED BY <1>0, <1>1, <2>1, TeardownHeld
<1>2. CASE main = "list"
  <2>1. UNCHANGED resource
    BY <1>2, Zenon DEF MainCallFails
  <2>2. AllWell' /\ Unlisted' /\ Deleted'
    BY <1>0, Zenon DEF AllWell, Unlisted, Deleted
  <2>3. Progress'
    BY <1>0, <2>1, Zenon DEF StopInv, Progress
  <2>4. main' \in MainSteps
    BY <1>0, Zenon DEF MainSteps
  <2> QED BY <1>0, <1>2, <2>1, <2>2, <2>3, <2>4, MainStepInv DEF store
<1> QED BY <1>0, <1>1, <1>2

\* The workers have ended: the teardown begins only when all went well.
LEMMA JoinStep ==
  ASSUME StopInv, Join
  PROVE  StopInv'
<1>0. /\ main = "join" /\ main' \in {"err", "delete", "record"}
      /\ \A w \in Worker : pc[w] \in {"off", "done", "failed"}
      /\ main' # "err" => \A w \in Worker : pc[w] # "failed"
      /\ main' = "delete" => opts.delete
      /\ main' = "record" => ~opts.delete
      /\ UNCHANGED <<opts, res, pc, seen, cancelled, recorded, keepDefault,
                     resource, inst, disk>>
  BY Zenon DEF Join, store
<1>1. \A w \in Worker : pc[w] \notin Active
  BY <1>0, Zenon DEF Active
<1>2. AllWell'
  BY <1>0, Zenon DEF AllWell
<1>3. Unlisted'
  BY <1>0, Zenon DEF StopInv, Unlisted
<1>4. Progress'
  <2>1. res' = 1
    BY <1>0, Zenon DEF StopInv, Progress
  <2>2. \A r \in Resource : ~(r < 1)
    BY SMT DEF Resource
  <2>3. /\ \A r, q \in Resource : q < r /\ ~resource[r] => ~resource[q]
        /\ (\E r \in Resource : ~resource[r]) => \A w \in Worker : inst[w] = "NONE"
    BY Zenon DEF StopInv, Progress
  <2> QED BY <1>0, <2>1, <2>2, <2>3, Zenon DEF Progress
<1>5. Deleted'
  BY <1>0, Zenon DEF Deleted
<1>6. /\ main' \in MainSteps /\ res' \in Resource
      /\ resource' \in [Resource -> BOOLEAN]
  BY <1>0, Zenon DEF MainSteps, StopInv, TypeOK
<1> QED BY <1>0, <1>1, <1>2, <1>3, <1>4, <1>5, <1>6, MainStepInv

\* The listing decides which workers there are.
LEMMA ListStep ==
  ASSUME StopInv, List
  PROVE  StopInv'
<1>0. /\ main = "list" /\ seen' = inst
      /\ UNCHANGED <<opts, res, cancelled, recorded, keepDefault, resource, inst, disk>>
  BY Zenon DEF List, store
<1>1. /\ \A w \in Worker : pc[w] \notin Active
      /\ res = 1
  BY <1>0, Zenon DEF StopInv, WorkersJoined, Progress
<1>2. \/ main' = "record" /\ pc' = pc /\ \A w \in Worker : inst[w] = "NONE"
      \/ /\ main' = "join"
         /\ pc' = [w \in Worker |-> IF inst[w] = "NONE" THEN "off" ELSE "report"]
  BY Zenon DEF List
<1>3. TypeOK'
  <2>1. main' \in MainSteps
    BY <1>2, Zenon DEF MainSteps
  <2>2. pc' \in [Worker -> WorkerSteps]
    BY <1>2, Zenon DEF WorkerSteps, StopInv, TypeOK
  <2> QED BY <1>0, <2>1, <2>2, Zenon DEF StopInv, TypeOK
<1>4. TerminatedIsStopped' /\ ForgottenHasNoInstance'
  BY <1>0, Zenon DEF StopInv, TerminatedIsStopped, ForgottenHasNoInstance, Stopped
<1>5. /\ \A r, q \in Resource : q < r /\ ~resource[r] => ~resource[q]
      /\ (\E r \in Resource : ~resource[r]) => \A w \in Worker : inst[w] = "NONE"
  BY Zenon DEF StopInv, Progress
<1>6. Progress'
  BY <1>0, <1>1, <1>2, <1>5, Zenon DEF Progress
<1>7. CASE main' = "join"
  <2>1. \A w \in Worker : pc'[w] = IF inst[w] = "NONE" THEN "off" ELSE "report"
    BY <1>2, <1>7, Zenon
  <2>2. \A w \in Worker : /\ pc'[w] \in {"off", "report"}
                          /\ pc'[w] = "off" => inst[w] = "NONE"
    BY <2>1, Zenon
  <2>3. \A w \in Worker : pc'[w] \notin {"autoDelete", "call", "operation",
                                         "reportDone", "done"}
    BY <2>2, Zenon
  <2>4. WorkersJoined' /\ AllWell' /\ Unlisted' /\ Deleted'
    BY <1>0, <1>7, <2>2, Zenon DEF WorkersJoined, AllWell, Unlisted, Deleted
  <2>5. ListedStopped'
    BY <1>0, Zenon DEF ListedStopped, Stopped
  <2>6. Through' /\ Reported'
    BY <2>3, Zenon DEF Through, Reported
  <2>7. DisksSet'
    BY <1>0, <2>3, Zenon DEF StopInv, DisksSet
  <2> QED BY <1>3, <1>4, <1>6, <2>4, <2>5, <2>6, <2>7, Zenon DEF StopInv
<1>8. CASE main' = "record"
  <2>1. pc' = pc /\ \A w \in Worker : inst[w] = "NONE"
    BY <1>2, <1>8, Zenon
  <2>2. \A w \in Worker : pc[w] = "off"
    BY <1>0, Zenon DEF StopInv, AllWell
  <2>3. \A w \in Worker : pc'[w] \notin Active \cup {"done"}
    BY <2>1, <2>2, Zenon DEF Active
  <2>4. WorkersJoined' /\ Unlisted'
    BY <1>0, <2>1, <2>3, Zenon DEF WorkersJoined, Unlisted
  <2>5. AllWell'
    BY <2>1, <2>2, Zenon DEF AllWell
  <2>6. Deleted'
    BY <1>0, <2>1, Zenon DEF Deleted, Listed
  <2>7. ListedStopped' /\ Through' /\ Reported'
    BY <2>3, Zenon DEF ListedStopped, Through, Reported, Active
  <2>8. DisksSet'
    BY <1>0, <2>1, Zenon DEF StopInv, DisksSet
  <2> QED BY <1>3, <1>4, <1>6, <2>4, <2>5, <2>6, <2>7, <2>8, Zenon DEF StopInv
<1> QED BY <1>2, <1>7, <1>8

\* The cluster is forgotten, or every instance on record called TERMINATED.
LEMMA RecordOutcomeStep ==
  ASSUME StopInv, RecordOutcome
  PROVE  StopInv'
<1>0. /\ main = "record" /\ main' = "ok"
      /\ UNCHANGED <<opts, res, pc, seen, cancelled, resource, inst, disk>>
      /\ recorded' = [w \in Worker |-> IF opts.delete \/ recorded[w] = "ABSENT"
                                       THEN "ABSENT" ELSE "TERMINATED"]
  BY Zenon DEF RecordOutcome
<1>1. /\ \A w \in Worker : pc[w] \in {"off", "done"}
      /\ opts.delete => \A w \in Worker : inst[w] = "NONE"
  BY <1>0, Zenon DEF StopInv, AllWell, Deleted
<1>2. ASSUME NEW w \in Worker PROVE Stopped(w)
  <2>1. CASE pc[w] = "off"
    BY <1>0, <2>1, Zenon DEF StopInv, Unlisted, Stopped
  <2>2. CASE pc[w] = "done"
    BY <2>2, Zenon DEF StopInv, Through
  <2> QED BY <1>1, <2>1, <2>2, Zenon
<1>3. TypeOK'
  <2>1. recorded' \in [Worker -> InstanceStates \cup {"ABSENT"}]
    BY <1>0, Zenon DEF InstanceStates
  <2>2. keepDefault' \in BOOLEAN
    BY Zenon DEF RecordOutcome
  <2>3. main' \in MainSteps
    BY <1>0, Zenon DEF MainSteps
  <2> QED BY <1>0, <2>1, <2>2, <2>3, Zenon DEF StopInv, TypeOK
<1>4. TerminatedIsStopped'
  BY <1>0, <1>2, Zenon DEF TerminatedIsStopped, Stopped
<1>5. ForgottenHasNoInstance'
  <2> SUFFICES ASSUME \A w \in Worker : recorded'[w] = "ABSENT"
               PROVE  \A w \in Worker : inst[w] = "NONE"
    BY <1>0, Zenon DEF ForgottenHasNoInstance
  <2>1. CASE opts.delete
    BY <1>1, <2>1
  <2>2. CASE ~opts.delete
    <3>1. \A w \in Worker : recorded[w] = "ABSENT"
      BY <1>0, <2>2, Zenon
    <3> QED BY <3>1, Zenon DEF StopInv, ForgottenHasNoInstance
  <2> QED BY <2>1, <2>2
<1>6. \A w \in Worker : pc'[w] \notin Active
  BY <1>0, <1>1, Zenon DEF Active
<1>7. WorkersJoined' /\ Reported' /\ ListedStopped'
  BY <1>6, Zenon DEF WorkersJoined, Reported, ListedStopped, Active
<1>8. AllWell' /\ Unlisted' /\ Deleted'
  BY <1>0, Zenon DEF StopInv, AllWell, Unlisted, Deleted, Listed
<1>9. Through' /\ DisksSet'
  BY <1>0, Zenon DEF StopInv, Through, DisksSet, Stopped
<1>10. Progress'
  BY <1>0, Zenon DEF StopInv, Progress
<1> QED BY <1>3, <1>4, <1>5, <1>7, <1>8, <1>9, <1>10, Zenon DEF StopInv

\* A run begins: no worker yet, whatever an earlier run has left.
LEMMA FreshStep ==
  ASSUME StopInv, TypeOK',
         UNCHANGED <<recorded, resource, inst, disk>>,
         main' \in {"list", "refused", "idle"},
         main' = "list" => res' = 1,
         \A w \in Worker : pc'[w] = "off",
         ~(opts'.keepDisks /\ opts'.deleteDisks)
  PROVE  StopInv'
<1>1. TerminatedIsStopped' /\ ForgottenHasNoInstance'
  BY Zenon DEF StopInv, TerminatedIsStopped, ForgottenHasNoInstance, Stopped
<1>2. \A w \in Worker : pc'[w] \notin Active \cup {"done"}
  BY Zenon DEF Active
<1>3. WorkersJoined' /\ AllWell' /\ Unlisted' /\ Deleted'
  BY <1>2, Zenon DEF WorkersJoined, AllWell, Unlisted, Deleted
<1>4. ListedStopped' /\ Through' /\ Reported'
  BY <1>2, Zenon DEF ListedStopped, Through, Reported, Active
<1>5. Progress'
  <2>1. /\ \A r, q \in Resource : q < r /\ ~resource[r] => ~resource[q]
        /\ (\E r \in Resource : ~resource[r]) => \A w \in Worker : inst[w] = "NONE"
    BY Zenon DEF StopInv, Progress
  <2> QED BY <2>1, Zenon DEF Progress
<1>6. DisksSet'
  BY <1>2, Zenon DEF DisksSet, Active
<1> QED BY <1>1, <1>3, <1>4, <1>5, <1>6, Zenon DEF StopInv

LEMMA BeginStep ==
  ASSUME StopInv, Begin
  PROVE  StopInv'
<1>1. PICK delete \in BOOLEAN, keep \in BOOLEAN, deleteDisks \in BOOLEAN :
        /\ Accepted(delete, keep, deleteDisks)
        /\ opts' = [delete |-> delete, deleteDisks |-> deleteDisks,
                    keepDisks |-> ResolveStopKeepDisks(keep, deleteDisks)]
        /\ main' \in {"list", "refused"}
        /\ res' = 1
        /\ pc' = [w \in Worker |-> "off"]
        /\ seen' = [w \in Worker |-> "NONE"]
        /\ cancelled' = FALSE
        /\ UNCHANGED <<recorded, keepDefault, resource, inst, disk>>
  BY Zenon DEF Begin, store
<1> DEFINE keepDisks == ResolveStopKeepDisks(keep, deleteDisks)
<1>2. keepDisks \in BOOLEAN /\ ~(keepDisks /\ deleteDisks)
  BY <1>1, Zenon DEF ResolveStopKeepDisks, Accepted, StopInv, TypeOK
<1> HIDE DEF keepDisks
<1>3. opts' = [delete |-> delete, deleteDisks |-> deleteDisks, keepDisks |-> keepDisks]
  BY <1>1, Zenon DEF keepDisks
<1>4. TypeOK'
  <2>1. opts' \in [delete : BOOLEAN, keepDisks : BOOLEAN, deleteDisks : BOOLEAN]
    BY <1>2, <1>3, Zenon
  <2>2. main' \in MainSteps /\ cancelled' \in BOOLEAN
    BY <1>1, Zenon DEF MainSteps
  <2>3. pc' \in [Worker -> WorkerSteps]
    BY <1>1, Zenon DEF WorkerSteps
  <2>4. seen' \in [Worker -> CloudStatuses]
    BY <1>1, Zenon DEF CloudStatuses
  <2>5. res' \in Resource
    BY <1>1, StopAssumption, SMT DEF Resource, Network
  <2> QED BY <1>1, <2>1, <2>2, <2>3, <2>4, <2>5, Zenon DEF StopInv, TypeOK
<1>5. ~(opts'.keepDisks /\ opts'.deleteDisks)
  BY <1>2, <1>3, Zenon
<1>6. \A w \in Worker : pc'[w] = "off"
  BY <1>1, Zenon
<1> QED BY <1>1, <1>4, <1>5, <1>6, FreshStep, Zenon

LEMMA KillStep ==
  ASSUME StopInv, Kill
  PROVE  StopInv'
<1>0. /\ main' = "idle" /\ pc' = [w \in Worker |-> "off"]
      /\ UNCHANGED <<opts, res, seen, cancelled, recorded, keepDefault, resource,
                     inst, disk>>
  BY Zenon DEF Kill, store
<1>1. TypeOK'
  <2>1. main' \in MainSteps
    BY <1>0, Zenon DEF MainSteps
  <2>2. pc' \in [Worker -> WorkerSteps]
    BY <1>0, Zenon DEF WorkerSteps
  <2> QED BY <1>0, <2>1, <2>2, Zenon DEF StopInv, TypeOK
<1>2. ~(opts'.keepDisks /\ opts'.deleteDisks)
  BY <1>0, Zenon DEF StopInv, DisksSet
<1>3. \A w \in Worker : pc'[w] = "off"
  BY <1>0, Zenon
<1> QED BY <1>0, <1>1, <1>2, <1>3, FreshStep

-----------------------------------------------------------------------------
LEMMA InitInv ==
  ASSUME Init
  PROVE  StopInv
<1>0. /\ \A w \in Worker : pc[w] = "off" /\ main = "idle"
      /\ \A r \in Resource : resource[r]
      /\ recorded = [w \in Worker |-> IF inst[w] = "RUNNING" THEN "READY"
                                                             ELSE "TERMINATED"]
      /\ inst \in [Worker -> {"NONE", "RUNNING", "TERMINATED"}]
  BY Zenon DEF Init
<1>1. TypeOK
  <2>1. opts \in [delete : BOOLEAN, keepDisks : BOOLEAN, deleteDisks : BOOLEAN]
    BY Zenon DEF Init
  <2>2. main \in MainSteps /\ cancelled \in BOOLEAN /\ keepDefault \in BOOLEAN
    BY Zenon DEF Init, MainSteps
  <2>3. pc \in [Worker -> WorkerSteps]
    BY Zenon DEF Init, WorkerSteps
  <2>4. seen \in [Worker -> CloudStatuses]
    BY Zenon DEF Init, CloudStatuses
  <2>5. res \in Resource
    BY StopAssumption, SMT DEF Init, Resource, Network
  <2>6. resource \in [Resource -> BOOLEAN]
    BY Zenon DEF Init
  <2>7. inst \in [Worker -> CloudStatuses]
    <3>1. {"NONE", "RUNNING", "TERMINATED"} \subseteq CloudStatuses
      BY Zenon DEF CloudStatuses
    <3> QED BY <1>0, <3>1, Zenon
  <2>8. recorded \in [Worker -> InstanceStates \cup {"ABSENT"}]
    BY <1>0, Zenon DEF InstanceStates
  <2>9. disk \in [Worker -> {"none", "auto", "kept"}]
    BY Zenon DEF Init
  <2> QED BY <2>1, <2>2, <2>3, <2>4, <2>5, <2>6, <2>7, <2>8, <2>9, Zenon DEF TypeOK
<1>2. TerminatedIsStopped
  <2> SUFFICES ASSUME NEW w \in Worker, recorded[w] = "TERMINATED" PROVE Stopped(w)
    BY Zenon DEF TerminatedIsStopped
  <2>1. inst[w] \in {"NONE", "RUNNING", "TERMINATED"} /\ inst[w] # "RUNNING"
    BY <1>0, Zenon
  <2> QED BY <2>1, Zenon DEF Stopped
<1>3. ForgottenHasNoInstance
  <2> SUFFICES ASSUME NEW w \in Worker, recorded[w] = "ABSENT" PROVE FALSE
    BY Zenon DEF ForgottenHasNoInstance
  <2> QED BY <1>0, Zenon
<1>4. \A w \in Worker : pc[w] \notin Active \cup {"done"}
  BY <1>0, Zenon DEF Active
<1>5. WorkersJoined /\ ListedStopped /\ Through /\ Reported
  BY <1>4, Zenon DEF WorkersJoined, ListedStopped, Through, Reported, Active
<1>6. main = "idle"
  BY Zenon DEF Init
<1>7. AllWell /\ Unlisted /\ Deleted
  BY <1>6, Zenon DEF AllWell, Unlisted, Deleted
<1>8. Progress
  BY <1>0, <1>6, Zenon DEF Progress
<1>9. DisksSet
  BY Zenon DEF Init, DisksSet
<1> QED BY <1>1, <1>2, <1>3, <1>5, <1>7, <1>8, <1>9, Zenon DEF StopInv

\* The workers, the listing and the teardown stay consistent, for any
\* number of instances and firewall rules.
THEOREM StopConsistent == Spec => []StopInv
<1>1. StopInv /\ [Next]_vars => StopInv'
  <2> SUFFICES ASSUME StopInv, [Next]_vars PROVE StopInv'
    OBVIOUS
  <2>1. ASSUME NEW w \in Worker, WorkerStep(w) PROVE StopInv'
    <3>1. CASE Report(w) \/ CallFails(w) \/ OperationFailed(w)
      BY <3>1, ReportStep, FailStep
    <3>2. CASE SetAutoDelete(w) \/ Call(w)
      BY <3>2, SetAutoDeleteStep, CallStep
    <3>3. CASE OperationDone(w) \/ ReportDone(w)
      BY <3>3, OperationDoneStep, ReportDoneStep
    <3> QED BY <2>1, <3>1, <3>2, <3>3 DEF WorkerStep
  <2>2. CASE MainStep
    <3>1. CASE List \/ Join \/ RecordOutcome
      BY <3>1, ListStep, JoinStep, RecordOutcomeStep
    <3>2. CASE DeleteResource \/ ResourceDeleted \/ MainCallFails
      BY <3>2, TeardownStep, MainCallFailsStep
    <3> QED BY <2>2, <3>1, <3>2 DEF MainStep
  <2>3. CASE UNCHANGED vars
    <3>1. UNCHANGED <<main, opts, res, pc, seen, cancelled, recorded, keepDefault,
                      resource, inst, disk>>
      BY <2>3, Zenon DEF vars
    <3>2. TypeOK' /\ TerminatedIsStopped' /\ ForgottenHasNoInstance'
      BY <3>1, Zenon DEF StopInv, TypeOK, TerminatedIsStopped,
         ForgottenHasNoInstance, Stopped
    <3>3. WorkersJoined' /\ AllWell' /\ Unlisted' /\ ListedStopped'
      BY <3>1, Zenon DEF StopInv, WorkersJoined, AllWell, Unlisted, ListedStopped,
         Stopped
    <3>4. Through' /\ Reported' /\ DisksSet'
      BY <3>1, Zenon DEF StopInv, Through, Reported, DisksSet, Stopped
    <3>5. Progress' /\ Deleted'
      BY <3>1, Zenon DEF StopInv, Progress, Deleted, Listed
    <3> QED BY <3>2, <3>3, <3>4, <3>5, Zenon DEF StopInv
  <2> QED BY <2>1, <2>2, <2>3, BeginStep, KillStep, CloudStepInv DEF Next
<1> QED BY <1>1, InitInv, PTL DEF Spec

\* Every variable of the command, its workers and the cloud keeps to its set.
THEOREM TypeCorrect == Spec => []TypeOK
<1>1. StopInv => TypeOK
  BY DEF StopInv
<1> QED BY <1>1, StopConsistent, PTL

\* An instance on record as TERMINATED does not run.
THEOREM TerminatedAlwaysStopped == Spec => []TerminatedIsStopped
<1>1. StopInv => TerminatedIsStopped
  BY DEF StopInv
<1> QED BY <1>1, StopConsistent, PTL

\* A forgotten cluster has no instance.
THEOREM ForgottenAlwaysEmpty == Spec => []ForgottenHasNoInstance
<1>1. StopInv => ForgottenHasNoInstance
  BY DEF StopInv
<1> QED BY <1>1, StopConsistent, PTL

\* The network is taken down in order, and never under an instance.
THEOREM TornDownInOrder == Spec => []TeardownOrder
<1>1. StopInv => TeardownOrder
  <2> SUFFICES ASSUME StopInv PROVE TeardownOrder
    OBVIOUS
  <2>1. /\ \A r, q \in Resource : q < r /\ ~resource[r] => ~resource[q]
        /\ (\E r \in Resource : ~resource[r]) => \A w \in Worker : inst[w] = "NONE"
    BY Zenon DEF StopInv, Progress
  <2>2. ~resource[Subnetwork] => \A r \in 1 .. NumFirewalls : ~resource[r]
    <3>1. \A r \in 1 .. NumFirewalls :
             r \in Resource /\ Subnetwork \in Resource /\ r < Subnetwork
      BY StopAssumption, SMT DEF Resource, Network, Subnetwork
    <3> QED BY <2>1, <3>1, Zenon
  <2>3. ~resource[Network] => \A r \in Resource : ~resource[r]
    <3>1. \A r \in Resource : Network \in Resource /\ (r < Network \/ r = Network)
      BY StopAssumption, SMT DEF Resource, Network
    <3> QED BY <2>1, <3>1, Zenon
  <2> QED BY <2>1, <2>2, <2>3, Zenon DEF TeardownOrder
<1> QED BY <1>1, StopConsistent, PTL

\* A stop that ends well has stopped everything, a delete deleted it.
THEOREM NilIsStopped == Spec => []NilMeansStopped
<1>1. StopInv => NilMeansStopped
  <2> SUFFICES ASSUME StopInv, main = "ok"
               PROVE  /\ \A w \in Worker : Stopped(w)
                      /\ opts.delete /\ Listed # {} =>
                            /\ \A w \in Worker : inst[w] = "NONE"
                            /\ \A r \in Resource : ~resource[r]
    BY Zenon DEF NilMeansStopped
  <2>1. ASSUME NEW w \in Worker PROVE Stopped(w)
    <3>1. pc[w] \in {"off", "done"}
      BY Zenon DEF StopInv, AllWell
    <3>2. CASE pc[w] = "off"
      BY <3>2, Zenon DEF StopInv, Unlisted, Stopped
    <3>3. CASE pc[w] = "done"
      BY <3>3, Zenon DEF StopInv, Through
    <3> QED BY <3>1, <3>2, <3>3, Zenon
  <2> QED BY <2>1, Zenon DEF StopInv, Deleted
<1> QED BY <1>1, StopConsistent, PTL

\* A delete that keeps disks destroys none.
THEOREM DisksSurvive == Spec => KeptDiskSurvives
<1>1. StopInv /\ [Next]_vars =>
        [\A w \in Worker :
           /\ opts.delete /\ opts.keepDisks
           /\ pc[w] \in {"call", "operation"}
           /\ disk[w] # "none"
           => disk'[w] # "none"]_vars
  <2> SUFFICES ASSUME StopInv, [Next]_vars, NEW w \in Worker,
                      opts.delete, opts.keepDisks,
                      pc[w] \in {"call", "operation"}, disk[w] # "none"
               PROVE  disk'[w] # "none"
    OBVIOUS
  <2>1. /\ disk[w] # "auto"
        /\ disk \in [Worker -> {"none", "auto", "kept"}]
    BY Zenon DEF StopInv, DisksSet, TypeOK
  <2>2. CASE UNCHANGED disk
    BY <2>2
  <2>3. ASSUME NEW v \in Worker, SetAutoDelete(v) PROVE disk'[w] # "none"
    <3>1. PICK d \in {"auto", "kept"} : disk' = [disk EXCEPT ![v] = d]
      BY <2>3, Zenon DEF SetAutoDelete
    <3> QED BY <2>1, <3>1, Zenon
  <2>4. ASSUME NEW v \in Worker, Remove(v) PROVE disk'[w] # "none"
    <3>1. disk' = [disk EXCEPT ![v] = IF @ = "auto" THEN "none" ELSE @]
      BY <2>4, Zenon DEF Remove
    <3> QED BY <2>1, <3>1, Zenon
  <2>5. ASSUME NEW v \in Worker, WorkerStep(v) \/ CloudStep(v) \/ Preempt(v)
        PROVE  UNCHANGED disk \/ SetAutoDelete(v) \/ Remove(v)
    <3>1. CASE Report(v) \/ CallFails(v) \/ Call(v) \/ OperationDone(v)
      BY <3>1, Zenon DEF Report, CallFails, Call, OperationDone, cloud
    <3>2. CASE OperationFailed(v) \/ ReportDone(v)
      BY <3>2, Zenon DEF OperationFailed, ReportDone, cloud
    <3>3. CASE CloudStep(v) \/ Preempt(v)
      BY <3>3, Zenon DEF CloudStep, InstanceStopped, InstanceDeleted, Preempt
    <3> QED BY <2>5, <3>1, <3>2, <3>3 DEF WorkerStep
  <2>6. CASE Begin \/ Kill \/ MainStep \/ UNCHANGED vars
    <3>1. UNCHANGED disk
      BY <2>6, Zenon DEF Begin, Kill, MainStep, List, Join, DeleteResource,
         ResourceGone, ResourceDeleted, MainCallFails, RecordOutcome, vars
    <3> QED BY <3>1
  <2> QED BY <2>2, <2>3, <2>4, <2>5, <2>6 DEF Next
<1> QED BY <1>1, StopConsistent, PTL DEF Spec, KeptDiskSurvives
===============================================================================
