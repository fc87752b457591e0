-------------------------- MODULE StateStore_proofs --------------------------
(***************************************************************************)
(* Proofs about the records of internal/state, for every set of clusters   *)
(* and every bound on their size: what holds of an entry by itself, what   *)
(* each operation of ClusterEntry keeps of the entry it finds, and, from   *)
(* these lemmas, the properties of StateStore.  Gpunow_proofs rests on     *)
(* the same lemmas.                                                        *)
(***************************************************************************)
EXTENDS StateStore, FiniteSetTheorems, TLAPS

(***************************************************************************)
(* One entry                                                               *)
(***************************************************************************)

\* What holds of each entry by itself: its type and the three properties.
EntryOK(e) ==
    /\ e \in Entry
    /\ e.status = "deleted" => e.deletedAt
    /\ e.status = "READY" => /\ "READY" \in States(e.inst)
                             /\ States(e.inst) \cap TransitionalStates = {}
    /\ \A i \in Index : e.inst[i].state = "TERMINATED" => ~e.inst[i].ip

\* The local fold calls a cluster READY only if it is settled, and never
\* "deleted".
LEMMA DeriveFacts ==
  ASSUME NEW states
  PROVE  /\ DeriveClusterState(states) \in InstanceStates
         /\ DeriveClusterState(states) = "READY" =>
              "READY" \in states /\ states \cap TransitionalStates = {}
BY SMT DEF DeriveClusterState, InstanceStates, TransitionalStates

\* Adding the missing instances adds no transitional one and takes none away.
LEMMA EnsureFacts ==
  ASSUME NEW inst \in [Index -> Instance], NEW n \in Nat
  PROVE  LET new == EnsureClusterInstances(inst, n)
         IN  /\ new \in [Index -> Instance]
             /\ States(inst) \subseteq States(new)
             /\ States(new) \subseteq States(inst) \cup {"TERMINATED"}
             /\ \A i \in Index : new[i] = inst[i] \/ new[i] = TerminatedInstance
<1> DEFINE new == EnsureClusterInstances(inst, n)
<1>1. \A i \in Index : new[i] = inst[i] \/ new[i] = TerminatedInstance
  BY SMT DEF EnsureClusterInstances
<1>2. new \in [Index -> Instance]
  BY SMT DEF EnsureClusterInstances, TerminatedInstance, Instance, RecordedStates,
     InstanceStates
<1>3. States(inst) \subseteq States(new)
  BY SMT DEF States, Recorded, EnsureClusterInstances
<1>4. States(new) \subseteq States(inst) \cup {"TERMINATED"}
  BY <1>1, SMT DEF States, Recorded, TerminatedInstance
<1> QED BY <1>1, <1>2, <1>3, <1>4

\* A new entry that keeps its status-related fields consistent is OK.
LEMMA Assemble ==
  ASSUME NEW r, r \in Entry,
         r.status = "deleted" => r.deletedAt,
         r.status = "READY" => /\ "READY" \in States(r.inst)
                               /\ States(r.inst) \cap TransitionalStates = {},
         \A i \in Index : r.inst[i].state = "TERMINATED" => ~r.inst[i].ip
  PROVE  EntryOK(r)
BY Zenon DEF EntryOK

\* The same when the status is derived from the instances.
LEMMA AssembleDerived ==
  ASSUME NEW r, r \in Entry, r.status = DeriveClusterState(States(r.inst)),
         \A i \in Index : r.inst[i].state = "TERMINATED" => ~r.inst[i].ip
  PROVE  EntryOK(r)
<1>1. /\ r.status # "deleted"
      /\ r.status = "READY" => /\ "READY" \in States(r.inst)
                               /\ States(r.inst) \cap TransitionalStates = {}
  BY DeriveFacts, SMT DEF InstanceStates
<1> QED BY <1>1, Assemble

\* A derived status is a status.
LEMMA DeriveType ==
  ASSUME NEW states
  PROVE  DeriveClusterState(states) \in Statuses
BY DeriveFacts, Zenon DEF Statuses

\* The fields of an entry.
LEMMA Fields ==
  ASSUME NEW e, EntryOK(e)
  PROVE  /\ e \in Entry /\ e.inst \in [Index -> Instance]
         /\ e.num \in 0 .. MaxInstances /\ e.num \in Nat
         /\ e.status \in Statuses /\ e.deletedAt \in BOOLEAN
         /\ \A i \in Index : e.inst[i].state = "TERMINATED" => ~e.inst[i].ip
<1>1. e \in Entry
  BY Zenon DEF EntryOK
<1>2. e.inst \in [Index -> Instance] /\ e.num \in 0 .. MaxInstances
  BY <1>1, Zenon DEF Entry
<1>4. e.num \in Nat
  BY <1>2, SMT
<1>3. e.status \in Statuses /\ e.deletedAt \in BOOLEAN
  BY <1>1, Zenon DEF Entry
<1> QED BY <1>1, <1>2, <1>3, <1>4, Zenon DEF EntryOK

\* The zero entry.
LEMMA NoEntryOK == EntryOK(NoEntry)
<1> DEFINE none == [i \in Index |-> NoInstance]
<1>1. none \in [Index -> Instance] /\ \A i \in Index : ~none[i].ip
  BY Zenon DEF NoInstance, Instance
<1>2. NoEntry = [known |-> FALSE, num |-> 0, inst |-> none, status |-> "",
                 action |-> "", deletedAt |-> FALSE, keepDisks |-> FALSE]
  BY Zenon DEF NoEntry
<1> HIDE DEF none
<1>3. NoEntry.inst = none /\ NoEntry.status = ""
  BY <1>2, Zenon
<1>4. 0 \in 0 .. MaxInstances
  BY MaxInstancesAssumption, SMT
<1>5. NoEntry \in Entry
  BY <1>1, <1>2, <1>4, Zenon DEF Entry, Statuses, Actions
<1> QED BY <1>1, <1>3, <1>5, Assemble

\* A load keeps what holds of an entry.
LEMMA LoadOK ==
  ASSUME NEW e, EntryOK(e)
  PROVE  EntryOK(LoadEntry(e))
<1>1. CASE ~e.known
  BY <1>1, Zenon DEF LoadEntry
<1>2. CASE e.known
  <2> DEFINE inst == EnsureClusterInstances(e.inst, e.num)
             status == IF e.status = "" THEN DeriveClusterState(States(inst))
                                        ELSE e.status
             r == LoadEntry(e)
  <2>1. r = [e EXCEPT !.inst = inst, !.status = status]
    BY <1>2, Fields, Zenon DEF LoadEntry, Entry
  <2>2. /\ inst \in [Index -> Instance]
        /\ States(e.inst) \subseteq States(inst)
        /\ States(inst) \subseteq States(e.inst) \cup {"TERMINATED"}
        /\ \A i \in Index : inst[i] = e.inst[i] \/ inst[i] = TerminatedInstance
    BY Fields, EnsureFacts
  <2>3. /\ status \in Statuses
        /\ e.status = "" => status = DeriveClusterState(States(inst))
        /\ e.status # "" => status = e.status
    BY Fields, DeriveType, Zenon
  <2> HIDE DEF inst, status, r
  <2>0. e \in Entry
    BY Fields
  <2>4. r \in Entry
    BY <2>0, <2>1, <2>2, <2>3, Zenon DEF Entry
  <2>5. r.inst = inst /\ r.status = status /\ r.deletedAt = e.deletedAt
    BY <2>0, <2>1, Zenon DEF Entry
  <2>6. \A i \in Index : r.inst[i].state = "TERMINATED" => ~r.inst[i].ip
    BY <2>2, <2>5, Fields, SMT DEF TerminatedInstance
  <2>7. CASE e.status = ""
    <3>1. r.status = DeriveClusterState(States(r.inst))
      BY <2>3, <2>5, <2>7, Zenon
    <3> QED BY <2>4, <2>6, <3>1, AssembleDerived DEF r
  <2>8. CASE e.status # ""
    <3>1. r.status = e.status
      BY <2>3, <2>5, <2>8, Zenon
    <3>2. r.status = "deleted" => r.deletedAt
      BY <2>5, <3>1, Zenon DEF EntryOK
    <3>3. r.status = "READY" => /\ "READY" \in States(r.inst)
                                /\ States(r.inst) \cap TransitionalStates = {}
      BY <2>2, <2>5, <3>1, SMT DEF EntryOK, TransitionalStates
    <3> QED BY <2>4, <2>6, <3>2, <3>3, Assemble DEF r
  <2> QED BY <2>7, <2>8 DEF r
<1> QED BY <1>1, <1>2, Fields, Zenon DEF Entry

\* Create and start.
LEMMA LaunchOK ==
  ASSUME NEW e, EntryOK(e), NEW n \in 0 .. MaxInstances, NEW keep \in BOOLEAN,
         NEW action \in Actions
  PROVE  EntryOK(LaunchEntry(e, n, keep, action))
<1> DEFINE inst == EnsureClusterInstances(e.inst, n)
           r == LaunchEntry(e, n, keep, action)
<1>1. /\ inst \in [Index -> Instance]
      /\ \A i \in Index : inst[i] = e.inst[i] \/ inst[i] = TerminatedInstance
  <2>1. n \in Nat
    BY SMT
  <2> QED BY <2>1, Fields, EnsureFacts
<1>2. r = [e EXCEPT !.known = TRUE, !.num = n, !.inst = inst,
                    !.keepDisks = keep, !.status = DeriveClusterState(States(inst)),
                    !.action = action, !.deletedAt = FALSE]
  BY Zenon DEF LaunchEntry
<1>0. e \in Entry /\ DeriveClusterState(States(inst)) \in Statuses
  BY Fields, DeriveType
<1> HIDE DEF inst, r
<1>3. r \in Entry
  BY <1>0, <1>1, <1>2, Zenon DEF Entry
<1>4. r.inst = inst /\ r.status = DeriveClusterState(States(inst))
  BY <1>0, <1>2, Zenon DEF Entry
<1>5. \A i \in Index : r.inst[i].state = "TERMINATED" => ~r.inst[i].ip
  BY <1>1, <1>4, Fields, SMT DEF TerminatedInstance
<1> QED BY <1>3, <1>4, <1>5, AssembleDerived DEF r

\* Stop, and the store's way of marking a cluster deleted.
LEMMA StopOK ==
  ASSUME NEW file, EntryOK(file), NEW deleted \in BOOLEAN
  PROVE  EntryOK(RecordClusterStop(file, deleted))
<1> DEFINE e == LoadEntry(file)
           inst == [i \in Index |-> IF e.inst[i].state = "ABSENT"
                                    THEN NoInstance ELSE TerminatedInstance]
           r == RecordClusterStop(file, deleted)
<1>1. EntryOK(e)
  BY LoadOK
<1>2. CASE deleted
  <2>1. r = [e EXCEPT !.known = TRUE, !.status = "deleted", !.deletedAt = TRUE,
                      !.action = "delete"]
    BY <1>2, Zenon DEF RecordClusterStop
  <2> HIDE DEF e, r
  <2>0. e \in Entry
    BY <1>1, Fields
  <2>2. r \in Entry
    BY <2>0, <2>1, Zenon DEF Entry, Statuses, Actions
  <2>3. r.inst = e.inst /\ r.status = "deleted" /\ r.deletedAt
    BY <2>0, <2>1, Zenon DEF Entry
  <2>4. \A i \in Index : r.inst[i].state = "TERMINATED" => ~r.inst[i].ip
    BY <1>1, <2>3, Fields
  <2> QED BY <2>2, <2>3, <2>4, Assemble DEF r
<1>3. CASE ~deleted
  <2>1. r = [e EXCEPT !.known = TRUE, !.inst = inst,
                      !.status = DeriveClusterState(States(inst)),
                      !.action = "stop"]
    BY <1>3, Zenon DEF RecordClusterStop
  <2>2. inst \in [Index -> Instance] /\ \A i \in Index : ~inst[i].ip
    BY SMT DEF NoInstance, TerminatedInstance, Instance, RecordedStates,
       InstanceStates
  <2>0. e \in Entry /\ DeriveClusterState(States(inst)) \in Statuses
    BY <1>1, Fields, DeriveType
  <2> HIDE DEF e, inst, r
  <2>3. r \in Entry
    BY <2>0, <2>1, <2>2, Zenon DEF Entry, Actions
  <2>4. r.inst = inst /\ r.status = DeriveClusterState(States(inst))
    BY <2>0, <2>1, Zenon DEF Entry
  <2> QED BY <2>2, <2>3, <2>4, AssembleDerived DEF r
<1> QED BY <1>2, <1>3

\* Update touches neither the status nor the instances of a loaded entry.
LEMMA UpdateOK ==
  ASSUME NEW file, EntryOK(file)
  PROVE  EntryOK(RecordClusterUpdate(file))
<1> DEFINE e == LoadEntry(file)
           r == RecordClusterUpdate(file)
<1>1. EntryOK(e)
  BY LoadOK
<1>2. r = [e EXCEPT !.known = TRUE, !.action = "update"]
  BY Zenon DEF RecordClusterUpdate
<1> HIDE DEF e, r
<1>0. e \in Entry
  BY <1>1, Fields
<1>3. r \in Entry
  BY <1>0, <1>2, Zenon DEF Entry, Actions
<1>4. r.status = e.status /\ r.inst = e.inst /\ r.deletedAt = e.deletedAt
  BY <1>0, <1>2, Zenon DEF Entry
<1> QED BY <1>1, <1>3, <1>4, Zenon DEF EntryOK, r

\* A set of instances has a size, at most the bound.
LEMMA SizeType ==
  ASSUME NEW S, S \subseteq Index
  PROVE  Cardinality(S) \in 0 .. MaxInstances
<1>1. IsFiniteSet(Index) /\ Cardinality(Index) = MaxInstances
  <2>1. 0 \in Int /\ MaxInstances - 1 \in Int
    BY MaxInstancesAssumption, SMT
  <2>2. /\ IsFiniteSet(0 .. MaxInstances - 1)
        /\ Cardinality(0 .. MaxInstances - 1) =
             IF 0 > MaxInstances - 1 THEN 0 ELSE MaxInstances - 1 - 0 + 1
    BY <2>1, FS_Interval
  <2> QED BY <2>2, MaxInstancesAssumption, SMT DEF Index
<1>2. IsFiniteSet(S) /\ Cardinality(S) <= Cardinality(Index)
  BY <1>1, FS_Subset
<1>3. Cardinality(S) \in Nat
  BY <1>2, FS_CardinalityType
<1> QED BY <1>1, <1>2, <1>3, MaxInstancesAssumption, SMT

\* A worker's report, or that of "gpunow ssh".
LEMMA InstanceStateOK ==
  ASSUME NEW file, EntryOK(file), NEW i \in Index, NEW s \in InstanceStates,
         NEW ip \in BOOLEAN, ip => s \in {"PROVISIONING", "READY"}
  PROVE  EntryOK(RecordClusterInstanceState(file, i, s, ip))
<1> DEFINE e == LoadEntry(file)
           addr == IF ip \/ s = "TERMINATED" THEN ip ELSE e.inst[i].ip
           inst == [e.inst EXCEPT ![i] =
                      [state |-> s,
                       ip |-> IF ip \/ s = "TERMINATED" THEN ip ELSE @.ip]]
           size == Cardinality(Recorded(inst))
           num == IF e.num < size THEN size ELSE e.num
           r == RecordClusterInstanceState(file, i, s, ip)
<1>1. EntryOK(e)
  BY LoadOK
<1>2. /\ e \in Entry /\ e.num \in 0 .. MaxInstances /\ e.inst \in [Index -> Instance]
      /\ \A j \in Index : e.inst[j].state = "TERMINATED" => ~e.inst[j].ip
  BY <1>1, Fields
<1> HIDE DEF e
<1>3. addr \in BOOLEAN /\ (s = "TERMINATED" => ~addr)
  <2>1. e.inst[i] \in Instance
    BY <1>2
  <2>2. e.inst[i].ip \in BOOLEAN
    BY <2>1, Zenon DEF Instance
  <2> QED BY <2>2, Zenon
<1>4. inst = [e.inst EXCEPT ![i] = [state |-> s, ip |-> addr]]
  BY <1>2, Zenon
<1> HIDE DEF addr
<1>5. [state |-> s, ip |-> addr] \in Instance
  BY <1>3, Zenon DEF Instance, RecordedStates
<1>6. inst \in [Index -> Instance]
  BY <1>2, <1>4, <1>5, Zenon
<1>7. \A j \in Index : inst[j].state = "TERMINATED" => ~inst[j].ip
  BY <1>2, <1>3, <1>4, Zenon
<1>8. num \in 0 .. MaxInstances
  BY <1>2, SizeType, SMT DEF Recorded
<1>9. r = [e EXCEPT !.known = TRUE, !.inst = inst, !.num = num,
                    !.status = DeriveClusterState(States(inst)),
                    !.deletedAt = FALSE]
  BY <1>2, Zenon DEF RecordClusterInstanceState, Entry, e
<1>10. DeriveClusterState(States(inst)) \in Statuses
  BY DeriveType
<1> HIDE DEF inst, num, r
<1>11. r \in Entry
  BY <1>2, <1>6, <1>8, <1>9, <1>10, Zenon DEF Entry
<1>12. r.inst = inst /\ r.status = DeriveClusterState(States(inst))
  BY <1>2, <1>9, Zenon DEF Entry
<1> QED BY <1>7, <1>11, <1>12, AssembleDerived DEF r

\* What status sync makes of a live instance, and the fold over them.
LEMMA AggregateFacts ==
  ASSUME NEW statuses
  PROVE  /\ AggregateStatus(statuses) \in InstanceStates
         /\ AggregateStatus(statuses) = "READY" =>
              /\ statuses # {}
              /\ \A status \in statuses : FromComputeStatus(status) = "READY"
<1> DEFINE seen == ObservedStates(statuses)
<1>1. seen \in SUBSET InstanceStates
  BY SMT DEF ObservedStates, InstanceStates
<1>2. AggregateStatus(statuses) \in InstanceStates
  BY SMT DEF AggregateStatus, InstanceStates
<1>3. AggregateStatus(statuses) = "READY" => seen = {"READY"}
  BY SMT DEF AggregateStatus
<1>4. seen = {"READY"} =>
        /\ statuses # {}
        /\ \A status \in statuses : FromComputeStatus(status) = "READY"
  BY SMT DEF ObservedStates
<1> QED BY <1>2, <1>3, <1>4

\* A compute status becomes a state that may be recorded.
LEMMA FromComputeType ==
  ASSUME NEW status \in ComputeStatuses
  PROVE  /\ FromComputeStatus(status) \in RecordedStates
         /\ FromComputeStatus(status) = "TERMINATED" => status = "TERMINATED"
BY SMT DEF FromComputeStatus, ComputeStatuses, RecordedStates, InstanceStates,
   UnmappedStatuses

\* A cluster status sync found among the live instances.
LEMMA SyncFoundOK ==
  ASSUME NEW e, EntryOK(e), NEW live \in [Index -> LiveInstance]
  PROVE  EntryOK(SyncFound(e, live))
<1> DEFINE inst == [i \in Index |->
                      IF i \in Listed(live)
                      THEN [state |-> FromComputeStatus(live[i].status),
                            ip    |-> live[i].ip]
                      ELSE NoInstance]
           statuses == {live[i].status : i \in Listed(live)}
           size == Cardinality(Listed(live))
           r == SyncFound(e, live)
<1>1. \A i \in Index : /\ live[i].ip \in BOOLEAN
                       /\ live[i].status \in ComputeStatuses \cup {"NONE"}
                       /\ live[i].status = "TERMINATED" => ~live[i].ip
  BY Zenon DEF LiveInstance
<1>2. \A i \in Index :
         inst[i] = IF i \in Listed(live)
                   THEN [state |-> FromComputeStatus(live[i].status),
                         ip    |-> live[i].ip]
                   ELSE NoInstance
  BY Zenon
<1>3. \A i \in Listed(live) : i \in Index /\ live[i].status \in ComputeStatuses
  BY <1>1, Zenon DEF Listed
<1>4. inst \in [Index -> Instance]
  <2> SUFFICES ASSUME NEW i \in Index PROVE inst[i] \in Instance
    BY Zenon
  <2>1. CASE i \in Listed(live)
    <3>1. FromComputeStatus(live[i].status) \in RecordedStates
      BY <1>3, <2>1, FromComputeType
    <3> QED BY <1>1, <1>2, <2>1, <3>1, Zenon DEF Instance
  <2>2. CASE i \notin Listed(live)
    BY <1>2, <2>2, Zenon DEF Instance, NoInstance
  <2> QED BY <2>1, <2>2
<1>5. \A i \in Index : inst[i].state = "TERMINATED" => ~inst[i].ip
  <2> SUFFICES ASSUME NEW i \in Index, inst[i].state = "TERMINATED"
               PROVE  ~inst[i].ip
    OBVIOUS
  <2>1. CASE i \in Listed(live)
    <3>1. /\ inst[i].state = FromComputeStatus(live[i].status)
          /\ inst[i].ip = live[i].ip
      BY <1>2, <2>1, Zenon
    <3>2. live[i].status = "TERMINATED"
      BY <1>3, <2>1, <3>1, FromComputeType
    <3> QED BY <1>1, <3>1, <3>2, Zenon
  <2>2. CASE i \notin Listed(live)
    BY <1>2, <2>2, Zenon DEF NoInstance
  <2> QED BY <2>1, <2>2
<1>6. /\ AggregateStatus(statuses) \in InstanceStates
      /\ AggregateStatus(statuses) = "READY" =>
           /\ statuses # {}
           /\ \A status \in statuses : FromComputeStatus(status) = "READY"
  BY AggregateFacts
<1>7. AggregateStatus(statuses) = "READY" =>
        /\ "READY" \in States(inst)
        /\ States(inst) \cap TransitionalStates = {}
  <2> SUFFICES ASSUME AggregateStatus(statuses) = "READY"
               PROVE  /\ "READY" \in States(inst)
                      /\ States(inst) \cap TransitionalStates = {}
    OBVIOUS
  <2>1. \A i \in Index : inst[i].state = IF i \in Listed(live) THEN "READY" ELSE "ABSENT"
    BY <1>2, <1>6, Zenon DEF NoInstance
  <2>2. PICK i \in Listed(live) : TRUE
    BY <1>6, Zenon
  <2>3. i \in Index /\ inst[i].state = "READY"
    BY <1>3, <2>1, <2>2, Zenon
  <2>4. "READY" \in States(inst)
    BY <2>3, SMT DEF States, Recorded
  <2>5. \A x \in States(inst) : x = "READY"
    <3> HIDE DEF inst, statuses
    <3> SUFFICES ASSUME NEW j \in Recorded(inst) PROVE inst[j].state = "READY"
      BY Zenon DEF States
    <3> QED BY <2>1, SMT DEF Recorded
  <2> QED BY <2>4, <2>5, SMT DEF TransitionalStates
<1>8. size \in 0 .. MaxInstances
  BY SizeType, SMT DEF Listed
<1>9. r = [e EXCEPT !.known = TRUE, !.num = size,
                    !.status = AggregateStatus(statuses), !.inst = inst]
  BY Zenon DEF SyncFound
<1>10. e \in Entry /\ AggregateStatus(statuses) \in Statuses
  BY Fields, <1>6, Zenon DEF Statuses
<1>11. AggregateStatus(statuses) # "deleted"
  BY <1>6, SMT DEF InstanceStates
<1> HIDE DEF inst, statuses, size, r
<1>12. r \in Entry
  BY <1>4, <1>8, <1>9, <1>10, Zenon DEF Entry
<1>13. r.inst = inst /\ r.status = AggregateStatus(statuses)
  BY <1>9, <1>10, Zenon DEF Entry
<1> QED BY <1>5, <1>7, <1>11, <1>12, <1>13, Assemble DEF r

\* A cluster without live instances.
LEMMA SyncMissingOK ==
  ASSUME NEW e, EntryOK(e)
  PROVE  EntryOK(SyncMissing(e))
<1> DEFINE r == SyncMissing(e)
<1>0. e \in Entry
  BY Fields
<1>1. CASE e.action = "create" /\ e.status # "deleted"
  <2>1. r = [e EXCEPT !.status = "TERMINATED"]
    BY <1>1, Zenon DEF SyncMissing
  <2> HIDE DEF r
  <2>2. r \in Entry
    BY <1>0, <2>1, Zenon DEF Entry, Statuses, InstanceStates
  <2>3. r.inst = e.inst /\ r.status = "TERMINATED"
    BY <1>0, <2>1, Zenon DEF Entry
  <2>4. r.status # "deleted" /\ r.status # "READY"
    BY <2>3
  <2> QED BY <2>2, <2>3, <2>4, Fields, Assemble DEF r
<1>2. CASE ~(e.action = "create" /\ e.status # "deleted") /\ e.status # "deleted"
  <2>1. r = [e EXCEPT !.status = "deleted", !.deletedAt = TRUE]
    BY <1>2, Zenon DEF SyncMissing, MarkDeletedCluster
  <2> HIDE DEF r
  <2>2. r \in Entry
    BY <1>0, <2>1, Zenon DEF Entry, Statuses
  <2>3. r.inst = e.inst /\ r.status = "deleted" /\ r.deletedAt
    BY <1>0, <2>1, Zenon DEF Entry
  <2> QED BY <2>2, <2>3, Fields, Assemble DEF r
<1>3. CASE e.status = "deleted"
  BY <1>3, Zenon DEF SyncMissing, MarkDeletedCluster
<1> QED BY <1>1, <1>2, <1>3

-----------------------------------------------------------------------------
(***************************************************************************)
(* What an operation keeps: no operation but DeleteCluster and status sync *)
(* takes an instance off the record, and none but status sync and a        *)
(* RecordClusterStop that deletes calls a cluster deleted.                 *)
(***************************************************************************)
Keeps(e, r) ==
    /\ e.known => r.known
    /\ Recorded(e.inst) \subseteq Recorded(r.inst)

\* A state that may be recorded is not "ABSENT".
LEMMA RecordedState ==
  ASSUME NEW s \in RecordedStates
  PROVE  s # "ABSENT"
BY SMT DEF RecordedStates, InstanceStates, UnmappedStatuses

\* The missing instances are added.
LEMMA EnsureKeeps ==
  ASSUME NEW inst \in [Index -> Instance], NEW n \in 0 .. MaxInstances
  PROVE  Recorded(inst) \subseteq Recorded(EnsureClusterInstances(inst, n))
BY SMT DEF Recorded, EnsureClusterInstances

\* The instances below the size of the cluster are on record then.
LEMMA EnsurePuts ==
  ASSUME NEW inst \in [Index -> Instance], NEW n \in 0 .. MaxInstances
  PROVE  \A i \in 0 .. n - 1 : i \in Recorded(EnsureClusterInstances(inst, n))
BY MaxInstancesAssumption, SMT
   DEF Recorded, EnsureClusterInstances, TerminatedInstance, Index

\* A derived status is never "deleted".
LEMMA DerivedNotDeleted ==
  ASSUME NEW states
  PROVE  DeriveClusterState(states) # "deleted"
BY DeriveFacts, SMT DEF InstanceStates

LEMMA LoadKeeps ==
  ASSUME NEW e, EntryOK(e)
  PROVE  /\ Keeps(e, LoadEntry(e))
         /\ LoadEntry(e).known = e.known
         /\ LoadEntry(e).status = "deleted" => e.status = "deleted"
<1>1. CASE ~e.known
  BY <1>1, Zenon DEF LoadEntry, Keeps
<1>2. CASE e.known
  <2> DEFINE inst == EnsureClusterInstances(e.inst, e.num)
             status == IF e.status = "" THEN DeriveClusterState(States(inst))
                                        ELSE e.status
             r == LoadEntry(e)
  <2>1. e \in Entry /\ r = [e EXCEPT !.inst = inst, !.status = status]
    BY <1>2, Fields, Zenon DEF LoadEntry, Entry
  <2>2. Recorded(e.inst) \subseteq Recorded(inst)
    BY Fields, EnsureKeeps
  <2>3. status = "deleted" => e.status = "deleted"
    BY DerivedNotDeleted, Zenon
  <2> HIDE DEF inst, status, r
  <2>4. r.inst = inst /\ r.status = status /\ r.known = e.known
    BY <2>1, Zenon DEF Entry
  <2> QED BY <2>2, <2>3, <2>4, Zenon DEF Keeps, r
<1> QED BY <1>1, <1>2

LEMMA LaunchKeeps ==
  ASSUME NEW e, EntryOK(e), NEW n \in 0 .. MaxInstances, NEW keep, NEW action
  PROVE  /\ Keeps(e, LaunchEntry(e, n, keep, action))
         /\ LaunchEntry(e, n, keep, action).known
         /\ LaunchEntry(e, n, keep, action).status # "deleted"
         /\ 0 .. n - 1 \subseteq Recorded(LaunchEntry(e, n, keep, action).inst)
<1> DEFINE inst == EnsureClusterInstances(e.inst, n)
           status == DeriveClusterState(States(inst))
           r == LaunchEntry(e, n, keep, action)
<1>1. r = [e EXCEPT !.known = TRUE, !.num = n, !.inst = inst,
                    !.keepDisks = keep, !.status = status,
                    !.action = action, !.deletedAt = FALSE]
  BY Zenon DEF LaunchEntry
<1>2. e \in Entry /\ Recorded(e.inst) \subseteq Recorded(inst)
  BY Fields, EnsureKeeps
<1>3. status # "deleted"
  BY DerivedNotDeleted
<1>5. \A i \in 0 .. n - 1 : i \in Recorded(inst)
  BY Fields, EnsurePuts
<1> HIDE DEF inst, status, r
<1>4. r.known /\ r.inst = inst /\ r.status = status
  BY <1>1, <1>2, Zenon DEF Entry
<1>6. Keeps(e, r) /\ r.status # "deleted"
  BY <1>2, <1>3, <1>4, Zenon DEF Keeps
<1>7. 0 .. n - 1 \subseteq Recorded(r.inst)
  BY <1>4, <1>5, Zenon
<1> QED BY <1>4, <1>6, <1>7, Zenon DEF r

LEMMA StopKeeps ==
  ASSUME NEW file, EntryOK(file)
  PROVE  /\ Keeps(file, RecordClusterStop(file, FALSE))
         /\ RecordClusterStop(file, FALSE).status # "deleted"
<1> DEFINE e == LoadEntry(file)
           inst == [i \in Index |-> IF e.inst[i].state = "ABSENT"
                                    THEN NoInstance ELSE TerminatedInstance]
           status == DeriveClusterState(States(inst))
           r == RecordClusterStop(file, FALSE)
<1>1. e \in Entry /\ Keeps(file, e)
  BY LoadOK, LoadKeeps, Fields
<1>2. r = [e EXCEPT !.known = TRUE, !.inst = inst, !.status = status,
                    !.action = "stop"]
  BY Zenon DEF RecordClusterStop
<1>3. Recorded(e.inst) \subseteq Recorded(inst)
  BY SMT DEF Recorded, TerminatedInstance
<1>4. status # "deleted"
  BY DerivedNotDeleted
<1> HIDE DEF e, inst, status, r
<1>5. r.known /\ r.inst = inst /\ r.status = status
  BY <1>1, <1>2, Zenon DEF Entry
<1> QED BY <1>1, <1>3, <1>4, <1>5, Zenon DEF Keeps, r

LEMMA UpdateKeeps ==
  ASSUME NEW file, EntryOK(file)
  PROVE  /\ Keeps(file, RecordClusterUpdate(file))
         /\ RecordClusterUpdate(file).status = "deleted" => file.status = "deleted"
<1> DEFINE e == LoadEntry(file)
           r == RecordClusterUpdate(file)
<1>1. /\ e \in Entry /\ Keeps(file, e)
      /\ e.status = "deleted" => file.status = "deleted"
  BY LoadOK, LoadKeeps, Fields
<1>2. r = [e EXCEPT !.known = TRUE, !.action = "update"]
  BY Zenon DEF RecordClusterUpdate
<1> HIDE DEF e, r
<1>3. r.known /\ r.inst = e.inst /\ r.status = e.status
  BY <1>1, <1>2, Zenon DEF Entry
<1> QED BY <1>1, <1>3, Zenon DEF Keeps, r

LEMMA InstanceStateKeeps ==
  ASSUME NEW file, EntryOK(file), NEW i \in Index, NEW s \in InstanceStates, NEW ip
  PROVE  LET r == RecordClusterInstanceState(file, i, s, ip)
         IN  /\ Keeps(file, r)
             /\ r.known /\ i \in Recorded(r.inst) /\ r.status # "deleted"
<1> DEFINE e == LoadEntry(file)
           new == [state |-> s,
                   ip |-> IF ip \/ s = "TERMINATED" THEN ip ELSE e.inst[i].ip]
           inst == [e.inst EXCEPT ![i] = new]
           size == Cardinality(Recorded(inst))
           num == IF e.num < size THEN size ELSE e.num
           status == DeriveClusterState(States(inst))
           r == RecordClusterInstanceState(file, i, s, ip)
<1>1. e \in Entry /\ e.inst \in [Index -> Instance] /\ Keeps(file, e)
  BY LoadOK, LoadKeeps, Fields
<1>2. r = [e EXCEPT !.known = TRUE, !.inst = inst, !.num = num,
                    !.status = status, !.deletedAt = FALSE]
  BY <1>1, Zenon DEF RecordClusterInstanceState, Entry
<1>3. status # "deleted"
  BY DerivedNotDeleted
<1>4. new.state # "ABSENT"
  BY RecordedState, Zenon DEF RecordedStates
<1> HIDE DEF e, new
<1>5. inst[i] = new /\ \A j \in Index : j # i => inst[j] = e.inst[j]
  BY <1>1, Zenon
<1> HIDE DEF inst, num, status, r
<1>6. i \in Recorded(inst) /\ Recorded(e.inst) \subseteq Recorded(inst)
  BY <1>4, <1>5, Zenon DEF Recorded
<1>7. r.known /\ r.inst = inst /\ r.status = status
  BY <1>1, <1>2, Zenon DEF Entry
<1> QED BY <1>1, <1>3, <1>6, <1>7, Zenon DEF Keeps, r

\* Status sync records exactly what it has listed.
LEMMA SyncFoundKeeps ==
  ASSUME NEW e, EntryOK(e), NEW live \in [Index -> LiveInstance]
  PROVE  LET r == SyncFound(e, live)
         IN  /\ r.known /\ r.status # "deleted"
             /\ Listed(live) \subseteq Recorded(r.inst)
<1> DEFINE inst == [i \in Index |->
                      IF i \in Listed(live)
                      THEN [state |-> FromComputeStatus(live[i].status),
                            ip    |-> live[i].ip]
                      ELSE NoInstance]
           status == AggregateStatus({live[i].status : i \in Listed(live)})
           size == Cardinality(Listed(live))
           r == SyncFound(e, live)
<1>1. e \in Entry
  BY Fields
<1>2. r = [e EXCEPT !.known = TRUE, !.num = size, !.status = status, !.inst = inst]
  BY Zenon DEF SyncFound
<1>3. status # "deleted"
  <2>1. status \in InstanceStates
    BY AggregateFacts
  <2> QED BY <2>1, SMT DEF InstanceStates
<1>4. Listed(live) \subseteq Recorded(inst)
  <2> SUFFICES ASSUME NEW i \in Listed(live)
               PROVE  i \in Index /\ inst[i].state # "ABSENT"
    BY Zenon DEF Recorded
  <2>1. i \in Index /\ live[i].status \in ComputeStatuses
    BY Zenon DEF Listed, LiveInstance
  <2>2. FromComputeStatus(live[i].status) \in RecordedStates
    BY <2>1, FromComputeType
  <2>3. inst[i].state = FromComputeStatus(live[i].status)
    BY <2>1, Zenon
  <2> QED BY <2>1, <2>2, <2>3, RecordedState
<1> HIDE DEF inst, status, size, r
<1>5. r.known /\ r.inst = inst /\ r.status = status
  BY <1>1, <1>2, Zenon DEF Entry
<1> QED BY <1>3, <1>4, <1>5, Zenon DEF r

-----------------------------------------------------------------------------
(***************************************************************************)
(* The store                                                               *)
(***************************************************************************)

\* What holds of the file: it is inductive as it stands.
EntriesOK == \A c \in Cluster : EntryOK(data[c])

\* Every entry of the file stays well typed and consistent, whatever order
\* the commands and status sync record in.
THEOREM StoreConsistent == StoreSpec => []EntriesOK
<1>1. StoreInit => EntriesOK
  <2> SUFFICES ASSUME StoreInit, NEW c \in Cluster PROVE EntryOK(data[c])
    BY Zenon DEF EntriesOK
  <2>1. data[c] = NoEntry
    BY Zenon DEF StoreInit
  <2> QED BY <2>1, NoEntryOK
<1>2. EntriesOK /\ [StoreNext]_data => EntriesOK'
  <2> SUFFICES ASSUME EntriesOK, [StoreNext]_data PROVE EntriesOK'
    OBVIOUS
  <2>1. ASSUME NEW c \in Cluster, NEW entry, EntryOK(entry), Save(c, entry)
        PROVE  EntriesOK'
    <3> SUFFICES ASSUME NEW d \in Cluster PROVE EntryOK(data'[d])
      BY Zenon DEF EntriesOK
    <3>1. data'[d] = IF d = c THEN entry ELSE LoadEntry(data[d])
      BY <2>1, Zenon DEF Save
    <3>2. EntryOK(LoadEntry(data[d]))
      BY LoadOK DEF EntriesOK
    <3> QED BY <2>1, <3>1, <3>2, Zenon
  <2>2. ASSUME NEW c \in Cluster,
               CreateCluster(c) \/ StartCluster(c) \/ StopCluster(c) \/ UpdateCluster(c)
                 \/ DeleteCluster(c) \/ InstanceState(c)
        PROVE  EntriesOK'
    <3>0. EntryOK(data[c]) /\ EntryOK(LoadEntry(data[c]))
      BY LoadOK DEF EntriesOK
    <3>1. CASE CreateCluster(c)
      <4>1. PICK n \in 1 .. MaxInstances, keep \in BOOLEAN :
               Save(c, RecordClusterCreate(data[c], n, keep))
        BY <3>1 DEF CreateCluster
      <4>2. n \in 0 .. MaxInstances /\ "create" \in Actions
        BY SMT DEF Actions
      <4>3. EntryOK(RecordClusterCreate(data[c], n, keep))
        BY <3>0, <4>2, LaunchOK DEF RecordClusterCreate
      <4> QED BY <2>1, <4>1, <4>3
    <3>2. CASE StartCluster(c)
      <4>1. PICK n \in 1 .. MaxInstances, keep \in BOOLEAN :
               Save(c, RecordClusterStart(data[c], n, keep))
        BY <3>2 DEF StartCluster
      <4>2. n \in 0 .. MaxInstances /\ "start" \in Actions
        BY SMT DEF Actions
      <4>3. EntryOK(RecordClusterStart(data[c], n, keep))
        BY <3>0, <4>2, LaunchOK DEF RecordClusterStart
      <4> QED BY <2>1, <4>1, <4>3
    <3>3. CASE StopCluster(c)
      BY <2>1, <3>0, <3>3, StopOK DEF StopCluster
    <3>4. CASE UpdateCluster(c)
      BY <2>1, <3>0, <3>4, UpdateOK DEF UpdateCluster
    <3>5. CASE DeleteCluster(c)
      BY <2>1, <3>5, NoEntryOK DEF DeleteCluster
    <3>6. CASE InstanceState(c)
      <4>1. PICK i \in Index, s \in InstanceStates, ip \in BOOLEAN :
               /\ ip => s \in {"PROVISIONING", "READY"}
               /\ Save(c, RecordClusterInstanceState(data[c], i, s, ip))
        BY <3>6 DEF InstanceState
      <4>2. EntryOK(RecordClusterInstanceState(data[c], i, s, ip))
        BY <3>0, <4>1, InstanceStateOK
      <4> QED BY <2>1, <4>1, <4>2
    <3> QED BY <2>2, <3>1, <3>2, <3>3, <3>4, <3>5, <3>6
  <2>3. CASE Sync
    <3>1. PICK live \in [Cluster -> [Index -> LiveInstance]] :
             data' = [c \in Cluster |-> SyncEntry(LoadEntry(data[c]), live[c])]
      BY <2>3 DEF Sync
    <3> SUFFICES ASSUME NEW c \in Cluster PROVE EntryOK(data'[c])
      BY Zenon DEF EntriesOK
    <3>2. EntryOK(LoadEntry(data[c])) /\ live[c] \in [Index -> LiveInstance]
      BY LoadOK DEF EntriesOK
    <3>3. /\ EntryOK(SyncFound(LoadEntry(data[c]), live[c]))
          /\ EntryOK(SyncMissing(LoadEntry(data[c])))
      BY <3>2, SyncFoundOK, SyncMissingOK
    <3>4. data'[c] = SyncEntry(LoadEntry(data[c]), live[c])
      BY <3>1, Zenon
    <3> QED BY <3>2, <3>3, <3>4, Zenon DEF SyncEntry
  <2>4. CASE UNCHANGED data
    BY <2>4, Zenon DEF EntriesOK
  <2> QED BY <2>2, <2>3, <2>4 DEF StoreNext
<1> QED BY <1>1, <1>2, PTL DEF StoreSpec

\* The file holds an entry for every cluster, and nothing else.
THEOREM StoreTypeCorrect == StoreSpec => []StoreTypeOK
<1>1. StoreInit => StoreTypeOK
  <2>1. NoEntry \in Entry
    BY NoEntryOK, Zenon DEF EntryOK
  <2> QED BY <2>1, Zenon DEF StoreInit, StoreTypeOK
<1>2. EntriesOK' /\ StoreTypeOK /\ [StoreNext]_data => StoreTypeOK'
  <2> SUFFICES ASSUME EntriesOK', StoreTypeOK, [StoreNext]_data PROVE StoreTypeOK'
    OBVIOUS
  <2>1. data' = [c \in Cluster |-> data'[c]]
    <3>1. ASSUME NEW c \in Cluster, NEW entry, Save(c, entry)
          PROVE  data' = [d \in Cluster |-> data'[d]]
      BY <3>1, Zenon DEF Save
    <3>2. CASE Sync
      BY <3>2, Zenon DEF Sync
    <3>3. CASE UNCHANGED data
      BY <3>3, Zenon DEF StoreTypeOK
    <3> QED
      BY <3>1, <3>2, <3>3, Zenon
         DEF StoreNext, CreateCluster, StartCluster, StopCluster, UpdateCluster,
             DeleteCluster, InstanceState
  <2>2. \A c \in Cluster : data'[c] \in Entry
    BY Zenon DEF EntriesOK, EntryOK
  <2> QED BY <2>1, <2>2, Zenon DEF StoreTypeOK
<1> QED BY <1>1, <1>2, StoreConsistent, PTL DEF StoreSpec

\* "deleted" on record always comes with its time.
THEOREM DeletedAlwaysMarked == StoreSpec => []DeletedIsMarked
<1>1. EntriesOK => DeletedIsMarked
  BY Zenon DEF EntriesOK, EntryOK, DeletedIsMarked
<1> QED BY <1>1, StoreConsistent, PTL

\* A READY cluster has a READY instance and none in transition.
THEOREM ReadyAlwaysSettled == StoreSpec => []ReadyIsSettled
<1>1. EntriesOK => ReadyIsSettled
  BY Zenon DEF EntriesOK, EntryOK, ReadyIsSettled
<1> QED BY <1>1, StoreConsistent, PTL

\* A TERMINATED instance never keeps its external address.
THEOREM TerminatedNeverAddressed == StoreSpec => []TerminatedHasNoAddress
<1>1. EntriesOK => TerminatedHasNoAddress
  BY Zenon DEF EntriesOK, EntryOK, TerminatedHasNoAddress
<1> QED BY <1>1, StoreConsistent, PTL
=============================================================================
