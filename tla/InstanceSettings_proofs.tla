----------------------- MODULE InstanceSettings_proofs -----------------------
(***************************************************************************)
(* Proofs about what commands put on instances: the tags and keys of       *)
(* InstanceMetadata, for any number of commands, keys and tags, and the    *)
(* settings and the network of ClusterSettings, for any number of          *)
(* instances, every base and every hash.  The two modules share no state.  *)
(***************************************************************************)
EXTENDS InstanceMetadata, ClusterSettings, TLAPS

(***************************************************************************)
(* InstanceMetadata: the inductive invariant                               *)
(***************************************************************************)

\* A command that is past its first call has an instance to work on.
WorksOnInstance ==
    /\ ~exists => keys = {}
    /\ \A c \in Command : step[c] \in {"tags", "key", "set", "done"} => exists

\* What a command has read of the metadata has only grown since: keys are
\* added, and OS login, once off, stays off.
ReadingHolds ==
    \A c \in Command : step[c] = "set" =>
        /\ read[c].keys \subseteq keys
        /\ read[c].oslogin = "FALSE" => oslogin = "FALSE"

\* An instance that was seen in the firewall rules is still there.
TagsHold ==
    \A c \in Command : step[c] = "tags" /\ ClusterTags \subseteq seen[c]
        => ClusterTags \subseteq tags

MetadataInv ==
    /\ MetadataTypeOK
    /\ WorksOnInstance
    /\ ReadingHolds
    /\ TagsHold
    /\ DoneLetsIn
    /\ StartedIsInFirewall

-----------------------------------------------------------------------------
\* Every step of a command and of the owner keeps each variable in its set.
LEMMA MetadataTypeStep ==
  ASSUME MetadataTypeOK, [MetadataNext]_metadataVars
  PROVE  MetadataTypeOK'
<1> DEFINE Rest == /\ tags \subseteq Tag /\ keys \subseteq Key
                   /\ oslogin \in OsLogin
                   /\ step \in [Command -> {"idle", "get", "tags", "insert",
                                            "key", "set", "done", "failed"}]
                   /\ kind \in [Command -> {"start", "ssh"}]
                   /\ key \in [Command -> Key]
                   /\ seen \in [Command -> SUBSET Tag]
                   /\ read \in [Command -> Metadata]
<1>0. Rest
  BY DEF MetadataTypeOK
<1>a. exists' \in BOOLEAN
  BY Zenon DEF MetadataTypeOK, MetadataNext, metadataVars, instance, OwnerEdits,
     Begin, Get, Insert, TagsPresent, SetTags, ReadKeys, KeyPresent, SetKeys,
     Refused, Return
<1>b. Rest'
  <2> USE <1>0 DEF Metadata, OsLogin
  <2>1. CASE OwnerEdits
    BY <2>1, SMT DEF OwnerEdits, command
  <2>2. ASSUME NEW c \in Command, Begin(c) PROVE Rest'
    BY <2>2, SMT DEF Begin, Goto, instance
  <2>3. ASSUME NEW c \in Command, Get(c) PROVE Rest'
    BY <2>3, SMT DEF Get, Goto, instance, command
  <2>4. ASSUME NEW c \in Command, Insert(c) PROVE Rest'
    BY <2>4, ClusterTagsAssumption, SMT DEF Insert, Goto, command
  <2>5. ASSUME NEW c \in Command, TagsPresent(c) PROVE Rest'
    BY <2>5, SMT DEF TagsPresent, Goto, instance, command
  <2>6. ASSUME NEW c \in Command, SetTags(c) PROVE Rest'
    BY <2>6, ClusterTagsAssumption, SMT DEF SetTags, Goto, command
  <2>7. ASSUME NEW c \in Command, ReadKeys(c) PROVE Rest'
    BY <2>7, SMT DEF ReadKeys, Goto, Current, instance, command
  <2>8. ASSUME NEW c \in Command, KeyPresent(c) PROVE Rest'
    BY <2>8, SMT DEF KeyPresent, Goto, instance, command
  <2>9. ASSUME NEW c \in Command, SetKeys(c) PROVE Rest'
    BY <2>9, SMT DEF SetKeys, Wanted, Goto, command
  <2>10. ASSUME NEW c \in Command, Refused(c) PROVE Rest'
    BY <2>10, SMT DEF Refused, Goto, instance, command
  <2>11. ASSUME NEW c \in Command, Return(c) PROVE Rest'
    BY <2>11, SMT DEF Return, NothingRead, Goto, instance, command
  <2>12. CASE UNCHANGED metadataVars
    BY <2>12, SMT DEF metadataVars
  <2> HIDE DEF Rest
  <2> QED BY <2>1, <2>2, <2>3, <2>4, <2>5, <2>6, <2>7, <2>8, <2>9, <2>10,
             <2>11, <2>12 DEF MetadataNext
<1> QED BY <1>a, <1>b DEF MetadataTypeOK

-----------------------------------------------------------------------------
\* Initially nothing has been read and there is no key.
LEMMA MetadataInitially == MetadataInit => MetadataInv
<1> SUFFICES ASSUME MetadataInit PROVE MetadataInv
  OBVIOUS
<1>1. exists \in BOOLEAN
  BY Zenon DEF MetadataInit
<1>2. MetadataTypeOK
  BY <1>1, SMT DEF MetadataInit, MetadataTypeOK, NothingRead, Metadata, OsLogin
<1>3. WorksOnInstance /\ ReadingHolds /\ TagsHold /\ DoneLetsIn /\ StartedIsInFirewall
  BY SMT DEF MetadataInit, WorksOnInstance, ReadingHolds, TagsHold, DoneLetsIn,
     StartedIsInFirewall
<1> QED BY <1>2, <1>3 DEF MetadataInv

\* Each action keeps the parts of the invariant.
LEMMA MetadataStep ==
  ASSUME MetadataInv, [MetadataNext]_metadataVars
  PROVE  MetadataInv'
<1> USE DEF MetadataInv
<1>0. MetadataTypeOK'
  BY MetadataTypeStep
<1> DEFINE Parts == WorksOnInstance /\ ReadingHolds /\ TagsHold
                    /\ DoneLetsIn /\ StartedIsInFirewall
<1> USE DEF WorksOnInstance, ReadingHolds, TagsHold, DoneLetsIn,
            StartedIsInFirewall, MetadataTypeOK
<1>1. CASE OwnerEdits
  BY <1>1, SMT DEF OwnerEdits, command
<1>2. ASSUME NEW c \in Command, Begin(c) PROVE Parts'
  BY <1>2, SMT DEF Begin, Goto, instance
<1>3. ASSUME NEW c \in Command, Get(c) PROVE Parts'
  BY <1>3, SMT DEF Get, Goto, instance, command
<1>4. ASSUME NEW c \in Command, Insert(c) PROVE Parts'
  BY <1>4, SMT DEF Insert, Goto, command
<1>5. ASSUME NEW c \in Command, TagsPresent(c) PROVE Parts'
  BY <1>5, SMT DEF TagsPresent, Goto, instance, command
<1>6. ASSUME NEW c \in Command, SetTags(c) PROVE Parts'
  BY <1>6, SMT DEF SetTags, Goto, command
<1>7. ASSUME NEW c \in Command, ReadKeys(c) PROVE Parts'
  BY <1>7, SMT DEF ReadKeys, Goto, Current, instance, command
<1>8. ASSUME NEW c \in Command, KeyPresent(c) PROVE Parts'
  BY <1>8, SMT DEF KeyPresent, Wanted, Goto, instance, command
<1>9. ASSUME NEW c \in Command, SetKeys(c) PROVE Parts'
  BY <1>9, SMT DEF SetKeys, Wanted, Current, Goto, command
<1>10. ASSUME NEW c \in Command, Refused(c) PROVE Parts'
  BY <1>10, SMT DEF Refused, Goto, instance, command
<1>11. ASSUME NEW c \in Command, Return(c) PROVE Parts'
  BY <1>11, SMT DEF Return, Goto, instance, command
<1>12. CASE UNCHANGED metadataVars
  BY <1>12, SMT DEF metadataVars
<1> QED BY <1>0, <1>1, <1>2, <1>3, <1>4, <1>5, <1>6, <1>7, <1>8, <1>9, <1>10,
           <1>11, <1>12 DEF MetadataNext

-----------------------------------------------------------------------------
\* The invariant holds at every moment, whoever edits the instance when.
THEOREM MetadataConsistent == MetadataSpec => []MetadataInv
<1>1. MetadataInv /\ [MetadataNext]_metadataVars => MetadataInv'
  BY MetadataStep
<1> QED BY MetadataInitially, <1>1, PTL DEF MetadataSpec

\* Every variable keeps to its set.
THEOREM MetadataTypeCorrect == MetadataSpec => []MetadataTypeOK
<1>1. MetadataInv => MetadataTypeOK
  BY DEF MetadataInv
<1> QED BY <1>1, MetadataConsistent, PTL

\* A command that got through has its key on the instance and OS login off.
THEOREM DoneIsLetIn == MetadataSpec => []DoneLetsIn
<1>1. MetadataInv => DoneLetsIn
  BY DEF MetadataInv
<1> QED BY <1>1, MetadataConsistent, PTL

\* start goes on only with an instance that is in its firewall rules.
THEOREM InFirewall == MetadataSpec => []StartedIsInFirewall
<1>1. MetadataInv => StartedIsInFirewall
  BY DEF MetadataInv
<1> QED BY <1>1, MetadataConsistent, PTL

\* No step takes a key away: what is written back holds every key that is
\* there, for the reading it is made of is current or the write is refused.
THEOREM KeysNeverLost == MetadataSpec => KeysStay
<1>1. MetadataInv /\ [MetadataNext]_metadataVars => [keys \subseteq keys']_metadataVars
  <2> SUFFICES ASSUME MetadataInv, MetadataNext PROVE keys \subseteq keys'
    BY DEF metadataVars
  <2> USE DEF MetadataInv
  <2>1. CASE OwnerEdits
    BY <2>1, SMT DEF OwnerEdits
  <2>2. ASSUME NEW c \in Command, Insert(c) PROVE keys \subseteq keys'
    BY <2>2, Zenon DEF Insert, WorksOnInstance
  <2>3. ASSUME NEW c \in Command, SetKeys(c) PROVE keys \subseteq keys'
    BY <2>3, SMT DEF SetKeys, Wanted, Current
  <2>4. ASSUME NEW c \in Command,
               \/ Begin(c) \/ Get(c) \/ TagsPresent(c) \/ SetTags(c) \/ ReadKeys(c)
               \/ KeyPresent(c) \/ Refused(c) \/ Return(c)
        PROVE  keys \subseteq keys'
    BY <2>4, SMT DEF Begin, Get, TagsPresent, SetTags, ReadKeys, KeyPresent,
       Refused, Return, instance
  <2> QED BY <2>1, <2>2, <2>3, <2>4 DEF MetadataNext
<1> QED BY <1>1, MetadataConsistent, PTL DEF MetadataSpec, KeysStay

-----------------------------------------------------------------------------
(***************************************************************************)
(* ClusterSettings: arithmetic of blocks                                   *)
(***************************************************************************)

\* The block with number k of blocks of a size.
LEMMA BlockBounds ==
  ASSUME NEW a \in Nat, NEW k \in Nat, NEW size \in Nat \ {0}
  PROVE  a \div size = k <=> k * size <= a /\ a < k * size + size
<1>1. /\ a \div size \in Nat
      /\ size * (a \div size) <= a
      /\ a < size * (a \div size) + size
  BY Z3
<1>2. ASSUME k * size <= a, a < k * size + size PROVE a \div size = k
  <2> DEFINE q == a \div size
  <2>1. q * size < (k + 1) * size /\ k * size < (q + 1) * size
    BY <1>1, <1>2, Z3
  <2>2. q < k + 1 /\ k < q + 1
    BY <1>1, <2>1, Z3
  <2> QED BY <1>1, <2>2
<1> QED BY <1>1, <1>2, Z3

\* A size that divides another one goes into it a whole number of times.
LEMMA WholeBlocks ==
  ASSUME NEW m \in Nat, NEW size \in Nat \ {0}, m % size = 0
  PROVE  m \div size \in Nat /\ m = (m \div size) * size
BY Z3

\* A multiple of a size lies on a border of its blocks.
LEMMA Multiple ==
  ASSUME NEW k \in Nat, NEW size \in Nat \ {0}
  PROVE  k * size \in Nat /\ (k * size) \div size = k
<1>1. k * size \in Nat
  BY Z3
<1> QED BY <1>1, BlockBounds

\* A base lies in the address space with all of its block.
LEMMA BaseInSpace ==
  ASSUME NEW b \in Bases
  PROVE  b.ip + b.size <= Space
<1> DEFINE k == b.ip \div b.size
           n == Space \div b.size
<1>1. /\ b.ip \in Nat /\ b.size \in Nat \ {0} /\ Space \in Nat /\ b.ip < Space
      /\ Space % b.size = 0 /\ b.ip % b.size = 0
  BY SettingsAssumption
<1>2. k \in Nat /\ n \in Nat /\ b.ip = k * b.size /\ Space = n * b.size
  BY <1>1, WholeBlocks
<1> HIDE DEF k, n
<1>3. k < n
  BY <1>1, <1>2, Z3
<1>4. (k + 1) * b.size <= n * b.size
  BY <1>1, <1>2, <1>3, Z3
<1> QED BY <1>1, <1>2, <1>4, Z3

(***************************************************************************)
(* What DeriveSubnetCIDR returns: one of the subnetworks the base is       *)
(* divided into.                                                           *)
(***************************************************************************)
LEMMA Derived ==
  ASSUME NEW b \in Bases, ~BadPrefix(b), NEW h \in Hashes
  PROVE  /\ DeriveSubnetCIDR(b, h) \in Ranges
         /\ DeriveSubnetCIDR(b, h) # NoRange
         /\ Block(DeriveSubnetCIDR(b, h)) \subseteq Block(b)
         /\ \A a \in Block(DeriveSubnetCIDR(b, h)) : DeriveSubnetCIDR(b, h).ip <= a
<1> DEFINE count  == b.size \div b.sub
           index  == h % count
           first  == b.ip + index * b.sub
           number == first \div b.sub
<1>1. /\ b.ip \in Nat /\ b.size \in Nat \ {0} /\ b.sub \in Nat \ {0}
      /\ b.sub <= b.size /\ b.size % b.sub = 0 /\ b.ip % b.size = 0
      /\ b.sub <= Space /\ Space \in Nat \ {0} /\ h \in Nat
  BY SettingsAssumption DEF BadPrefix
<1>2. count \in Nat \ {0} /\ b.size = count * b.sub
  <2>1. count \in Nat /\ b.size = count * b.sub
    BY <1>1, WholeBlocks
  <2> HIDE DEF count
  <2> QED BY <1>1, <2>1, Z3
<1>3. index \in Nat /\ index < count
  BY <1>1, <1>2, Z3
<1>4. first \in Nat /\ b.ip <= first /\ first + b.sub <= b.ip + b.size
  <2> HIDE DEF count, index
  <2>1. index * b.sub \in Nat /\ (index + 1) * b.sub <= count * b.sub
    BY <1>1, <1>2, <1>3, Z3
  <2>2. (index + 1) * b.sub = index * b.sub + b.sub
    BY <1>1, <1>3, Z3
  <2> HIDE DEF first
  <2>3. first = b.ip + index * b.sub
    BY DEF first
  <2> QED BY <1>1, <1>2, <2>1, <2>2, <2>3, Z3
<1>5. first < Space /\ DeriveSubnetCIDR(b, h) = [ip |-> first, size |-> b.sub]
  <2>1. first < Space
    BY <1>1, <1>4, BaseInSpace
  <2>2. first % Space = first
    <3> HIDE DEF first
    <3> QED BY <1>1, <1>4, <2>1, Z3
  <2> QED BY <2>1, <2>2 DEF DeriveSubnetCIDR
<1>6. number \in Nat /\ first = number * b.sub
  <2> DEFINE k == b.ip \div b.size
  <2>1. k \in Nat /\ b.ip = k * b.size
    BY <1>1, WholeBlocks
  <2> HIDE DEF count, index, k
  <2>2. k * count \in Nat /\ k * count + index \in Nat
    BY <1>2, <1>3, <2>1, Z3
  <2>3. k * (count * b.sub) = (k * count) * b.sub
    BY <1>1, <1>2, <2>1, Z3
  <2>4. (k * count) * b.sub + index * b.sub = (k * count + index) * b.sub
    BY <1>1, <1>3, <2>2, Z3
  <2>5. first = (k * count + index) * b.sub
    BY <1>2, <2>1, <2>3, <2>4
  <2>6. number = k * count + index
    BY <1>1, <2>2, <2>5, Multiple
  <2> QED BY <2>2, <2>5, <2>6
<1>7. ASSUME NEW a \in Block(DeriveSubnetCIDR(b, h))
      PROVE  a \in Block(b) /\ first <= a
  <2> HIDE DEF count, index, first
  <2>1. a \in 0 .. Space - 1 /\ a \in Nat /\ a \div b.sub = number
    BY <1>1, <1>5, <1>7 DEF Block
  <2> HIDE DEF number
  <2>2. first <= a /\ a < first + b.sub
    BY <1>1, <1>6, <2>1, BlockBounds
  <2>3. b.ip <= a /\ a < b.ip + b.size
    BY <1>1, <1>4, <2>1, <2>2
  <2> DEFINE k == b.ip \div b.size
  <2>4. k \in Nat /\ b.ip = k * b.size
    BY <1>1, WholeBlocks
  <2>5. a \div b.size = k
    <3> HIDE DEF k
    <3> QED BY <1>1, <2>1, <2>3, <2>4, BlockBounds
  <2> QED BY <2>1, <2>2, <2>5 DEF Block
<1> HIDE DEF count, index, first, number
<1>8. DeriveSubnetCIDR(b, h) \in Ranges
  BY <1>1, <1>4, <1>5 DEF Ranges
<1>9. DeriveSubnetCIDR(b, h) # NoRange
  BY <1>1, <1>5 DEF NoRange
<1> QED BY <1>5, <1>7, <1>8, <1>9

(***************************************************************************)
(* ClusterSettings: the inductive invariant                                *)
(***************************************************************************)

\* A worker of an update that is through has set the hours; one that is
\* listed is under way, and through once the update has ended well.
Reaching ==
    /\ main \in {"update", "updated"} =>
         \A w \in listed :
            /\ pc[w] # "off"
            /\ pc[w] = "done" /\ inst[w] # "NONE" => hours[w] = wHours
    /\ main = "updated" => \A w \in listed : pc[w] = "done"

\* The subnetwork, or the one that is about to be made, is derived from the
\* base of that time, which is the profile's unless it has been edited; the
\* firewall rule does not outlive it, and a start that finds it derives the
\* same range again.
Networked ==
    /\ subnet # NoRange =>
         ~BadPrefix(madeFrom) /\ subnet = DeriveSubnetCIDR(madeFrom, hash)
    /\ main = "subnet" /\ subnet = NoRange =>
         ~BadPrefix(madeFrom) /\ wRange = DeriveSubnetCIDR(madeFrom, hash)
    /\ (subnet # NoRange \/ main = "subnet") /\ ~edited => base = madeFrom
    /\ main \in {"subnet", "rule"} /\ subnet # NoRange /\ ~edited => wRange = subnet
    /\ main = "rule" => subnet # NoRange
    /\ subnet = NoRange \/ main = "deleteSubnet" => rule = NoRange

\* A start or an update has settings to put on instances, and an instance
\* has them as long as it exists.
HaveSettings ==
    /\ main \in {"subnet", "rule", "launch", "list", "update"} =>
         wAction \in Action /\ wHours \in Hours
    /\ \A w \in Worker :
         IF inst[w] = "NONE" THEN action[w] = Unset /\ hours[w] = 0
                             ELSE action[w] \in Action /\ hours[w] \in Hours

SettingsInv ==
    TypeOK /\ HaveSettings /\ Reaching /\ Networked /\ InternalTrafficAllowed

-----------------------------------------------------------------------------
\* Every step keeps the settings of a command and those on the instances in
\* their sets.
LEMMA TypeStep ==
  ASSUME TypeOK, [Next]_vars
  PROVE  TypeOK'
<1> DEFINE Settings ==
             /\ hash \in Hashes
             /\ pAction \in Action /\ pHours \in Hours /\ base \in Bases
             /\ edits \in 0 .. MaxEdits
             /\ oAction \in Action \cup {Unset} /\ oHours \in 0 .. MaxHours
             /\ main \in {"idle", "subnet", "rule", "launch", "list", "update",
                          "deleteRule", "deleteSubnet", "updated", "error"}
             /\ wAction \in Action \cup {Unset} /\ wHours \in 0 .. MaxHours
             /\ listed \subseteq Worker
             /\ wRange \in Ranges /\ subnet \in Ranges /\ rule \in Ranges
             /\ madeFrom \in Bases
           Instances ==
             /\ pc \in [Worker -> {"off", "call", "operation", "done", "failed"}]
             /\ inst \in [Worker -> {"NONE", "RUNNING", "TERMINATED"}]
             /\ action \in [Worker -> Action \cup {Unset}]
             /\ hours \in [Worker -> 0 .. MaxHours]
           Flags == known \in BOOLEAN /\ edited \in BOOLEAN
<1>0. Settings /\ Instances
  BY DEF TypeOK
<1>1. Flags
  BY DEF TypeOK
<1>a. NoRange \in Ranges
  BY SettingsAssumption DEF NoRange, Ranges
<1>n. MaxHours \in Nat /\ MaxEdits \in Nat
  BY SettingsAssumption
<1>b. Settings'
  <2> USE <1>0, <1>a, <1>n DEF Action, Unset, Hours
  <2>1. CASE EditProfile
    BY <2>1, SMT DEF EditProfile, record, want, workers, scheds
  <2>2. CASE Create
    BY <2>2, SMT DEF Create, Quits, prof, scheds, net
  <2>3. CASE BeginStart
    BY <2>3, Derived, SMT DEF BeginStart, EffectiveAction, EffectiveHours,
       Quits, prof, record, scheds
  <2>4. CASE EnsureSubnetwork
    BY <2>4, SMT DEF EnsureSubnetwork, prof, record, want, workers, scheds
  <2>5. CASE EnsureFirewall
    BY <2>5, SMT DEF EnsureFirewall, prof, record, want, workers, scheds
  <2>6. ASSUME NEW w \in Worker, Launch(w) PROVE Settings'
    BY <2>6, SMT DEF Launch, prof, record, want, workers, net
  <2>7. CASE BeginUpdate
    BY <2>7, SMT DEF BeginUpdate, prof, record, scheds, net
  <2>8. CASE ListInstances
    BY <2>8, SMT DEF ListInstances, prof, record, want, scheds, net
  <2>9. ASSUME NEW w \in Worker, SetScheduling(w) PROVE Settings'
    BY <2>9, SMT DEF SetScheduling, prof, record, want, scheds, net
  <2>10. ASSUME NEW w \in Worker, SchedulingSet(w) PROVE Settings'
    BY <2>10, SMT DEF SchedulingSet, prof, record, want, net
  <2>11. ASSUME NEW w \in Worker, SchedulingFails(w) PROVE Settings'
    BY <2>11, SMT DEF SchedulingFails, prof, record, want, scheds, net
  <2>12. CASE UpdateReturns
    BY <2>12, SMT DEF UpdateReturns, Quits, prof, want, workers, scheds, net
  <2>13. CASE StopInstances
    BY <2>13, SMT DEF StopInstances, Quits, prof, record, net
  <2>14. CASE DeleteInstances
    BY <2>14, SMT DEF DeleteInstances, Remove, Quits, prof, record, net
  <2>15. CASE DeleteRule
    BY <2>15, SMT DEF DeleteRule, prof, record, want, workers, scheds
  <2>16. CASE DeleteSubnetwork
    BY <2>16, SMT DEF DeleteSubnetwork, prof, want, workers, scheds
  <2>17. CASE CommandEnds
    BY <2>17, SMT DEF CommandEnds, Quits, prof, record, scheds, net
  <2>18. ASSUME NEW w \in Worker, Expire(w) PROVE Settings'
    BY <2>18, SMT DEF Expire, Remove, prof, record, want, workers, net
  <2>19. ASSUME NEW w \in Worker, OwnerActs(w) PROVE Settings'
    BY <2>19, SMT DEF OwnerActs, Remove, prof, record, want, workers, net
  <2>20. CASE UNCHANGED vars
    BY <2>20, SMT DEF vars
  <2> HIDE DEF Settings, Instances
  <2> QED BY <2>1, <2>2, <2>3, <2>4, <2>5, <2>6, <2>7, <2>8, <2>9, <2>10, <2>11,
             <2>12, <2>13, <2>14, <2>15, <2>16, <2>17, <2>18, <2>19, <2>20
             DEF Next, StartStep, UpdateStep, StopStep
<1>c. Instances'
  <2> USE <1>0, <1>a, <1>n DEF Action, Unset, Hours
  <2>1. CASE EditProfile
    BY <2>1, SMT DEF EditProfile, record, want, workers, scheds
  <2>2. CASE Create
    BY <2>2, SMT DEF Create, Quits, prof, scheds, net
  <2>3. CASE BeginStart
    BY <2>3, SMT DEF BeginStart, EffectiveAction, EffectiveHours, Quits, prof,
       record, scheds
  <2>4. CASE EnsureSubnetwork
    BY <2>4, SMT DEF EnsureSubnetwork, prof, record, want, workers, scheds
  <2>5. CASE EnsureFirewall
    BY <2>5, SMT DEF EnsureFirewall, prof, record, want, workers, scheds
  <2>6. ASSUME NEW w \in Worker, Launch(w) PROVE Instances'
    BY <2>6, SMT DEF Launch, prof, record, want, workers, net
  <2>7. CASE BeginUpdate
    BY <2>7, SMT DEF BeginUpdate, prof, record, scheds, net
  <2>8. CASE ListInstances
    BY <2>8, SMT DEF ListInstances, prof, record, want, scheds, net
  <2>9. ASSUME NEW w \in Worker, SetScheduling(w) PROVE Instances'
    BY <2>9, SMT DEF SetScheduling, prof, record, want, scheds, net
  <2>10. ASSUME NEW w \in Worker, SchedulingSet(w) PROVE Instances'
    BY <2>10, SMT DEF SchedulingSet, prof, record, want, net
  <2>11. ASSUME NEW w \in Worker, SchedulingFails(w) PROVE Instances'
    BY <2>11, SMT DEF SchedulingFails, prof, record, want, scheds, net
  <2>12. CASE UpdateReturns
    BY <2>12, SMT DEF UpdateReturns, Quits, prof, want, workers, scheds, net
  <2>13. CASE StopInstances
    BY <2>13, SMT DEF StopInstances, Quits, prof, record, net
  <2>14. CASE DeleteInstances
    BY <2>14, SMT DEF DeleteInstances, Remove, Quits, prof, record, net
  <2>15. CASE DeleteRule
    BY <2>15, SMT DEF DeleteRule, prof, record, want, workers, scheds
  <2>16. CASE DeleteSubnetwork
    BY <2>16, SMT DEF DeleteSubnetwork, prof, want, workers, scheds
  <2>17. CASE CommandEnds
    BY <2>17, SMT DEF CommandEnds, Quits, prof, record, scheds, net
  <2>18. ASSUME NEW w \in Worker, Expire(w) PROVE Instances'
    BY <2>18, SMT DEF Expire, Remove, prof, record, want, workers, net
  <2>19. ASSUME NEW w \in Worker, OwnerActs(w) PROVE Instances'
    BY <2>19, SMT DEF OwnerActs, Remove, prof, record, want, workers, net
  <2>20. CASE UNCHANGED vars
    BY <2>20, SMT DEF vars
  <2> HIDE DEF Settings, Instances
  <2> QED BY <2>1, <2>2, <2>3, <2>4, <2>5, <2>6, <2>7, <2>8, <2>9, <2>10, <2>11,
             <2>12, <2>13, <2>14, <2>15, <2>16, <2>17, <2>18, <2>19, <2>20
             DEF Next, StartStep, UpdateStep, StopStep
<1>d. Flags'
  BY <1>1, Zenon DEF Next, vars, EditProfile, Create, StartStep, BeginStart,
     EnsureSubnetwork, EnsureFirewall, Launch, UpdateStep, BeginUpdate,
     ListInstances, SetScheduling, SchedulingSet, SchedulingFails, UpdateReturns,
     StopStep, StopInstances, DeleteInstances, DeleteRule, DeleteSubnetwork,
     CommandEnds, Expire, OwnerActs, record, net
<1> HIDE DEF Settings, Instances, Flags
<1>e. Settings' /\ Instances' /\ Flags'
  BY <1>b, <1>c, <1>d
<1> QED BY <1>e DEF Settings, Instances, Flags, TypeOK

-----------------------------------------------------------------------------
\* Settings come from the profile or an override, and go with the instance.
LEMMA HaveSettingsStep ==
  ASSUME TypeOK, HaveSettings, [Next]_vars
  PROVE  HaveSettings'
<1>0. /\ inst \in [Worker -> {"NONE", "RUNNING", "TERMINATED"}]
      /\ action \in [Worker -> Action \cup {Unset}]
      /\ hours \in [Worker -> 0 .. MaxHours]
      /\ pc \in [Worker -> {"off", "call", "operation", "done", "failed"}]
      /\ listed \subseteq Worker /\ pAction \in Action /\ pHours \in Hours
      /\ oAction \in Action \cup {Unset} /\ oHours \in 0 .. MaxHours
  BY DEF TypeOK
<1> USE <1>0 DEF HaveSettings, Action, Unset, Hours, Ended
<1>1. CASE EditProfile
  BY <1>1, SMT DEF EditProfile, record, want, workers, scheds
<1>2. CASE Create
  BY <1>2, SMT DEF Create, Quits, prof, scheds, net
<1>3. CASE BeginStart
  BY <1>3, SMT DEF BeginStart, EffectiveAction, EffectiveHours, Quits, prof,
     record, scheds
<1>4. CASE EnsureSubnetwork
  BY <1>4, SMT DEF EnsureSubnetwork, prof, record, want, workers, scheds
<1>5. CASE EnsureFirewall
  BY <1>5, SMT DEF EnsureFirewall, prof, record, want, workers, scheds
<1>6. ASSUME NEW w \in Worker, Launch(w) PROVE HaveSettings'
  BY <1>6, SMT DEF Launch, prof, record, want, workers, net
<1>7. CASE BeginUpdate
  BY <1>7, SMT DEF BeginUpdate, prof, record, scheds, net
<1>8. CASE ListInstances
  BY <1>8, SMT DEF ListInstances, prof, record, want, scheds, net
<1>9. ASSUME NEW w \in Worker, SetScheduling(w) PROVE HaveSettings'
  BY <1>9, SMT DEF SetScheduling, prof, record, want, scheds, net
<1>10. ASSUME NEW w \in Worker, SchedulingSet(w) PROVE HaveSettings'
  BY <1>10, SMT DEF SchedulingSet, prof, record, want, net
<1>11. ASSUME NEW w \in Worker, SchedulingFails(w) PROVE HaveSettings'
  BY <1>11, SMT DEF SchedulingFails, prof, record, want, scheds, net
<1>12. CASE UpdateReturns
  BY <1>12, SMT DEF UpdateReturns, Quits, prof, want, workers, scheds, net
<1>13. CASE StopInstances
  BY <1>13, SMT DEF StopInstances, Quits, prof, record, net
<1>14. CASE DeleteInstances
  BY <1>14, SMT DEF DeleteInstances, Remove, Quits, prof, record, net
<1>15. CASE DeleteRule
  BY <1>15, SMT DEF DeleteRule, prof, record, want, workers, scheds
<1>16. CASE DeleteSubnetwork
  BY <1>16, SMT DEF DeleteSubnetwork, prof, want, workers, scheds
<1>17. CASE CommandEnds
  BY <1>17, SMT DEF CommandEnds, Quits, prof, record, scheds, net
<1>18. ASSUME NEW w \in Worker, Expire(w) PROVE HaveSettings'
  BY <1>18, SMT DEF Expire, Remove, prof, record, want, workers, net
<1>19. ASSUME NEW w \in Worker, OwnerActs(w) PROVE HaveSettings'
  BY <1>19, SMT DEF OwnerActs, Remove, prof, record, want, workers, net
<1>20. CASE UNCHANGED vars
  BY <1>20, SMT DEF vars
<1> QED BY <1>1, <1>2, <1>3, <1>4, <1>5, <1>6, <1>7, <1>8, <1>9, <1>10, <1>11,
           <1>12, <1>13, <1>14, <1>15, <1>16, <1>17, <1>18, <1>19, <1>20
           DEF Next, StartStep, UpdateStep, StopStep

\* What a worker of an update has set stays: nobody else sets hours meanwhile.
LEMMA ReachingStep ==
  ASSUME TypeOK, Reaching, [Next]_vars
  PROVE  Reaching'
<1>0. /\ inst \in [Worker -> {"NONE", "RUNNING", "TERMINATED"}]
      /\ action \in [Worker -> Action \cup {Unset}]
      /\ hours \in [Worker -> 0 .. MaxHours]
      /\ pc \in [Worker -> {"off", "call", "operation", "done", "failed"}]
      /\ listed \subseteq Worker /\ pAction \in Action /\ pHours \in Hours
      /\ oAction \in Action \cup {Unset} /\ oHours \in 0 .. MaxHours
  BY DEF TypeOK
<1> USE <1>0 DEF Reaching, Ended, Cancelled
<1>1. CASE EditProfile
  BY <1>1, SMT DEF EditProfile, record, want, workers, scheds
<1>2. CASE Create
  BY <1>2, SMT DEF Create, Quits, prof, scheds, net
<1>3. CASE BeginStart
  BY <1>3, SMT DEF BeginStart, EffectiveAction, EffectiveHours, Quits, prof,
     record, scheds
<1>4. CASE EnsureSubnetwork
  BY <1>4, SMT DEF EnsureSubnetwork, prof, record, want, workers, scheds
<1>5. CASE EnsureFirewall
  BY <1>5, SMT DEF EnsureFirewall, prof, record, want, workers, scheds
<1>6. ASSUME NEW w \in Worker, Launch(w) PROVE Reaching'
  BY <1>6, SMT DEF Launch, prof, record, want, workers, net
<1>7. CASE BeginUpdate
  BY <1>7, SMT DEF BeginUpdate, prof, record, scheds, net
<1>8. CASE ListInstances
  BY <1>8, SMT DEF ListInstances, prof, record, want, scheds, net
<1>9. ASSUME NEW w \in Worker, SetScheduling(w) PROVE Reaching'
  BY <1>9, SMT DEF SetScheduling, prof, record, want, scheds, net
<1>10. ASSUME NEW w \in Worker, SchedulingSet(w) PROVE Reaching'
  BY <1>10, SMT DEF SchedulingSet, prof, record, want, net
<1>11. ASSUME NEW w \in Worker, SchedulingFails(w) PROVE Reaching'
  BY <1>11, SMT DEF SchedulingFails, prof, record, want, scheds, net
<1>12. CASE UpdateReturns
  BY <1>12, SMT DEF UpdateReturns, Quits, prof, want, workers, scheds, net
<1>13. CASE StopInstances
  BY <1>13, SMT DEF StopInstances, Quits, prof, record, net
<1>14. CASE DeleteInstances
  BY <1>14, SMT DEF DeleteInstances, Remove, Quits, prof, record, net
<1>15. CASE DeleteRule
  BY <1>15, SMT DEF DeleteRule, prof, record, want, workers, scheds
<1>16. CASE DeleteSubnetwork
  BY <1>16, SMT DEF DeleteSubnetwork, prof, want, workers, scheds
<1>17. CASE CommandEnds
  BY <1>17, SMT DEF CommandEnds, Quits, prof, record, scheds, net
<1>18. ASSUME NEW w \in Worker, Expire(w) PROVE Reaching'
  BY <1>18, SMT DEF Expire, Remove, prof, record, want, workers, net
<1>19. ASSUME NEW w \in Worker, OwnerActs(w) PROVE Reaching'
  BY <1>19, SMT DEF OwnerActs, Remove, prof, record, want, workers, net
<1>20. CASE UNCHANGED vars
  BY <1>20, SMT DEF vars
<1> QED BY <1>1, <1>2, <1>3, <1>4, <1>5, <1>6, <1>7, <1>8, <1>9, <1>10, <1>11,
           <1>12, <1>13, <1>14, <1>15, <1>16, <1>17, <1>18, <1>19, <1>20
           DEF Next, StartStep, UpdateStep, StopStep

\* The subnetwork stays the one that its base gives, and the rule lets it in.
LEMMA NetworkedStep ==
  ASSUME TypeOK, Networked, InternalTrafficAllowed, [Next]_vars
  PROVE  (Networked /\ InternalTrafficAllowed)'
<1>0. /\ hash \in Hashes /\ base \in Bases /\ madeFrom \in Bases
      /\ \A b \in Bases : ~BadPrefix(b) => DeriveSubnetCIDR(b, hash) # NoRange
  BY Derived DEF TypeOK
<1> USE <1>0 DEF Networked, InternalTrafficAllowed, Ended
<1> DEFINE Net == Networked /\ InternalTrafficAllowed
<1>1. CASE EditProfile
  BY <1>1, SMT DEF EditProfile, record, want, workers, scheds
<1>2. CASE Create
  BY <1>2, SMT DEF Create, Quits, prof, scheds, net
<1>3. CASE BeginStart
  BY <1>3, SMT DEF BeginStart, EffectiveAction, EffectiveHours, Quits, prof,
     record, scheds
<1>4. CASE EnsureSubnetwork
  BY <1>4, SMT DEF EnsureSubnetwork, prof, record, want, workers, scheds
<1>5. CASE EnsureFirewall
  BY <1>5, SMT DEF EnsureFirewall, prof, record, want, workers, scheds
<1>6. ASSUME NEW w \in Worker, Launch(w) PROVE Net'
  BY <1>6, SMT DEF Launch, prof, record, want, workers, net
<1>7. CASE BeginUpdate
  BY <1>7, SMT DEF BeginUpdate, prof, record, scheds, net
<1>8. CASE ListInstances
  BY <1>8, SMT DEF ListInstances, prof, record, want, scheds, net
<1>9. ASSUME NEW w \in Worker, SetScheduling(w) PROVE Net'
  BY <1>9, SMT DEF SetScheduling, prof, record, want, scheds, net
<1>10. ASSUME NEW w \in Worker, SchedulingSet(w) PROVE Net'
  BY <1>10, SMT DEF SchedulingSet, prof, record, want, net
<1>11. ASSUME NEW w \in Worker, SchedulingFails(w) PROVE Net'
  BY <1>11, SMT DEF SchedulingFails, prof, record, want, scheds, net
<1>12. CASE UpdateReturns
  BY <1>12, SMT DEF UpdateReturns, Quits, prof, want, workers, scheds, net
<1>13. CASE StopInstances
  BY <1>13, SMT DEF StopInstances, Quits, prof, record, net
<1>14. CASE DeleteInstances
  BY <1>14, SMT DEF DeleteInstances, Remove, Quits, prof, record, net
<1>15. CASE DeleteRule
  BY <1>15, SMT DEF DeleteRule, prof, record, want, workers, scheds
<1>16. CASE DeleteSubnetwork
  BY <1>16, SMT DEF DeleteSubnetwork, prof, want, workers, scheds
<1>17. CASE CommandEnds
  BY <1>17, SMT DEF CommandEnds, Quits, prof, record, scheds, net
<1>18. ASSUME NEW w \in Worker, Expire(w) PROVE Net'
  BY <1>18, SMT DEF Expire, Remove, prof, record, want, workers, net
<1>19. ASSUME NEW w \in Worker, OwnerActs(w) PROVE Net'
  BY <1>19, SMT DEF OwnerActs, Remove, prof, record, want, workers, net
<1>20. CASE UNCHANGED vars
  BY <1>20, SMT DEF vars
<1> QED BY <1>1, <1>2, <1>3, <1>4, <1>5, <1>6, <1>7, <1>8, <1>9, <1>10, <1>11,
           <1>12, <1>13, <1>14, <1>15, <1>16, <1>17, <1>18, <1>19, <1>20
           DEF Next, StartStep, UpdateStep, StopStep

-----------------------------------------------------------------------------
\* A profile and no cluster: nothing is derived, set or listed.
LEMMA SettingsInitially == Init => SettingsInv
<1> SUFFICES ASSUME Init PROVE SettingsInv
  OBVIOUS
<1>1. known \in BOOLEAN /\ edited \in BOOLEAN
  BY Zenon DEF Init
<1>2. TypeOK
  <2>1. NoRange \in Ranges
    BY SettingsAssumption DEF NoRange, Ranges
  <2> QED BY <1>1, <2>1, SettingsAssumption, SMT DEF Init, TypeOK, Action,
             Hours, Unset
<1>3. HaveSettings /\ Reaching
  BY SMT DEF Init, HaveSettings, Reaching
<1>4. Networked /\ InternalTrafficAllowed
  BY SMT DEF Init, Networked, InternalTrafficAllowed
<1> QED BY <1>2, <1>3, <1>4 DEF SettingsInv

\* The invariant holds at every moment: whoever edits the profile when, and
\* wherever a command fails or is killed.
THEOREM SettingsConsistent == Spec => []SettingsInv
<1>1. SettingsInv /\ [Next]_vars => SettingsInv'
  BY TypeStep, HaveSettingsStep, ReachingStep, NetworkedStep DEF SettingsInv
<1> QED BY SettingsInitially, <1>1, PTL DEF Spec

\* Every variable keeps to its set.
THEOREM TypeCorrect == Spec => []TypeOK
<1>1. SettingsInv => TypeOK
  BY DEF SettingsInv
<1> QED BY <1>1, SettingsConsistent, PTL

\* An update that ends well has reached every instance it listed.
THEOREM UpdateAlwaysReaches == Spec => []UpdateReachesAll
<1>1. SettingsInv => UpdateReachesAll
  BY DEF SettingsInv, Reaching, UpdateReachesAll
<1> QED BY <1>1, SettingsConsistent, PTL

\* The subnetwork of a cluster is one of those its base is divided into, for
\* every base, every size of a subnetwork and every hash of the name.
THEOREM SubnetAlwaysWithinBase == Spec => []SubnetWithinBase
<1>1. SettingsInv => SubnetWithinBase
  <2> SUFFICES ASSUME SettingsInv, subnet # NoRange
               PROVE  /\ Block(subnet) \subseteq Block(madeFrom)
                      /\ \A a \in Block(subnet) : subnet.ip <= a
    BY DEF SubnetWithinBase
  <2>1. /\ hash \in Hashes /\ madeFrom \in Bases /\ ~BadPrefix(madeFrom)
        /\ subnet = DeriveSubnetCIDR(madeFrom, hash)
    BY DEF SettingsInv, TypeOK, Networked
  <2> QED BY <2>1, Derived
<1> QED BY <1>1, SettingsConsistent, PTL

\* The internal rule lets the instances of a cluster talk to each other,
\* whichever start wrote it, as long as the base was not edited since.
THEOREM TrafficAlwaysAllowed == Spec => []InternalTrafficAllowed
<1>1. SettingsInv => InternalTrafficAllowed
  BY DEF SettingsInv
<1> QED BY <1>1, SettingsConsistent, PTL
==============================================================================
