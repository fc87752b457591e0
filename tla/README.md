# gpunow: verification project

TLA+ specifications of `gpunow` (`src/`), the command that starts, stops and
connects to clusters of GPU instances in Compute Engine; configurations that
check them with TLC on small instances; theorems about them with proofs that
TLAPS checks. Lines are those of `src/go/internal/` unless another path is
given.

    tlc -config MCClusterStart.cfg MCClusterStart.tla      # a run
    tlapm ClusterStart_proofs.tla                          # the proofs of a module

`PROJECT.json` lists the runs, the code lines each definition translates, for
each property of a passing run a fault of the code that breaks it, the hazards
and the theorems.

## The system

gpunow is one Go program without a daemon. What a command knows of the past is
in `state.json`; what is true is in Compute Engine. A command is mostly
sequential, but works on the instances of a cluster in goroutines, one each.

| Component | State | Operations | Interacts with |
|---|---|---|---|
| lifecycle (`lifecycle/state.go`) | - | normalise a state, translate a Compute Engine status | store, status sync, ssh |
| state store (`state/store.go`) | `state.json`: per cluster status, `DeletedAt`, `NumInstances`, settings, instances with state and addresses | record create, start, stop, update, instance state; delete; load and save | called by every command and by the instance goroutines |
| Start (`cluster/service.go:70-326`) | the step of each goroutine, `groupCtx`, `readinessMu` | network, subnetwork, firewall rules; per instance look up, tags, key, insert or boot, wait until ready | Compute Engine; `OnStateChange` back into the store; sentinel over HTTP |
| readiness (`cluster/readiness.go`, `profiles/default/cloud-init.yaml`) | the sentinel's state file on the instance | probe until `ready`, `error` or time-out | Start, ssh |
| Stop (`cluster/service.go:328-513`) | the listing, the step of each goroutine | stop or delete each instance; take the network down | Compute Engine, store |
| commands (`cli/commands.go`, `cli/status_cmd.go`) | flags; what was loaded | create, start, stop, update, ssh, scp, status sync | all of the above |
| metadata and tags (`ssh/metadata.go`, `ensureInstanceTags`) | fingerprint of what was read | read, change, write back | Compute Engine; other commands; the owner's console |
| pricing (`pricing/`, `cli/cost_estimate.go`) | `pricing-cache.json` | load, resolve SKUs, save, sum up | Cloud Billing |
| live display (`ui/live_split.go`, `ui/tasklist.go`) | call and task lines, height drawn, `writeMu` and two more mutexes, a ticker | append, mark, tick, draw, print above, close | every goroutine that makes a call |
| Update and the settings (`cluster/service.go:552-614`, `instance/builder.go`) | the profile, the cluster's overrides, the scheduling of each instance | list, set the scheduling of what is TERMINATED | Start (which takes the same settings), profile, store |
| subnet derivation (`cluster/subnet.go`) | - | hash of the name to a range | Start |
| profile (`cli/install_cmd.go`, `cli/config_cmd.go`, `config/`, `home/`) | the files of `~/.config/gpunow/profiles`, its backups, the installed binary | install, config, load | every command loads it; the user edits it |
| VM service (`vm/service.go`) | - | single-instance twin of the cluster service | reached by no command |
| ids, SSH arguments, printing | - | parse, format | commands |

What is hard in it, and what would make each part correct:

- *Store.* Many operations write the same few fields, two different folds
  compute a cluster's status, and each is called in any order: the status,
  the deletion mark, the states and the addresses must agree after any
  sequence (`DeletedIsMarked`, `ReadyIsSettled`, `TerminatedHasNoAddress`).
- *File.* Every report of every goroutine rewrites the whole file: none may
  undo another, and a crash must never leave a torn file (`FileComplete`,
  `ReportsStand`, `Refinement`, `ReportEnds`).
- *Start.* A barrier, a mutex held over a wait of minutes, cancellation in the
  middle of any worker, operations that finish or fail after the call, and
  repetition after an interrupted run (`OneProber`, `ReadyIsProvisioned`,
  `NilMeansComplete`, `NoWorkerOutlivesStart`, `NetworkBeforeInstance`,
  `NothingBegunAfterFailure`, `StartReturns`).
- *Stop.* It decides by a listing that grows stale, may fail half-way and is
  repeated with other flags (`TerminatedIsStopped`, `ForgottenHasNoInstance`,
  `TeardownOrder`, `NilMeansStopped`, `KeptDiskSurvives`, `StopReturns`).
- *Commands.* The record and the cloud drift apart whenever a command dies or
  an update of the record fails; no instance may drop out of the record
  (`NoOrphans`, `DeletedIsGone`).
- *Metadata.* Concurrent read, change and write back (`KeysStay`,
  `DoneLetsIn`, `StartedIsInFirewall`).
- *Pricing.* A cache whose entries have no age, saved by concurrent commands
  through one temporary file; a choice among several SKUs in no fixed order
  (`QuoteIsGenuine`, `RefreshIsCurrent`).
- *Settings.* What a cluster was created with, what the profile says now and
  what an instance has are three things; a base block that is edited, a
  subnetwork that is kept and a rule that is rewritten are three more
  (`UpdateReachesAll`, `SubnetWithinBase`, `InternalTrafficAllowed`).
- *Profile.* A directory is moved away and filled again file by file, and one
  file of it is replaced by another command; each may be cut off
  (`NothingLost`, `CommandUsesWholeFiles`, `InstalledIsWhole`).
- *Display.* Four kinds of goroutine draw one block over itself
  (`NoRowLeftBehind`, `LinesStay`, `LastFrameIsLatest`, `DisplayStops`).

## The modules

    Lifecycle <- ClusterEntry <- StateStore <- StateStore_proofs
        ^             '--------- Gpunow, StateStore_proofs <- Gpunow_proofs
        |--- ClusterStart <- ClusterStart_proofs
        '--- ClusterStop  <- ClusterStop_proofs
    ReportedStates <= StateFile <- StateFile_proofs      (<= : implemented by)
    InstanceMetadata, ClusterSettings <- InstanceSettings_proofs
    CostEstimate, LiveDisplay <- EstimateDisplay_proofs
    Profile <- Profile_proofs

Each `MC*` module extends the module it is named after and declares the
symmetry of its run, where there is one. `StateStore_proofs` has the lemmas on
the operations of an entry and on the folds, which the proofs of `Gpunow` use
too. Two proof modules are about two components each, which share no variable:
what an instance is given (its settings; its keys and tags), and what
`create --estimate-cost` does (the estimate; the display that shows it).

**Lifecycle** has the instance states, the translation of Compute Engine's
statuses (`FromComputeStatus`) and both folds of instance states into a cluster
status: that of the store (`DeriveClusterState`) and that of status sync
(`AggregateStatus`).

**ClusterEntry** has one cluster's entry and each store operation as a function
from entry to entry (`RecordClusterStop` is `store.go:140-176`), with what
`load` normalises and adds (`LoadEntry`, `EnsureClusterInstances`) as part of
each. An entry is the status, whether `DeletedAt` is set, `NumInstances`,
keep-disks, and per index the state and whether an address is recorded. Times
are left out but for being set or not. `SyncEntry` is what status sync makes of
an entry and a listing.

**StateStore** is `state.json` as a function from cluster to entry; one action
per operation.

**StateFile** takes the other half of `store.go` and `clusterStateUpdateFn`:
how one process keeps the file. Each goroutine goes through lock, load,
open/truncate `state.json.tmp`, write, rename, return; each may fail, and the
process may be killed and started again between any two. What a report says is
reduced to its number. **ReportedStates** is the abstract register it
implements: a report replaces the reporter's own field in one step and is never
undone by an older one. `Refinement` maps the register to the content of the
file.

**ClusterStart** is `Service.Start`. `main` and `res` say where the calling
goroutine is (network resources 1..`NumResources` in order, each got, inserted
or patched, and waited for), `pc[w]` where worker `w` is, one action per call.
`groupCtx` is `cancelled`: once it is set, every call of a worker fails at its
next check. Compute Engine is `inst` and `resource`, with operations that finish
or fail after the call that began them, and instances that are stopped or
deleted by themselves, as their termination action says; the instance has
`serving` (the sentinel's port answers) and `setup` (its state file), with the
unit order of `cloud-init.yaml`. `recorded` is what was last reported of an
instance; that a report may not be written is in `Gpunow`. `Faults` names what
may go wrong in a run: calls, operations, the setup, preemption, time-outs,
kills.

**ClusterStop** is the stop command: `resolveStopKeepDisks`, the refusals,
`Service.Stop` with its workers, auto-delete of disks, the teardown, and what
the command then records or forgets.

**Gpunow** composes `ClusterEntry` with the commands: create, start, stop,
delete, update and status sync one after the other in one terminal, ssh in a
second, and instances that boot, provision, are preempted or are deleted. Here
a call to Compute Engine and an update of the store are atomic; their insides
are the modules above. An update may fail: the commands only log or print that
and go on (`commands.go:330`, `379-387`, `644-646`, `677`, `684`). `unrecorded`
is a history variable: the instances that a start took on while they were not on
record (or the cluster was marked deleted) and whose STARTING report failed,
until something that puts them on record is written.

**InstanceMetadata** has commands that edit one instance at the same time; a
write is refused unless the reading it is made of is still current.

**ClusterSettings** follows a setting from where it is given to the instance
that has it. The profile has a termination action, a maximal run time and the
base block; `create` records overrides; `start` reads both once
(`EffectiveAction`, `EffectiveHours`), derives the range of the cluster
(`DeriveSubnetCIDR`, in arithmetic modulo `Space`, 2^32 in the code; a prefix
is given as the size of its block), makes or keeps the
subnetwork, makes or rewrites the internal rule, and launches. `update` is the
whole of `Service.Update`: the listing, a worker for each TERMINATED instance,
their cancellation, the wait, the record. The profile may be edited between any
two steps of any command. `madeFrom` and `edited` are history variables.

**Profile** is a profile as its files, each of them a version: shipped, torn, or
one the user has saved. `install` goes through the binary (opened with
`O_TRUNC`, then copied), the move of the old profiles to a backup named by the
second, the directories, and the files in the order of their names, each opened
and then copied; `exe` says whether it is the installed binary that runs, which
is then its own source. `config` goes through its temporary file and the rename;
a command that works with a cluster takes what `config.Load` accepts.
`Interrupt` is a kill or an error return, at any step. `kept` is a history
variable.

**CostEstimate** has commands that estimate at the same time: load, look up,
fetch and resolve, save, price. `Resolve` follows `resolveSelector`: the
candidates in the order of the listing, sorted by score (usage type, and two
points for a description that names the region) and then by SKU, the second of
them compared with the first; `RightPrice` says what it is for, without an
order: the price of the one SKU that scores more than any other. A save opens
and truncates `pricing-cache.json.tmp`, writes it and renames it, each a step
between which other commands do the same: `fd` is what the file a command has
open has become, and a file may be empty or torn. `offered` and `since` are
history variables that hold what was the right price when.

**LiveDisplay** has the terminal as a sequence of rows and a cursor; a drawing
is one step per row. The three mutexes are one variable, `writer`: a drawing
takes `writeMu` and then the display's own mutex and holds both to its end, and
the other sections that take the latter are single steps that need it free.
`split.mode` stands for the two booleans `active` and `rendered`: the display is
off, live, or live and drawn.

## The runs

All finish; states are distinct states (under symmetry their number varies a
little).

| Run | Configuration and bounds | States | Shows |
|---|---|---|---|
| `store` | `MCStateStore`: 1 cluster, 2 instances | 8,736 | The three store invariants after any sequence of operations, with any listing given to status sync. Entries of different clusters never touch, and the instances of one enter the folds as a set of states, so that one cluster and two instances show each combination of two states. |
| `file` | `MCStateFile`: 2 instance goroutines, 2 reports each, I/O errors and kills | 117,580 | The file is whole, written reports stand, the register is implemented, and every report ends. |
| `start` | `MCClusterStart`: 2 instances, 3 resources, every fault | 330,129 | Start under all interleavings and faults, repeated at will. |
| `stop` | `MCClusterStop`: 2 instances, 2 firewall rules, every fault | 99,544 | Stop likewise, with every combination of flags from run to run. |
| `commands` | `MCGpunow`: up to 2 instances, ssh to the first | 931,512 | No instance is lost from the record, and no cluster is marked deleted that has one, but by a start that could not write its first report. |
| `settings` | `MCClusterSettings`: 2 instances, 2 run times, 16 addresses, 4 bases, 3 edits or creates | about 1.46 million | An update that ends well has reached its instances; the subnetwork lies in the base block; the internal rule is for the subnetwork. |
| `profile` | `MCProfile`: 2 backups, 2 edits | about 3.6 million | Nothing the user saved is lost, no command works with a torn file, and an install that ends well is whole (its binary, unless it was itself the source). |
| `display` | `MCLiveDisplay`: 2 workers, 2 lines | 103,030 | The block on the terminal is intact between drawings; the last frame is the latest; the display ends. |
| `keys` | `MCInstanceMetadata`: 2 commands, 2 keys, 3 tags | 153,310 | Nobody's key is lost; whoever goes on has key and tags. |
| `estimate` | `MCCostEstimate`: 2 commands, 3 prices, one of them in an unknown unit, 5 SKUs, 3 catalogues at first, 1 change | 635,446 | Every quote is genuine, and current under `--refresh`. |

Two instances (goroutines, commands) are the fewest for which the mutex, the
barrier, the cancellation of one by another and the lost update can occur; a
third meets nothing that the second does not, because no code distinguishes them
but by their own index. Three network resources are a first, a middle and a last
one, of which one is a firewall rule (patched when it exists). Two lines printed
are one into a block already drawn and one after the block has grown or closed.
In `estimate`, two Spot SKUs compete with equal score, a Preemptible one that
names the region is ranked above them, one belongs to another usage, and the
catalogue is listed in two opposite orders; at first all have a price, or the
Preemptible one has none, or one of the two Spot SKUs has none either, so that
the one change leads into a tie, out of it, and from one best SKU to another. In
`settings` the bases are the whole space, half of it, exactly one subnetwork and
one that is too small; the one hash takes the last subnetwork of each, which is
where an offset too large by one leaves the base. Three edits or creates are
enough to create a cluster, to edit the base, and to create it again after it
was forgotten. In `profile` the second backup is the one whose second comes
twice, and two edits are one that a backup holds and one that is made after it.

`commands` and `estimate` have a `VIEW`, which makes two states one when no later
step and no property tells them apart: it leaves out what no guard reads of an
entry or a listing, and which prices an estimate has once they are known to be
right (both are argued in the MC modules).

Where deadlock is not checked (`display`) the program ends.

### Runs that find a disagreement

| Run | Finds |
|---|---|
| `start_faultfree` | With no fault at all Start fails if its first probe falls between the start of the sentinel server and the first write of its state file (`cloud-init.yaml:120-121`): the server then says `error`, which ends the wait. |
| `update_action` | `update --max-hours` sets the scheduling with the termination action of the profile (`builder.go:156-158`): an instance of a cluster created with `--gcp-termination-action STOP` becomes one that is deleted when its time is over. |

Each is checked with bounds, or without faults, such that the trace is as short
as it can be.

### Other deviations

The models show these too; no run is spent on them, and where a property would
say the contrary it names them as its exception.

- `stop --delete` that finds no instance ends well, leaves the network, the
  subnetwork and the firewall rules (`service.go:344-350`) and forgets the
  cluster, against "optionally delete all resources" (`src/README.md:34-36`).
  In `ClusterStop` this is `List` with nothing listed.
- A plain `stop` of a cluster created with `--keep-disks` is refused
  (`commands.go:404`, `service.go:332`), though the flag is for deletes
  (`commands.go:83`). In `ClusterStop`: `Refuses`.
- After status sync has recorded a running instance as READY
  (`lifecycle/state.go:38`), ssh connects without waiting for its setup, against
  `src/README.md:171`. In `Gpunow`: `SshGate`.
- STARTING is recorded before the instance is looked at (`service.go:207`), over
  READY too, against the order of `src/README.md:165`.
- A base with host bits (`10.0.1.0/8`) gives ranges that begin there and may
  reach past the block: `DeriveSubnetCIDR` adds to the address as written, not
  to the masked one. `SettingsAssumption` excludes such bases.
- After an edit of the base a start keeps the subnetwork and rewrites the
  internal rule for the newly derived range (`service.go:701`, `805`): the
  instances can no longer reach each other. `InternalTrafficAllowed` excludes
  these states (`edited`).
- A report that cannot be written is only logged (`commands.go:644-646`,
  `677-686`), and the worker goes on to insert or boot its instance. After
  `start -n 2` on a cluster of one, whose first report of the second instance
  failed, that instance is off the record; on a cluster marked deleted, the mark
  stays though it has an instance again. A status sync puts both right.
  `NoOrphans` and `DeletedIsGone` except just these (`unrecorded`).
- The hours of an update are in no record: an instance that is deleted and made
  again has the old ones. `RecordClusterStart` writes back the overrides loaded
  when the command began (`commands.go:330-334`) and undoes a create made since.
- A report raises `NumInstances` to the number of recorded instances
  (`store.go:253`): after a smaller create, a start that fails makes the next
  one boot the old number.
- Two estimates at a time: the later save writes back prices loaded before the
  other refreshed them (`estimate.go:135`). A price in an unknown unit is cached
  before its unit is looked at (`estimate.go:154`).
- They also share `pricing-cache.json.tmp` (`cache.go:102-108`): the one renames
  what the other has just truncated, and is killed or out of disk space before
  it is written, or both have written into it. The cache is then empty or torn,
  and every later estimate, `--refresh` or not, ends with "parse pricing cache"
  until somebody removes the file. In `CostEstimate`: `LoadCache` is not enabled.
- A Preemptible SKU whose description names the region scores 4 (2 and 2), a Spot
  one that does not 3 (`estimate.go:411-418`, the point for the group being
  equal), so that it is quoted although the test is called "prefers spot over
  preemptible when both match" (`estimate_test.go:170`; there both name the
  region). `RightPrice` is by score, as the code is.
- The empty line that ends an estimate is written without the lock
  (`cost_estimate.go:120`).
- `install` run from the installed binary itself opens its own file with
  `O_TRUNC` (`install_cmd.go:60,178`). Linux refuses this; where it is allowed
  the binary is emptied, and the command ends well. In `Profile`: `exe`;
  `InstalledIsWhole` speaks of the binary only when another one is the source.

## Fairness

Safety needs none. The liveness properties `ReportEnds`, `StartReturns`,
`StopReturns` and `DisplayStops` are checked under `FairSpec`:

- *weak fairness of every goroutine's own steps*: the Go scheduler runs every
  goroutine that can run;
- *strong fairness of taking a mutex* (`StateFile`, `LiveDisplay`): a
  `sync.Mutex` hands itself to a waiter that has waited for 1 ms. `Start` needs
  only weak fairness there, since the holder of `readinessMu` does not take it
  twice;
- *strong fairness of the ticker's end* (`LastTick`): `select` chooses among
  the ready channels at random, so that a closed channel is not passed over
  forever;
- *weak fairness of Compute Engine*: an operation that was begun ends, well or
  not. An instance's setup need not end: `WaitForReady` has a time-out, which
  is a step of the worker (`ProbeFails`);
- nothing makes anybody begin a command, kill one, or change a price.

## What is proved

For every number of clusters, instances, goroutines, reports, resources,
firewall rules, commands, keys, tags, backups, edits, workers and lines, for
every address space, catalogue and ranking of its SKUs, from the named
assumptions on the constants only. Of these two say more than the type of a
constant. `SettingsAssumption`: the sizes of blocks divide one another, as
powers of two do, and a base has no host bits. `CostEstimateAssumption`: a
listing names each SKU of a finite catalogue once, and no two have the same ID.

| Module | Theorems | Inductive invariant |
|---|---|---|
| `StateStore_proofs` | `StoreConsistent`, `StoreTypeCorrect`, `DeletedAlwaysMarked`, `ReadyAlwaysSettled`, `TerminatedNeverAddressed` | `EntriesOK`: the type of each entry and the three properties. The argument is in the lemmas on `DeriveClusterState`, `AggregateStatus` and `EnsureClusterInstances`: each operation ends in a fold of the states it leaves, and filling in missing instances adds only TERMINATED ones. |
| `StateFile_proofs` | `FileConsistent`, `TypeCorrect`, `AlwaysComplete`, `WrittenReportsStand`, `ImplementsRegister` | `FileInductive`: at most one goroutine is between load and rename, and what it loaded is what the file holds. Needed because a report stands only if nobody else's older copy is about to be renamed over it. |
| `ClusterStart_proofs` | `TypeCorrect`, `Inductive`, `MutualExclusion`, `ReadyIsSafe`, `NilIsComplete`, `WorkersJoined`, `NetworkFirst`, `FailureStopsCalls` | `InductiveInv`: the mutex is held exactly by the prober; workers run only during the join; the resources before the current one exist; a worker past its probe has an instance whose setup is complete. |
| `ClusterStop_proofs` | `StopConsistent`, `TypeCorrect`, `TerminatedAlwaysStopped`, `ForgottenAlwaysEmpty`, `TornDownInOrder`, `NilIsStopped`, `DisksSurvive` | `StopInv`: an instance without a worker does not exist, one whose worker is through is stopped or deleted, and past the join none has failed; the resources before the current one are gone, and with the first of them every instance; a disk that is to be kept is set so before its instance is deleted. The last is what `DisksSurvive` needs, and holds because auto-delete is set in every delete, whatever an earlier run has set. |
| `Gpunow_proofs` | `CommandsConsistent`, `TypeCorrect`, `NeverOrphaned`, `DeletedAlwaysGone` | `CommandInv`: a start reports an instance before it boots it, and one that is not on record then is `unrecorded`; nothing comes into being after a stop, a delete or a sync has listed what there is; a delete that is through with an instance has deleted it. With the lemmas on what each store operation keeps of an entry (`StateStore_proofs`) a step either keeps what is on record or forgets what is gone. |
| `Profile_proofs` | `ProfileConsistent`, `TypeCorrect`, `NothingEverLost`, `OnlyWholeFilesUsed`, `InstalledWhole` | `ProfileInv`: in every profile a torn file is the last required one, since a copy goes in the order of the names into a new, empty directory; half-way through a copy the files gone over are the source's and those left are missing. So whatever is complete has at most its last file torn. The binary is whole once it has been copied from another one. |
| `InstanceSettings_proofs`: keys and tags | `MetadataConsistent`, `MetadataTypeCorrect`, `DoneIsLetIn`, `InFirewall`, `KeysNeverLost` | `MetadataInv`: what a command has read of the keys and of OS login has only grown since, and a tag set that was complete when read still is. |
| `InstanceSettings_proofs`: settings | `SettingsConsistent`, `TypeCorrect`, `UpdateAlwaysReaches`, `SubnetAlwaysWithinBase`, `TrafficAlwaysAllowed` | `SettingsInv`: a worker of an update that is through has set the hours of its instance, if that still exists, and each listed one has a worker; the subnetwork, or the one a start is about to make, is derived from the base it was made from, which is the profile's unless that was edited; the rule does not outlive the subnetwork. So a start that finds the subnetwork derives its range again, and makes the rule for it. `SubnetWithinBase` is a fact about `DeriveSubnetCIDR` alone: the index is below the number of subnetworks, so neither the product nor the sum wraps around. |
| `EstimateDisplay_proofs`: estimate | `EstimateConsistent`, `EstimateTypeCorrect`, `QuoteAlwaysGenuine`, `RefreshAlwaysCurrent` | `EstimateInv`: the cache, and what is in a temporary file that may yet be renamed, was right at some time or does not parse, whoever wrote it through whichever open file; a command that has looked has found every price, and one that refreshes only such as were right since it began. The core is `ResolveRight`: in whichever order the candidates are listed, if the first two of the sorted ones differ in score then the first beats every other one, and if they do not, nothing is resolved. |
| `EstimateDisplay_proofs`: display | `DisplayConsistent`, `DisplayTypeCorrect`, `LinesAlwaysStay`, `NoRowEverLeftBehind`, `LastFrameAlwaysLatest` | `DisplayInv`, below. |

The argument about the display. At each moment there is a row, `Above`, below
which the block begins, and the first `Depth` rows of the block are drawn anew;
both can be told from the cursor, the height drawn last and what the one drawer
has still to draw (`OneDrawer`, `Geometry`). A drawing moves neither `Above` nor
a row up to it, though the block has grown since it was last drawn, because the
cursor goes up by the old height, and a line moves both by one. So lines stay
above it (`LinesAbove`) and the rows of the stage below (`RowsBelow`); when
nobody draws, this is `NoRowLeftBehind`. That the last frame is the latest needs
the order of the end: once `TaskList.done` has been seen no worker runs and
nothing is marked, and the ticker cannot end but by drawing what it has rendered
since (`Control`, `LastDrawing`). The empty line that ends an estimate moves
`Above` without the lock, even in the middle of a drawing. Lines still stay, for
it moves down; but the rows of the block no longer begin below `Above`, which is
why `RowsBelow` excludes these moments.

`ImplementsRegister` is the refinement of `ReportedStates` by `StateFile`: the
initial states map to initial states, and only the rename is a step of the
register, every other one a stutter.

Only model-checked: the liveness properties `ReportEnds`, `StartReturns`,
`StopReturns` and `DisplayStops`, since liveness under fairness is out of the
prover's reach. Every other property of a passing run is a theorem. `TypeOK` is
an invariant of a run for `LiveDisplay` alone, where it says that the cursor
stays on the terminal; of the other modules it is proved.

## Assumptions and abstractions

- One process at a time keeps `state.json` (`StateFile`, `StateStore`). The code
  does nothing to keep two apart: they share `state.json.tmp` and load and save
  unlocked. `Gpunow` has a second terminal (ssh) and a status sync whose load
  and save are apart, each update of the file being atomic.
- Compute Engine is taken to do what its API says of operations and
  fingerprints. Its refusal to delete a resource in use is left out of
  `ClusterStop`, so that `TeardownOrder` is the program's own merit.
- Waiting for an operation of Compute Engine that failed is taken to return an
  error.
- An address is recorded or not; which address it is does not matter to any
  property.
- `ClusterSettings`: one cluster command at a time; an instance is launched,
  stopped or deleted in one step, the workers of Start and Stop being in the
  modules of their own. Of the settings the maximal run time and the termination
  action are modelled; machine type and disk size take the same way. The hash of
  the cluster's name is a constant.
- `Profile`: one process at a time, and no loss of power (no file is
  synchronised); an error that only `Close` reports, which the code ignores
  (`install_cmd.go:182`), does not occur. Only the profile `default` at the
  default root: `GPUNOW_HOME` is unset (install does not look at it). A torn
  `config.toml` may load, for all that comes after `[disk]` is optional; it is
  taken to do so, which is the worse case. `os.Rename` refuses a directory that
  exists.
- `InstanceMetadata`: the user has a key, and nobody deletes the instance
  meanwhile. The owner adds keys and tags but takes none away.
- `CostEstimate`: one region, machine type and disk type; tokens match or do
  not. An empty file does not parse, nor one with the end of a longer one
  after it; one cut off, or mixed of two half-done writes, is taken not to.
- `LiveDisplay`: the terminal is tall enough for the block and wide enough for
  every line: one that wraps takes two rows, and the count of the moves up,
  which is of lines (`live_split.go:109-113`), is then too short. Each goroutine
  makes one call. From the empty line that ends an estimate, which takes no lock
  (`cost_estimate.go:120`), until the display is closed a row may be left
  behind, and `NoRowLeftBehind` says nothing of these moments.

## Not modelled

- `vm/service.go` and the VM records of the store: no command reaches them.
  What the service does is what the cluster service does, for one instance and
  without goroutines.
- `Show`, status display, formats, logging: they read and print.
- scp's copying: its resolution of the target and its key are those of ssh in
  `InstanceMetadata`.
- The instance builder but for scheduling, metadata and keys; validation of
  configuration values, argument parsing, SSH identities: translations without
  state.
- Zones: every instance is taken to be where the profile says. The code looks
  nowhere else, so that `config --gcp-zone` loses sight of a cluster.
- Two processes at a time on one `state.json` or one profile: the code has
  nothing to keep them apart.
- `LiveArea`: reached only by a task list outside a live split, of which there
  is none.

## Plan

The order so far was by importance: the record (`ClusterEntry`, `StateStore`),
how it is kept (`StateFile`), the two long-running services (`ClusterStart`,
`ClusterStop`), their composition (`Gpunow`), what runs beside them
(`InstanceMetadata`, `CostEstimate`, `LiveDisplay`), what they are configured
with (`ClusterSettings`, `Profile`); proofs in the same order.

What would come next:

1. `ClusterStart` and `ClusterStop` as implementations of the steps that
   `Gpunow` takes at once.
2. `VmService`: start, stop and update of single instances, if a command comes
   to reach them.
3. The zone as a part of the profile in `ClusterSettings`, if the code comes to
   record it.
