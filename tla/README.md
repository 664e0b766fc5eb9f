# A TLA+ model of the evroc CSI driver

The driver connects Kubernetes to the evroc compute API: a controller service
creates, attaches, resizes and deletes disks by REST requests, and a node
service on every worker formats, mounts and bind-mounts the attached devices.
This directory models the parts in which several actors and several failures
meet, checks them with TLC, and proves with TLAPS every safety property that the
passing runs check.

## Inventory of the system

| Component | State it keeps | Operations | What is hard |
| --- | --- | --- | --- |
| Controller service, attach path (`pkg/controller/controller.go`) | one mutex per node (`nodeLocks`); everything else is in the API | ControllerPublishVolume, ControllerUnpublishVolume, DeleteVolume, `retryOnTransient` | handlers overlap; the lock is per node, a disk is not; a check in one request, the act in a later one |
| Controller service, provisioning | none | CreateVolume, ControllerExpandVolume, `capacityFromRange` | repeated and conflicting requests; sizes are cut to int32 |
| SDK storage backend (`pkg/evroc/sdk/storage.go`) | none; ownership labels and disks are in the API | EnsureDiskCreated/Deleted/Resized, EnsureAttachmentCreated/Deleted, WaitForAttachmentSerial, eviction of a stale attachment | the API works asynchronously; answers get lost; several clusters share a project |
| Node service (`pkg/node/node.go`) over `pkg/filesystem/unix.go` | none; mounts are in the kernel, data on the device | NodeStage/Unstage/Publish/UnpublishVolume, NodeExpandVolume, NodeGetVolumeStats | no lock; mkfs and RemoveAll destroy data if a check before them was wrong; crashes between syscalls |
| Listing and capacity (`controller.go`) | none | ListVolumes, GetCapacity | pages of a list that changes; two lists read one after the other |
| Metrics (`pkg/metrics`) | gauges and counters | handlers move the attachment gauge, a ticker sets it | two writers, one of them with an old count |
| Driver life cycle (`pkg/driver`, `cmd/`) | socket, gRPC server, goroutines | main, NewDriver, Run, Stop, signals | two receivers of one signal; errors in a goroutine; what a killed process leaves |
| Configuration (`pkg/config`) | constants after start | LoadFromPath, defaults, validation | two readings of the mode; numbers that must be positive |
| Identity, version, request validation | none | constant answers, checks of strings | nothing concurrent |

The orchestrator's sidecars (external-provisioner, -attacher, -resizer) and the
kubelet call the services by gRPC, repeat a call that failed or whose answer
they did not get, and hand the serial that ControllerPublishVolume returns to
NodeStageVolume. Controller and node service share no memory; they meet only in
the API's attachments and the device that appears on the VM.

What makes each part correct: a disk is on one VM at a time and stays there as
long as the orchestrator relies on it; a VM holds no more disks than its limit;
nothing of another cluster is touched; success means that the effect is in
place; every call ends; data on a volume is never destroyed; a pod sees its
volume and, if it asked so, read-only; a released volume is not in use; what an
expansion promises reaches the filesystem; a listing is complete and ends; the
gauge comes to the truth; a process serves with all it needs or ends with an
error, ends when asked to, and serves again.
`PROJECT.json` lists the hazards line by line.

## Modules

| Module | Models |
| --- | --- |
| `Errors` | status codes: `isTransientError`, `sdkErrorToGRPC` |
| `ExclusiveAttach` | abstract: a disk has at most one holder, moves only through having none, and an acknowledged holder keeps it until asked away |
| `Attach` | publish, unpublish and delete handlers with node lock, retries, API, late requests, another cluster, crashes |
| `Provision` | create, expand and delete of one volume name with the sizes in spec and status |
| `Expansion` | extends `Provision`: the composition with NodeExpandVolume, the filesystem's size and the mounts that a restarted plugin does not see |
| `NodeVolume` | stage, unstage, publish, unpublish and statistics of one volume on one node, mounts, device content |
| `Config` | operators: loading, defaults, validation of a configuration and what is derived from it |
| `Lifecycle` | extends `Config`: main, NewDriver, Run and Stop, signals, calls in service, restarts |
| `Inventory` | ListVolumes by pages and the gauge of attachments, while volumes come and go |
| `MCAttach`, `MCProvision`, `MCNodeVolume`, `MCLifecycle`, `MCInventory` | instances for TLC |
| `AttachProofs`, `AttachLimitProofs`, `AttachIsolationProofs`, `AttachSafetyProofs` | theorems about `Attach`: types and the node lock; the limit; other clusters; the rest and the refinement of `ExclusiveAttach` |
| `ProvisionProofs` | theorems about `Provision` and `Expansion` |
| `NodeVolumeProofs`, `LifecycleProofs`, `InventoryProofs` | theorems about the modules of those names |

**Attach.** Every API request of a handler is one step; `pc[c]` names the next
request of handler `c`. `disk`, `att` and `foreign` are the API's objects: an
attachment is `pending` after POST, then `ready`, and `deleting` after DELETE
until it is gone. `foreign` are the attachments with another cluster's label,
which no list of this driver shows. `lock` is `nodeLocks`, `tries` the attempt
of `retryOnTransient`, `victim` the VM from which the eviction removes the disk.
A mutating request fails without effect, takes effect and loses its answer, or
is given up in transit (`late`, at most `MaxLate` of them) and may be applied at
any later time. `published` is history: the attachments acknowledged and not
asked away since. Backoff delays, metrics and logs are left out. The API accepts
a POST for any existing disk, also if another VM has it: nothing in the driver
relies on a refusal. `SerialPerVolume` says whether the orchestrator waits for a
call before the next one for the same volume. Access modes are not in the
state: SingleHolder, PublishedStaysAttached and the contract of
`ExclusiveAttach` are what the code claims for every mode, and are right for all
but ReadOnlyMany, for which the documents promise several nodes at once.

**Provision.** `disk.spec` is what was asked for, `disk.size` what the device
has, `disk.status` how the API reports it: an amount and a unit, exact or
rounded down, `NoReport` at first. `capacityFromRange` and `diskSizeToMB` keep
the width of their int32: `Unit` bytes are a MiB, `Factor` leads from one unit
to the next, and an int32 is from `-HalfRange` to `HalfRange - 1`. The
orchestrator does not use a name again after a deletion (names carry a UID),
asks for no less than it was promised, and only an expansion may overlap a
deletion. `acked` and `grown` are history.

**Expansion.** Adds the node of the volume: `fs` is the size of its filesystem,
`visible` whether the plugin's `/proc/mounts` has the mount, which a restart may
change, `npc` the next step of NodeExpandVolume. The kubelet expands on the node
what the controller has acknowledged, with or without the volume's capability.
The device is found through the mounts or through the VolumeAttachment;
`resize2fs` takes the device and `xfs_growfs` the mount. `usable` is history.

**NodeVolume.** Every syscall or command is one step. `stg` counts the mounts
stacked on the staging path, `tgt[p]` is the stack of mounts on the target of pod
`p`, each showing the volume or the host's own directory, writable or not.
`content` is what blkid, fsck and mount make of the device, `written` whether a
pod has stored data, `lost` whether the driver has destroyed it. `kst` and `kpub`
are what the kubelet knows ("maybe" after a call that failed or vanished).
`Fallible` names the checks that may fail by themselves. mkfs and fsck refuse a
mounted device, and a RemoveAll under a writable mount empties the volume. The
kubelet makes one call at a time for a volume; with `RepeatsOverlap` it may
repeat one whose handler still runs. `stat` is the handler of
NodeGetVolumeStats, which may overlap any of them: `saw` is what statfs was
about, `answer` what the call said of the volume's health.

**Config and Lifecycle.** A configuration keeps what the start tells apart:
credentials, the two keys of the project, the identifier, the limit, and the
numbers that must be positive. `main`, `run` and `stop` are the places of the
three goroutines, `sigMain` and `sigRun` the two signal channels, `errChan` what
Run has returned, `socket` the socket's file, which outlives a process. Every
step of the start may fail. `call` are gRPC calls in service, which need not
end. A signal that comes before `signal.Notify` kills the process. The two
readings of the mode, main's and NewDriver's (an empty mode is every mode), are
kept apart.

**Inventory.** A behaviour has one observer, a client that pages through
ListVolumes or the collector of the gauge, since neither changes what the other
reads. Volumes are numbers in the order in which the API lists them, a page is
the part of the list whose indexes it has, a token an index. `lister.base`,
`seen`, `steady` and `shrunk` are history. Attach, detach and deletion are one
step each, as `Attach` and `Provision` have their details; a success moves the
gauge some time after its request took effect, and once more when it is
repeated. `calm` says that no more attaches, detaches and restarts come.

## Runs

| Run | Shows |
| --- | --- |
| `attach_serial` | two disks, two VMs, limit 1, two handlers, one retry, calls of one volume in sequence: SingleHolder, PublishedStaysAttached, SuccessMeansGone, NodeLockExcludes, NodeLimit, DeleteSparesAttached, and that `Attach` implements `ExclusiveAttach` |
| `attach_isolation` | a disk and a VM of another cluster, one late request; neither handlers nor what they leave in transit touch them: OtherClustersUntouched, OtherClustersVMsUntouched |
| `attach_live` | two handlers for one disk and one VM: EveryCallReturns |
| `attach_retry_at_limit` | violated: RepublishIsIdempotent |
| `provision` | creation, expansion, deletion and expansion on the node, ext4, xfs and raw: AckedVolumeKept, ExpandedDeviceGrown, ExpansionReachesUser, OtherClustersDiskUntouched |
| `node_volume` | both kinds of volume, a writing and a read-only pod: DataNeverDestroyed, PublishedShowsVolume, ReleasedMeansUnused, HealthyMeansVolume |
| `node_probe_error` | violated: DataNeverDestroyed, if blkid may fail |
| `node_repeat` | violated: DataNeverDestroyed, if a publish is repeated while its handler runs |
| `node_read_only` | violated: ReadOnlyIsReadOnly, after a crash |
| `lifecycle` | five modes, seven files, two calls: ServicesHaveWhatTheyUse, CleanExitWasAsked, SignalEndsProcess, StartServesOrEnds, ServesAgain |
| `inventory` | three volumes, pages of one, two and all entries: ListingComplete, ListingEnds, GaugeConverges |
| `inventory_published` | violated: AttachedShown |

NodeLockExcludes and NodeLimit hold for calls that overlap freely as well, also
on one volume: that is what `NodeLockExclusion` and `NodeLimitKept` prove.

The violations are disagreements between the code and what its comments, tests
or documents say; `PROJECT.json` quotes both sides under "findings". In short:
the limit check counts the volume's own attachment; a failed blkid counts as
"never formatted"; a publish repeated while its handler runs mounts twice, and
the unpublish deletes through the second mount; a target that was bound but not
yet remounted read-only counts as published; ListVolumes looks up names in a
map of references, so that it never reports a node.

Outside the runs the model shows more, mostly in environments that differ from
the runs' only in a constant: with `SerialPerVolume = FALSE` two publishes of one
disk to two nodes take different locks and break SingleHolder; with
`MaxLate = 1` a create that arrives late breaks NodeLimit and SingleHolder; with
`"mounts"` in `Fallible` RemoveAll can run over a live mount. A publish to a
second node takes the disk away from the first, acknowledged or not, whatever
the access mode, while `README.md:57`, `docs/ARCHITECTURE.md:273` and
`docs/SEQUENCE_DIAGRAMS.md:152` say that a ReadOnlyMany volume is on several
nodes at once: "an acknowledged attachment stays unless it is unpublished" is
false already with one disk, two VMs and calls in sequence. An API that rounded
a size up when it reports it in GiB would let an expansion succeed that the
device has not reached. A smaller size asked for right after a creation passes
the shrink check, which looks only at the reported size. A deletion between two
pages of a listing hides a volume that stayed. A stop cuts off the calls in
progress, as main does not wait for GracefulStop.

Reading for the model brought up some more, which no run is about: the node
plugin uses NewWithDefaults whatever is mounted, so it advertises 128 volumes,
while `docs/CONFIGURATION.md:199` says that `csi.maxVolumesPerNode` can be
enabled by mounting the Secret; the comment at `config.go:40` calls 0 unlimited,
while 0 becomes 128; the one at `config.go:143` says 60 seconds for a default of
30; an existing disk is accepted whatever its zone; the identifier falls back to
`evroc.project` but not to `context.project`, and is empty for a file that has
only the latter.

**Bounds.** Two handlers are enough for each race of a check and an act; two VMs
for every move of a disk; two disks and limit 1 for one publish taking the slot
another has counted. One retry distinguishes a first attempt from a repeated
one; the retry at the limit and the exhaustion of attempts both happen. In
`NodeVolume` two pods give a shared staging mount, and stacks of two mounts show
every effect of stacking. The sizes in `MCProvision` are rounded up, exact by a
limit only, empty, and one that becomes negative as an int32; with `HalfRange =
8` and `Factor = 2` every unit can report some of them, and 3 MiB are reported
as 1 GiB, which is 2 MiB. The files of `MCLifecycle` are a documented one, the
deprecated form, negative numbers, and one for each refusal of Validate. Three
volumes give first, middle and last pages; `MaxDrift = 4` lets the gauge leave
the range of true counts on both sides (it must cover the collector's own
count). Symmetry is used over calls, disks and VMs where they are
interchangeable, never with liveness.

**Deadlock** is checked in every run: the orchestrator can always call again.

**Fairness.** `attach_live`: weak fairness for the steps of each handler:
a goroutine is scheduled, each request and each wait has a timeout and is one of
the alternatives of a step. Strong fairness for `acquireNodeLock`: a Go mutex in
starvation mode hands over to the waiter, so a waiter gets a lock that is freed
again and again. Nothing is assumed of the API, whose steps need not happen.

`lifecycle`: weak fairness for each goroutine and for the restart, which the
kubelet makes. Strong fairness for each step of the start to succeed: what is
tried in process after process does not fail, and no signal comes in, every
time. Only ServesAgain needs it. No call is assumed to end and no signal to come.

`inventory`: weak fairness for the collector, which a ticker drives, and for the
client that holds a token; strong fairness for the two lists, so that they do
not fail every time. Handlers, volumes and the API are not fair.

## Proofs

Every invariant, every action property and the refinement that a passing run
checks on its small instance is also proved, for every value of the constants
that satisfies the ASSUMEs of the modules. Each proof has the same shape: an
inductive invariant, which TLC checked on the run's instance first; lemmas that
reduce each handler step to what it can do to the state; one lemma per action;
and the theorem from those BY PTL.

| Theorem | Property | Assumes |
| --- | --- | --- |
| `AttachProofs!TypeCorrect` | `TypeOK` | |
| `AttachProofs!NodeLockExclusion` | `NodeLockExcludes` | |
| `AttachLimitProofs!NodeLimitKept` | `NodeLimit` | `MaxLate = 0` |
| `AttachIsolationProofs!VMIsolation` | `OtherClustersVMsUntouched` | |
| `AttachIsolationProofs!DiskIsolation` | `OtherClustersUntouched` | |
| `AttachSafetyProofs!OneHolder` | `SingleHolder` | `SerialPerVolume`, `MaxLate = 0` |
| `AttachSafetyProofs!PublishedStays` | `PublishedStaysAttached` | the same |
| `AttachSafetyProofs!SuccessIsTrue` | `SuccessMeansGone` | the same |
| `AttachSafetyProofs!AttachedNotDeleted` | `DeleteSparesAttached` | the same |
| `AttachSafetyProofs!AttachImplements` | `ImplementsExclusiveAttach` | the same |
| `ProvisionProofs!OtherDiskSafe` | `OtherClustersDiskUntouched` | |
| `ProvisionProofs!PromisedVolume` | `AckedVolumeKept` | `SizesFit` |
| `ProvisionProofs!DeviceGrown` | `ExpandedDeviceGrown` | `SizesFit` |
| `ProvisionProofs!ExpansionExtends` | `ExpansionSpec => Spec` | |
| `ProvisionProofs!ExpansionTypes` | `ExpansionTypeOK` | |
| `ProvisionProofs!UserHasCapacity` | `ExpansionReachesUser` | `SizesFit` |
| `NodeVolumeProofs!NodeTypes` | `TypeOK` | |
| `NodeVolumeProofs!DataSafe` | `DataNeverDestroyed` | `ChecksReliable` |
| `NodeVolumeProofs!PodSeesVolume` | `PublishedShowsVolume` | `ChecksReliable` |
| `NodeVolumeProofs!ReleasedIsUnused` | `ReleasedMeansUnused` | `ChecksReliable` |
| `NodeVolumeProofs!HealthyIsVolume` | `HealthyMeansVolume` | `ChecksReliable` |
| `LifecycleProofs!LifecycleTypes` | `TypeOK` | |
| `LifecycleProofs!ServicesEquipped` | `ServicesHaveWhatTheyUse` | |
| `LifecycleProofs!CleanExit` | `CleanExitWasAsked` | |
| `InventoryProofs!InventoryTypes` | `TypeOK` | |
| `InventoryProofs!ListingMissesNothing` | `ListingComplete` | |

**The assumptions** are about the environment, and each is needed: TLC finds a
counterexample without it. `SerialPerVolume` is what the external-attacher does;
without it two publishes of one disk to two nodes take different locks, and a
publish can attach a disk between DeleteVolume's check and its DELETE. So the
theorems that assume it say nothing of those races: they are about what failed,
retried and crashed calls leave to the next one, and about calls for different
volumes.
`MaxLate = 0` says that the API applies no request that its sender gave up; the
driver has no defence against one that it does. `SizesFit` says that no capacity
becomes a *smaller positive* number when it is cut to an int32; one above 4 PiB
does, and an expansion to it sets the disk's spec below what was promised. A
capacity that becomes negative is not excluded: the API refuses it.
`ChecksReliable` is `~RepeatsOverlap`, and neither `"probe"` nor `"mounts"` in
`Fallible`; the runs `node_repeat` and `node_probe_error` are counterexamples
without the first and the second, and without the third RemoveAll can run over a
live mount. Other checks may fail at any time.

**Node lock and limit.** Mutual exclusion is not inductive: it must be known that
a handler past `acquireNodeLock` is the recorded holder of its node's mutex.
`IndInv` adds that (`LockHeldInside`) and that a handler's request fits its
place (`CallsWellFormed`): only then `req[c].n` exists where the lock is looked
at. The argument abstracts the fifteen request steps of the handlers into two
kinds of moves, `Continues` (stays in its critical section, lock untouched) and
`Finishes` (returns, its locks freed); lemmas show that each step is one of
them, and that both keep `IndInv`. NodeLimit needs one thing more: a publish
that has passed the limit check has not created its attachment yet.
`SlotReserved` says that from the check to the return the disks *other than its
own* on its VM are fewer than the limit, so its create fits, also when it is a
retry of a create whose answer was lost. It stays true because only a handler
past the check makes an attachment appear, and only the one it was asked for
(`OnlyAsked`), and because `NodeLockExcludes` keeps any other such handler away.

**Other clusters.** `IsolationInv` says that a handler at a request that changes
something has seen the label of the disk or VM it is about to change, and that
the same holds of requests still in transit; so late requests do no harm. Nobody
has asked for the deletion of another cluster's disk (`OthersDisksStay`), so the
API never has one to remove.

**The rest of the attach path.** `SafetyInv` says for each place of a handler
what its answers have established and what no other actor can undo meanwhile:
that the disk has no other holder after the eviction, that the attachment it
waits for is its own, that a deletion has seen no attachment. One handler per
volume is what keeps these true between two requests. The refinement maps
`Attach` to `ExclusiveAttach` and shows each step to be an abstract step or a
stutter, from `SafetyInv`. The attempt to prove SuccessMeansGone showed that its
first form was too strong: for a disk of another cluster, unpublish finds no
attachment of *this* driver and rightly succeeds, while that cluster attaches
the disk as it likes. The property now speaks of the driver's own disks.

**Provisioning.** `OwnerInv` says that a handler at PATCH, at DELETE or in a wait
behind them has seen the disk to be ours, that nothing is left for the API to do
on another cluster's disk, and that a status with a size tells no more than the
device's size in any unit, exact or rounded down (`ReportRead`, the arithmetic of
`diskSizeToMB`: nothing wraps). So a status that matches means a device at least
as large as asked for.
`SizeInv` adds what a success about to be answered stands for (`CreateFacts`,
`ExpandFacts`), what overlaps (`Overlaps`) and what a deletion that was asked for
withdraws (`Doom`). An expansion asks for no less than was acknowledged, and
nothing is acknowledged while it runs; hence its PATCH never lowers the spec
below the promise. `ExpansionExtends` carries all of this to the composition,
whose `ExpansionInv` needs one fact more: a device that is not given up never
shrinks (`DeviceOnlyGrows`), so that what the node was asked for is still there
when it resizes the filesystem.

**Node.** `NodeInv` says that nothing is mounted twice on a path or anything but
the volume (`SingleMounts`), that what the kubelet was told agrees with the
mounts (`KubeletKnows`), that a device without filesystem has neither mounts nor
data (`DataOnFilesystem`), and for each place of a handler that what its checks
have found is still so (`HandlerFacts`, `StatsFacts`): "not a mount" until
RemoveAll, "blank" until mkfs.

**Life cycle.** `LifecycleInv` says that a configuration past validation is
usable whichever defaults filled it (`ConfigUsable`), that main has prepared all
the services use before it starts Run (`PreparedBySpawn`), that nothing of Run
exists before that or after the end (`QuietOutsideSelect`), and that a signal in
a channel, a stopping server and a clean end go back to a signal that was sent
(`TracesOfSignal`).

**Inventory.** `ListInv` says that what a client has not seen is at or behind its
token (`NothingSkipped`). A volume that is created moves entries towards the end
only (`IndexGrows`), and an entry's index is below the length of its list
(`IndexInside`), so the last page, or a token beyond the list, leaves nothing
out. The type invariant includes that no call panics in a slice. Proving it
showed that the bound `MaxDrift` has to cover the collector's count and that
there must be a page size, both now part of `InventoryConstants`.

**Only model-checked**: the liveness properties EveryCallReturns,
SignalEndsProcess, StartServesOrEnds, ServesAgain, ListingEnds and
GaugeConverges, since liveness under fairness is out of the prover's reach.

## Not modelled

Zones, topology and storage classes, which are chosen once and never compared;
GetCapacity, which lists, adds and subtracts; counters and histograms, and the
gauge `volumes_total`, which nothing sets to a true count; the HTTP server of
the metrics but for its shutdown; identity, version, request validation and the
capabilities, which are constant answers; the content of pods' data; logs and
backoff delays; names of attachments: `attachmentName` hashes what is too long
and is taken to be injective, so that the refusal at `storage.go:335` of a name
that stands for another disk or VM never happens. Damage to a filesystem leaves
its signature readable: a device whose superblock is destroyed looks blank to
blkid, and mkfs follows. A disk without size in its spec, for which
`storage.go:628` skips the comparison, is none of this driver's. Mounts that a
restarted plugin does not see are in `Expansion` only: the DaemonSet mounts the
kubelet's directory with bidirectional propagation. Different operations on one
volume of one node do not overlap in `NodeVolume`, as the kubelet keeps them
apart. Reasons are in `PROJECT.json`.

## Plan

1. Modelled: the core, expansion on the node, statistics, configuration, start
   and stop, listing and the gauge. Proved: every safety property of the passing
   runs, and the refinement.
2. Left to model: a composition of `Attach` and `NodeVolume` (a device is
   detached only when no longer mounted), and the convergence of a repeated
   publish, delete and expansion under finitely many failures.
3. Left to prove: what survives of SingleHolder when the assumptions are
   weakened one at a time, such as late requests that only delete, or overlapping
   calls of one volume for one node; that the detachment of ReleasedMeansUnused
   composes with `Attach`.
