----------------------------- MODULE NodeVolume -----------------------------
(***************************************************************************)
(* The node service's handling of one volume (pkg/node/node.go over        *)
(* pkg/filesystem/unix.go): NodeStageVolume, NodeUnstageVolume,            *)
(* NodePublishVolume and NodeUnpublishVolume, the mounts they leave behind *)
(* and what they do to the device's content, and NodeGetVolumeStats, which *)
(* may overlap any of them.  The service keeps no state and takes no lock, *)
(* and volumes share neither paths nor devices, so one volume stands for   *)
(* all.                                                                    *)
(*                                                                         *)
(* Each syscall or external command is one atomic step of the handler that *)
(* issues it.  The kernel, mkfs/fsck/blkid and the kubelet are external.   *)
(***************************************************************************)
EXTENDS Naturals, Sequences

CONSTANTS
    Pods,               \* pods on this node that use the volume, one target
                        \* path each
    ReadOnlyPods,       \* pods whose publish request says readonly
    Calls,              \* handler goroutines
    NoReq,
    RepeatsOverlap,     \* may the kubelet, restarted or out of patience, repeat
                        \* a call whose handler still runs?
    Fallible,           \* checks that may fail for no reason of the volume's:
                        \* "probe" (blkid fails with something else than exit
                        \* code 2), "mounts" (reading /proc/mounts),
                        \* "remount" (the read-only remount)
    MaxStack            \* bound on mounts stacked on one path

ASSUME NodeConstants ==
    /\ ReadOnlyPods \subseteq Pods
    /\ RepeatsOverlap \in BOOLEAN
    /\ Fallible \subseteq {"probe", "mounts", "remount"}
    /\ MaxStack \in Nat \ {0}

Requests == [op : {"stage", "unstage"}] \cup [op : {"publish", "unpublish"}, p : Pods]

ASSUME NoReqAssumption == NoReq \notin Requests

VARIABLES
    kind,       \* "block" for a raw block volume, or "mount"; never changes
    content,    \* of the device
    written,    \* has a pod stored data on the volume?
    lost,       \* history: has the driver destroyed such data?
    stg,        \* how many mounts are stacked on the staging path
    tgt,        \* the mounts stacked on each target path, the top one last
    kst, kpub,  \* what the kubelet knows of the staging and of each target
    pc, req, ret,
    stat        \* the handler of NodeGetVolumeStats

volVars == <<kind, content, written, lost, stg, tgt>>
kubeletVars == <<kst, kpub>>
vars == <<volVars, kubeletVars, pc, req, ret, stat>>

(***************************************************************************)
(* Types.  A bind mount shows the volume, or, when the staging path was no *)
(* mount point at that time, the host's own directory or file.             *)
(***************************************************************************)
Content == {"blank", "clean", "dirty", "broken"}
Mounts == [src : {"volume", "host"}, ro : BOOLEAN]
Known == {"no", "maybe", "yes"}
StagePCs == {"stageCheck", "waitDevice", "stageMount", "probe", "repair",
             "repairedMount", "format", "formattedMount"}
UnstagePCs == {"unstageCheck", "unstageUnmount", "unstageRemove"}
PublishPCs == {"publishCheck", "bind", "remount"}
UnpublishPCs == {"unpublishCheck", "unpublishUnmount", "unpublishRemove"}
PCs == {"idle", "done"} \cup StagePCs \cup UnstagePCs \cup PublishPCs \cup UnpublishPCs
Codes == {"none", "OK", "InvalidArgument", "Unavailable", "FailedPrecondition",
          "DeadlineExceeded", "Internal"}

\* saw is what statfs was about; the answer stands until the next call.
NoStat == [pc |-> "idle", p |-> NoReq, saw |-> "none", answer |-> "none"]
Stats == [pc : {"idle", "statfs", "health"}, p : Pods \cup {NoReq},
          saw : {"none", "volume", "host"}, answer : {"none", "abnormal", "healthy"}]

TypeOK ==
    /\ kind \in {"block", "mount"}
    /\ content \in Content
    /\ written \in BOOLEAN /\ lost \in BOOLEAN
    /\ stg \in 0..MaxStack
    /\ \A p \in Pods : tgt[p] \in Seq(Mounts) /\ Len(tgt[p]) <= MaxStack
    /\ kst \in Known
    /\ kpub \in [Pods -> Known]
    /\ pc \in [Calls -> PCs]
    /\ req \in [Calls -> Requests \cup {NoReq}]
    /\ ret \in [Calls -> Codes]
    /\ stat \in Stats

Init ==
    /\ kind \in {"block", "mount"}
    /\ content = "blank"
    /\ written = FALSE /\ lost = FALSE
    /\ stg = 0
    /\ tgt = [p \in Pods |-> <<>>]
    /\ kst = "no"
    /\ kpub = [p \in Pods |-> "no"]
    /\ pc = [c \in Calls |-> "idle"]
    /\ req = [c \in Calls |-> NoReq]
    /\ ret = [c \in Calls |-> "none"]
    /\ stat = NoStat

IsBlock == kind = "block"

Top(p) == tgt[p][Len(tgt[p])]

\* Is the device mounted anywhere on the node?
DeviceInUse ==
    stg > 0 \/ \E p \in Pods : \E i \in DOMAIN tgt[p] : tgt[p][i].src = "volume"

Goto(c, l) == pc' = [pc EXCEPT ![c] = l] /\ UNCHANGED ret

Return(c, code) ==
    /\ pc' = [pc EXCEPT ![c] = "done"]
    /\ ret' = [ret EXCEPT ![c] = code]

(***************************************************************************)
(* The kubelet, which makes one call at a time for a volume, repetitions   *)
(* aside.  It publishes a volume that is staged, unpublishes what it may   *)
(* have published, and unstages once no pod uses the volume.  A pod that   *)
(* was unpublished is gone: the next one has a target of its own, so that  *)
(* a call for the statistics of the old target is not about it.            *)
(***************************************************************************)
Active(c) == pc[c] # "idle"

KubeletAsks(r) ==
    /\ \A c \in Calls : Active(c) => RepeatsOverlap /\ req[c] = r
    /\ CASE r.op = "stage" -> TRUE
         [] r.op = "unstage" -> kst # "no" /\ \A p \in Pods : kpub[p] = "no"
         [] r.op = "publish" -> kst = "yes" /\ (stat.p = r.p => kpub[r.p] = "yes")
         [] r.op = "unpublish" -> kpub[r.p] # "no"

\* What the kubelet may still rely on while r is under way.
Doubt(r) ==
    CASE r.op = "stage" -> kst' = (IF kst = "yes" THEN "yes" ELSE "maybe") /\ UNCHANGED kpub
      [] r.op = "unstage" -> kst' = "maybe" /\ UNCHANGED kpub
      [] r.op = "publish" -> UNCHANGED kst /\ kpub' =
                                [kpub EXCEPT ![r.p] = IF @ = "yes" THEN "yes" ELSE "maybe"]
      [] r.op = "unpublish" -> UNCHANGED kst /\ kpub' = [kpub EXCEPT ![r.p] = "maybe"]

FirstStep(op) ==
    CASE op = "stage" -> "stageCheck"
      [] op = "unstage" -> "unstageCheck"
      [] op = "publish" -> "publishCheck"
      [] op = "unpublish" -> "unpublishCheck"

\* A handler starts; a request without ID, path or capability is refused.
Begin(c, r) ==
    /\ ~Active(c)
    /\ KubeletAsks(r)
    /\ req' = [req EXCEPT ![c] = r]
    /\ Doubt(r)
    /\ Goto(c, FirstStep(r.op)) \/ Return(c, "InvalidArgument")
    /\ UNCHANGED volVars

Reply(c) ==
    /\ pc[c] = "done"
    /\ LET r == req[c] IN
       IF ret[c] # "OK" THEN UNCHANGED kubeletVars
       ELSE CASE r.op = "stage" -> kst' = "yes" /\ UNCHANGED kpub
              [] r.op = "unstage" -> kst' = "no" /\ UNCHANGED kpub
              [] r.op = "publish" -> kpub' = [kpub EXCEPT ![r.p] = "yes"] /\ UNCHANGED kst
              [] r.op = "unpublish" -> kpub' = [kpub EXCEPT ![r.p] = "no"] /\ UNCHANGED kst
    /\ pc' = [pc EXCEPT ![c] = "idle"]
    /\ ret' = [ret EXCEPT ![c] = "none"]
    /\ req' = [req EXCEPT ![c] = NoReq]
    /\ UNCHANGED volVars

\* IsMountPoint, whose error every handler logs and takes for "not mounted".
IsMountPoint(depth) ==
    {depth > 0} \cup (IF "mounts" \in Fallible THEN {FALSE} ELSE {})

(***************************************************************************)
(* NodeStageVolume.                                                        *)
(***************************************************************************)
\* A request without serial is refused only when nothing is mounted yet.
StageCheck(c) ==
    /\ pc[c] = "stageCheck"
    /\ \E mounted \in IsMountPoint(stg) :
          IF mounted THEN Return(c, "OK")
          ELSE Goto(c, "waitDevice") \/ Return(c, "InvalidArgument")
    /\ UNCHANGED <<volVars, kubeletVars, req>>

WaitForDevice(c) ==
    /\ pc[c] = "waitDevice"
    /\ Goto(c, "stageMount") \/ Return(c, "Unavailable")
    /\ UNCHANGED <<volVars, kubeletVars, req>>

\* The kernel mounts a clean filesystem, but not twice on one path (EBUSY);
\* it does stack bind mounts of a raw device.
Mountable == IF IsBlock THEN stg < MaxStack ELSE content = "clean" /\ stg = 0

MountDevice(c) ==
    /\ Mountable
    /\ stg' = stg + 1
    /\ Return(c, "OK")
    /\ UNCHANGED <<kind, content, written, lost, tgt>>

\* Mutant: the error of the mount is only logged.
MountErrorIgnored(c) == Return(c, "OK")

\* Mutant: the handler returns the bare error, without a status code.
MountErrorBare(c) == Return(c, "Unknown")

\* The mount, or what comes before it (mkdir, create and, for a raw volume, the
\* removal of a directory in the place of the file), fails without any sign of
\* corruption.  A raw volume is mounted on a file, so that directory is none of
\* its mounts.
MountErrorReported(c) == Return(c, "Internal")

\* The first mount.  IsFilesystemCorruption accepts EINVAL and EUCLEAN, which
\* a device without clean filesystem gives, and EIO, which any device may give.
StageMount(c) ==
    /\ pc[c] = "stageMount"
    /\ \/ MountDevice(c)
       \/ MountErrorReported(c) /\ UNCHANGED volVars
       \/ ~IsBlock /\ Goto(c, "probe") /\ UNCHANGED volVars
    /\ UNCHANGED <<kubeletVars, req>>

\* Mutant: a filesystem that cannot be mounted counts as no filesystem.
CleanSignature == content = "clean"

\* blkid finds a filesystem signature, which damage leaves readable.
FilesystemSignature == content # "blank"

\* IsDeviceFormatted; NodeStageVolume takes its error for "not formatted".
IsDeviceFormatted ==
    {FilesystemSignature} \cup (IF "probe" \in Fallible THEN {FALSE} ELSE {})

ProbeDevice(c) ==
    /\ pc[c] = "probe"
    /\ \E formatted \in IsDeviceFormatted :
          Goto(c, IF formatted THEN "repair" ELSE "format")
    /\ UNCHANGED <<volVars, kubeletVars, req>>

\* fsck.ext4 -p -f: repairs what it can, refuses a mounted device, and may
\* fail or be cancelled with the call's context at any time.
RepairFilesystem(c) ==
    /\ pc[c] = "repair"
    /\ \/ /\ content \in {"clean", "dirty"}
          /\ ~DeviceInUse
          /\ content' = "clean"
          /\ Goto(c, "repairedMount")
       \/ /\ Return(c, "FailedPrecondition") \/ Return(c, "DeadlineExceeded")
          /\ UNCHANGED content
    /\ UNCHANGED <<kind, written, lost, stg, tgt, kubeletVars, req>>

RepairedMount(c) ==
    /\ pc[c] = "repairedMount"
    /\ \/ MountDevice(c)
       \/ Return(c, "FailedPrecondition") /\ UNCHANGED volVars
    /\ UNCHANGED <<kubeletVars, req>>

\* mkfs.ext4 -F: forces its way over a signature, not over a mount.  When it
\* is interrupted the device is left without a usable filesystem.
FormatDevice(c) ==
    /\ pc[c] = "format"
    /\ \/ /\ ~DeviceInUse
          /\ \/ content' = "clean" /\ Goto(c, "formattedMount")
             \/ content' \in {"blank", "broken"} /\ Return(c, "Internal")
          /\ lost' = (lost \/ written)
          /\ written' = FALSE
       \/ Return(c, "Internal") /\ UNCHANGED <<content, written, lost>>
    /\ UNCHANGED <<kind, stg, tgt, kubeletVars, req>>

FormattedMount(c) ==
    /\ pc[c] = "formattedMount"
    /\ \/ MountDevice(c)
       \/ MountErrorReported(c) /\ UNCHANGED volVars
    /\ UNCHANGED <<kubeletVars, req>>

(***************************************************************************)
(* RemoveAll of a path that a writable mount of the volume still covers    *)
(* empties the volume; the mount point itself is busy, which is only       *)
(* logged.  A raw device covering a file cannot be emptied that way.       *)
(***************************************************************************)
RemoveAll(covered) ==
    LET emptied == covered /\ ~IsBlock IN
    /\ lost' = (lost \/ (emptied /\ written))
    /\ written' = (written /\ ~emptied)

\* Mutant: the cleanup goes on after a failed unmount.
UnmountErrorIgnored(c, l) == Goto(c, l)

\* The unmount failed: the call fails before the path is removed.
UnmountErrorReported(c, l) == Return(c, "Internal")

(***************************************************************************)
(* NodeUnstageVolume.                                                      *)
(***************************************************************************)
UnstageCheck(c) ==
    /\ pc[c] = "unstageCheck"
    /\ \E mounted \in IsMountPoint(stg) :
          Goto(c, IF mounted THEN "unstageUnmount" ELSE "unstageRemove")
    /\ UNCHANGED <<volVars, kubeletVars, req>>

\* Unmount takes EINVAL, "not mounted", for success.
UnstageUnmount(c) ==
    /\ pc[c] = "unstageUnmount"
    /\ \/ /\ stg' = IF stg > 0 THEN stg - 1 ELSE 0
          /\ Goto(c, "unstageRemove")
       \/ UnmountErrorReported(c, "unstageRemove") /\ UNCHANGED stg
    /\ UNCHANGED <<kind, content, written, lost, tgt, kubeletVars, req>>

UnstageRemove(c) ==
    /\ pc[c] = "unstageRemove"
    /\ RemoveAll(stg > 0)
    /\ Return(c, "OK")
    /\ UNCHANGED <<kind, content, stg, tgt, kubeletVars, req>>

(***************************************************************************)
(* NodePublishVolume.                                                      *)
(***************************************************************************)
PublishCheck(c) ==
    /\ pc[c] = "publishCheck"
    /\ \E mounted \in IsMountPoint(Len(tgt[req[c].p])) :
          IF mounted THEN Return(c, "OK")
          ELSE IF IsBlock /\ req[c].p \in ReadOnlyPods
          THEN Return(c, "InvalidArgument")
          ELSE Goto(c, "bind")
    /\ UNCHANGED <<volVars, kubeletVars, req>>

\* The bind mount, which the kernel always makes writable.
BindTarget(c) ==
    /\ pc[c] = "bind"
    /\ LET p == req[c].p
           mount == [src |-> IF stg > 0 THEN "volume" ELSE "host", ro |-> FALSE] IN
       \/ /\ Len(tgt[p]) < MaxStack
          /\ tgt' = [tgt EXCEPT ![p] = Append(@, mount)]
          /\ IF p \in ReadOnlyPods THEN Goto(c, "remount") ELSE Return(c, "OK")
       \/ Return(c, "Internal") /\ UNCHANGED tgt
    /\ UNCHANGED <<kind, content, written, lost, stg, kubeletVars, req>>

\* The read-only remount, whose error is only logged.
RemountReadOnly(c) ==
    /\ pc[c] = "remount"
    /\ LET p == req[c].p IN
       \/ /\ tgt[p] # <<>>
          /\ tgt' = [tgt EXCEPT ![p][Len(tgt[p])].ro = TRUE]
       \/ ("remount" \in Fallible \/ tgt[p] = <<>>) /\ UNCHANGED tgt
    /\ Return(c, "OK")
    /\ UNCHANGED <<kind, content, written, lost, stg, kubeletVars, req>>

(***************************************************************************)
(* NodeUnpublishVolume.                                                    *)
(***************************************************************************)
UnpublishCheck(c) ==
    /\ pc[c] = "unpublishCheck"
    /\ \E mounted \in IsMountPoint(Len(tgt[req[c].p])) :
          Goto(c, IF mounted THEN "unpublishUnmount" ELSE "unpublishRemove")
    /\ UNCHANGED <<volVars, kubeletVars, req>>

UnpublishUnmount(c) ==
    /\ pc[c] = "unpublishUnmount"
    /\ LET p == req[c].p IN
       \/ /\ tgt' = [tgt EXCEPT ![p] = IF @ = <<>> THEN @ ELSE SubSeq(@, 1, Len(@) - 1)]
          /\ Goto(c, "unpublishRemove")
       \/ UnmountErrorReported(c, "unpublishRemove") /\ UNCHANGED tgt
    /\ UNCHANGED <<kind, content, written, lost, stg, kubeletVars, req>>

UnpublishRemove(c) ==
    /\ pc[c] = "unpublishRemove"
    /\ LET p == req[c].p IN
          RemoveAll(tgt[p] # <<>> /\ Top(p).src = "volume" /\ ~Top(p).ro)
    /\ Return(c, "OK")
    /\ UNCHANGED <<kind, content, stg, tgt, kubeletVars, req>>

(***************************************************************************)
(* NodeGetVolumeStats, for a pod that the kubelet has published: statfs,   *)
(* then a look at the mount table.                                         *)
(***************************************************************************)
\* A path that does not exist, or cannot be checked, is an error of the call.
BeginStats(p) ==
    /\ stat.pc = "idle"
    /\ kpub[p] = "yes"
    /\ stat' \in {NoStat, [NoStat EXCEPT !.pc = "statfs", !.p = p]}
    /\ UNCHANGED <<volVars, kubeletVars, pc, req, ret>>

Answer(condition) == stat' = [stat EXCEPT !.pc = "idle", !.p = NoReq, !.answer = condition]

\* statfs describes whatever the path leads to at that moment.
GetFilesystemStats ==
    /\ stat.pc = "statfs"
    /\ \/ stat' = [stat EXCEPT !.pc = "health",
                               !.saw = IF tgt[stat.p] = <<>> THEN "host" ELSE Top(stat.p).src]
       \/ Answer("abnormal")
    /\ UNCHANGED <<volVars, kubeletVars, pc, req, ret>>

\* Mutant: what statfs could describe counts as mounted.
StatfsSuffices == TRUE

StillMounted == tgt[stat.p] # <<>>

\* Abnormal: not mounted, or that is unknown, or almost out of space or inodes.
checkVolumeHealth ==
    /\ stat.pc = "health"
    /\ Answer("abnormal") \/ (StillMounted /\ Answer("healthy"))
    /\ UNCHANGED <<volVars, kubeletVars, pc, req, ret>>

(***************************************************************************)
(* The environment: a crash of the driver (mounts outlive it), pods that   *)
(* write, and a filesystem that gets damaged.                              *)
(***************************************************************************)
Crash ==
    /\ stat.pc # "idle" \/ \E c \in Calls : Active(c)
    /\ pc' = [c \in Calls |-> "idle"]
    /\ req' = [c \in Calls |-> NoReq]
    /\ ret' = [c \in Calls |-> "none"]
    /\ stat' = NoStat
    /\ UNCHANGED <<volVars, kubeletVars>>

PodWrites(p) ==
    /\ kpub[p] = "yes"
    /\ tgt[p] # <<>>
    /\ Top(p).src = "volume" /\ ~Top(p).ro
    /\ written' = TRUE
    /\ UNCHANGED <<kind, content, lost, stg, tgt, kubeletVars, pc, req, ret>>

Damage ==
    /\ \/ content = "clean" /\ content' = "dirty"
       \/ content = "dirty" /\ content' = "broken"
    /\ UNCHANGED <<kind, written, lost, stg, tgt, kubeletVars, pc, req, ret>>

StageStep(c) ==
    \/ StageCheck(c) \/ WaitForDevice(c) \/ StageMount(c) \/ ProbeDevice(c)
    \/ RepairFilesystem(c) \/ RepairedMount(c) \/ FormatDevice(c) \/ FormattedMount(c)

UnstageStep(c) == UnstageCheck(c) \/ UnstageUnmount(c) \/ UnstageRemove(c)

PublishStep(c) == PublishCheck(c) \/ BindTarget(c) \/ RemountReadOnly(c)

UnpublishStep(c) == UnpublishCheck(c) \/ UnpublishUnmount(c) \/ UnpublishRemove(c)

CallStep(c) ==
    \/ \E r \in Requests : Begin(c, r)
    \/ StageStep(c)
    \/ UnstageStep(c)
    \/ PublishStep(c)
    \/ UnpublishStep(c)
    \/ Reply(c)

Next ==
    \/ \E c \in Calls : CallStep(c) /\ UNCHANGED stat
    \/ \E p \in Pods : BeginStats(p)
    \/ GetFilesystemStats
    \/ checkVolumeHealth
    \/ Crash
    \/ \E p \in Pods : PodWrites(p) /\ UNCHANGED stat
    \/ Damage /\ UNCHANGED stat

Spec == Init /\ [][Next]_vars

(***************************************************************************)
(* Properties.                                                             *)
(***************************************************************************)

\* "We MUST NOT automatically reformat as that would cause data loss": no
\* sequence of stages, unstages, publishes, unpublishes, failures and crashes
\* makes the driver destroy what a pod has stored, neither by mkfs nor by the
\* removal of a path that is still mounted.
DataNeverDestroyed == ~lost

\* A pod whose publish succeeded sees the volume, not the host's directory
\* under a staging path that nothing was mounted on.
PublishedShowsVolume ==
    \A p \in Pods : kpub[p] = "yes" => (tgt[p] # <<>> /\ Top(p).src = "volume")

\* "Idempotent mount/unmount with proper cleanup": once the kubelet has been
\* told that every target is unpublished and the volume unstaged, no mount
\* holds the device, so that the controller may detach it.
ReleasedMeansUnused ==
    (kst = "no" /\ \A p \in Pods : kpub[p] = "no") => ~DeviceInUse

\* "Volume is healthy": whatever is unpublished while the call runs, figures
\* that it calls healthy are the volume's, not those of the node's own disk
\* that shows once the target is unmounted.
HealthyMeansVolume == stat.answer = "healthy" => stat.saw = "volume"

\* "Each node mounts the device read-only", "Bind mount with ro flag": a pod
\* that asked for a read-only volume and was told it has one cannot write.
ReadOnlyIsReadOnly ==
    \A p \in ReadOnlyPods :
        (kpub[p] = "yes" /\ tgt[p] # <<>>) => Top(p).ro
=============================================================================
