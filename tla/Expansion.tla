------------------------------ MODULE Expansion ------------------------------
(***************************************************************************)
(* The growth of a volume in use, from the controller to the filesystem:   *)
(* Provision composed with NodeExpandVolume (pkg/node/node.go) over        *)
(* FindDeviceForPath and ResizeFilesystem (pkg/filesystem/unix.go).  The   *)
(* kubelet expands on the node what the controller has reported as         *)
(* expanded.  The node's device has the size that the API has reached.     *)
(*                                                                         *)
(* A volume staged before the node plugin's container started is mounted   *)
(* on the host, but is missing from the container's /proc/mounts.          *)
(***************************************************************************)
EXTENDS Provision

CONSTANTS
    FsTypes         \* of the volume: "ext4" and others, or "block"

VARIABLES
    kind,       \* one of FsTypes; never changes
    fs,         \* MiB that the filesystem spans, 0 while not staged
    visible,    \* is the mount in the plugin's /proc/mounts?
    npc,        \* the next step of NodeExpandVolume
    nreq,       \* the capacity it is asked for
    nfs,        \* the filesystem type it is asked for
    usable      \* history: the capacity NodeExpandVolume has acknowledged

nodeVars == <<kind, fs, visible, npc, nreq, nfs, usable>>
allVars == <<vars, nodeVars>>

ExpansionTypeOK ==
    /\ TypeOK
    /\ kind \in FsTypes
    /\ fs \in Sizes
    /\ visible \in BOOLEAN
    /\ npc \in {"idle", "findDevice", "resolve", "resize"}
    /\ nreq \in Nat /\ usable \in Nat
    /\ nfs \in FsTypes \cup {"none", "ext4"}

ExpansionInit ==
    /\ Init
    /\ kind \in FsTypes
    /\ fs = 0 /\ visible = FALSE
    /\ npc = "idle" /\ nreq = 0 /\ nfs = "none"
    /\ usable = 0

\* The controller's steps.  The orchestrator deletes a volume only once the
\* node has given it up.
ControllerStep ==
    /\ Next
    /\ IF doomed' /\ ~doomed
       THEN /\ npc = "idle"
            /\ fs' = 0 /\ visible' = FALSE /\ usable' = 0
            /\ UNCHANGED <<kind, npc, nreq, nfs>>
       ELSE UNCHANGED nodeVars

\* NodeStageVolume, in one step: it makes a filesystem that fills the device,
\* or mounts one that somebody else made, as is the case with any but ext4.
Staged ==
    /\ fs = 0 /\ acked > 0
    /\ disk # NoDisk /\ disk.size > 0
    /\ fs' = disk.size /\ visible' = TRUE
    /\ UNCHANGED <<vars, kind, npc, nreq, nfs, usable>>

(***************************************************************************)
(* NodeExpandVolume.  An answer that is lost is as good as an error, and   *)
(* an error leaves everything as it is: NotFound or Internal from the      *)
(* check of the path, FailedPrecondition from the search for the device,   *)
(* Internal from the resize.                                               *)
(***************************************************************************)
NodeReturns == npc' = "idle" /\ nreq' = 0 /\ nfs' = "none"

NodeFails == NodeReturns /\ UNCHANGED <<fs, usable>>

NodeSucceeds(capacity) == NodeReturns /\ usable' = Larger(usable, capacity)

NodeGoto(l) == npc' = l /\ UNCHANGED <<fs, nreq, nfs, usable>>

\* Mutant: without capability there is taken to be no filesystem.
BlockUnlessMount(given) == given => kind = "block"

IsBlockRequest(given) == given /\ kind = "block"

\* The kubelet asks for what the controller has reported, with or without the
\* volume's capability.
BeginNodeExpand ==
    /\ npc = "idle"
    /\ grown > 0 /\ fs > 0
    /\ \/ NodeFails
       \/ \E given \in BOOLEAN :
             IF IsBlockRequest(given) THEN NodeSucceeds(grown) /\ UNCHANGED fs
             ELSE /\ npc' = "findDevice" /\ nreq' = grown
                  /\ nfs' = IF given THEN kind ELSE "ext4"
                  /\ UNCHANGED <<fs, usable>>
    /\ UNCHANGED <<vars, kind, visible>>

\* The chain of mount sources ends at a device, unless the mount is not
\* visible, is the bind mount of a raw device, whose source is devtmpfs, or
\* cannot be looked up.
FindDeviceForPath ==
    /\ npc = "findDevice"
    /\ \/ visible /\ kind # "block" /\ NodeGoto("resize")
       \/ NodeGoto("resolve")
    /\ UNCHANGED <<vars, kind, visible>>

\* The serial in the VolumeAttachment names the device; the Kubernetes API may
\* fail, or not show it yet.
resolveDeviceFromVolumeAttachment ==
    /\ npc = "resolve"
    /\ NodeGoto("resize") \/ NodeFails
    /\ UNCHANGED <<vars, kind, visible>>

\* resize2fs takes the device, which may be a raw one that holds something it
\* can grow; xfs_growfs takes the mount, which it must see.
CanResize == \/ nfs = "ext4" /\ kind \in {"ext4", "block"}
             \/ nfs = "xfs" /\ visible

\* The filesystem grows to the size the device has now.
ResizeFilesystem ==
    /\ npc = "resize"
    /\ \/ NodeFails
       \/ /\ CanResize /\ disk # NoDisk
          /\ fs' = Larger(fs, disk.size)
          /\ NodeSucceeds(nreq)
    /\ UNCHANGED <<vars, kind, visible>>

\* The node plugin is restarted, and may not see the mounts it has made.
NodeRestart ==
    /\ npc # "idle" \/ visible
    /\ visible' \in {visible, FALSE}
    /\ NodeFails
    /\ UNCHANGED <<vars, kind>>

NodeStep ==
    \/ BeginNodeExpand \/ FindDeviceForPath
    \/ resolveDeviceFromVolumeAttachment \/ ResizeFilesystem

ExpansionNext == ControllerStep \/ Staged \/ NodeStep \/ NodeRestart

ExpansionSpec == ExpansionInit /\ [][ExpansionNext]_allVars

(***************************************************************************)
(* Properties.                                                             *)
(***************************************************************************)

\* "Without this, df inside the pod keeps showing the old size even though
\* lsblk shows the larger device": once NodeExpandVolume has acknowledged a
\* capacity, the volume's user has it, whether or not the plugin was restarted
\* and sees the mount; on a raw volume the device itself has it.
ExpansionReachesUser ==
    usable > 0 =>
        (IF kind = "block" THEN disk.size ELSE fs) * Unit >= usable
=============================================================================
