------------------------------- MODULE Attach -------------------------------
(***************************************************************************)
(* The controller service's attach path: concurrent handlers of            *)
(* ControllerPublishVolume, ControllerUnpublishVolume and DeleteVolume     *)
(* (pkg/controller/controller.go) over the SDK storage backend             *)
(* (pkg/evroc/sdk/storage.go) and the evroc compute API, which is          *)
(* external.                                                               *)
(*                                                                         *)
(* Every API request is one atomic step of the handler that sends it.      *)
(* Between two requests anything may happen: other handlers, the API's own *)
(* asynchronous work, the driver of another cluster in the same project,   *)
(* or a crash of the controller.  A request may fail without effect, take  *)
(* effect and lose its answer, or be given up while still in transit.      *)
(***************************************************************************)
EXTENDS Naturals, FiniteSets, Errors

CONSTANTS
    Disks,              \* volume IDs, which are the disks' names
    Nodes,              \* node IDs, which are the VMs' names
    Calls,              \* handler goroutines of the gRPC server
    NoCall, NoNode, NoReq,  \* "no holder", "no VM to evict", "no request"
    OwnedDisks,         \* disks whose managed-by label names this driver
    OwnedNodes,         \* VMs whose owner label names this cluster
    VMOwnerLabelSet,    \* is csi.vmOwnerLabel configured?
    MaxVolumesPerNode,  \* csi.maxVolumesPerNode; 0 switches the limit off
    MaxRetries,         \* restAPIMaxRetries
    SerialPerVolume,    \* does the orchestrator wait for a call to end
                        \* before its next call for the same volume?
    MaxLate             \* bound on requests still in transit after their
                        \* sender has given them up

ASSUME OwnersAssumption == OwnedDisks \subseteq Disks /\ OwnedNodes \subseteq Nodes
ASSUME LimitsAssumption == /\ MaxVolumesPerNode \in Nat
                           /\ MaxRetries \in Nat
                           /\ MaxLate \in Nat
ASSUME FlagsAssumption == VMOwnerLabelSet \in BOOLEAN /\ SerialPerVolume \in BOOLEAN
ASSUME FiniteAssumption == IsFiniteSet(Disks) /\ IsFiniteSet(Nodes)

NodeRequests == [op : {"publish", "unpublish"}, d : Disks, n : Nodes]
Requests == NodeRequests \cup [op : {"delete"}, d : Disks]

ASSUME NoneAssumption ==
    NoCall \notin Calls /\ NoNode \notin Nodes /\ NoReq \notin Requests

VARIABLES
    disk,       \* the API's disks
    att,        \* the API's HotswapDiskAttachments, one name per disk and VM
    foreign,    \* attachments whose managed-by label names another cluster
    late,       \* abandoned requests that the API may still apply
    lock,       \* Service.nodeLocks: the handler that holds each mutex
    pc,         \* the next request (or wait) of each handler
    req,        \* the call each handler serves
    tries,      \* attempt, in retryOnTransient
    victim,     \* the VM whose stale attachment is being removed
    ret,        \* the status code a finished handler returns
    published   \* history: attachments acknowledged to the orchestrator and
                \* not asked away since

apiVars == <<disk, att, foreign, late>>
callVars == <<lock, pc, tries, victim, ret>>
vars == <<apiVars, callVars, req, published>>

(***************************************************************************)
(* Types.                                                                  *)
(***************************************************************************)
DiskState == {"present", "deleting", "absent"}
AttState == {"absent", "pending", "ready", "deleting"}

\* A mutation of the API by a handler, as it travels.
Mutations == [op : {"attach", "detach"}, d : Disks, n : Nodes]
                 \cup [op : {"deleteDisk"}, d : Disks]

\* Where a publish that has passed the limit check can be.
EnsureCreatedPCs == {"getDisk", "getVM", "listDisk", "evict", "awaitEvicted",
                     "create", "verify", "awaitReady"}
PublishPCs == {"count"} \cup EnsureCreatedPCs
UnpublishPCs == {"getAttachment", "deleteAttachment", "awaitDeleted"}
DeletePCs == {"listAll", "getDoomed", "deleteDisk", "confirm"}

\* Between acquireNodeLock and the deferred Unlock.
CriticalPCs == PublishPCs \cup UnpublishPCs
PCs == {"idle", "lock", "done"} \cup CriticalPCs \cup DeletePCs

Codes == {"none", "OK", "InvalidArgument", "NotFound", "PermissionDenied",
          "FailedPrecondition", "ResourceExhausted", "Aborted",
          "Unavailable", "Internal"}

TypeOK ==
    /\ disk \in [Disks -> DiskState]
    /\ att \in [Disks -> [Nodes -> AttState]]
    /\ foreign \subseteq Disks \X Nodes
    /\ late \subseteq Mutations
    /\ lock \in [Nodes -> Calls \cup {NoCall}]
    /\ pc \in [Calls -> PCs]
    /\ req \in [Calls -> Requests \cup {NoReq}]
    /\ tries \in [Calls -> 0..MaxRetries]
    /\ victim \in [Calls -> Nodes \cup {NoNode}]
    /\ ret \in [Calls -> Codes]
    /\ published \subseteq Disks \X Nodes

Init ==
    /\ disk = [d \in Disks |-> "present"]
    /\ att = [d \in Disks |-> [n \in Nodes |-> "absent"]]
    /\ foreign = {}
    /\ late = {}
    /\ lock = [n \in Nodes |-> NoCall]
    /\ pc = [c \in Calls |-> "idle"]
    /\ req = [c \in Calls |-> NoReq]
    /\ tries = [c \in Calls |-> 0]
    /\ victim = [c \in Calls |-> NoNode]
    /\ ret = [c \in Calls |-> "none"]
    /\ published = {}

(***************************************************************************)
(* What a label-filtered List returns.                                     *)
(***************************************************************************)
Exists(d, n) == att[d][n] # "absent"
Managed(d, n) == Exists(d, n) /\ <<d, n>> \notin foreign

\* VMs holding an attachment of d that this driver created.
HoldersOf(d) == {n \in Nodes : Managed(d, n)}

\* Disks that this driver has attached to VM n.
AttachedTo(n) == {d \in Disks : Managed(d, n)}

(***************************************************************************)
(* Control flow of a handler.                                              *)
(***************************************************************************)
Goto(c, l) ==
    /\ pc' = [pc EXCEPT ![c] = l]
    /\ UNCHANGED <<lock, tries, victim, ret>>

\* Mutant: an early return without the deferred Unlock.
UnlockForgotten(c) == lock

\* The deferred nodeMutex.Unlock() of a handler that returns.
DeferredUnlock(c) == [n \in Nodes |-> IF lock[n] = c THEN NoCall ELSE lock[n]]

\* The handler returns.
Return(c, code) ==
    /\ pc' = [pc EXCEPT ![c] = "done"]
    /\ ret' = [ret EXCEPT ![c] = code]
    /\ lock' = DeferredUnlock(c)
    /\ tries' = [tries EXCEPT ![c] = 0]
    /\ victim' = [victim EXCEPT ![c] = NoNode]

\* Mutant: a retried publish resumes at the request that failed it.
ResumeAtCreate(op) ==
    IF op = "publish" THEN "create"
    ELSE IF op = "unpublish" THEN "getAttachment" ELSE "getDoomed"

\* The first request of the operation that retryOnTransient repeats.
FirstRequest(op) ==
    IF op = "publish" THEN "getDisk"
    ELSE IF op = "unpublish" THEN "getAttachment" ELSE "getDoomed"

\* Only ControllerPublishVolume keeps the backend's status code.
WrappedCode(op, code) == IF op = "publish" THEN code ELSE "Internal"

\* Mutant: one attempt too many.
OneMoreAttempt(c) == tries[c] <= MaxRetries

\* attempt <= restAPIMaxRetries still holds for the next attempt.
AttemptsLeft(c) == tries[c] < MaxRetries

\* The attempt failed: retryOnTransient tries again, or gives up because the
\* error is permanent, the attempts are used up, or the context is done.
retryOnTransient(c, code) ==
    \/ /\ isTransientError(code)
       /\ AttemptsLeft(c)
       /\ pc' = [pc EXCEPT ![c] = FirstRequest(req[c].op)]
       /\ tries' = [tries EXCEPT ![c] = @ + 1]
       /\ victim' = [victim EXCEPT ![c] = NoNode]
       /\ UNCHANGED <<lock, ret>>
    \/ /\ isTransientError(code) => ~AttemptsLeft(c)
       /\ Return(c, WrappedCode(req[c].op, code))
    \/ /\ isTransientError(code)
       /\ AttemptsLeft(c)
       /\ Return(c, "Internal")

(***************************************************************************)
(* The API's effect of each mutation.  Deletion is asynchronous: the       *)
(* object is first only marked.                                            *)
(***************************************************************************)
CreateAccepted(d, n) == ~Exists(d, n) /\ disk[d] # "absent"

ApplyAttach(d, n) ==
    /\ att' = [att EXCEPT ![d][n] = "pending"]
    /\ UNCHANGED disk

ApplyDetach(d, n) ==
    /\ att' = [att EXCEPT ![d][n] = IF Exists(d, n) THEN "deleting" ELSE "absent"]
    /\ UNCHANGED disk

ApplyDeleteDisk(d) ==
    /\ disk' = [disk EXCEPT ![d] = IF @ = "absent" THEN @ ELSE "deleting"]
    /\ UNCHANGED att

\* A read fails.
ReadFails(c) ==
    /\ \E code \in ApiErrors : retryOnTransient(c, code)
    /\ UNCHANGED apiVars

\* A mutation m fails without effect, or is abandoned in transit.
MutationFails(c, m) ==
    \/ ReadFails(c)
    \/ /\ Cardinality(late \cup {m}) <= MaxLate
       /\ late' = late \cup {m}
       /\ retryOnTransient(c, "Internal")
       /\ UNCHANGED <<disk, att, foreign>>

\* A mutation has been applied: the answer arrives, or is lost.
Answered(c, l) ==
    /\ Goto(c, l) \/ retryOnTransient(c, "Internal")
    /\ UNCHANGED <<foreign, late>>

(***************************************************************************)
(* The orchestrator's calls.                                               *)
(***************************************************************************)
Active(c) == pc[c] # "idle"

MayBegin(r) ==
    SerialPerVolume => \A c \in Calls : Active(c) => req[c].d # r.d

\* The orchestrator no longer relies on these attachments once it asks r: a
\* publish on another node withdraws the first, for every access mode but
\* ReadOnlyMany as documented, which the publish handler does not tell apart.
AskedAway(r) ==
    LET asked(n) == \/ r.op = "unpublish" /\ n = r.n
                    \/ r.op = "publish" /\ n # r.n
    IN  {<<r.d, n>> : n \in {m \in Nodes : asked(m)}}

\* A handler starts.  A request without volume ID, node ID or capability is
\* refused before anything else.
Begin(c, r) ==
    /\ ~Active(c)
    /\ MayBegin(r)
    /\ req' = [req EXCEPT ![c] = r]
    /\ published' = published \ AskedAway(r)
    /\ \/ Goto(c, IF r.op = "delete" THEN "listAll" ELSE "lock")
       \/ Return(c, "InvalidArgument")
    /\ UNCHANGED apiVars

\* The answer reaches the orchestrator.
Reply(c) ==
    /\ pc[c] = "done"
    /\ published' = IF req[c].op = "publish" /\ ret[c] = "OK"
                    THEN published \cup {<<req[c].d, req[c].n>>}
                    ELSE published
    /\ pc' = [pc EXCEPT ![c] = "idle"]
    /\ ret' = [ret EXCEPT ![c] = "none"]
    /\ req' = [req EXCEPT ![c] = NoReq]
    /\ UNCHANGED <<apiVars, lock, tries, victim>>

\* Mutant: handlers of one node do not exclude each other.
LockIgnored(n) == TRUE

\* Lock() waits for the mutex of the node.
NodeLockFree(n) == lock[n] = NoCall

\* nodeLocks is a sync.Map of mutexes; Lock() ignores the call's context.
acquireNodeLock(c) ==
    /\ pc[c] = "lock"
    /\ NodeLockFree(req[c].n)
    /\ lock' = [lock EXCEPT ![req[c].n] = c]
    /\ pc' = [pc EXCEPT ![c] = IF req[c].op = "publish" /\ MaxVolumesPerNode > 0
                               THEN "count" ELSE FirstRequest(req[c].op)]
    /\ UNCHANGED <<apiVars, tries, victim, ret, req, published>>

(***************************************************************************)
(* ControllerPublishVolume.                                                *)
(***************************************************************************)
\* Mutant: the limit is compared with > instead of >=.
OverLimit(count) == count > MaxVolumesPerNode

AtLimit(count) == count >= MaxVolumesPerNode

CountNodeAttachments(c) ==
    /\ pc[c] = "count"
    /\ \/ Return(c, "Internal")
       \/ IF AtLimit(Cardinality(AttachedTo(req[c].n)))
          THEN Return(c, "ResourceExhausted")
          ELSE Goto(c, "getDisk")
    /\ UNCHANGED <<apiVars, req, published>>

\* Mutant: the managed-by label is not looked at.
AnyDisk(d) == TRUE

DiskOwned(d) == d \in OwnedDisks

GetDiskAndValidateOwnership(c) ==
    /\ pc[c] = "getDisk"
    /\ \/ ReadFails(c)
       \/ /\ IF disk[req[c].d] # "absent" /\ DiskOwned(req[c].d)
             THEN Goto(c, IF VMOwnerLabelSet THEN "getVM" ELSE "listDisk")
             ELSE retryOnTransient(c, "NotFound")
          /\ UNCHANGED apiVars
    /\ UNCHANGED <<req, published>>

\* Mutant: the VM's owner label is not looked at.
AnyVM(n) == TRUE

VMOwned(n) == n \in OwnedNodes

validateVMOwnership(c) ==
    /\ pc[c] = "getVM"
    /\ \/ ReadFails(c)
       \/ /\ IF VMOwned(req[c].n)
             THEN Goto(c, "listDisk")
             ELSE retryOnTransient(c, "NotFound")
          /\ UNCHANGED apiVars
    /\ UNCHANGED <<req, published>>

\* The list of ensureNoOtherAttachmentsUseThisDisk, and what follows from it.
EvictionDecided(c, holders) ==
    \/ /\ Cardinality(holders) > 1
       /\ retryOnTransient(c, "FailedPrecondition")
    \/ /\ holders \subseteq {req[c].n}
       /\ Goto(c, "create")
    \/ \E n \in holders \ {req[c].n} :
       /\ Cardinality(holders) = 1
       /\ victim' = [victim EXCEPT ![c] = n]
       /\ pc' = [pc EXCEPT ![c] = "evict"]
       /\ UNCHANGED <<lock, tries, ret>>

ensureNoOtherAttachmentsUseThisDisk(c) ==
    /\ pc[c] = "listDisk"
    /\ \/ ReadFails(c)
       \/ EvictionDecided(c, HoldersOf(req[c].d)) /\ UNCHANGED apiVars
    /\ UNCHANGED <<req, published>>

\* DELETE of the stale attachment; ErrNotFound counts as success.
EvictStale(c) ==
    /\ pc[c] = "evict"
    /\ LET d == req[c].d  n == victim[c] IN
       \/ MutationFails(c, [op |-> "detach", d |-> d, n |-> n])
       \/ ApplyDetach(d, n) /\ Answered(c, "awaitEvicted")
    /\ UNCHANGED <<req, published>>

\* Mutant: the stale attachment is not waited for.
EvictionUnconfirmed(c) == TRUE

\* WaitForDeleted of the stale attachment sees it gone.
EvictionConfirmed(c) == ~Exists(req[c].d, victim[c])

\* WaitForDeleted ends, or times out.
AwaitEvicted(c) ==
    /\ pc[c] = "awaitEvicted"
    /\ \/ /\ EvictionConfirmed(c)
          /\ victim' = [victim EXCEPT ![c] = NoNode]
          /\ pc' = [pc EXCEPT ![c] = "create"]
          /\ UNCHANGED <<lock, tries, ret>>
       \/ retryOnTransient(c, "Unavailable")
    /\ UNCHANGED <<apiVars, req, published>>

\* POST of the attachment.
CreateAttachment(c) ==
    /\ pc[c] = "create"
    /\ LET d == req[c].d  n == req[c].n IN
       \/ MutationFails(c, [op |-> "attach", d |-> d, n |-> n])
       \/ CreateAccepted(d, n) /\ ApplyAttach(d, n) /\ Answered(c, "awaitReady")
       \/ Exists(d, n) /\ Goto(c, "verify") /\ UNCHANGED apiVars
       \/ /\ disk[d] = "absent" /\ ~Exists(d, n)
          /\ retryOnTransient(c, "NotFound")
          /\ UNCHANGED apiVars
    /\ UNCHANGED <<req, published>>

\* GET after a conflict.  A failure here is Aborted, so it is retried.  Names
\* of attachments are one for each disk and VM, so the one in the way is never
\* about another disk or VM, which would be FailedPrecondition.
VerifyConflict(c) ==
    /\ pc[c] = "verify"
    /\ \/ retryOnTransient(c, "Aborted")
       \/ /\ Exists(req[c].d, req[c].n)
          /\ IF <<req[c].d, req[c].n>> \in foreign
             THEN retryOnTransient(c, "NotFound")
             ELSE Goto(c, "awaitReady")
    /\ UNCHANGED <<apiVars, req, published>>

\* Mutant: an attachment counts as ready once it exists.
ReadyWhenCreated(d, n) == Exists(d, n)

\* WaitForReady sees the attachment Ready, with its serial.
SerialReady(d, n) == att[d][n] = "ready"

\* WaitForReady: outside retryOnTransient, so its failure ends the call.
WaitForAttachmentSerial(c) ==
    /\ pc[c] = "awaitReady"
    /\ \/ SerialReady(req[c].d, req[c].n) /\ Return(c, "OK")
       \/ Return(c, "Unavailable")
    /\ UNCHANGED <<apiVars, req, published>>

(***************************************************************************)
(* ControllerUnpublishVolume: EnsureAttachmentDeleted under the node lock. *)
(***************************************************************************)
GetAttachment(c) ==
    /\ pc[c] = "getAttachment"
    /\ \/ ReadFails(c)
       \/ /\ \/ ~Exists(req[c].d, req[c].n) /\ Return(c, "OK")
             \/ Managed(req[c].d, req[c].n) /\ Goto(c, "deleteAttachment")
             \/ /\ <<req[c].d, req[c].n>> \in foreign
                /\ retryOnTransient(c, "PermissionDenied")
          /\ UNCHANGED apiVars
    /\ UNCHANGED <<req, published>>

DeleteAttachment(c) ==
    /\ pc[c] = "deleteAttachment"
    /\ LET d == req[c].d  n == req[c].n IN
       \/ MutationFails(c, [op |-> "detach", d |-> d, n |-> n])
       \/ Exists(d, n) /\ ApplyDetach(d, n) /\ Answered(c, "awaitDeleted")
       \/ ~Exists(d, n) /\ Return(c, "OK") /\ UNCHANGED apiVars
    /\ UNCHANGED <<req, published>>

AwaitDeleted(c) ==
    /\ pc[c] = "awaitDeleted"
    /\ \/ ~Exists(req[c].d, req[c].n) /\ Return(c, "OK")
       \/ retryOnTransient(c, "Unavailable")
    /\ UNCHANGED <<apiVars, req, published>>

(***************************************************************************)
(* DeleteVolume: no lock; attachments are looked at once, before the       *)
(* retried EnsureDiskDeleted.                                              *)
(***************************************************************************)
\* Mutant: only ready attachments keep a disk from being deleted.
ReadyInUse(d) == \E n \in HoldersOf(d) : att[d][n] = "ready"

InUse(d) == HoldersOf(d) # {}

ListBeforeDelete(c) ==
    /\ pc[c] = "listAll"
    /\ \/ Return(c, "Internal")
       \/ IF InUse(req[c].d)
          THEN Return(c, "FailedPrecondition")
          ELSE Goto(c, "getDoomed")
    /\ UNCHANGED <<apiVars, req, published>>

GetDoomedDisk(c) ==
    /\ pc[c] = "getDoomed"
    /\ \/ ReadFails(c)
       \/ /\ disk[req[c].d] = "absent"
          /\ Return(c, "OK")
          /\ UNCHANGED apiVars
       \/ /\ disk[req[c].d] # "absent"
          /\ IF DiskOwned(req[c].d) THEN Goto(c, "deleteDisk")
                                    ELSE retryOnTransient(c, "PermissionDenied")
          /\ UNCHANGED apiVars
    /\ UNCHANGED <<req, published>>

DeleteDisk(c) ==
    /\ pc[c] = "deleteDisk"
    /\ LET d == req[c].d IN
       \/ MutationFails(c, [op |-> "deleteDisk", d |-> d])
       \/ disk[d] # "absent" /\ ApplyDeleteDisk(d) /\ Answered(c, "confirm")
       \/ disk[d] = "absent" /\ Return(c, "OK") /\ UNCHANGED apiVars
    /\ UNCHANGED <<req, published>>

\* Mutant: a disk marked for deletion counts as deleted.
DeletionStarted(d) == disk[d] # "present"

DeletionConfirmed(d) == disk[d] = "absent"

\* One GET after the DELETE: a disk still there is Unavailable, hence retried.
ConfirmDeleted(c) ==
    /\ pc[c] = "confirm"
    /\ \/ ReadFails(c)
       \/ /\ IF DeletionConfirmed(req[c].d)
             THEN Return(c, "OK")
             ELSE retryOnTransient(c, "Unavailable")
          /\ UNCHANGED apiVars
    /\ UNCHANGED <<req, published>>

(***************************************************************************)
(* A crash of the controller: its handlers and its locks are gone.  A      *)
(* request it had in transit is one abandoned before the crash.            *)
(***************************************************************************)
Crash ==
    /\ \E c \in Calls : Active(c)
    /\ lock' = [n \in Nodes |-> NoCall]
    /\ pc' = [c \in Calls |-> "idle"]
    /\ req' = [c \in Calls |-> NoReq]
    /\ tries' = [c \in Calls |-> 0]
    /\ victim' = [c \in Calls |-> NoNode]
    /\ ret' = [c \in Calls |-> "none"]
    /\ UNCHANGED <<apiVars, published>>

(***************************************************************************)
(* The API's own steps, and the other cluster's driver.                    *)
(***************************************************************************)
AttachmentProgress(d, n) ==
    /\ \/ att[d][n] = "pending" /\ att' = [att EXCEPT ![d][n] = "ready"]
             /\ UNCHANGED foreign
       \/ att[d][n] = "deleting" /\ att' = [att EXCEPT ![d][n] = "absent"]
             /\ foreign' = foreign \ {<<d, n>>}
    /\ UNCHANGED <<disk, late, callVars, req, published>>

DiskRemoved(d) ==
    /\ disk[d] = "deleting"
    /\ disk' = [disk EXCEPT ![d] = "absent"]
    /\ UNCHANGED <<att, foreign, late, callVars, req, published>>

\* A request given up by its sender arrives.
LateArrival(m) ==
    /\ m \in late
    /\ late' = late \ {m}
    /\ \/ m.op = "attach" /\ CreateAccepted(m.d, m.n) /\ ApplyAttach(m.d, m.n)
       \/ m.op = "attach" /\ ~CreateAccepted(m.d, m.n) /\ UNCHANGED <<disk, att>>
       \/ m.op = "detach" /\ ApplyDetach(m.d, m.n)
       \/ m.op = "deleteDisk" /\ ApplyDeleteDisk(m.d)
    /\ UNCHANGED <<foreign, callVars, req, published>>

\* Another cluster attaches and detaches disks of its own.
ForeignStep(d, n) ==
    /\ d \notin OwnedDisks
    /\ \/ /\ CreateAccepted(d, n)
          /\ ApplyAttach(d, n)
          /\ foreign' = foreign \cup {<<d, n>>}
       \/ /\ <<d, n>> \in foreign
          /\ att[d][n] # "deleting"
          /\ ApplyDetach(d, n)
          /\ UNCHANGED foreign
    /\ UNCHANGED <<late, callVars, req, published>>

(***************************************************************************)
(* The specification.                                                      *)
(***************************************************************************)
PublishStep(c) ==
    \/ CountNodeAttachments(c)
    \/ GetDiskAndValidateOwnership(c)
    \/ validateVMOwnership(c)
    \/ ensureNoOtherAttachmentsUseThisDisk(c)
    \/ EvictStale(c)
    \/ AwaitEvicted(c)
    \/ CreateAttachment(c)
    \/ VerifyConflict(c)
    \/ WaitForAttachmentSerial(c)

UnpublishStep(c) == GetAttachment(c) \/ DeleteAttachment(c) \/ AwaitDeleted(c)

DeleteStep(c) ==
    ListBeforeDelete(c) \/ GetDoomedDisk(c) \/ DeleteDisk(c) \/ ConfirmDeleted(c)

HandlerStep(c) == PublishStep(c) \/ UnpublishStep(c) \/ DeleteStep(c) \/ Reply(c)

Environment ==
    \/ \E d \in Disks, n \in Nodes : AttachmentProgress(d, n) \/ ForeignStep(d, n)
    \/ \E d \in Disks : DiskRemoved(d)
    \/ \E m \in late : LateArrival(m)

Next ==
    \/ \E c \in Calls :
          \/ \E r \in Requests : Begin(c, r)
          \/ acquireNodeLock(c)
          \/ HandlerStep(c)
    \/ Crash
    \/ Environment

Spec == Init /\ [][Next]_vars

\* A goroutine is always scheduled again.  sync.Mutex hands over to a waiter
\* that has starved for 1ms, so a waiter gets the lock if it is freed often.
Fairness == \A c \in Calls : WF_vars(HandlerStep(c)) /\ SF_vars(acquireNodeLock(c))

FairSpec == Spec /\ Fairness

(***************************************************************************)
(* Properties.                                                             *)
(***************************************************************************)

\* "Lock attach operation per node to ensure only one attach/detach can run
\* simultaneously on a given node": no two handlers are past acquireNodeLock
\* for the same node.
NodeLockExcludes ==
    \A c1, c2 \in Calls :
        (c1 # c2 /\ pc[c1] \in CriticalPCs /\ pc[c2] \in CriticalPCs)
            => req[c1].n # req[c2].n

\* "Check MaxVolumesPerNode limit after acquiring lock to prevent race
\* condition": concurrent publishes, evictions, lost answers and crashes
\* never leave a VM with more attachments than the limit.
NodeLimit ==
    MaxVolumesPerNode > 0 =>
        \A n \in Nodes : Cardinality(AttachedTo(n)) <= MaxVolumesPerNode

\* "A disk showing more than one attachment is already inconsistent": the
\* eviction before each create leaves no disk reachable from two VMs.  Right
\* for every access mode other than ReadOnlyMany, as documented.
SingleHolder ==
    \A d \in Disks, n1, n2 \in Nodes :
        (Managed(d, n1) /\ Managed(d, n2)) => n1 = n2

\* A publish that was acknowledged stays true: the attachment is ready until
\* the orchestrator asks for its removal or for the disk on another node, which
\* with an access mode other than ReadOnlyMany gives up the first.
PublishedStaysAttached ==
    \A d \in Disks, n \in Nodes : <<d, n>> \in published => att[d][n] = "ready"

\* A success is reported only once its effect is in place: the detached
\* attachment is gone, and so is the deleted disk ("Returning success before
\* the disk is absent lets the provisioner complete PV deletion").  A disk of
\* another cluster may be attached again by that cluster.
SuccessMeansGone ==
    \A c \in Calls :
        (pc[c] = "done" /\ ret[c] = "OK") =>
            /\ req[c].op = "unpublish" /\ req[c].d \in OwnedDisks
                   => ~Exists(req[c].d, req[c].n)
            /\ req[c].op = "delete" => disk[req[c].d] = "absent"

\* A volume "must be unpublished before deletion": an attachment that a failed
\* or crashed publish has left, in whatever state, keeps the disk from being
\* deleted, also by the later attempts of a deletion.
DeleteSparesAttached ==
    [][\A d \in OwnedDisks :
          (disk[d] = "present" /\ disk'[d] # "present") => HoldersOf(d) = {}]_vars

\* "Several clusters can share a project": a disk of another cluster and its
\* attachments are changed by that cluster and by the API's own work alone,
\* never by a handler, even when asked to, nor by a request of a handler that
\* arrives after it has given up or crashed.
OtherClustersUntouched ==
    [][\A d \in Disks \ OwnedDisks :
          \/ disk'[d] = disk[d] /\ att'[d] = att[d]
          \/ \E n \in Nodes : AttachmentProgress(d, n) \/ ForeignStep(d, n)]_vars

\* With vmOwnerLabel set, this driver attaches nothing to another cluster's VM.
OtherClustersVMsUntouched ==
    VMOwnerLabelSet =>
        \A d \in Disks, n \in Nodes \ OwnedNodes : ~Managed(d, n)

\* "All operations safe to retry": a publish is never refused for the node
\* limit when the volume already holds one of that node's slots.
RepublishIsIdempotent ==
    [][\A c \in Calls :
          (pc[c] = "count" /\ ret'[c] = "ResourceExhausted")
              => ~Managed(req[c].d, req[c].n)]_vars

\* Every call ends: a wait has a timeout, the retries are bounded, and the
\* node lock is handed on by every handler that held it.
EveryCallReturns == \A c \in Calls : Active(c) ~> ~Active(c)

\* The abstract promise, with the attachments this driver manages as the
\* holders of a disk and the acknowledged publishes as its promises.
Contract == INSTANCE ExclusiveAttach
                WITH holders <- [d \in Disks |-> HoldersOf(d)],
                     promised <- published

\* The attach path implements ExclusiveAttach: even the healing of a stale
\* attachment moves a disk only through being held by nobody.  The contract is
\* that of the access modes other than ReadOnlyMany.
ImplementsExclusiveAttach == Contract!Spec
=============================================================================
