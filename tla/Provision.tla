------------------------------ MODULE Provision ------------------------------
(***************************************************************************)
(* The controller service's life of one volume: CreateVolume,              *)
(* ControllerExpandVolume and DeleteVolume (pkg/controller/controller.go)  *)
(* over EnsureDiskCreated, EnsureDiskResized and EnsureDiskDeleted         *)
(* (pkg/evroc/sdk/storage.go).  Volumes share nothing here, so one name    *)
(* stands for all.  DeleteVolume's check for attachments is in Attach.     *)
(*                                                                         *)
(* Every API request is one atomic step.  The API is external: it creates, *)
(* resizes and deletes asynchronously, and reports the size it has reached *)
(* in the disk's status, apart from the size asked for in its spec.        *)
(***************************************************************************)
EXTENDS Integers, Errors

CONSTANTS
    Calls,          \* handler goroutines of the gRPC server
    NoReq, NoDisk,
    Ranges,         \* the CapacityRanges of requests, in bytes
    Unit,           \* bytes in a MiB
    Factor,         \* KiB in a MiB, MiB in a GiB and so on
    HalfRange,      \* 2^31: an int32 is at least -HalfRange, and less than HalfRange
    MaxRetries      \* restAPIMaxRetries

ASSUME RangesAssumption == Ranges \subseteq [required : Nat, limit : Nat]
ASSUME WidthAssumption == {Unit, Factor} \subseteq Nat \ {0} /\ HalfRange \in Nat \ {0, 1}
ASSUME RetriesAssumption == MaxRetries \in Nat

Requests == [op : {"create", "expand"}, range : Ranges] \cup [op : {"delete"}]

ASSUME NoReqAssumption == NoReq \notin Requests

VARIABLES
    disk,       \* the API's disk of the volume's name
    pc,         \* the next request (or wait) of each handler
    req,        \* the call each handler serves
    tries,      \* attempt, in retryOnTransient
    ret,        \* the status code a finished handler returns
    doomed,     \* has the orchestrator asked for the volume's deletion?
    acked,      \* history: the capacity acknowledged to the orchestrator
    grown       \* history: the capacity of acknowledged expansions

callVars == <<pc, tries, ret>>
historyVars == <<doomed, acked, grown>>
vars == <<disk, callVars, req, historyVars>>

(***************************************************************************)
(* Sizes.                                                                  *)
(***************************************************************************)
\* Go's conversion of an int64 number of MiB to int32.
Int32(x) == ((x + HalfRange) % (2 * HalfRange)) - HalfRange

\* A number of bytes in MiB, rounded up, as an int32.
CapacityMB(bytes) == Int32((bytes + Unit - 1) \div Unit)

CapacityBytes(range) == IF range.required = 0 THEN range.limit ELSE range.required

capacityFromRange(range) == CapacityMB(CapacityBytes(range))

\* What a successful call reports: CreateVolume the size of the disk,
\* ControllerExpandVolume the size that was asked for.
ReportedCapacity(r) ==
    IF r.op = "create" THEN capacityFromRange(r.range) * Unit ELSE CapacityBytes(r.range)

Larger(a, b) == IF a > b THEN a ELSE b

\* The size in a status, in MiB, in the arithmetic of an int32.
diskSizeToMB(amount, unit) ==
    CASE unit = "GB" -> Int32(amount * Factor)
      [] unit = "TB" -> Int32(Int32(amount * Factor) * Factor)
      [] unit = "KB" -> amount \div Factor
      [] OTHER -> amount

\* The ways in which the API can report a size: in any unit whose amount fits
\* an int32, rounded down where the unit is larger than a MiB.  The amount 0
\* stands for a status that reports no size yet.
Reports(size) ==
    {r \in [amount : 1..(HalfRange - 1), unit : {"KB", "MB", "GB", "TB"}] :
        CASE r.unit = "KB" -> r.amount = size * Factor
          [] r.unit = "MB" -> r.amount = size
          [] r.unit = "GB" -> r.amount = size \div Factor
          [] r.unit = "TB" -> r.amount = size \div (Factor * Factor)}

NoReport == [amount |-> 0, unit |-> "MB"]

(***************************************************************************)
(* Types.                                                                  *)
(***************************************************************************)
Sizes == -HalfRange .. (HalfRange - 1)
CreatePCs == {"getExisting", "post", "verify"}
ExpandPCs == {"getForResize", "patch", "awaitResize"}
DeletePCs == {"getDoomed", "deleteDisk", "confirm"}
PCs == {"idle", "done"} \cup CreatePCs \cup ExpandPCs \cup DeletePCs
Codes == {"none", "OK", "InvalidArgument", "NotFound", "PermissionDenied",
          "AlreadyExists", "OutOfRange", "Aborted", "DeadlineExceeded",
          "Unavailable", "Internal"}

\* size is what the device has, status what the API reports of it.
DiskObjects == [owner : {"us", "other"}, spec : Sizes, size : Sizes,
                status : [amount : Sizes, unit : {"KB", "MB", "GB", "TB"}],
                deleting : BOOLEAN]

ASSUME NoDiskAssumption == NoDisk \notin DiskObjects

TypeOK ==
    /\ disk \in DiskObjects \cup {NoDisk}
    /\ pc \in [Calls -> PCs]
    /\ req \in [Calls -> Requests \cup {NoReq}]
    /\ tries \in [Calls -> 0..MaxRetries]
    /\ ret \in [Calls -> Codes]
    /\ doomed \in BOOLEAN
    /\ acked \in Int /\ grown \in Nat

\* Either nothing has the name yet, or a disk of another cluster.
Init ==
    /\ disk \in {NoDisk, [owner |-> "other", spec |-> 1, size |-> 1,
                          status |-> [amount |-> 1, unit |-> "MB"], deleting |-> FALSE]}
    /\ pc = [c \in Calls |-> "idle"]
    /\ req = [c \in Calls |-> NoReq]
    /\ tries = [c \in Calls |-> 0]
    /\ ret = [c \in Calls |-> "none"]
    /\ doomed = FALSE
    /\ acked = 0 /\ grown = 0

(***************************************************************************)
(* Control flow of a handler.                                              *)
(***************************************************************************)
Goto(c, l) == pc' = [pc EXCEPT ![c] = l] /\ UNCHANGED <<tries, ret>>

Return(c, code) ==
    /\ pc' = [pc EXCEPT ![c] = "done"]
    /\ ret' = [ret EXCEPT ![c] = code]
    /\ tries' = [tries EXCEPT ![c] = 0]

FirstRequest(op) ==
    IF op = "create" THEN "getExisting"
    ELSE IF op = "expand" THEN "getForResize" ELSE "getDoomed"

\* DeleteVolume does not keep the backend's status code.
WrappedCode(op, code) == IF op = "delete" THEN "Internal" ELSE code

\* Mutant: one attempt too many.
OneMoreAttempt(c) == tries[c] <= MaxRetries

AttemptsLeft(c) == tries[c] < MaxRetries

\* The attempt failed: another one, or the call fails for good, or its
\* context ends during the delay.
retryOnTransient(c, code) ==
    \/ /\ isTransientError(code)
       /\ AttemptsLeft(c)
       /\ pc' = [pc EXCEPT ![c] = FirstRequest(req[c].op)]
       /\ tries' = [tries EXCEPT ![c] = @ + 1]
       /\ UNCHANGED ret
    \/ /\ isTransientError(code) => ~AttemptsLeft(c)
       /\ Return(c, WrappedCode(req[c].op, code))
    \/ /\ isTransientError(code)
       /\ AttemptsLeft(c)
       /\ Return(c, "Internal")

RequestFails(c) ==
    /\ \E code \in ApiErrors : retryOnTransient(c, code)
    /\ UNCHANGED disk

\* The effect of a mutation is in place: the answer arrives, or is lost.
Answered(c, l) == Goto(c, l) \/ retryOnTransient(c, "Internal")

(***************************************************************************)
(* The orchestrator.  A name is not used again after a deletion; creation  *)
(* overlaps nothing; an expansion may overlap a deletion, which come from  *)
(* different sidecars.  Kubernetes asks for no less than it was promised.  *)
(***************************************************************************)
Active(c) == pc[c] # "idle"

MayBegin(r) ==
    LET busy == {req[c].op : c \in {b \in Calls : Active(b)}} IN
    /\ r.op = "create" => ~doomed /\ busy = {}
    /\ r.op = "expand" => /\ ~doomed /\ busy \cap {"create", "expand"} = {}
                          /\ CapacityBytes(r.range) >= acked
    /\ r.op = "delete" => busy \cap {"create", "delete"} = {}

\* A handler starts.  Without name, capabilities or capacity it refuses.
Begin(c, r) ==
    /\ ~Active(c)
    /\ MayBegin(r)
    /\ req' = [req EXCEPT ![c] = r]
    /\ doomed' = (doomed \/ r.op = "delete")
    /\ IF r.op = "delete" THEN acked' = 0 /\ grown' = 0 ELSE UNCHANGED <<acked, grown>>
    /\ \/ Return(c, "InvalidArgument")
       \/ /\ r.op # "delete" => CapacityBytes(r.range) # 0
          /\ Goto(c, FirstRequest(r.op))
    /\ UNCHANGED disk

\* The answer reaches the orchestrator.
Reply(c) ==
    /\ pc[c] = "done"
    /\ IF ret[c] = "OK" /\ req[c].op # "delete" /\ ~doomed
       THEN /\ acked' = Larger(acked, ReportedCapacity(req[c]))
            /\ grown' = IF req[c].op = "expand"
                        THEN Larger(grown, ReportedCapacity(req[c])) ELSE grown
       ELSE UNCHANGED <<acked, grown>>
    /\ pc' = [pc EXCEPT ![c] = "idle"]
    /\ ret' = [ret EXCEPT ![c] = "none"]
    /\ req' = [req EXCEPT ![c] = NoReq]
    /\ UNCHANGED <<disk, tries, doomed>>

Size(c) == capacityFromRange(req[c].range)

\* Mutant: the managed-by label is not looked at.
AnyOwner == TRUE

DiskOwned == disk.owner = "us"

(***************************************************************************)
(* CreateVolume.                                                           *)
(***************************************************************************)
\* Mutant: the size of an existing disk is not compared.
AnySize(size) == DiskOwned

\* An existing disk is what the request asks for.  Its zone and its storage
\* class are not compared.  A disk of this driver always has a size in its spec.
ExistingMatches(size) == DiskOwned /\ disk.spec = size

validateExistingDisk(c) ==
    /\ IF ExistingMatches(Size(c)) THEN Return(c, "OK")
                                   ELSE retryOnTransient(c, "AlreadyExists")
    /\ UNCHANGED disk

\* GET before the POST: after any error, not found or other, POST decides.
GetBeforeCreate(c) ==
    /\ pc[c] = "getExisting"
    /\ \/ Goto(c, "post") /\ UNCHANGED disk
       \/ disk # NoDisk /\ validateExistingDisk(c)
    /\ UNCHANGED <<req, historyVars>>

PostDisk(c) ==
    /\ pc[c] = "post"
    /\ \/ RequestFails(c)
       \/ /\ disk = NoDisk /\ Size(c) > 0
          /\ disk' = [owner |-> "us", spec |-> Size(c), size |-> 0,
                      status |-> NoReport, deleting |-> FALSE]
          /\ Return(c, "OK") \/ retryOnTransient(c, "Internal")
       \/ /\ disk = NoDisk /\ Size(c) <= 0
          /\ retryOnTransient(c, "InvalidArgument")
          /\ UNCHANGED disk
       \/ disk # NoDisk /\ Goto(c, "verify") /\ UNCHANGED disk
    /\ UNCHANGED <<req, historyVars>>

\* GET after a conflict, whose errors, not found included, count.
VerifyCreated(c) ==
    /\ pc[c] = "verify"
    /\ \/ /\ \E code \in ApiErrors \cup (IF disk = NoDisk THEN {"NotFound"} ELSE {}) :
                retryOnTransient(c, code)
          /\ UNCHANGED disk
       \/ disk # NoDisk /\ validateExistingDisk(c)
    /\ UNCHANGED <<req, historyVars>>

(***************************************************************************)
(* ControllerExpandVolume.                                                 *)
(***************************************************************************)
\* Mutant: the size in the spec counts as reached.
SpecMatchesSize(size) == disk.spec = size

StatusMB == diskSizeToMB(disk.status.amount, disk.status.unit)

\* A status without size matches none.
diskStatusMatchesSize(size) == disk.status # NoReport /\ StatusMB = size

\* The shrink check compares with the reported size, if there is one.
ShrinkRefused(size) == disk.status # NoReport /\ size < StatusMB

GetForResize(c) ==
    /\ pc[c] = "getForResize"
    /\ \/ RequestFails(c)
       \/ /\ IF disk = NoDisk \/ ~DiskOwned THEN retryOnTransient(c, "NotFound")
             ELSE IF diskStatusMatchesSize(Size(c)) THEN Return(c, "OK")
             ELSE IF ShrinkRefused(Size(c)) THEN retryOnTransient(c, "OutOfRange")
             ELSE Goto(c, "patch")
          /\ UNCHANGED disk
    /\ UNCHANGED <<req, historyVars>>

\* The API's own refusal to shrink a disk below the size it has reached.
PatchAccepted(size) == size > 0 /\ size >= disk.size

\* PATCH of the spec; a conflict with another change is retried.
PatchDisk(c) ==
    /\ pc[c] = "patch"
    /\ \/ RequestFails(c)
       \/ retryOnTransient(c, "Aborted") /\ UNCHANGED disk
       \/ disk = NoDisk /\ retryOnTransient(c, "NotFound") /\ UNCHANGED disk
       \/ /\ disk # NoDisk /\ PatchAccepted(Size(c))
          /\ disk' = [disk EXCEPT !.spec = Size(c)]
          /\ Answered(c, "awaitResize")
       \/ /\ disk # NoDisk /\ ~PatchAccepted(Size(c))
          /\ retryOnTransient(c, "InvalidArgument")
          /\ UNCHANGED disk
    /\ UNCHANGED <<req, historyVars>>

\* Polls until the status reports exactly the size, or the time is over;
\* errors of the polls are ignored.
waitForDiskResize(c) ==
    /\ pc[c] = "awaitResize"
    /\ \/ disk # NoDisk /\ diskStatusMatchesSize(Size(c)) /\ Return(c, "OK")
       \/ retryOnTransient(c, "DeadlineExceeded")
    /\ UNCHANGED <<disk, req, historyVars>>

(***************************************************************************)
(* DeleteVolume.                                                           *)
(***************************************************************************)
GetDoomedDisk(c) ==
    /\ pc[c] = "getDoomed"
    /\ \/ RequestFails(c)
       \/ /\ IF disk = NoDisk THEN Return(c, "OK")
             ELSE IF DiskOwned THEN Goto(c, "deleteDisk")
             ELSE retryOnTransient(c, "PermissionDenied")
          /\ UNCHANGED disk
    /\ UNCHANGED <<req, historyVars>>

DeleteDisk(c) ==
    /\ pc[c] = "deleteDisk"
    /\ \/ RequestFails(c)
       \/ /\ disk # NoDisk
          /\ disk' = [disk EXCEPT !.deleting = TRUE]
          /\ Answered(c, "confirm")
       \/ disk = NoDisk /\ Return(c, "OK") /\ UNCHANGED disk
    /\ UNCHANGED <<req, historyVars>>

ConfirmDeleted(c) ==
    /\ pc[c] = "confirm"
    /\ \/ RequestFails(c)
       \/ /\ IF disk = NoDisk THEN Return(c, "OK")
                              ELSE retryOnTransient(c, "Unavailable")
          /\ UNCHANGED disk
    /\ UNCHANGED <<req, historyVars>>

(***************************************************************************)
(* The environment.                                                        *)
(***************************************************************************)
Crash ==
    /\ \E c \in Calls : Active(c)
    /\ pc' = [c \in Calls |-> "idle"]
    /\ req' = [c \in Calls |-> NoReq]
    /\ tries' = [c \in Calls |-> 0]
    /\ ret' = [c \in Calls |-> "none"]
    /\ UNCHANGED <<disk, historyVars>>

\* The API brings the disk to the size its spec asks for.
Reconcile ==
    /\ disk # NoDisk
    /\ ~disk.deleting /\ disk.size < disk.spec
    /\ \E status \in Reports(disk.spec) :
          disk' = [disk EXCEPT !.size = disk.spec, !.status = status]
    /\ UNCHANGED <<callVars, req, historyVars>>

DiskRemoved ==
    /\ disk # NoDisk
    /\ disk.deleting
    /\ disk' = NoDisk
    /\ UNCHANGED <<callVars, req, historyVars>>

CreateStep(c) == GetBeforeCreate(c) \/ PostDisk(c) \/ VerifyCreated(c)
ExpandStep(c) == GetForResize(c) \/ PatchDisk(c) \/ waitForDiskResize(c)
DeleteStep(c) == GetDoomedDisk(c) \/ DeleteDisk(c) \/ ConfirmDeleted(c)

Next ==
    \/ \E c \in Calls :
          \/ \E r \in Requests : Begin(c, r)
          \/ CreateStep(c) \/ ExpandStep(c) \/ DeleteStep(c)
          \/ Reply(c)
    \/ Crash
    \/ Reconcile
    \/ DiskRemoved

Spec == Init /\ [][Next]_vars

(***************************************************************************)
(* Properties.                                                             *)
(***************************************************************************)

\* "Conflicting requests (different parameters) return error", "the disk is at
\* least as large as requested": a volume that was acknowledged is a disk of
\* this driver with at least the acknowledged capacity, until its deletion is
\* asked for, whatever is repeated, lost or refused in between.
AckedVolumeKept ==
    acked > 0 => /\ disk # NoDisk
                 /\ DiskOwned /\ ~disk.deleting
                 /\ Larger(disk.spec, disk.size) * Unit >= acked

\* "Poll until the status reflects the requested size so that the subsequent
\* NodeExpandVolume sees the enlarged block device": an acknowledged expansion
\* has reached the device, not only the disk's spec.
ExpandedDeviceGrown ==
    grown > 0 => disk # NoDisk /\ disk.size * Unit >= grown

\* "Ownership validation prevents cross-cluster conflicts": a disk of another
\* cluster that has the volume's name is never created over, resized or deleted.
OtherClustersDiskUntouched ==
    [][(disk # NoDisk /\ disk.owner = "other") => disk' = disk]_vars
=============================================================================
