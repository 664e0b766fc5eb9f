-------------------------- MODULE ProvisionProofs ---------------------------
(***************************************************************************)
(* The life of a volume's disk and the growth of a volume in use, proved   *)
(* for every set of capacity ranges, every unit and factor, every width of *)
(* an int32, and every number of handlers and retries.                     *)
(*                                                                         *)
(* That a disk of another cluster is left alone needs no assumption.  What *)
(* is promised about sizes does: a capacity must not become a smaller      *)
(* positive number when it is cut to an int32, as one above 4 PiB does.    *)
(***************************************************************************)
EXTENDS Expansion, TLAPS

\* The size of a disk that is created or resized covers the capacity asked for.
SizesFit ==
    \A g \in Ranges : capacityFromRange(g) > 0 =>
                          capacityFromRange(g) * Unit >= CapacityBytes(g)

(***************************************************************************)
(* The invariant behind the isolation of other clusters' disks.            *)
(***************************************************************************)
ServesRequest(c) ==
    /\ Active(c) => req[c] \in Requests
    /\ pc[c] \in CreatePCs => req[c].op = "create"
    /\ pc[c] \in ExpandPCs => req[c].op = "expand"
    /\ pc[c] \in DeletePCs => req[c].op = "delete"

\* Requests that change a disk, and the waits behind them, come after the GET
\* that has shown the disk to be ours.
OwnedPCs == {"patch", "awaitResize", "deleteDisk", "confirm"}

\* Nothing is left to do for the API on a disk of another cluster.
DiskFacts ==
    disk # NoDisk =>
        /\ disk.size >= 0
        /\ disk.status # NoReport => StatusMB \in 1..disk.size
        /\ ~DiskOwned => disk.size >= disk.spec /\ ~disk.deleting

OwnerInv ==
    /\ TypeOK
    /\ \A c \in Calls : ServesRequest(c)
    /\ DiskFacts
    /\ \A c \in Calls : pc[c] \in OwnedPCs /\ disk # NoDisk => DiskOwned

(***************************************************************************)
(* The invariant behind the promises about sizes.                          *)
(***************************************************************************)
\* All that overlaps is one expansion with one deletion.
Overlaps ==
    \A c, d \in Calls : Active(c) /\ Active(d) /\ c # d =>
        \/ req[c].op = "expand" /\ req[d].op = "delete"
        \/ req[c].op = "delete" /\ req[d].op = "expand"

\* Nothing is promised of a volume that is to be deleted, and no other is.
Doom ==
    /\ doomed => acked = 0 /\ grown = 0
    /\ disk # NoDisk => (disk.deleting => doomed)
    /\ \A c \in Calls : Active(c) => /\ req[c].op = "delete" => doomed
                                     /\ req[c].op = "create" => ~doomed

CreateFacts(c) ==
    Active(c) /\ req[c].op = "create" /\ pc[c] = "done" /\ ret[c] = "OK" =>
        disk # NoDisk /\ DiskOwned /\ disk.spec = Size(c)

ExpandFacts(c) ==
    Active(c) /\ req[c].op = "expand" =>
        /\ CapacityBytes(req[c].range) >= acked
        /\ pc[c] = "done" /\ ret[c] = "OK" /\ ~doomed =>
              disk # NoDisk /\ DiskOwned /\ disk.size * Unit >= CapacityBytes(req[c].range)

SizeInv ==
    /\ OwnerInv
    /\ Overlaps
    /\ Doom
    /\ \A c \in Calls : CreateFacts(c) /\ ExpandFacts(c)
    /\ AckedVolumeKept
    /\ ExpandedDeviceGrown

(***************************************************************************)
(* The invariant behind the promise to the volume's user.                  *)
(***************************************************************************)
\* The node expands what the device has reached, and no volume that is given up.
NodeWaits ==
    npc # "idle" => ~doomed /\ disk # NoDisk /\ disk.size * Unit >= nreq

NodeServed == usable > 0 => ~doomed /\ disk # NoDisk

ExpansionInv ==
    /\ SizeInv
    /\ ExpansionTypeOK
    /\ NodeWaits
    /\ NodeServed
    /\ ExpansionReachesUser

-----------------------------------------------------------------------------
(***************************************************************************)
(* The arithmetic of sizes.                                                *)
(***************************************************************************)

\* A conversion to int32 yields an int32 and leaves one as it is.
LEMMA Int32Range ==
    ASSUME NEW x \in Int
    PROVE  Int32(x) \in Sizes /\ (x \in Sizes => Int32(x) = x)
BY WidthAssumption DEF Int32, Sizes

\* A product grows with its factor.
LEMMA Monotone ==
    ASSUME NEW a \in Int, NEW b \in Int, NEW u \in Nat, a <= b
    PROVE  a * u <= b * u
OBVIOUS

\* What is rounded down to a multiple does not exceed what it was.
LEMMA RoundedDown ==
    ASSUME NEW a \in Nat, NEW f \in Nat \ {0}, a \div f > 0
    PROVE  (a \div f) * f \in 1..a
<1> DEFINE q == a \div f
<1>1. q \in Int /\ q > 0
  OBVIOUS
<1>2. f * q <= a
  OBVIOUS
<1>3. f * q > 0 /\ f * q = q * f
  BY <1>1
<1>4. q * f \in Int
  BY <1>1
<1> HIDE DEF q
<1> QED BY <1>2, <1>3, <1>4 DEF q

\* capacityFromRange (pkg/controller/capacity.go) yields an int32.
LEMMA CapacityTyped ==
    ASSUME NEW g \in Ranges
    PROVE  CapacityBytes(g) \in Nat /\ capacityFromRange(g) \in Sizes
<1>1. CapacityBytes(g) \in Nat
  BY RangesAssumption DEF CapacityBytes
<1>2. (CapacityBytes(g) + Unit - 1) \div Unit \in Int
  BY <1>1, WidthAssumption
<1> QED BY <1>1, <1>2, Int32Range DEF capacityFromRange, CapacityMB

\* diskSizeToMB (pkg/evroc/sdk/storage.go) makes of the API's report of a size,
\* in whichever unit and however rounded, no more than that size: nothing wraps
\* on the way.
LEMMA ReportRead ==
    ASSUME NEW size \in Sizes, size > 0, NEW r \in Reports(size)
    PROVE  /\ diskSizeToMB(r.amount, r.unit) \in 1..size
           /\ r \in [amount : Sizes, unit : {"KB", "MB", "GB", "TB"}]
           /\ r # NoReport
<1>0. /\ r \in [amount : 1..(HalfRange - 1), unit : {"KB", "MB", "GB", "TB"}]
      /\ r.amount \in Nat \ {0} /\ r.amount \in Sizes
      /\ Factor \in Nat \ {0} /\ size \in Nat
  BY WidthAssumption DEF Reports, Sizes
<1>1. CASE r.unit = "KB"
  <2>1. r.amount = size * Factor
    BY <1>1 DEF Reports
  <2>2. (size * Factor) \div Factor = size
    BY <1>0
  <2> QED BY <1>0, <1>1, <2>1, <2>2 DEF diskSizeToMB, NoReport
<1>2. CASE r.unit = "MB"
  <2>1. r.amount = size
    BY <1>2 DEF Reports
  <2> QED BY <1>0, <1>2, <2>1 DEF diskSizeToMB, NoReport
<1>3. ASSUME NEW x \in Int, x \in 1..size PROVE Int32(x) = x
  <2>1. x \in Sizes
    BY <1>0, <1>3, WidthAssumption DEF Sizes
  <2> QED BY <2>1, Int32Range
<1>4. CASE r.unit = "GB"
  <2>1. r.amount = size \div Factor
    BY <1>4 DEF Reports
  <2>2. r.amount * Factor \in 1..size
    BY <1>0, <2>1, RoundedDown
  <2>3. Int32(r.amount * Factor) = r.amount * Factor
    BY <1>3, <2>2
  <2> QED BY <1>0, <1>4, <2>2, <2>3 DEF diskSizeToMB, NoReport
<1>5. CASE r.unit = "TB"
  <2>1. Factor * Factor \in Nat \ {0}
    BY <1>0
  <2>2. r.amount = size \div (Factor * Factor)
    BY <1>5 DEF Reports
  <2>3. /\ r.amount * Factor \in Nat \ {0}
        /\ (r.amount * Factor) * Factor = r.amount * (Factor * Factor)
    BY <1>0
  <2>4. (r.amount * Factor) * Factor \in 1..size
    BY <1>0, <2>1, <2>2, <2>3, RoundedDown
  <2>5. r.amount * Factor <= (r.amount * Factor) * Factor
    BY <1>0, <2>3
  <2>6. r.amount * Factor \in 1..size
    BY <1>0, <2>3, <2>4, <2>5
  <2>7. /\ Int32(r.amount * Factor) = r.amount * Factor
        /\ Int32((r.amount * Factor) * Factor) = (r.amount * Factor) * Factor
    BY <1>3, <2>4, <2>6
  <2> QED BY <1>0, <1>5, <2>4, <2>7 DEF diskSizeToMB, NoReport
<1> QED BY <1>0, <1>1, <1>2, <1>4, <1>5

-----------------------------------------------------------------------------
(***************************************************************************)
(* Control flow of a handler.                                              *)
(***************************************************************************)
Retries(c) ==
    /\ AttemptsLeft(c)
    /\ pc' = [pc EXCEPT ![c] = FirstRequest(req[c].op)]
    /\ tries' = [tries EXCEPT ![c] = @ + 1]
    /\ UNCHANGED ret

\* The attempt fails, and is repeated or is the last one.
Fails(c) == Retries(c) \/ \E code \in Codes \ {"OK"} : Return(c, code)

\* retryOnTransient never turns a failure into a success.
LEMMA RetryFails ==
    ASSUME NEW c \in Calls, NEW code \in Codes \ {"OK"}, retryOnTransient(c, code)
    PROVE  Fails(c)
<1>1. WrappedCode(req[c].op, code) \in Codes \ {"OK"} /\ "Internal" \in Codes \ {"OK"}
  BY DEF WrappedCode, Codes
<1> QED BY <1>1 DEF retryOnTransient, Fails, Retries

\* A request that fails changes nothing but the handler.
LEMMA RequestFailsOnly ==
    ASSUME NEW c \in Calls, RequestFails(c)
    PROVE  Fails(c) /\ UNCHANGED disk
BY RetryFails DEF RequestFails, ApiErrors, Codes

\* CreateVolume: success means an own disk of the size asked for, found or made.
CreateOutcome(c) ==
    \/ /\ UNCHANGED disk
       /\ Fails(c) \/ Goto(c, "post") \/ Goto(c, "verify")
    \/ /\ UNCHANGED disk
       /\ disk # NoDisk /\ DiskOwned /\ disk.spec = Size(c) /\ Return(c, "OK")
    \/ /\ disk = NoDisk /\ Size(c) > 0
       /\ disk' = [owner |-> "us", spec |-> Size(c), size |-> 0,
                   status |-> NoReport, deleting |-> FALSE]
       /\ Return(c, "OK") \/ Fails(c)

\* Every step of CreateVolume has such an outcome.
LEMMA CreateDoes ==
    ASSUME NEW c \in Calls, CreateStep(c)
    PROVE  pc[c] \in CreatePCs /\ UNCHANGED <<req, historyVars>> /\ CreateOutcome(c)
<1>0. "AlreadyExists" \in Codes \ {"OK"} /\ "NotFound" \in Codes \ {"OK"}
      /\ "InvalidArgument" \in Codes \ {"OK"} /\ "Internal" \in Codes \ {"OK"}
      /\ ApiErrors \subseteq Codes \ {"OK"}
  BY DEF Codes, ApiErrors
<1>1. ASSUME validateExistingDisk(c), disk # NoDisk
      PROVE  CreateOutcome(c)
  BY <1>0, <1>1, RetryFails DEF validateExistingDisk, ExistingMatches, CreateOutcome
<1>2. CASE GetBeforeCreate(c)
  BY <1>1, <1>2 DEF GetBeforeCreate, CreateOutcome, CreatePCs
<1>3. CASE PostDisk(c)
  BY <1>0, <1>3, RequestFailsOnly, RetryFails DEF PostDisk, CreateOutcome, CreatePCs
<1>4. CASE VerifyCreated(c)
  <2>1. ASSUME NEW code \in ApiErrors \cup (IF disk = NoDisk THEN {"NotFound"} ELSE {})
        PROVE  code \in Codes \ {"OK"}
    BY <1>0
  <2> QED BY <1>1, <1>4, <2>1, RetryFails DEF VerifyCreated, CreateOutcome, CreatePCs
<1> QED BY <1>2, <1>3, <1>4 DEF CreateStep

\* ControllerExpandVolume: success means a status with the size asked for; the
\* spec is changed on a disk that is ours, and not below what it has reached.
ExpandOutcome(c) ==
    \/ UNCHANGED disk /\ Fails(c)
    \/ UNCHANGED disk /\ disk # NoDisk /\ DiskOwned /\ Goto(c, "patch")
    \/ /\ UNCHANGED disk
       /\ disk # NoDisk /\ (DiskOwned \/ pc[c] = "awaitResize")
       /\ diskStatusMatchesSize(Size(c)) /\ Return(c, "OK")
    \/ /\ pc[c] = "patch" /\ disk # NoDisk /\ PatchAccepted(Size(c))
       /\ disk' = [disk EXCEPT !.spec = Size(c)]
       /\ Goto(c, "awaitResize") \/ Fails(c)

\* Every step of ControllerExpandVolume has such an outcome.
LEMMA ExpandDoes ==
    ASSUME NEW c \in Calls, ExpandStep(c)
    PROVE  pc[c] \in ExpandPCs /\ UNCHANGED <<req, historyVars>> /\ ExpandOutcome(c)
<1>0. {"NotFound", "OutOfRange", "Aborted", "InvalidArgument", "DeadlineExceeded", "Internal"}
          \subseteq Codes \ {"OK"}
  BY DEF Codes
<1>1. CASE GetForResize(c)
  BY <1>0, <1>1, RequestFailsOnly, RetryFails DEF GetForResize, ExpandOutcome, ExpandPCs
<1>2. CASE PatchDisk(c)
  BY <1>0, <1>2, RequestFailsOnly, RetryFails DEF PatchDisk, Answered, ExpandOutcome, ExpandPCs
<1>3. CASE waitForDiskResize(c)
  BY <1>0, <1>3, RetryFails DEF waitForDiskResize, ExpandOutcome, ExpandPCs
<1> QED BY <1>1, <1>2, <1>3 DEF ExpandStep

\* DeleteVolume marks a disk for deletion that a GET has shown to be ours.
DeleteOutcome(c) ==
    \/ UNCHANGED disk /\ (Fails(c) \/ Return(c, "OK"))
    \/ UNCHANGED disk /\ disk # NoDisk /\ DiskOwned /\ Goto(c, "deleteDisk")
    \/ /\ pc[c] = "deleteDisk" /\ disk # NoDisk
       /\ disk' = [disk EXCEPT !.deleting = TRUE]
       /\ Goto(c, "confirm") \/ Fails(c)

\* Every step of DeleteVolume has such an outcome.
LEMMA DeleteDoes ==
    ASSUME NEW c \in Calls, DeleteStep(c)
    PROVE  pc[c] \in DeletePCs /\ UNCHANGED <<req, historyVars>> /\ DeleteOutcome(c)
<1>0. {"PermissionDenied", "Unavailable", "Internal"} \subseteq Codes \ {"OK"}
  BY DEF Codes
<1>1. CASE GetDoomedDisk(c)
  BY <1>0, <1>1, RequestFailsOnly, RetryFails DEF GetDoomedDisk, DeleteOutcome, DeletePCs
<1>2. CASE DeleteDisk(c)
  BY <1>0, <1>2, RequestFailsOnly, RetryFails DEF DeleteDisk, Answered, DeleteOutcome, DeletePCs
<1>3. CASE ConfirmDeleted(c)
  BY <1>0, <1>3, RequestFailsOnly, RetryFails DEF ConfirmDeleted, DeleteOutcome, DeletePCs
<1> QED BY <1>1, <1>2, <1>3 DEF DeleteStep

\* Whatever its outcome, a step keeps a handler within its call.
LEMMA HandlerTyped ==
    ASSUME TypeOK, \A d \in Calls : ServesRequest(d),
           NEW c \in Calls, NEW S \in {CreatePCs, ExpandPCs, DeletePCs}, pc[c] \in S,
           UNCHANGED req,
           \/ Fails(c)
           \/ \E code \in Codes : Return(c, code)
           \/ \E l \in S : Goto(c, l)
    PROVE  /\ pc' \in [Calls -> PCs] /\ tries' \in [Calls -> 0..MaxRetries]
           /\ ret' \in [Calls -> Codes]
           /\ pc'[c] \in S \cup {"done"}
           /\ \A d \in Calls : d # c => pc'[d] = pc[d] /\ ret'[d] = ret[d]
           /\ Fails(c) => pc'[c] \notin OwnedPCs /\ (pc'[c] = "done" => ret'[c] # "OK")
           /\ \A d \in Calls : ServesRequest(d)'
           /\ \A d \in Calls : Active(d)' <=> Active(d)
<1>0. pc \in [Calls -> PCs] /\ tries \in [Calls -> 0..MaxRetries] /\ ret \in [Calls -> Codes]
  BY DEF TypeOK
<1>1. FirstRequest(req[c].op) \in S \ OwnedPCs /\ FirstRequest(req[c].op) # "done"
  BY DEF ServesRequest, FirstRequest, CreatePCs, ExpandPCs, DeletePCs, OwnedPCs
<1>2. S \subseteq PCs /\ "done" \in PCs /\ "idle" \notin S /\ "done" \notin OwnedPCs
      /\ "done" \notin S
  BY DEF PCs, CreatePCs, ExpandPCs, DeletePCs, OwnedPCs
<1>3. CASE Retries(c)
  <2>1. tries[c] + 1 \in 0..MaxRetries
    BY <1>0, <1>3, RetriesAssumption DEF Retries, AttemptsLeft
  <2> QED BY <1>0, <1>1, <1>2, <1>3, <2>1 DEF Retries, ServesRequest, Active, CreatePCs, ExpandPCs,
                                              DeletePCs
<1>4. ASSUME NEW code \in Codes, Return(c, code), Fails(c) => code # "OK"
      PROVE  /\ pc' \in [Calls -> PCs] /\ tries' \in [Calls -> 0..MaxRetries]
             /\ ret' \in [Calls -> Codes]
             /\ pc'[c] \in S \cup {"done"}
             /\ \A d \in Calls : d # c => pc'[d] = pc[d] /\ ret'[d] = ret[d]
             /\ Fails(c) => pc'[c] \notin OwnedPCs /\ (pc'[c] = "done" => ret'[c] # "OK")
             /\ \A d \in Calls : ServesRequest(d)'
             /\ \A d \in Calls : Active(d)' <=> Active(d)
  <2>1. 0 \in 0..MaxRetries
    BY RetriesAssumption
  <2> QED BY <1>0, <1>2, <1>4, <2>1 DEF Return, ServesRequest, Active, CreatePCs, ExpandPCs,
                                        DeletePCs
<1>5. ASSUME NEW l \in S, Goto(c, l), ~Fails(c)
      PROVE  /\ pc' \in [Calls -> PCs] /\ tries' \in [Calls -> 0..MaxRetries]
             /\ ret' \in [Calls -> Codes]
             /\ pc'[c] \in S \cup {"done"}
             /\ \A d \in Calls : d # c => pc'[d] = pc[d] /\ ret'[d] = ret[d]
             /\ \A d \in Calls : ServesRequest(d)'
             /\ \A d \in Calls : Active(d)' <=> Active(d)
  BY <1>0, <1>2, <1>5 DEF Goto, ServesRequest, Active, CreatePCs, ExpandPCs, DeletePCs
<1> QED BY <1>3, <1>4, <1>5 DEF Fails
-----------------------------------------------------------------------------
(***************************************************************************)
(* Every step keeps OwnerInv.                                              *)
(***************************************************************************)

\* What a change of one field leaves of a disk.
LEMMA DiskWith ==
    ASSUME NEW k \in DiskObjects, NEW size \in Sizes
    PROVE  /\ [k EXCEPT !.spec = size] \in DiskObjects
           /\ [k EXCEPT !.spec = size].owner = k.owner
           /\ [k EXCEPT !.spec = size].spec = size
           /\ [k EXCEPT !.spec = size].size = k.size
           /\ [k EXCEPT !.spec = size].status = k.status
           /\ [k EXCEPT !.spec = size].deleting = k.deleting
           /\ [k EXCEPT !.deleting = TRUE] \in DiskObjects
           /\ [k EXCEPT !.deleting = TRUE].owner = k.owner
           /\ [k EXCEPT !.deleting = TRUE].spec = k.spec
           /\ [k EXCEPT !.deleting = TRUE].size = k.size
           /\ [k EXCEPT !.deleting = TRUE].status = k.status
BY DEF DiskObjects

\* The disk that CreateVolume makes.
LEMMA NewDisk ==
    ASSUME NEW size \in Sizes
    PROVE  [owner |-> "us", spec |-> size, size |-> 0, status |-> NoReport,
            deleting |-> FALSE] \in DiskObjects
BY WidthAssumption DEF DiskObjects, Sizes, NoReport

\* The size that a creation or an expansion asks the API for is an int32.
LEMMA SizeTyped ==
    ASSUME TypeOK, NEW c \in Calls, ServesRequest(c), pc[c] \in CreatePCs \cup ExpandPCs
    PROVE  req[c].range \in Ranges /\ Size(c) \in Sizes
<1>1. req[c] \in Requests /\ req[c].op \in {"create", "expand"}
  BY DEF ServesRequest, Active, CreatePCs, ExpandPCs
<1>2. req[c].range \in Ranges
  BY <1>1 DEF Requests
<1> QED BY <1>2, CapacityTyped DEF Size

\* A step of CreateVolume.
LEMMA CreateKeepsOwner ==
    ASSUME OwnerInv, NEW c \in Calls, CreateStep(c)
    PROVE  OwnerInv'
<1>0. /\ TypeOK /\ DiskFacts /\ \A d \in Calls : ServesRequest(d)
      /\ \A d \in Calls : pc[d] \in OwnedPCs /\ disk # NoDisk => DiskOwned
  BY DEF OwnerInv
<1>1. pc[c] \in CreatePCs /\ UNCHANGED <<req, historyVars>> /\ CreateOutcome(c)
  BY CreateDoes
<1>2. \/ Fails(c)
      \/ \E code \in Codes : Return(c, code)
      \/ \E l \in CreatePCs : Goto(c, l)
  <2>1. "OK" \in Codes /\ "post" \in CreatePCs /\ "verify" \in CreatePCs
    BY DEF Codes, CreatePCs
  <2> QED BY <1>1, <2>1 DEF CreateOutcome
<1>3. /\ pc' \in [Calls -> PCs] /\ tries' \in [Calls -> 0..MaxRetries] /\ ret' \in [Calls -> Codes]
      /\ pc'[c] \in CreatePCs \cup {"done"}
      /\ \A d \in Calls : d # c => pc'[d] = pc[d]
      /\ \A d \in Calls : ServesRequest(d)'
  BY <1>0, <1>1, <1>2, HandlerTyped
<1>4. CASE UNCHANGED disk
  <2>1. TypeOK'
    BY <1>0, <1>1, <1>3, <1>4 DEF TypeOK, historyVars
  <2>2. DiskFacts'
    BY <1>0, <1>4 DEF DiskFacts, DiskOwned, StatusMB
  <2>3. \A d \in Calls : pc'[d] \in OwnedPCs /\ disk' # NoDisk => DiskOwned'
    BY <1>0, <1>3, <1>4 DEF DiskOwned, OwnedPCs, CreatePCs
  <2> QED BY <1>3, <2>1, <2>2, <2>3 DEF OwnerInv
<1>5. CASE disk' = [owner |-> "us", spec |-> Size(c), size |-> 0,
                    status |-> NoReport, deleting |-> FALSE]
  <2>0. disk' \in DiskObjects /\ DiskOwned' /\ disk'.size = 0 /\ disk'.status = NoReport
    BY <1>0, <1>1, <1>5, SizeTyped, NewDisk DEF DiskOwned
  <2>1. TypeOK'
    BY <1>0, <1>1, <1>3, <2>0 DEF TypeOK, historyVars
  <2>2. DiskFacts'
    BY <2>0 DEF DiskFacts
  <2> QED BY <1>3, <2>0, <2>1, <2>2 DEF OwnerInv
<1> QED BY <1>1, <1>4, <1>5 DEF CreateOutcome

\* A step of ControllerExpandVolume.
LEMMA ExpandKeepsOwner ==
    ASSUME OwnerInv, NEW c \in Calls, ExpandStep(c)
    PROVE  OwnerInv'
<1>0. /\ TypeOK /\ DiskFacts /\ \A d \in Calls : ServesRequest(d)
      /\ \A d \in Calls : pc[d] \in OwnedPCs /\ disk # NoDisk => DiskOwned
  BY DEF OwnerInv
<1>1. pc[c] \in ExpandPCs /\ UNCHANGED <<req, historyVars>> /\ ExpandOutcome(c)
  BY ExpandDoes
<1>2. \/ Fails(c)
      \/ \E code \in Codes : Return(c, code)
      \/ \E l \in ExpandPCs : Goto(c, l)
  <2>1. "OK" \in Codes /\ "patch" \in ExpandPCs /\ "awaitResize" \in ExpandPCs
    BY DEF Codes, ExpandPCs
  <2> QED BY <1>1, <2>1 DEF ExpandOutcome
<1>3. /\ pc' \in [Calls -> PCs] /\ tries' \in [Calls -> 0..MaxRetries] /\ ret' \in [Calls -> Codes]
      /\ pc'[c] \in ExpandPCs \cup {"done"}
      /\ \A d \in Calls : d # c => pc'[d] = pc[d]
      /\ Fails(c) => pc'[c] \notin OwnedPCs
      /\ \A d \in Calls : ServesRequest(d)'
  BY <1>0, <1>1, <1>2, HandlerTyped
<1>4. CASE UNCHANGED disk
  <2>1. TypeOK'
    BY <1>0, <1>1, <1>3, <1>4 DEF TypeOK, historyVars
  <2>2. DiskFacts'
    BY <1>0, <1>4 DEF DiskFacts, DiskOwned, StatusMB
  <2>3. pc'[c] \in OwnedPCs /\ disk # NoDisk => DiskOwned
    <3>1. CASE \E code \in Codes : Return(c, code)
      BY <1>0, <3>1 DEF Return, OwnedPCs, TypeOK
    <3>2. CASE Goto(c, "awaitResize")
      BY <1>0, <1>1, <1>3, <1>4, <3>2 DEF ExpandOutcome, OwnedPCs
    <3> QED BY <1>0, <1>1, <1>3, <3>1, <3>2 DEF ExpandOutcome, Codes, OwnedPCs
  <2>4. \A d \in Calls : pc'[d] \in OwnedPCs /\ disk' # NoDisk => DiskOwned'
    BY <1>0, <1>3, <1>4, <2>3 DEF DiskOwned
  <2> QED BY <1>3, <2>1, <2>2, <2>4 DEF OwnerInv
<1>5. CASE /\ pc[c] = "patch" /\ disk # NoDisk
           /\ disk' = [disk EXCEPT !.spec = Size(c)]
  <2>0. disk \in DiskObjects /\ Size(c) \in Sizes /\ DiskOwned
    BY <1>0, <1>1, <1>5, SizeTyped DEF TypeOK, OwnedPCs
  <2>1. /\ disk' \in DiskObjects /\ disk'.owner = disk.owner /\ disk'.size = disk.size
        /\ disk'.status = disk.status
    BY <1>5, <2>0, DiskWith
  <2>2. TypeOK'
    BY <1>0, <1>1, <1>3, <2>1 DEF TypeOK, historyVars
  <2>3. DiskFacts' /\ DiskOwned'
    BY <1>0, <1>5, <2>0, <2>1 DEF DiskFacts, DiskOwned, StatusMB
  <2> QED BY <1>3, <2>2, <2>3 DEF OwnerInv
<1> QED BY <1>1, <1>4, <1>5 DEF ExpandOutcome

\* A step of DeleteVolume.
LEMMA DeleteKeepsOwner ==
    ASSUME OwnerInv, NEW c \in Calls, DeleteStep(c)
    PROVE  OwnerInv'
<1>0. /\ TypeOK /\ DiskFacts /\ \A d \in Calls : ServesRequest(d)
      /\ \A d \in Calls : pc[d] \in OwnedPCs /\ disk # NoDisk => DiskOwned
  BY DEF OwnerInv
<1>1. pc[c] \in DeletePCs /\ UNCHANGED <<req, historyVars>> /\ DeleteOutcome(c)
  BY DeleteDoes
<1>2. \/ Fails(c)
      \/ \E code \in Codes : Return(c, code)
      \/ \E l \in DeletePCs : Goto(c, l)
  <2>1. "OK" \in Codes /\ "deleteDisk" \in DeletePCs /\ "confirm" \in DeletePCs
    BY DEF Codes, DeletePCs
  <2> QED BY <1>1, <2>1 DEF DeleteOutcome
<1>3. /\ pc' \in [Calls -> PCs] /\ tries' \in [Calls -> 0..MaxRetries] /\ ret' \in [Calls -> Codes]
      /\ pc'[c] \in DeletePCs \cup {"done"}
      /\ \A d \in Calls : d # c => pc'[d] = pc[d]
      /\ Fails(c) => pc'[c] \notin OwnedPCs
      /\ \A d \in Calls : ServesRequest(d)'
  BY <1>0, <1>1, <1>2, HandlerTyped
<1>4. CASE UNCHANGED disk
  <2>1. TypeOK'
    BY <1>0, <1>1, <1>3, <1>4 DEF TypeOK, historyVars
  <2>2. DiskFacts'
    BY <1>0, <1>4 DEF DiskFacts, DiskOwned, StatusMB
  <2>3. pc'[c] \in OwnedPCs /\ disk # NoDisk => DiskOwned
    <3>1. CASE Return(c, "OK")
      BY <1>0, <3>1 DEF Return, OwnedPCs, TypeOK
    <3>2. CASE pc[c] = "deleteDisk"
      BY <1>0, <3>2 DEF OwnedPCs
    <3> QED BY <1>1, <1>3, <3>1, <3>2 DEF DeleteOutcome
  <2>4. \A d \in Calls : pc'[d] \in OwnedPCs /\ disk' # NoDisk => DiskOwned'
    BY <1>0, <1>3, <1>4, <2>3 DEF DiskOwned
  <2> QED BY <1>3, <2>1, <2>2, <2>4 DEF OwnerInv
<1>5. CASE /\ pc[c] = "deleteDisk" /\ disk # NoDisk
           /\ disk' = [disk EXCEPT !.deleting = TRUE]
  <2>0. disk \in DiskObjects /\ DiskOwned /\ 0 \in Sizes
    BY <1>0, <1>5, WidthAssumption DEF TypeOK, OwnedPCs, Sizes
  <2>1. /\ disk' \in DiskObjects /\ disk'.owner = disk.owner /\ disk'.size = disk.size
        /\ disk'.status = disk.status
    BY <1>5, <2>0, DiskWith
  <2>2. TypeOK'
    BY <1>0, <1>1, <1>3, <2>1 DEF TypeOK, historyVars
  <2>3. DiskFacts' /\ DiskOwned'
    BY <1>0, <1>5, <2>0, <2>1 DEF DiskFacts, DiskOwned, StatusMB
  <2> QED BY <1>3, <2>2, <2>3 DEF OwnerInv
<1> QED BY <1>1, <1>4, <1>5 DEF DeleteOutcome

\* Every request has one of the three operations, all but a deletion a range.
LEMMA RequestTyped ==
    ASSUME NEW r \in Requests
    PROVE  /\ r.op \in {"create", "expand", "delete"}
           /\ r.op # "delete" => r.range \in Ranges
BY DEF Requests

\* What a call reports is a number.
LEMMA ReportTyped ==
    ASSUME NEW r \in Requests, r.op # "delete"
    PROVE  /\ ReportedCapacity(r) \in Int
           /\ r.op = "expand" => ReportedCapacity(r) \in Nat
<1>1. r.range \in Ranges
  BY RequestTyped
<1>2. capacityFromRange(r.range) \in Int /\ CapacityBytes(r.range) \in Nat
  BY <1>1, CapacityTyped, WidthAssumption DEF Sizes
<1>3. capacityFromRange(r.range) * Unit \in Int
  BY <1>2, WidthAssumption
<1> QED BY <1>2, <1>3 DEF ReportedCapacity

\* The start of a call.
LEMMA BeginKeepsOwner ==
    ASSUME OwnerInv, NEW c \in Calls, NEW r \in Requests, Begin(c, r)
    PROVE  OwnerInv'
<1>0. /\ TypeOK /\ DiskFacts /\ \A d \in Calls : ServesRequest(d)
      /\ \A d \in Calls : pc[d] \in OwnedPCs /\ disk # NoDisk => DiskOwned
  BY DEF OwnerInv
<1>1. /\ req' = [req EXCEPT ![c] = r] /\ UNCHANGED disk
      /\ Return(c, "InvalidArgument") \/ Goto(c, FirstRequest(r.op))
  BY DEF Begin
<1>2. /\ FirstRequest(r.op) \in PCs \ (OwnedPCs \cup {"done", "idle"})
      /\ FirstRequest(r.op) \in CreatePCs => r.op = "create"
      /\ FirstRequest(r.op) \in ExpandPCs => r.op = "expand"
      /\ FirstRequest(r.op) \in DeletePCs => r.op = "delete"
  BY RequestTyped DEF FirstRequest, PCs, CreatePCs, ExpandPCs, DeletePCs, OwnedPCs
<1>3. "done" \in PCs \ OwnedPCs /\ "done" \notin CreatePCs \cup ExpandPCs \cup DeletePCs
      /\ "InvalidArgument" \in Codes /\ 0 \in 0..MaxRetries
  BY RetriesAssumption DEF PCs, OwnedPCs, Codes, CreatePCs, ExpandPCs, DeletePCs
<1>4. /\ pc' \in [Calls -> PCs] /\ tries' \in [Calls -> 0..MaxRetries] /\ ret' \in [Calls -> Codes]
      /\ pc'[c] \in {"done", FirstRequest(r.op)}
      /\ \A d \in Calls : d # c => pc'[d] = pc[d]
  <2>1. CASE Return(c, "InvalidArgument")
    BY <1>0, <1>3, <2>1 DEF TypeOK, Return
  <2>2. CASE Goto(c, FirstRequest(r.op))
    BY <1>0, <1>2, <2>2 DEF TypeOK, Goto
  <2> QED BY <1>1, <2>1, <2>2
<1>5. /\ req' \in [Calls -> Requests \cup {NoReq}] /\ req'[c] = r
      /\ \A d \in Calls : d # c => req'[d] = req[d]
  BY <1>0, <1>1 DEF TypeOK
<1>6. doomed' \in BOOLEAN /\ acked' \in Int /\ grown' \in Nat
  <2>1. doomed' \in BOOLEAN
    BY DEF Begin
  <2>2. acked' \in Int /\ grown' \in Nat
    BY <1>0 DEF Begin, TypeOK
  <2> QED BY <2>1, <2>2
<1>7. TypeOK'
  BY <1>0, <1>1, <1>4, <1>5, <1>6 DEF TypeOK
<1>8. \A d \in Calls : ServesRequest(d)'
  BY <1>0, <1>2, <1>3, <1>4, <1>5 DEF ServesRequest, Active
<1>9. DiskFacts'
  BY <1>0, <1>1 DEF DiskFacts, DiskOwned, StatusMB
<1>10. \A d \in Calls : pc'[d] \in OwnedPCs /\ disk' # NoDisk => DiskOwned'
  BY <1>0, <1>1, <1>2, <1>3, <1>4 DEF DiskOwned
<1> QED BY <1>7, <1>8, <1>9, <1>10 DEF OwnerInv

\* The end of a call.
LEMMA ReplyKeepsOwner ==
    ASSUME OwnerInv, NEW c \in Calls, Reply(c)
    PROVE  OwnerInv'
<1>0. /\ TypeOK /\ DiskFacts /\ \A d \in Calls : ServesRequest(d)
      /\ \A d \in Calls : pc[d] \in OwnedPCs /\ disk # NoDisk => DiskOwned
  BY DEF OwnerInv
<1>1. /\ pc[c] = "done" /\ pc' = [pc EXCEPT ![c] = "idle"]
      /\ ret' = [ret EXCEPT ![c] = "none"] /\ req' = [req EXCEPT ![c] = NoReq]
      /\ UNCHANGED <<disk, tries, doomed>>
  BY DEF Reply
<1>2. req[c] \in Requests
  BY <1>0, <1>1 DEF ServesRequest, Active
<1>3. acked' \in Int /\ grown' \in Nat
  <2>1. acked \in Int /\ grown \in Nat
    BY <1>0 DEF TypeOK
  <2> QED BY <1>2, <2>1, ReportTyped DEF Reply, Larger
<1>4. "idle" \in PCs /\ "none" \in Codes /\ "idle" \notin OwnedPCs
      /\ "idle" \notin CreatePCs \cup ExpandPCs \cup DeletePCs
  BY DEF PCs, Codes, OwnedPCs, CreatePCs, ExpandPCs, DeletePCs
<1>5. TypeOK'
  BY <1>0, <1>1, <1>3, <1>4 DEF TypeOK
<1>6. \A d \in Calls : pc'[d] = (IF d = c THEN "idle" ELSE pc[d])
  BY <1>0, <1>1 DEF TypeOK
<1>7. \A d \in Calls : d # c => req'[d] = req[d]
  BY <1>0, <1>1 DEF TypeOK
<1>8. \A d \in Calls : ServesRequest(d)'
  BY <1>0, <1>4, <1>6, <1>7 DEF ServesRequest, Active
<1>9. DiskFacts'
  BY <1>0, <1>1 DEF DiskFacts, DiskOwned, StatusMB
<1>10. \A d \in Calls : pc'[d] \in OwnedPCs /\ disk' # NoDisk => DiskOwned'
  BY <1>0, <1>1, <1>4, <1>6 DEF DiskOwned
<1> QED BY <1>5, <1>8, <1>9, <1>10 DEF OwnerInv

\* The controller's restart.
LEMMA CrashKeepsOwner ==
    ASSUME OwnerInv, Crash
    PROVE  OwnerInv'
<1>0. TypeOK /\ DiskFacts
  BY DEF OwnerInv
<1>1. "idle" \in PCs /\ "none" \in Codes /\ 0 \in 0..MaxRetries /\ "idle" \notin OwnedPCs
      /\ "idle" \notin CreatePCs \cup ExpandPCs \cup DeletePCs
  BY RetriesAssumption DEF PCs, Codes, OwnedPCs, CreatePCs, ExpandPCs, DeletePCs
<1>2. TypeOK'
  BY <1>0, <1>1 DEF Crash, TypeOK, historyVars
<1>3. \A d \in Calls : ServesRequest(d)' /\ pc'[d] \notin OwnedPCs
  BY <1>1 DEF Crash, ServesRequest, Active
<1>4. DiskFacts'
  BY <1>0 DEF Crash, DiskFacts, DiskOwned, StatusMB
<1> QED BY <1>2, <1>3, <1>4 DEF OwnerInv

\* The API resizes the disk: its spec is above a size that is not negative.
LEMMA ReconcileDoes ==
    ASSUME TypeOK, DiskFacts, Reconcile
    PROVE  /\ disk # NoDisk /\ ~disk.deleting /\ disk.size < disk.spec /\ disk.spec > 0
           /\ disk \in DiskObjects /\ disk' \in DiskObjects
           /\ disk'.owner = disk.owner /\ disk'.spec = disk.spec /\ disk'.size = disk.spec
           /\ disk'.deleting = disk.deleting
           /\ StatusMB' \in 1..disk.spec
           /\ UNCHANGED <<callVars, req, historyVars>>
<1>1. /\ disk # NoDisk /\ disk \in DiskObjects /\ ~disk.deleting /\ disk.size < disk.spec
      /\ UNCHANGED <<callVars, req, historyVars>>
  BY DEF Reconcile, TypeOK
<1>2. disk.spec \in Sizes /\ disk.size \in Sizes
  BY <1>1 DEF DiskObjects
<1>3. disk.spec > 0
  BY <1>1, <1>2, WidthAssumption DEF DiskFacts, Sizes
<1>4. PICK status \in Reports(disk.spec) :
          disk' = [disk EXCEPT !.size = disk.spec, !.status = status]
  BY DEF Reconcile
<1>5. /\ diskSizeToMB(status.amount, status.unit) \in 1..disk.spec
      /\ status \in [amount : Sizes, unit : {"KB", "MB", "GB", "TB"}]
  BY <1>2, <1>3, ReportRead
<1>6. /\ disk' \in DiskObjects
      /\ disk'.owner = disk.owner /\ disk'.spec = disk.spec /\ disk'.size = disk.spec
      /\ disk'.deleting = disk.deleting /\ disk'.status = status
  BY <1>1, <1>2, <1>4, <1>5 DEF DiskObjects
<1> QED BY <1>1, <1>3, <1>5, <1>6 DEF StatusMB

\* Only a disk of ours is resized, and its status then tells no more than its
\* size.
LEMMA ReconcileKeepsOwner ==
    ASSUME OwnerInv, Reconcile
    PROVE  OwnerInv'
<1>0. /\ TypeOK /\ DiskFacts /\ \A d \in Calls : ServesRequest(d)
      /\ \A d \in Calls : pc[d] \in OwnedPCs /\ disk # NoDisk => DiskOwned
  BY DEF OwnerInv
<1>1. /\ disk # NoDisk /\ disk.size < disk.spec /\ disk.spec > 0
      /\ disk \in DiskObjects /\ disk' \in DiskObjects
      /\ disk'.owner = disk.owner /\ disk'.size = disk.spec
      /\ StatusMB' \in 1..disk.spec
      /\ UNCHANGED <<callVars, req, historyVars>>
  BY <1>0, ReconcileDoes
<1>2. disk.size \in Int /\ disk.spec \in Int
  BY <1>1, WidthAssumption DEF DiskObjects, Sizes
<1>3. DiskOwned /\ DiskOwned'
  BY <1>0, <1>1, <1>2 DEF DiskFacts, DiskOwned
<1>4. DiskFacts'
  BY <1>1, <1>2, <1>3 DEF DiskFacts
<1>5. TypeOK'
  BY <1>0, <1>1 DEF TypeOK, callVars, historyVars
<1>6. \A d \in Calls : ServesRequest(d)'
  BY <1>0, <1>1 DEF ServesRequest, Active, callVars
<1> QED BY <1>3, <1>4, <1>5, <1>6 DEF OwnerInv

\* The disk is gone.
LEMMA RemovedKeepsOwner ==
    ASSUME OwnerInv, DiskRemoved
    PROVE  OwnerInv'
<1>1. TypeOK'
  BY DEF OwnerInv, DiskRemoved, TypeOK, callVars, historyVars
<1>2. DiskFacts'
  BY DEF DiskRemoved, DiskFacts
<1>3. \A d \in Calls : ServesRequest(d)'
  BY DEF OwnerInv, DiskRemoved, ServesRequest, Active, callVars
<1> QED BY <1>1, <1>2, <1>3 DEF OwnerInv, DiskRemoved

\* At the start the name is free, or a disk of another cluster has it.
LEMMA OwnerInvInit == Init => OwnerInv
<1> SUFFICES ASSUME Init PROVE OwnerInv
  OBVIOUS
<1>1. "idle" \in PCs /\ "none" \in Codes /\ 0 \in 0..MaxRetries /\ "idle" \notin OwnedPCs
      /\ "idle" \notin CreatePCs \cup ExpandPCs \cup DeletePCs
  BY RetriesAssumption DEF PCs, Codes, OwnedPCs, CreatePCs, ExpandPCs, DeletePCs
<1>2. ASSUME disk # NoDisk
      PROVE  /\ disk \in DiskObjects /\ disk.size = 1 /\ disk.spec = 1
             /\ disk.status = [amount |-> 1, unit |-> "MB"] /\ disk.deleting = FALSE
  <2>1. disk = [owner |-> "other", spec |-> 1, size |-> 1,
                status |-> [amount |-> 1, unit |-> "MB"], deleting |-> FALSE]
    BY <1>2 DEF Init
  <2>2. 1 \in Sizes
    BY WidthAssumption DEF Sizes
  <2>3. [amount |-> 1, unit |-> "MB"] \in [amount : Sizes, unit : {"KB", "MB", "GB", "TB"}]
    BY <2>2
  <2> QED BY <2>1, <2>2, <2>3 DEF DiskObjects
<1>3. TypeOK
  <2>1. disk \in DiskObjects \cup {NoDisk}
    BY <1>2
  <2>2. doomed \in BOOLEAN
    BY DEF Init
  <2> QED BY <1>1, <2>1, <2>2 DEF Init, TypeOK
<1>4. \A d \in Calls : ServesRequest(d) /\ pc[d] \notin OwnedPCs
  BY <1>1 DEF Init, ServesRequest, Active
<1>5. DiskFacts
  <2>1. ASSUME disk # NoDisk PROVE StatusMB = 1
    BY <1>2, <2>1 DEF StatusMB, diskSizeToMB
  <2>2. ASSUME disk # NoDisk PROVE ~disk.deleting
    BY <1>2, <2>2
  <2>3. ASSUME disk # NoDisk PROVE disk.size = 1 /\ disk.spec = 1
    BY <1>2, <2>3
  <2> QED BY <2>1, <2>2, <2>3 DEF DiskFacts
<1> QED BY <1>3, <1>4, <1>5 DEF OwnerInv

\* Every step keeps the invariant of ownership.
LEMMA OwnerInvStep == OwnerInv /\ [Next]_vars => OwnerInv'
<1> SUFFICES ASSUME OwnerInv, [Next]_vars PROVE OwnerInv'
  OBVIOUS
<1>1. CASE UNCHANGED vars
  BY <1>1 DEF OwnerInv, TypeOK, ServesRequest, Active, DiskFacts, DiskOwned, StatusMB, vars,
              callVars, historyVars
<1> QED BY <1>1, BeginKeepsOwner, CreateKeepsOwner, ExpandKeepsOwner, DeleteKeepsOwner,
           ReplyKeepsOwner, CrashKeepsOwner, ReconcileKeepsOwner, RemovedKeepsOwner DEF Next

\* The invariant of the controller's part holds, for every choice of constants.
THEOREM OwnerInvHolds == Spec => []OwnerInv
BY OwnerInvInit, OwnerInvStep, PTL DEF Spec

\* Provisioning and expansion keep their types: no capacity, however large,
\* and no report of the API leads out of the int32 range.
THEOREM ProvisionTypes == Spec => []TypeOK
<1>1. OwnerInv => TypeOK
  BY DEF OwnerInv
<1> QED BY <1>1, OwnerInvHolds, PTL

\* No step of a state of the invariant changes another cluster's disk.
LEMMA OthersUntouchedStep ==
    OwnerInv /\ [Next]_vars => [(disk # NoDisk /\ disk.owner = "other") => disk' = disk]_vars
<1> SUFFICES ASSUME OwnerInv, Next, disk # NoDisk, disk.owner = "other"
             PROVE  disk' = disk
  BY DEF vars
<1>0. /\ TypeOK /\ DiskFacts
      /\ \A d \in Calls : pc[d] \in OwnedPCs /\ disk # NoDisk => DiskOwned
  BY DEF OwnerInv
<1>1. ~DiskOwned
  BY DEF DiskOwned
<1>2. ASSUME NEW c \in Calls, CreateStep(c) PROVE disk' = disk
  BY <1>2, CreateDoes DEF CreateOutcome
<1>3. ASSUME NEW c \in Calls, ExpandStep(c) PROVE disk' = disk
  BY <1>0, <1>1, <1>3, ExpandDoes DEF ExpandOutcome, OwnedPCs
<1>4. ASSUME NEW c \in Calls, DeleteStep(c) PROVE disk' = disk
  BY <1>0, <1>1, <1>4, DeleteDoes DEF DeleteOutcome, OwnedPCs
<1>5. CASE Reconcile
  <2>1. disk.size \in Int /\ disk.spec \in Int /\ disk.size < disk.spec
    BY <1>0, <1>5, ReconcileDoes, WidthAssumption DEF DiskObjects, Sizes
  <2> QED BY <1>0, <1>1, <2>1 DEF DiskFacts
<1>6. CASE DiskRemoved
  BY <1>0, <1>1, <1>6 DEF DiskRemoved, DiskFacts
<1> QED BY <1>2, <1>3, <1>4, <1>5, <1>6 DEF Next, Begin, Reply, Crash

\* A disk of another cluster that has the volume's name is never changed by
\* CreateVolume, ControllerExpandVolume or DeleteVolume, whatever overlaps,
\* fails or is repeated.
THEOREM OtherDiskSafe == Spec => OtherClustersDiskUntouched
BY OwnerInvHolds, OthersUntouchedStep, PTL DEF Spec, OtherClustersDiskUntouched

-----------------------------------------------------------------------------
(***************************************************************************)
(* Every step keeps SizeInv, if sizes fit.                                 *)
(***************************************************************************)

\* The numbers that the promises about sizes compare.
LEMMA Numbers ==
    ASSUME TypeOK
    PROVE  /\ acked \in Int /\ grown \in Nat /\ Unit \in Nat
           /\ disk # NoDisk => /\ disk \in DiskObjects /\ disk.spec \in Int /\ disk.size \in Int
                               /\ disk.spec * Unit \in Int /\ disk.size * Unit \in Int
<1>1. acked \in Int /\ grown \in Nat /\ Unit \in Nat
  BY WidthAssumption DEF TypeOK
<1>2. ASSUME disk # NoDisk
      PROVE  disk \in DiskObjects /\ disk.spec \in Int /\ disk.size \in Int
  BY <1>2, WidthAssumption DEF TypeOK, DiskObjects, Sizes
<1> QED BY <1>1, <1>2

\* The larger of two factors covers what either of them covers.
LEMMA LargerCovers ==
    ASSUME NEW a \in Int, NEW b \in Int, NEW n \in Int, NEW u \in Nat,
           a * u >= n \/ b * u >= n
    PROVE  Larger(a, b) * u >= n
<1>1. Larger(a, b) \in Int /\ a <= Larger(a, b) /\ b <= Larger(a, b)
  BY DEF Larger
<1>2. a * u <= Larger(a, b) * u /\ b * u <= Larger(a, b) * u
  BY <1>1, Monotone
<1>3. a * u \in Int /\ b * u \in Int /\ Larger(a, b) * u \in Int
  BY <1>1
<1> QED BY <1>2, <1>3

\* While a call is served, all that may be in progress beside it is one
\* expansion beside a deletion, or one deletion beside an expansion.
LEMMA Beside ==
    ASSUME Overlaps, NEW c \in Calls, Active(c), NEW d \in Calls, Active(d), d # c
    PROVE  /\ req[c].op # "create"
           /\ req[c].op = "expand" => req[d].op = "delete"
           /\ req[c].op = "delete" => req[d].op = "expand"
BY DEF Overlaps

\* CreateVolume makes or finds what it reports, and changes nothing that is
\* promised.
LEMMA CreateKeepsSizes ==
    ASSUME SizeInv, NEW c \in Calls, CreateStep(c)
    PROVE  SizeInv'
<1>0. /\ OwnerInv /\ TypeOK /\ Overlaps /\ Doom /\ \A d \in Calls : ServesRequest(d)
      /\ \A d \in Calls : CreateFacts(d) /\ ExpandFacts(d)
      /\ AckedVolumeKept /\ ExpandedDeviceGrown
  BY DEF SizeInv, OwnerInv
<1>1. pc[c] \in CreatePCs /\ UNCHANGED <<req, historyVars>> /\ CreateOutcome(c)
  BY CreateDoes
<1>2. \/ Fails(c)
      \/ \E code \in Codes : Return(c, code)
      \/ \E l \in CreatePCs : Goto(c, l)
  <2>1. "OK" \in Codes /\ "post" \in CreatePCs /\ "verify" \in CreatePCs
    BY DEF Codes, CreatePCs
  <2> QED BY <1>1, <2>1 DEF CreateOutcome
<1>3. /\ \A d \in Calls : d # c => pc'[d] = pc[d] /\ ret'[d] = ret[d]
      /\ Fails(c) => (pc'[c] = "done" => ret'[c] # "OK")
      /\ \A d \in Calls : Active(d)' <=> Active(d)
  BY <1>0, <1>1, <1>2, HandlerTyped
<1>4. Active(c) /\ req[c].op = "create"
  BY <1>0, <1>1 DEF ServesRequest, Active, CreatePCs
<1>5. \A d \in Calls : Active(d) => d = c
  BY <1>0, <1>4, Beside
<1>6. OwnerInv'
  BY <1>0, CreateKeepsOwner
<1>7. UNCHANGED <<req, doomed, acked, grown>>
  BY <1>1 DEF historyVars
<1>8. Overlaps'
  BY <1>0, <1>3, <1>7 DEF Overlaps
<1>9. \/ UNCHANGED disk
      \/ /\ disk = NoDisk
         /\ disk' = [owner |-> "us", spec |-> Size(c), size |-> 0,
                     status |-> NoReport, deleting |-> FALSE]
  BY <1>1 DEF CreateOutcome
<1>10. Doom'
  <2>1. disk' # NoDisk => (disk'.deleting => doomed')
    BY <1>0, <1>7, <1>9 DEF Doom
  <2> QED BY <1>0, <1>3, <1>7, <2>1 DEF Doom
<1>11. \A d \in Calls : ExpandFacts(d)'
  BY <1>3, <1>4, <1>5, <1>7 DEF ExpandFacts
<1>12. \A d \in Calls : CreateFacts(d)'
  <2>1. ASSUME pc'[c] = "done", ret'[c] = "OK"
        PROVE  disk' # NoDisk /\ DiskOwned' /\ disk'.spec = Size(c)
    <3>1. ~Fails(c)
      BY <1>3, <2>1
    <3>2. ~Goto(c, "post") /\ ~Goto(c, "verify")
      BY <1>0, <2>1 DEF Goto, TypeOK
    <3>3. CASE disk' = [owner |-> "us", spec |-> Size(c), size |-> 0,
                        status |-> NoReport, deleting |-> FALSE]
      <4>1. disk' \in DiskObjects
        BY <1>0, <1>1, <3>3, SizeTyped, NewDisk
      <4> QED BY <3>3, <4>1, NoDiskAssumption DEF DiskOwned
    <3> QED BY <1>1, <3>1, <3>2, <3>3 DEF CreateOutcome, DiskOwned
  <2>2. Size(c)' = Size(c)
    BY <1>7 DEF Size
  <2> QED BY <1>3, <1>5, <2>1, <2>2 DEF CreateFacts
<1>13. AckedVolumeKept'
  BY <1>0, <1>7, <1>9 DEF AckedVolumeKept, DiskOwned
<1>14. ExpandedDeviceGrown'
  BY <1>0, <1>7, <1>9 DEF ExpandedDeviceGrown
<1> QED BY <1>6, <1>8, <1>10, <1>11, <1>12, <1>13, <1>14 DEF SizeInv

\* ControllerExpandVolume reports what the device has reached, and asks for no
\* less than was promised.
LEMMA ExpandKeepsSizes ==
    ASSUME SizesFit, SizeInv, NEW c \in Calls, ExpandStep(c)
    PROVE  SizeInv'
<1>0. /\ OwnerInv /\ TypeOK /\ Overlaps /\ Doom /\ \A d \in Calls : ServesRequest(d)
      /\ DiskFacts /\ \A d \in Calls : CreateFacts(d) /\ ExpandFacts(d)
      /\ \A d \in Calls : pc[d] \in OwnedPCs /\ disk # NoDisk => DiskOwned
      /\ AckedVolumeKept /\ ExpandedDeviceGrown
  BY DEF SizeInv, OwnerInv
<1>1. pc[c] \in ExpandPCs /\ UNCHANGED <<req, historyVars>> /\ ExpandOutcome(c)
  BY ExpandDoes
<1>2. \/ Fails(c)
      \/ \E code \in Codes : Return(c, code)
      \/ \E l \in ExpandPCs : Goto(c, l)
  <2>1. "OK" \in Codes /\ "patch" \in ExpandPCs /\ "awaitResize" \in ExpandPCs
    BY DEF Codes, ExpandPCs
  <2> QED BY <1>1, <2>1 DEF ExpandOutcome
<1>3. /\ \A d \in Calls : d # c => pc'[d] = pc[d] /\ ret'[d] = ret[d]
      /\ Fails(c) => (pc'[c] = "done" => ret'[c] # "OK")
      /\ \A d \in Calls : Active(d)' <=> Active(d)
  BY <1>0, <1>1, <1>2, HandlerTyped
<1>4. Active(c) /\ req[c].op = "expand"
  BY <1>0, <1>1 DEF ServesRequest, Active, ExpandPCs
<1>5. \A d \in Calls : Active(d) /\ d # c => req[d].op = "delete"
  BY <1>0, <1>4, Beside
<1>6. OwnerInv'
  BY <1>0, ExpandKeepsOwner
<1>7. UNCHANGED <<req, doomed, acked, grown>>
  BY <1>1 DEF historyVars
<1>8. Overlaps'
  BY <1>0, <1>3, <1>7 DEF Overlaps
<1>9. req[c].range \in Ranges /\ Size(c) \in Sizes
  BY <1>0, <1>1, SizeTyped
<1>10. Size(c) > 0 => Size(c) * Unit >= CapacityBytes(req[c].range)
  BY <1>9 DEF SizesFit, Size
<1>11. CapacityBytes(req[c].range) >= acked /\ CapacityBytes(req[c].range) \in Nat
  BY <1>0, <1>4, <1>9, CapacityTyped DEF ExpandFacts
<1>12. \/ UNCHANGED disk
       \/ /\ disk # NoDisk /\ disk' # NoDisk /\ Size(c) > 0
          /\ disk'.owner = disk.owner /\ disk'.spec = Size(c) /\ disk'.size = disk.size
          /\ disk'.deleting = disk.deleting
  <2>1. CASE /\ disk # NoDisk /\ PatchAccepted(Size(c))
             /\ disk' = [disk EXCEPT !.spec = Size(c)]
    <3>1. disk \in DiskObjects
      BY <1>0, <2>1, Numbers
    <3>2. disk' \in DiskObjects
      BY <1>9, <2>1, <3>1, DiskWith
    <3>3. disk' # NoDisk
      BY <3>2, NoDiskAssumption
    <3> QED BY <1>9, <2>1, <3>1, <3>3, DiskWith DEF PatchAccepted
  <2> QED BY <1>1, <2>1 DEF ExpandOutcome
<1>13. Doom'
  <2>1. disk' # NoDisk => (disk'.deleting => doomed')
    BY <1>0, <1>7, <1>12 DEF Doom
  <2> QED BY <1>0, <1>3, <1>7, <2>1 DEF Doom
<1>14. \A d \in Calls : CreateFacts(d)'
  BY <1>3, <1>4, <1>5, <1>7 DEF CreateFacts
<1>15. \A d \in Calls : ExpandFacts(d)'
  <2>1. ASSUME pc'[c] = "done", ret'[c] = "OK"
        PROVE  disk' # NoDisk /\ DiskOwned' /\ disk'.size * Unit >= CapacityBytes(req[c].range)
    <3>1. ~Fails(c)
      BY <1>3, <2>1
    <3>2. ~Goto(c, "patch") /\ ~Goto(c, "awaitResize")
      BY <1>0, <2>1 DEF Goto, TypeOK
    <3>3. UNCHANGED disk /\ disk # NoDisk /\ DiskOwned /\ diskStatusMatchesSize(Size(c))
      BY <1>0, <1>1, <3>1, <3>2 DEF ExpandOutcome, OwnedPCs
    <3>4. Size(c) \in 1..disk.size
      BY <1>0, <3>3 DEF diskStatusMatchesSize, DiskFacts
    <3>5. disk.size \in Int /\ Unit \in Nat
      BY <1>0, <3>3, Numbers
    <3>6. Size(c) * Unit <= disk.size * Unit
      BY <3>4, <3>5, Monotone
    <3>7. Size(c) * Unit >= CapacityBytes(req[c].range) /\ CapacityBytes(req[c].range) \in Int
      BY <1>10, <1>11, <3>4
    <3>8. Size(c) * Unit \in Int /\ disk.size * Unit \in Int
      BY <3>4, <3>5
    <3> QED BY <3>3, <3>6, <3>7, <3>8 DEF DiskOwned
  <2>2. ExpandFacts(c)'
    BY <1>7, <1>11, <2>1 DEF ExpandFacts
  <2> QED BY <1>3, <1>5, <1>7, <2>2 DEF ExpandFacts
<1>16. AckedVolumeKept'
  <2>1. CASE UNCHANGED disk
    BY <1>0, <1>7, <2>1 DEF AckedVolumeKept, DiskOwned
  <2>2. CASE ~UNCHANGED disk
    <3>1. Size(c) \in Int /\ Size(c) * Unit \in Int /\ acked \in Int /\ disk.size \in Int
          /\ Unit \in Nat
      BY <1>0, <1>9, <1>12, <2>2, Numbers, WidthAssumption DEF Sizes
    <3>2. Size(c) * Unit >= acked
      BY <1>10, <1>11, <1>12, <2>2, <3>1
    <3>3. Larger(Size(c), disk.size) * Unit >= acked
      BY <3>1, <3>2, LargerCovers
    <3>4. Larger(disk'.spec, disk'.size) * Unit >= acked
      BY <1>12, <2>2, <3>3
    <3>5. acked > 0 => DiskOwned' /\ ~disk'.deleting /\ disk' # NoDisk
      BY <1>0, <1>12, <2>2 DEF AckedVolumeKept, DiskOwned
    <3> QED BY <1>7, <3>4, <3>5 DEF AckedVolumeKept
  <2> QED BY <2>1, <2>2
<1>17. ExpandedDeviceGrown'
  BY <1>0, <1>7, <1>12 DEF ExpandedDeviceGrown
<1> QED BY <1>6, <1>8, <1>13, <1>14, <1>15, <1>16, <1>17 DEF SizeInv

\* DeleteVolume acts only after the orchestrator has given the volume up.
LEMMA DeleteKeepsSizes ==
    ASSUME SizeInv, NEW c \in Calls, DeleteStep(c)
    PROVE  SizeInv'
<1>0. /\ OwnerInv /\ TypeOK /\ Overlaps /\ Doom /\ \A d \in Calls : ServesRequest(d)
      /\ \A d \in Calls : CreateFacts(d) /\ ExpandFacts(d)
  BY DEF SizeInv, OwnerInv
<1>1. pc[c] \in DeletePCs /\ UNCHANGED <<req, historyVars>> /\ DeleteOutcome(c)
  BY DeleteDoes
<1>2. \/ Fails(c)
      \/ \E code \in Codes : Return(c, code)
      \/ \E l \in DeletePCs : Goto(c, l)
  <2>1. "OK" \in Codes /\ "deleteDisk" \in DeletePCs /\ "confirm" \in DeletePCs
    BY DEF Codes, DeletePCs
  <2> QED BY <1>1, <2>1 DEF DeleteOutcome
<1>3. \A d \in Calls : Active(d)' <=> Active(d)
  BY <1>0, <1>1, <1>2, HandlerTyped
<1>4. Active(c) /\ req[c].op = "delete"
  BY <1>0, <1>1 DEF ServesRequest, Active, DeletePCs
<1>5. doomed /\ acked = 0 /\ grown = 0
  BY <1>0, <1>4 DEF Doom
<1>6. OwnerInv'
  BY <1>0, DeleteKeepsOwner
<1>7. UNCHANGED <<req, doomed, acked, grown>>
  BY <1>1 DEF historyVars
<1>8. Overlaps'
  BY <1>0, <1>3, <1>7 DEF Overlaps
<1>9. Doom'
  BY <1>0, <1>3, <1>5, <1>7 DEF Doom
<1>10. \A d \in Calls : CreateFacts(d)' /\ ExpandFacts(d)'
  BY <1>0, <1>3, <1>5, <1>7 DEF CreateFacts, ExpandFacts, Doom
<1>11. AckedVolumeKept' /\ ExpandedDeviceGrown'
  BY <1>5, <1>7 DEF AckedVolumeKept, ExpandedDeviceGrown
<1> QED BY <1>6, <1>8, <1>9, <1>10, <1>11 DEF SizeInv

\* What the orchestrator keeps apart: MayBegin in terms of the calls in progress.
LEMMA BeginsApart ==
    ASSUME TypeOK, \A d \in Calls : ServesRequest(d), NEW r \in Requests, MayBegin(r),
           NEW d \in Calls, Active(d)
    PROVE  /\ r.op # "create"
           /\ r.op = "expand" => req[d].op = "delete"
           /\ r.op = "delete" => req[d].op = "expand"
<1>1. req[d].op \in {"create", "expand", "delete"}
  BY RequestTyped DEF ServesRequest
<1>2. req[d].op \in {req[b].op : b \in {b \in Calls : Active(b)}}
  OBVIOUS
<1> QED BY <1>1, <1>2 DEF MayBegin

\* The start of a call: a deletion withdraws every promise, an expansion asks
\* for no less than was promised.
LEMMA BeginKeepsSizes ==
    ASSUME SizeInv, NEW c \in Calls, NEW r \in Requests, Begin(c, r)
    PROVE  SizeInv'
<1>0. /\ OwnerInv /\ TypeOK /\ Overlaps /\ Doom /\ \A d \in Calls : ServesRequest(d)
      /\ \A d \in Calls : CreateFacts(d) /\ ExpandFacts(d)
      /\ AckedVolumeKept /\ ExpandedDeviceGrown
  BY DEF SizeInv, OwnerInv
<1>1. OwnerInv'
  BY <1>0, BeginKeepsOwner
<1>2. ~Active(c) /\ MayBegin(r) /\ UNCHANGED disk
  BY DEF Begin
<1>3. /\ req'[c] = r
      /\ \A d \in Calls : d # c => req'[d] = req[d]
  BY <1>0 DEF Begin, TypeOK
<1>4. /\ \A d \in Calls : d # c => pc'[d] = pc[d] /\ ret'[d] = ret[d]
      /\ pc'[c] # "idle" /\ (pc'[c] = "done" => ret'[c] # "OK")
  <2>1. CASE Return(c, "InvalidArgument")
    BY <1>0, <2>1 DEF TypeOK, Return
  <2>2. CASE Goto(c, FirstRequest(r.op))
    <3>1. FirstRequest(r.op) \notin {"idle", "done"}
      BY DEF FirstRequest
    <3> QED BY <1>0, <2>2, <3>1 DEF TypeOK, Goto
  <2> QED BY <2>1, <2>2 DEF Begin
<1>5. Active(c)' /\ \A d \in Calls : d # c => (Active(d)' <=> Active(d))
  BY <1>4 DEF Active
<1>6. \A d \in Calls : Active(d) => /\ r.op # "create"
                                    /\ r.op = "expand" => req[d].op = "delete"
                                    /\ r.op = "delete" => req[d].op = "expand"
  BY <1>0, <1>2, BeginsApart
<1>7. r.op \in {"create", "expand", "delete"}
  BY RequestTyped
<1>8. Overlaps'
  <2> SUFFICES ASSUME NEW a \in Calls, NEW b \in Calls, Active(a)', Active(b)', a # b
               PROVE  \/ req'[a].op = "expand" /\ req'[b].op = "delete"
                      \/ req'[a].op = "delete" /\ req'[b].op = "expand"
    BY DEF Overlaps
  <2>1. CASE a = c
    BY <1>3, <1>5, <1>6, <1>7, <2>1
  <2>2. CASE b = c
    BY <1>3, <1>5, <1>6, <1>7, <2>2
  <2>3. CASE a # c /\ b # c
    BY <1>0, <1>3, <1>5, <2>3 DEF Overlaps
  <2> QED BY <2>1, <2>2, <2>3
<1>9. /\ r.op = "delete" => doomed' /\ acked' = 0 /\ grown' = 0
      /\ r.op # "delete" => (doomed' <=> doomed) /\ acked' = acked /\ grown' = grown
  BY DEF Begin
<1>10. Doom'
  <2>1. doomed' => acked' = 0 /\ grown' = 0
    BY <1>0, <1>9 DEF Doom
  <2>2. disk' # NoDisk => (disk'.deleting => doomed')
    BY <1>0, <1>2, <1>9 DEF Doom
  <2>3. ASSUME NEW d \in Calls, Active(d)'
        PROVE  /\ req'[d].op = "delete" => doomed'
               /\ req'[d].op = "create" => ~doomed'
    <3>1. CASE d = c
      <4>1. r.op = "create" => ~doomed
        BY <1>2 DEF MayBegin
      <4> QED BY <1>3, <1>9, <3>1, <4>1
    <3>2. CASE d # c
      BY <1>0, <1>3, <1>5, <1>6, <1>9, <2>3, <3>2 DEF Doom
    <3> QED BY <3>1, <3>2
  <2> QED BY <2>1, <2>2, <2>3 DEF Doom
<1>11. \A d \in Calls : CreateFacts(d)'
  BY <1>0, <1>2, <1>3, <1>4, <1>5 DEF CreateFacts, DiskOwned, Size
<1>12. \A d \in Calls : ExpandFacts(d)'
  <2> SUFFICES ASSUME NEW d \in Calls, Active(d)', req'[d].op = "expand"
               PROVE  /\ CapacityBytes(req'[d].range) >= acked'
                      /\ pc'[d] = "done" /\ ret'[d] = "OK" /\ ~doomed' =>
                            disk' # NoDisk /\ DiskOwned'
                            /\ disk'.size * Unit >= CapacityBytes(req'[d].range)
    BY DEF ExpandFacts
  <2>1. CASE d = c
    <3>1. CapacityBytes(r.range) >= acked
      BY <1>2, <1>3, <2>1 DEF MayBegin
    <3> QED BY <1>3, <1>4, <1>9, <2>1, <3>1
  <2>2. CASE d # c
    <3>1. Active(d) /\ req[d].op = "expand" /\ req'[d] = req[d]
      BY <1>3, <1>5, <2>2
    <3>2. req[d].range \in Ranges
      BY <1>0, <3>1, RequestTyped DEF ServesRequest
    <3>3. CapacityBytes(req[d].range) \in Nat /\ CapacityBytes(req[d].range) >= acked
      BY <1>0, <3>1, <3>2, CapacityTyped DEF ExpandFacts
    <3>4. CapacityBytes(req'[d].range) >= acked'
      BY <1>9, <3>1, <3>3
    <3> QED BY <1>0, <1>2, <1>4, <1>9, <2>2, <3>1, <3>4 DEF ExpandFacts, DiskOwned
  <2> QED BY <2>1, <2>2
<1>13. AckedVolumeKept' /\ ExpandedDeviceGrown'
  BY <1>0, <1>2, <1>9 DEF AckedVolumeKept, ExpandedDeviceGrown, DiskOwned
<1> QED BY <1>1, <1>8, <1>10, <1>11, <1>12, <1>13 DEF SizeInv

\* The end of a call: what is acknowledged is there.
LEMMA ReplyKeepsSizes ==
    ASSUME SizeInv, NEW c \in Calls, Reply(c)
    PROVE  SizeInv'
<1>0. /\ OwnerInv /\ TypeOK /\ Overlaps /\ Doom /\ \A d \in Calls : ServesRequest(d)
      /\ \A d \in Calls : CreateFacts(d) /\ ExpandFacts(d)
      /\ AckedVolumeKept /\ ExpandedDeviceGrown
  BY DEF SizeInv, OwnerInv
<1>1. OwnerInv'
  BY <1>0, ReplyKeepsOwner
<1>2. pc[c] = "done" /\ UNCHANGED <<disk, doomed>>
  BY DEF Reply
<1>3. /\ pc'[c] = "idle"
      /\ \A d \in Calls : d # c => req'[d] = req[d] /\ pc'[d] = pc[d] /\ ret'[d] = ret[d]
  BY <1>0 DEF Reply, TypeOK
<1>4. Active(c) /\ \A d \in Calls : Active(d)' => Active(d) /\ d # c
  BY <1>2, <1>3 DEF Active
<1>5. req[c] \in Requests
  BY <1>0, <1>4 DEF ServesRequest
<1>6. Overlaps'
  BY <1>0, <1>3, <1>4 DEF Overlaps
<1>7. \A d \in Calls : CreateFacts(d)'
  BY <1>0, <1>2, <1>3, <1>4 DEF CreateFacts, DiskOwned, Size
<1>8. CASE ret[c] = "OK" /\ req[c].op # "delete" /\ ~doomed
  <2>1. /\ acked' = Larger(acked, ReportedCapacity(req[c]))
        /\ grown' = IF req[c].op = "expand" THEN Larger(grown, ReportedCapacity(req[c]))
                                            ELSE grown
    BY <1>8 DEF Reply
  <2>2. /\ ReportedCapacity(req[c]) \in Int /\ acked \in Int /\ grown \in Int /\ Unit \in Nat
        /\ req[c].op \in {"create", "expand"}
    BY <1>0, <1>5, <1>8, ReportTyped, RequestTyped, Numbers
  <2>3. /\ disk # NoDisk /\ DiskOwned
        /\ req[c].op = "create" => disk.spec * Unit = ReportedCapacity(req[c])
        /\ req[c].op = "expand" => disk.size * Unit >= ReportedCapacity(req[c])
    BY <1>0, <1>2, <1>4, <1>8, <2>2 DEF CreateFacts, ExpandFacts, ReportedCapacity, Size
  <2>4. /\ disk.spec \in Int /\ disk.size \in Int
        /\ disk.spec * Unit \in Int /\ disk.size * Unit \in Int
    BY <1>0, <2>3, Numbers
  <2>5. ~disk.deleting
    BY <1>0, <1>8, <2>3 DEF Doom
  <2>6. Larger(disk.spec, disk.size) * Unit >= ReportedCapacity(req[c])
    BY <2>2, <2>3, <2>4, LargerCovers
  <2>7. acked' > 0 => Larger(disk.spec, disk.size) * Unit >= acked'
    BY <1>0, <2>1, <2>2, <2>6 DEF AckedVolumeKept, Larger
  <2>8. AckedVolumeKept'
    BY <1>2, <2>3, <2>5, <2>7 DEF AckedVolumeKept, DiskOwned
  <2>9. ExpandedDeviceGrown'
    BY <1>0, <1>2, <2>1, <2>2, <2>3, <2>4 DEF ExpandedDeviceGrown, Larger
  <2>10. Doom'
    <3>1. ~doomed'
      BY <1>2, <1>8
    <3> QED BY <1>0, <1>2, <1>3, <1>4, <3>1 DEF Doom
  <2>11. \A d \in Calls : ExpandFacts(d)'
    <3>1. \A d \in Calls : Active(d)' => req'[d].op # "expand"
      BY <1>0, <1>3, <1>4, <2>2, Beside
    <3> QED BY <3>1 DEF ExpandFacts
  <2> QED BY <1>1, <1>6, <1>7, <2>8, <2>9, <2>10, <2>11 DEF SizeInv
<1>9. CASE ~(ret[c] = "OK" /\ req[c].op # "delete" /\ ~doomed)
  <2>1. UNCHANGED <<acked, grown>>
    BY <1>9 DEF Reply
  <2>2. AckedVolumeKept' /\ ExpandedDeviceGrown'
    BY <1>0, <1>2, <2>1 DEF AckedVolumeKept, ExpandedDeviceGrown, DiskOwned
  <2>3. Doom'
    BY <1>0, <1>2, <1>3, <1>4, <2>1 DEF Doom
  <2>4. \A d \in Calls : ExpandFacts(d)'
    BY <1>0, <1>2, <1>3, <1>4, <2>1 DEF ExpandFacts, DiskOwned
  <2> QED BY <1>1, <1>6, <1>7, <2>2, <2>3, <2>4 DEF SizeInv
<1> QED BY <1>8, <1>9

\* The controller's restart leaves promises and disk alone.
LEMMA CrashKeepsSizes ==
    ASSUME SizeInv, Crash
    PROVE  SizeInv'
<1>1. OwnerInv'
  BY CrashKeepsOwner DEF SizeInv
<1>2. \A d \in Calls : ~Active(d)'
  BY DEF Crash, Active
<1>3. UNCHANGED <<disk, doomed, acked, grown>>
  BY DEF Crash, historyVars
<1>4. Doom'
  BY <1>2, <1>3 DEF SizeInv, Doom
<1>5. AckedVolumeKept' /\ ExpandedDeviceGrown'
  BY <1>3 DEF SizeInv, AckedVolumeKept, ExpandedDeviceGrown, DiskOwned
<1> QED BY <1>1, <1>2, <1>4, <1>5 DEF SizeInv, Overlaps, CreateFacts, ExpandFacts

\* The API's resize leaves the spec as it is and lets the device only grow.
LEMMA ReconcileKeepsSizes ==
    ASSUME SizeInv, Reconcile
    PROVE  SizeInv'
<1>0. /\ OwnerInv /\ TypeOK /\ DiskFacts /\ Overlaps /\ Doom
      /\ \A d \in Calls : ServesRequest(d)
      /\ \A d \in Calls : CreateFacts(d) /\ ExpandFacts(d)
      /\ AckedVolumeKept /\ ExpandedDeviceGrown
  BY DEF SizeInv, OwnerInv
<1>1. OwnerInv'
  BY <1>0, ReconcileKeepsOwner
<1>2. /\ disk # NoDisk /\ disk.size < disk.spec /\ disk' \in DiskObjects
      /\ disk'.owner = disk.owner /\ disk'.spec = disk.spec /\ disk'.size = disk.spec
      /\ disk'.deleting = disk.deleting
      /\ UNCHANGED <<pc, ret, req, doomed, acked, grown>>
  BY <1>0, ReconcileDoes DEF callVars, historyVars
<1>3. disk' # NoDisk
  BY <1>2, NoDiskAssumption
<1>4. /\ disk.spec \in Int /\ disk.size \in Int /\ Unit \in Nat /\ acked \in Int /\ grown \in Int
      /\ disk.spec * Unit \in Int /\ disk.size * Unit \in Int
  BY <1>0, <1>2, Numbers
<1>5. disk.size * Unit <= disk.spec * Unit
  BY <1>2, <1>4, Monotone
<1>6. Overlaps'
  BY <1>0, <1>2 DEF Overlaps, Active
<1>7. Doom'
  BY <1>0, <1>2, <1>3 DEF Doom, Active
<1>8. \A d \in Calls : CreateFacts(d)'
  BY <1>0, <1>2, <1>3 DEF CreateFacts, Active, DiskOwned, Size
<1>9. \A d \in Calls : ExpandFacts(d)'
  <2> SUFFICES ASSUME NEW d \in Calls, Active(d)', req'[d].op = "expand"
               PROVE  /\ CapacityBytes(req'[d].range) >= acked'
                      /\ pc'[d] = "done" /\ ret'[d] = "OK" /\ ~doomed' =>
                            disk' # NoDisk /\ DiskOwned'
                            /\ disk'.size * Unit >= CapacityBytes(req'[d].range)
    BY DEF ExpandFacts
  <2>1. Active(d) /\ req[d].op = "expand"
    BY <1>2 DEF Active
  <2>2. CapacityBytes(req[d].range) \in Nat
    BY <1>0, <2>1, RequestTyped, CapacityTyped DEF ServesRequest
  <2> QED BY <1>0, <1>2, <1>3, <1>4, <1>5, <2>1, <2>2 DEF ExpandFacts, DiskOwned
<1>10. AckedVolumeKept'
  <2>1. Larger(disk.spec, disk.size) = disk.spec /\ Larger(disk'.spec, disk'.size) = disk.spec
    BY <1>2, <1>4 DEF Larger
  <2> QED BY <1>0, <1>2, <1>3, <2>1 DEF AckedVolumeKept, DiskOwned
<1>11. ExpandedDeviceGrown'
  BY <1>0, <1>2, <1>3, <1>4, <1>5 DEF ExpandedDeviceGrown
<1> QED BY <1>1, <1>6, <1>7, <1>8, <1>9, <1>10, <1>11 DEF SizeInv

\* Only a disk of a volume that is given up disappears.
LEMMA RemovedKeepsSizes ==
    ASSUME SizeInv, DiskRemoved
    PROVE  SizeInv'
<1>0. /\ OwnerInv /\ Overlaps /\ Doom /\ \A d \in Calls : CreateFacts(d) /\ ExpandFacts(d)
  BY DEF SizeInv
<1>1. OwnerInv'
  BY <1>0, RemovedKeepsOwner
<1>2. disk # NoDisk /\ disk.deleting /\ disk' = NoDisk
      /\ UNCHANGED <<pc, ret, req, doomed, acked, grown>>
  BY DEF DiskRemoved, callVars, historyVars
<1>3. doomed /\ acked = 0 /\ grown = 0
  BY <1>0, <1>2 DEF Doom
<1>4. Overlaps'
  BY <1>0, <1>2 DEF Overlaps, Active
<1>5. Doom'
  BY <1>0, <1>2, <1>3 DEF Doom, Active
<1>6. \A d \in Calls : CreateFacts(d)' /\ ExpandFacts(d)'
  BY <1>0, <1>2, <1>3 DEF CreateFacts, ExpandFacts, Doom, Active
<1>7. AckedVolumeKept' /\ ExpandedDeviceGrown'
  BY <1>2, <1>3 DEF AckedVolumeKept, ExpandedDeviceGrown
<1> QED BY <1>1, <1>4, <1>5, <1>6, <1>7 DEF SizeInv

\* At the start nothing is promised.
LEMMA SizeInvInit == Init => SizeInv
<1> SUFFICES ASSUME Init PROVE SizeInv
  OBVIOUS
<1>1. OwnerInv
  BY OwnerInvInit
<1>2. \A c \in Calls : ~Active(c)
  BY DEF Init, Active
<1>3. ~doomed /\ acked = 0 /\ grown = 0
  BY DEF Init
<1>4. disk # NoDisk => ~disk.deleting
  BY DEF Init
<1> QED BY <1>1, <1>2, <1>3, <1>4 DEF SizeInv, Overlaps, Doom, CreateFacts, ExpandFacts,
                                      AckedVolumeKept, ExpandedDeviceGrown

\* Every step keeps the invariant of sizes, if sizes fit.
LEMMA SizeInvStep ==
    ASSUME SizesFit
    PROVE  SizeInv /\ [Next]_vars => SizeInv'
<1> SUFFICES ASSUME SizeInv, [Next]_vars PROVE SizeInv'
  OBVIOUS
<1>1. CASE UNCHANGED vars
  <2>1. OwnerInv'
    BY <1>1, OwnerInvStep DEF SizeInv
  <2>2. Overlaps' /\ Doom'
    BY <1>1 DEF SizeInv, Overlaps, Doom, Active, vars, callVars, historyVars
  <2>3. \A d \in Calls : CreateFacts(d)' /\ ExpandFacts(d)'
    BY <1>1 DEF SizeInv, CreateFacts, ExpandFacts, Active, Size, DiskOwned, vars, callVars,
                historyVars
  <2>4. AckedVolumeKept' /\ ExpandedDeviceGrown'
    BY <1>1 DEF SizeInv, AckedVolumeKept, ExpandedDeviceGrown, DiskOwned, vars, historyVars
  <2> QED BY <2>1, <2>2, <2>3, <2>4 DEF SizeInv
<1> QED BY <1>1, BeginKeepsSizes, CreateKeepsSizes, ExpandKeepsSizes, DeleteKeepsSizes,
           ReplyKeepsSizes, CrashKeepsSizes, ReconcileKeepsSizes, RemovedKeepsSizes DEF Next

\* The invariant of the promises holds, wherever sizes fit.
THEOREM SizeInvHolds ==
    ASSUME SizesFit
    PROVE  Spec => []SizeInv
BY SizeInvInit, SizeInvStep, PTL DEF Spec

\* An acknowledged volume keeps its disk, with the capacity that was
\* acknowledged, until its deletion is asked for.
THEOREM PromisedVolume ==
    ASSUME SizesFit
    PROVE  Spec => []AckedVolumeKept
<1>1. SizeInv => AckedVolumeKept
  BY DEF SizeInv
<1> QED BY <1>1, SizeInvHolds, PTL

\* ControllerExpandVolume is acknowledged after the device has grown.
THEOREM DeviceGrown ==
    ASSUME SizesFit
    PROVE  Spec => []ExpandedDeviceGrown
<1>1. SizeInv => ExpandedDeviceGrown
  BY DEF SizeInv
<1> QED BY <1>1, SizeInvHolds, PTL

-----------------------------------------------------------------------------
(***************************************************************************)
(* The growth of a volume in use.                                          *)
(***************************************************************************)

\* The node's steps are stuttering steps of the controller.
LEMMA ExpansionSteps == [ExpansionNext]_allVars => [Next]_vars
BY DEF ExpansionNext, ControllerStep, Staged, NodeStep, BeginNodeExpand, FindDeviceForPath,
       resolveDeviceFromVolumeAttachment, ResizeFilesystem, NodeRestart, allVars

\* Composed with the node, the controller behaves as it does alone.
THEOREM ExpansionExtends == ExpansionSpec => Spec
<1>1. ExpansionInit => Init
  BY DEF ExpansionInit
<1> QED BY <1>1, ExpansionSteps, PTL DEF ExpansionSpec, Spec

\* At the start the volume is not staged.
LEMMA ExpansionTypeInit == ExpansionInit => ExpansionTypeOK
<1> SUFFICES ASSUME ExpansionInit PROVE ExpansionTypeOK
  OBVIOUS
<1>1. TypeOK
  BY OwnerInvInit DEF ExpansionInit, OwnerInv
<1>2. fs \in Sizes
  BY WidthAssumption DEF ExpansionInit, Sizes
<1>3. visible \in BOOLEAN
  BY DEF ExpansionInit
<1> QED BY <1>1, <1>2, <1>3 DEF ExpansionInit, ExpansionTypeOK

\* Every step of controller and node keeps the types.
LEMMA ExpansionTypeStep ==
    ASSUME OwnerInv, ExpansionTypeOK, [ExpansionNext]_allVars
    PROVE  ExpansionTypeOK'
<1>0. /\ TypeOK /\ kind \in FsTypes /\ fs \in Sizes
      /\ npc \in {"idle", "findDevice", "resolve", "resize"}
      /\ nreq \in Nat /\ usable \in Nat /\ nfs \in FsTypes \cup {"none", "ext4"}
  BY DEF ExpansionTypeOK
<1>1. TypeOK'
  BY ExpansionSteps, OwnerInvStep DEF OwnerInv
<1>2. grown \in Nat /\ (disk # NoDisk => disk.size \in Sizes)
  BY <1>0 DEF TypeOK, DiskObjects
<1>3. 0 \in Sizes
  BY WidthAssumption DEF Sizes
<1>4. visible' \in BOOLEAN
  <2>1. visible \in BOOLEAN
    BY DEF ExpansionTypeOK
  <2>2. visible' \in {visible, TRUE, FALSE}
    BY DEF ExpansionNext, ControllerStep, Staged, NodeStep, BeginNodeExpand, FindDeviceForPath,
           resolveDeviceFromVolumeAttachment, ResizeFilesystem, NodeRestart, allVars, nodeVars
  <2> QED BY <2>1, <2>2
<1>5. ASSUME NEW a \in Sizes, NEW b \in Sizes PROVE Larger(a, b) \in Sizes
  BY DEF Larger
<1>6. ASSUME NEW a \in Nat, NEW b \in Nat PROVE Larger(a, b) \in Nat
  BY DEF Larger
<1>7. CASE ControllerStep
  BY <1>0, <1>1, <1>3, <1>4, <1>7 DEF ControllerStep, nodeVars, ExpansionTypeOK
<1>8. CASE Staged
  BY <1>0, <1>1, <1>2, <1>4, <1>8 DEF Staged, ExpansionTypeOK
<1>9. CASE BeginNodeExpand
  <2>1. kind' = kind /\ fs' = fs
    BY <1>9 DEF BeginNodeExpand, NodeFails
  <2>2. /\ npc' \in {"idle", "findDevice"} /\ nreq' \in {0, grown}
        /\ usable' \in {usable, Larger(usable, grown)} /\ nfs' \in {"none", kind, "ext4"}
    BY <1>9 DEF BeginNodeExpand, NodeFails, NodeReturns, NodeSucceeds
  <2> QED BY <1>0, <1>1, <1>2, <1>4, <1>6, <2>1, <2>2 DEF ExpansionTypeOK
<1>10. CASE FindDeviceForPath
  BY <1>0, <1>1, <1>4, <1>10 DEF FindDeviceForPath, NodeGoto, ExpansionTypeOK
<1>11. CASE resolveDeviceFromVolumeAttachment
  BY <1>0, <1>1, <1>4, <1>11 DEF resolveDeviceFromVolumeAttachment, NodeGoto, NodeFails,
                                 NodeReturns, ExpansionTypeOK
<1>12. CASE ResizeFilesystem
  <2>1. /\ npc' = "idle" /\ nreq' = 0 /\ nfs' = "none" /\ kind' = kind
        /\ usable' \in {usable, Larger(usable, nreq)}
        /\ fs' = fs \/ (disk # NoDisk /\ fs' = Larger(fs, disk.size))
    BY <1>12 DEF ResizeFilesystem, NodeFails, NodeReturns, NodeSucceeds
  <2>2. fs' \in Sizes
    BY <1>0, <1>2, <1>5, <2>1
  <2> QED BY <1>0, <1>1, <1>4, <1>6, <2>1, <2>2 DEF ExpansionTypeOK
<1>13. CASE NodeRestart
  BY <1>0, <1>1, <1>4, <1>13 DEF NodeRestart, NodeFails, NodeReturns, ExpansionTypeOK
<1>14. CASE UNCHANGED allVars
  BY <1>0, <1>1, <1>4, <1>14 DEF allVars, nodeVars, ExpansionTypeOK
<1> QED BY <1>7, <1>8, <1>9, <1>10, <1>11, <1>12, <1>13, <1>14 DEF ExpansionNext, NodeStep

\* The composition of controller and node keeps its types.
THEOREM ExpansionTypes == ExpansionSpec => []ExpansionTypeOK
<1>1. ExpansionSpec => []OwnerInv
  BY ExpansionExtends, OwnerInvHolds, PTL
<1>2. OwnerInv /\ ExpansionTypeOK /\ [ExpansionNext]_allVars => ExpansionTypeOK'
  BY ExpansionTypeStep
<1> QED BY <1>1, <1>2, ExpansionTypeInit, PTL DEF ExpansionSpec

\* Nothing shrinks or removes the device of a volume that is not given up.
LEMMA DeviceOnlyGrows ==
    ASSUME SizeInv, Next, disk # NoDisk, ~doomed
    PROVE  disk' # NoDisk /\ disk'.size >= disk.size
<1>0. /\ OwnerInv /\ TypeOK /\ DiskFacts /\ Doom /\ \A d \in Calls : ServesRequest(d)
  BY DEF SizeInv, OwnerInv
<1>1. disk \in DiskObjects /\ disk.size \in Int /\ disk.spec \in Int
  BY <1>0, Numbers
<1>2. CASE UNCHANGED disk
  BY <1>1, <1>2
<1>3. ASSUME NEW c \in Calls, CreateStep(c)
      PROVE  UNCHANGED disk
  BY <1>3, CreateDoes DEF CreateOutcome
<1>4. ASSUME NEW c \in Calls, ExpandStep(c)
      PROVE  disk' # NoDisk /\ disk'.size = disk.size
  <2>1. pc[c] \in ExpandPCs /\ ExpandOutcome(c)
    BY <1>4, ExpandDoes
  <2>2. Size(c) \in Sizes
    BY <1>0, <2>1, SizeTyped
  <2>3. CASE disk' = [disk EXCEPT !.spec = Size(c)]
    BY <1>1, <2>2, <2>3, DiskWith, NoDiskAssumption
  <2> QED BY <2>1, <2>3 DEF ExpandOutcome
<1>5. ASSUME NEW c \in Calls, DeleteStep(c)
      PROVE  FALSE
  <2>1. pc[c] \in DeletePCs
    BY <1>5, DeleteDoes
  <2>2. Active(c) /\ req[c].op = "delete"
    BY <1>0, <2>1 DEF ServesRequest, Active, DeletePCs
  <2> QED BY <1>0, <2>2 DEF Doom
<1>6. CASE Reconcile
  BY <1>0, <1>1, <1>6, ReconcileDoes, NoDiskAssumption
<1>7. ~DiskRemoved
  BY <1>0 DEF DiskRemoved, Doom
<1> QED BY <1>1, <1>2, <1>3, <1>4, <1>5, <1>6, <1>7 DEF Next, Begin, Reply, Crash

\* A step of the controller leaves the user what the node has acknowledged.
LEMMA ControllerKeepsUser ==
    ASSUME ExpansionInv, SizeInv', ExpansionTypeOK', ControllerStep
    PROVE  NodeWaits' /\ NodeServed' /\ ExpansionReachesUser'
<1>0. SizeInv /\ TypeOK /\ TypeOK' /\ NodeWaits /\ NodeServed /\ ExpansionReachesUser
      /\ usable \in Nat /\ nreq \in Nat
  BY DEF ExpansionInv, ExpansionTypeOK
<1>1. CASE doomed' /\ ~doomed
  BY <1>1 DEF ControllerStep, NodeWaits, NodeServed, ExpansionReachesUser
<1>2. CASE ~(doomed' /\ ~doomed)
  <2>1. Next /\ UNCHANGED <<kind, fs, npc, nreq, usable>>
    BY <1>2 DEF ControllerStep, nodeVars
  <2>2. ASSUME ~doomed, disk # NoDisk
        PROVE  ~doomed' /\ disk' # NoDisk /\ disk.size * Unit <= disk'.size * Unit
               /\ disk.size * Unit \in Int /\ disk'.size * Unit \in Int
    <3>1. ~doomed'
      BY <1>2, <2>2
    <3>2. disk' # NoDisk /\ disk'.size >= disk.size
      BY <1>0, <2>1, <2>2, DeviceOnlyGrows
    <3>3. disk.size \in Int /\ disk.size * Unit \in Int /\ Unit \in Nat
      BY <1>0, <2>2, Numbers
    <3>4. disk'.size \in Int /\ disk'.size * Unit \in Int
      BY <1>0, <3>2, WidthAssumption DEF TypeOK, DiskObjects, Sizes
    <3> QED BY <3>1, <3>2, <3>3, <3>4, Monotone
  <2>3. NodeWaits'
    BY <1>0, <2>1, <2>2 DEF NodeWaits
  <2>4. NodeServed'
    BY <1>0, <2>1, <2>2 DEF NodeServed
  <2>5. ExpansionReachesUser'
    BY <1>0, <2>1, <2>2 DEF NodeServed, ExpansionReachesUser
  <2> QED BY <2>3, <2>4, <2>5
<1> QED BY <1>1, <1>2

\* A step of the node acknowledges only what it has made usable.
LEMMA NodeKeepsUser ==
    ASSUME ExpansionInv, Staged \/ NodeStep \/ NodeRestart
    PROVE  NodeWaits' /\ NodeServed' /\ ExpansionReachesUser'
<1>0. /\ TypeOK /\ Doom /\ ExpandedDeviceGrown /\ NodeWaits /\ NodeServed /\ ExpansionReachesUser
      /\ usable \in Nat /\ nreq \in Nat /\ fs \in Int
  BY WidthAssumption DEF ExpansionInv, SizeInv, OwnerInv, ExpansionTypeOK, Sizes
<1>1. UNCHANGED <<disk, doomed, kind>>
  BY DEF Staged, NodeStep, NodeRestart, BeginNodeExpand, FindDeviceForPath,
         resolveDeviceFromVolumeAttachment, ResizeFilesystem, vars, historyVars
<1>2. grown \in Nat /\ Unit \in Nat
      /\ (disk # NoDisk => disk.size \in Int /\ disk.size * Unit \in Int)
  BY <1>0, Numbers
<1>3. grown > 0 => ~doomed /\ disk # NoDisk /\ disk.size * Unit >= grown
  BY <1>0, <1>2 DEF Doom, ExpandedDeviceGrown
<1>4. CASE Staged
  <2>1. fs = 0 /\ UNCHANGED <<npc, nreq, usable>>
    BY <1>4 DEF Staged
  <2>2. usable > 0 => kind = "block"
    BY <1>0, <1>2, <2>1 DEF ExpansionReachesUser
  <2> QED BY <1>0, <1>1, <2>1, <2>2 DEF NodeWaits, NodeServed, ExpansionReachesUser
<1>5. ASSUME NodeFails
      PROVE  NodeWaits' /\ NodeServed' /\ ExpansionReachesUser'
  BY <1>0, <1>1, <1>5 DEF NodeFails, NodeReturns, NodeWaits, NodeServed, ExpansionReachesUser
<1>6. ASSUME NEW l, NodeGoto(l), npc # "idle"
      PROVE  NodeWaits' /\ NodeServed' /\ ExpansionReachesUser'
  BY <1>0, <1>1, <1>6 DEF NodeGoto, NodeWaits, NodeServed, ExpansionReachesUser
<1>7. ASSUME NEW n \in Nat, NodeSucceeds(n), fs' \in Int, ~doomed, disk # NoDisk,
             LET span == IF kind = "block" THEN disk.size ELSE fs'
             IN  span * Unit >= n /\ (usable > 0 => span * Unit >= usable)
      PROVE  NodeWaits' /\ NodeServed' /\ ExpansionReachesUser'
  <2>1. npc' = "idle" /\ usable' = Larger(usable, n)
    BY <1>7 DEF NodeSucceeds, NodeReturns
  <2>2. usable' = n \/ usable' = usable
    BY <2>1 DEF Larger
  <2>3. ExpansionReachesUser'
    BY <1>1, <1>7, <2>2 DEF ExpansionReachesUser
  <2> QED BY <1>1, <1>7, <2>1, <2>3 DEF NodeWaits, NodeServed
<1>8. CASE BeginNodeExpand
  <2>1. grown > 0
    BY <1>8 DEF BeginNodeExpand
  <2>2. CASE NodeFails
    BY <1>5, <2>2
  <2>3. CASE kind = "block" /\ NodeSucceeds(grown) /\ UNCHANGED fs
    BY <1>0, <1>2, <1>3, <1>7, <2>1, <2>3 DEF ExpansionReachesUser
  <2>4. CASE nreq' = grown /\ UNCHANGED <<fs, usable>>
    BY <1>0, <1>1, <1>3, <2>1, <2>4 DEF NodeWaits, NodeServed, ExpansionReachesUser
  <2> QED BY <1>8, <2>2, <2>3, <2>4 DEF BeginNodeExpand, IsBlockRequest
<1>9. CASE FindDeviceForPath
  BY <1>6, <1>9 DEF FindDeviceForPath
<1>10. CASE resolveDeviceFromVolumeAttachment
  BY <1>5, <1>6, <1>10 DEF resolveDeviceFromVolumeAttachment
<1>11. CASE ResizeFilesystem
  <2>1. CASE NodeFails
    BY <1>5, <2>1
  <2>2. CASE disk # NoDisk /\ fs' = Larger(fs, disk.size) /\ NodeSucceeds(nreq)
    <3>1. ~doomed /\ disk.size * Unit >= nreq
      BY <1>0, <1>11 DEF ResizeFilesystem, NodeWaits
    <3>2. Larger(fs, disk.size) \in Int /\ fs' \in Int
      BY <1>0, <1>2, <2>2 DEF Larger
    <3>3. fs' * Unit >= nreq
      BY <1>0, <1>2, <2>2, <3>1, LargerCovers
    <3>4. kind # "block" /\ usable > 0 => fs' * Unit >= usable
      BY <1>0, <1>2, <2>2, LargerCovers DEF ExpansionReachesUser
    <3>5. kind = "block" /\ usable > 0 => disk.size * Unit >= usable
      BY <1>0 DEF ExpansionReachesUser
    <3> QED BY <1>0, <1>7, <2>2, <3>1, <3>2, <3>3, <3>4, <3>5
  <2> QED BY <1>11, <2>1, <2>2 DEF ResizeFilesystem
<1>12. CASE NodeRestart
  BY <1>5, <1>12 DEF NodeRestart
<1> QED BY <1>4, <1>8, <1>9, <1>10, <1>11, <1>12 DEF NodeStep

\* Every step keeps the invariant of the whole expansion, if sizes fit.
LEMMA ExpansionInvStep ==
    ASSUME SizesFit
    PROVE  ExpansionInv /\ [ExpansionNext]_allVars => ExpansionInv'
<1> SUFFICES ASSUME ExpansionInv, [ExpansionNext]_allVars PROVE ExpansionInv'
  OBVIOUS
<1>1. SizeInv'
  BY ExpansionSteps, SizeInvStep DEF ExpansionInv
<1>2. ExpansionTypeOK'
  BY ExpansionTypeStep DEF ExpansionInv, SizeInv
<1>3. CASE ControllerStep
  BY <1>1, <1>2, <1>3, ControllerKeepsUser DEF ExpansionInv
<1>4. CASE Staged \/ NodeStep \/ NodeRestart
  BY <1>1, <1>2, <1>4, NodeKeepsUser DEF ExpansionInv
<1>5. CASE UNCHANGED allVars
  BY <1>1, <1>2, <1>5 DEF ExpansionInv, NodeWaits, NodeServed, ExpansionReachesUser, allVars,
                          vars, historyVars, nodeVars
<1> QED BY <1>3, <1>4, <1>5 DEF ExpansionNext

\* The invariant of the whole expansion holds, wherever sizes fit.
THEOREM ExpansionInvHolds ==
    ASSUME SizesFit
    PROVE  ExpansionSpec => []ExpansionInv
<1>1. ExpansionInit => ExpansionInv
  BY SizeInvInit, ExpansionTypeInit DEF ExpansionInit, ExpansionInv, NodeWaits, NodeServed,
                                        ExpansionReachesUser
<1> QED BY <1>1, ExpansionInvStep, PTL DEF ExpansionSpec

\* What NodeExpandVolume acknowledges, the volume's user has: in the filesystem,
\* or on the device of a raw volume.
THEOREM UserHasCapacity ==
    ASSUME SizesFit
    PROVE  ExpansionSpec => []ExpansionReachesUser
<1>1. ExpansionInv => ExpansionReachesUser
  BY DEF ExpansionInv
<1> QED BY <1>1, ExpansionInvHolds, PTL
=============================================================================
