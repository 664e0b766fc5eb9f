----------------------- MODULE AttachIsolationProofs -----------------------
(***************************************************************************)
(* The proof that clusters which share a project leave each other alone:   *)
(* no handler, and no request it has left behind, changes a disk of        *)
(* another cluster or an attachment of one, and with csi.vmOwnerLabel      *)
(* nothing is attached to another cluster's VM.                            *)
(* It holds for any constants: calls for one volume may overlap, and       *)
(* requests that were given up may reach the API at any later time.        *)
(***************************************************************************)
EXTENDS AttachProofs

(***************************************************************************)
(* The properties are not inductive: the owner of the disk and that of the *)
(* VM are looked at in an early request and relied upon in later ones, and *)
(* in requests that outlive their handler.                                 *)
(***************************************************************************)
\* Requests of a handler that has passed validateVMOwnership.
VMCheckedPCs == {"listDisk", "evict", "awaitEvicted", "create", "verify", "awaitReady"}

\* Requests of a handler that has seen the managed-by label.
DiskCheckedPCs == VMCheckedPCs \cup {"getVM", "deleteAttachment", "awaitDeleted",
                                     "deleteDisk", "confirm"}

ChecksHold(c) ==
    /\ pc[c] \in DiskCheckedPCs => req[c].d \in OwnedDisks
    /\ (pc[c] \in VMCheckedPCs /\ VMOwnerLabelSet) => req[c].n \in OwnedNodes

\* The managed-by label of an attachment tells whose disk it is about.
LabelsTell ==
    \A d \in Disks, n \in Nodes :
        /\ <<d, n>> \in foreign => d \notin OwnedDisks
        /\ d \notin OwnedDisks => ~Managed(d, n)

\* A request in transit was sent after the checks.
RequestChecked(m) ==
    /\ m.d \in OwnedDisks
    /\ (m.op = "attach" /\ VMOwnerLabelSet) => m.n \in OwnedNodes

\* Nobody asks the API to delete a disk of another cluster.
OthersDisksStay == \A d \in Disks \ OwnedDisks : disk[d] = "present"

IsolationInv ==
    /\ LabelsTell
    /\ OthersDisksStay
    /\ \A c \in Calls : ChecksHold(c)
    /\ \A m \in late : RequestChecked(m)
    /\ OtherClustersVMsUntouched

(***************************************************************************)
(* What a step of handler c can do to the API.                             *)
(***************************************************************************)
\* Disks other than the one c was called for are left alone.
OnlyOwnDisk(c) ==
    /\ UNCHANGED foreign
    /\ \A d \in Disks : d # req[c].d => disk'[d] = disk[d] /\ att'[d] = att[d]

\* So is that one, unless this driver has created it; what appears is the
\* attachment asked for, and what is left in transit has been checked.
Isolated(c) ==
    /\ OnlyOwnDisk(c)
    /\ req[c].d \notin OwnedDisks =>
           disk'[req[c].d] = disk[req[c].d] /\ att'[req[c].d] = att[req[c].d]
    /\ \A d \in Disks, n \in Nodes :
           (Managed(d, n)' /\ ~Managed(d, n)) =>
               /\ pc[c] = "create"
               /\ d = req[c].d /\ n = req[c].n
    /\ \A m \in late' \ late : RequestChecked(m)

\* A failed attempt starts again before the checks, or ends the call, but
\* not with success.
FallsBack(c) ==
    /\ \E l \in {"getDisk", "getAttachment", "getDoomed", "done"} :
           pc' = [pc EXCEPT ![c] = l]
    /\ \A x \in Calls \ {c} : victim'[x] = victim[x] /\ ret'[x] = ret[x]
    /\ pc'[c] = "done" => ret'[c] # "OK"

\* retryOnTransient never resumes in the middle of an attempt.
LEMMA RetryFallsBack ==
    ASSUME IndInv, NEW c \in Calls, NEW code, code # "OK", retryOnTransient(c, code)
    PROVE  FallsBack(c)
<1>1. WrappedCode(req[c].op, code) # "OK"
  BY DEF WrappedCode
<1>2. FirstRequest(req[c].op) \in {"getDisk", "getAttachment", "getDoomed"}
  BY DEF FirstRequest
<1>3. CASE /\ pc' = [pc EXCEPT ![c] = FirstRequest(req[c].op)]
           /\ victim' = [victim EXCEPT ![c] = NoNode]
           /\ UNCHANGED <<lock, ret>>
  <2>1. pc'[c] # "done"
    BY <1>2, <1>3 DEF IndInv, TypeOK
  <2> QED BY <1>2, <1>3, <2>1 DEF FallsBack, IndInv, TypeOK
<1>4. CASE \E k : k # "OK" /\ Return(c, k)
  BY <1>4 DEF Return, FallsBack, IndInv, TypeOK
<1> QED BY <1>1, <1>3, <1>4 DEF retryOnTransient

\* A failed mutation changes nothing, but may be left in transit.
LEMMA FailureIsolated ==
    ASSUME IndInv, NEW c \in Calls, NEW m \in Mutations, MutationFails(c, m),
           RequestChecked(m)
    PROVE  Isolated(c) /\ FallsBack(c)
<1>1. CASE ReadFails(c)
  <2>1. PICK code \in ApiErrors : retryOnTransient(c, code)
    BY <1>1 DEF ReadFails
  <2>2. FallsBack(c)
    BY <2>1, RetryFallsBack DEF ApiErrors
  <2> QED BY <1>1, <2>2 DEF ReadFails, apiVars, Isolated, OnlyOwnDisk, Managed, Exists
<1>2. CASE late' = late \cup {m} /\ retryOnTransient(c, "Internal")
           /\ UNCHANGED <<disk, att, foreign>>
  <2>1. FallsBack(c)
    BY <1>2, RetryFallsBack
  <2> QED BY <1>2, <2>1 DEF Isolated, OnlyOwnDisk, Managed, Exists
<1> QED BY <1>1, <1>2 DEF MutationFails

\* A step that only reads touches nothing.
LEMMA ReadIsolated ==
    ASSUME NEW c \in Calls, UNCHANGED apiVars
    PROVE  Isolated(c)
BY DEF apiVars, Isolated, OnlyOwnDisk, Managed, Exists

\* Marking an attachment of this driver's disk for deletion is isolated.
LEMMA DetachIsolated ==
    ASSUME IndInv, NEW c \in Calls, NEW n \in Nodes, req[c].d \in OwnedDisks,
           ApplyDetach(req[c].d, n), UNCHANGED <<foreign, late>>
    PROVE  Isolated(c)
BY OwnersAssumption DEF IndInv, TypeOK, ApplyDetach, Isolated, OnlyOwnDisk, Managed, Exists

\* A handler that fell back has nothing left to rely on.
LEMMA BackBeforeChecks ==
    ASSUME IndInv, NEW c \in Calls, FallsBack(c), UNCHANGED req
    PROVE  ChecksHold(c)'
BY DEF FallsBack, ChecksHold, DiskCheckedPCs, VMCheckedPCs, IndInv, TypeOK

\* So has a handler that returned.
LEMMA DoneBeforeChecks ==
    ASSUME IndInv, NEW c \in Calls, NEW code, Return(c, code), UNCHANGED req
    PROVE  ChecksHold(c)'
BY DEF Return, ChecksHold, DiskCheckedPCs, VMCheckedPCs, IndInv, TypeOK

\* Going on keeps the checks that were passed; going past one takes its result.
LEMMA GotoChecks ==
    ASSUME IndInv, NEW c \in Calls, NEW l, pc' = [pc EXCEPT ![c] = l], UNCHANGED req,
           l \in DiskCheckedPCs => req[c].d \in OwnedDisks,
           (l \in VMCheckedPCs /\ VMOwnerLabelSet) => req[c].n \in OwnedNodes
    PROVE  ChecksHold(c)'
BY DEF ChecksHold, IndInv, TypeOK

\* Every step of ControllerPublishVolume is isolated and keeps its checks.
LEMMA PublishIsolated ==
    ASSUME IndInv, IsolationInv, NEW c \in Calls, PublishStep(c)
    PROVE  Isolated(c) /\ ChecksHold(c)'
<1> DEFINE d == req[c].d
           n == req[c].n
<1>0. /\ pc[c] \in PublishPCs => d \in Disks /\ n \in Nodes
      /\ pc[c] \in {"evict", "awaitEvicted"} => victim[c] \in Nodes
  BY DEF IndInv, CallsWellFormed, NodeRequests
<1>1. UNCHANGED req
  BY DEF PublishStep, CountNodeAttachments, GetDiskAndValidateOwnership, validateVMOwnership,
     ensureNoOtherAttachmentsUseThisDisk, EvictStale, AwaitEvicted, CreateAttachment,
     VerifyConflict, WaitForAttachmentSerial
<1>2. pc[c] \in VMCheckedPCs => d \in OwnedDisks /\ (VMOwnerLabelSet => n \in OwnedNodes)
  BY DEF IsolationInv, ChecksHold, DiskCheckedPCs
<1>3. ASSUME NEW code, code # "OK", retryOnTransient(c, code) PROVE ChecksHold(c)'
  BY <1>1, <1>3, RetryFallsBack, BackBeforeChecks
<1>4. ReadFails(c) => UNCHANGED apiVars /\ ChecksHold(c)'
  BY <1>3 DEF ReadFails, ApiErrors
<1>5. CASE CountNodeAttachments(c)
  <2>1. Goto(c, "getDisk") => ChecksHold(c)'
    BY <1>1, GotoChecks DEF Goto, DiskCheckedPCs, VMCheckedPCs
  <2> QED BY <1>1, <1>5, <2>1, DoneBeforeChecks, ReadIsolated DEF CountNodeAttachments
<1>6. CASE GetDiskAndValidateOwnership(c)
  <2>1. CASE UNCHANGED apiVars /\ d \in OwnedDisks
             /\ Goto(c, IF VMOwnerLabelSet THEN "getVM" ELSE "listDisk")
    BY <1>1, <2>1, GotoChecks, ReadIsolated DEF Goto, VMCheckedPCs
  <2> QED BY <1>3, <1>4, <1>6, <2>1, ReadIsolated
          DEF GetDiskAndValidateOwnership, DiskOwned
<1>7. CASE validateVMOwnership(c)
  <2>1. d \in OwnedDisks
    BY <1>7 DEF validateVMOwnership, IsolationInv, ChecksHold, DiskCheckedPCs
  <2>2. CASE UNCHANGED apiVars /\ n \in OwnedNodes /\ Goto(c, "listDisk")
    BY <1>1, <2>1, <2>2, GotoChecks, ReadIsolated DEF Goto
  <2> QED BY <1>3, <1>4, <1>7, <2>2, ReadIsolated DEF validateVMOwnership, VMOwned
<1>8. CASE ensureNoOtherAttachmentsUseThisDisk(c)
  <2>1. pc[c] \in VMCheckedPCs
    BY <1>8 DEF ensureNoOtherAttachmentsUseThisDisk, VMCheckedPCs
  <2>2. CASE UNCHANGED apiVars /\ \E l \in {"create", "evict"} : pc' = [pc EXCEPT ![c] = l]
    BY <1>1, <1>2, <2>1, <2>2, GotoChecks, ReadIsolated
  <2> QED BY <1>3, <1>4, <1>8, <2>2, ReadIsolated
          DEF ensureNoOtherAttachmentsUseThisDisk, EvictionDecided, Goto
<1>9. CASE EvictStale(c)
  <2>1. pc[c] = "evict" /\ d \in OwnedDisks /\ (VMOwnerLabelSet => n \in OwnedNodes)
        /\ d \in Disks /\ victim[c] \in Nodes
    BY <1>0, <1>2, <1>9, OwnersAssumption DEF EvictStale, VMCheckedPCs
  <2>2. CASE MutationFails(c, [op |-> "detach", d |-> d, n |-> victim[c]])
    <3>1. /\ [op |-> "detach", d |-> d, n |-> victim[c]] \in Mutations
          /\ RequestChecked([op |-> "detach", d |-> d, n |-> victim[c]])
      BY <2>1 DEF Mutations, RequestChecked
    <3> QED BY <1>1, <2>2, <3>1, FailureIsolated, BackBeforeChecks
  <2>3. CASE ApplyDetach(d, victim[c]) /\ Answered(c, "awaitEvicted")
    <3>1. Isolated(c)
      BY <2>1, <2>3, DetachIsolated DEF Answered
    <3>2. Goto(c, "awaitEvicted") => ChecksHold(c)'
      BY <1>1, <2>1, GotoChecks DEF Goto
    <3> QED BY <1>3, <2>3, <3>1, <3>2 DEF Answered
  <2> QED BY <1>9, <2>2, <2>3 DEF EvictStale
<1>10. CASE AwaitEvicted(c)
  <2>1. pc[c] \in VMCheckedPCs
    BY <1>10 DEF AwaitEvicted, VMCheckedPCs
  <2>2. pc' = [pc EXCEPT ![c] = "create"] => ChecksHold(c)'
    BY <1>1, <1>2, <2>1, GotoChecks
  <2> QED BY <1>3, <1>10, <2>2, ReadIsolated DEF AwaitEvicted
<1>11. CASE CreateAttachment(c)
  <2>1. pc[c] = "create" /\ d \in OwnedDisks /\ (VMOwnerLabelSet => n \in OwnedNodes)
        /\ d \in Disks /\ n \in Nodes
    BY <1>0, <1>2, <1>11 DEF CreateAttachment, VMCheckedPCs, PublishPCs, EnsureCreatedPCs
  <2>2. CASE MutationFails(c, [op |-> "attach", d |-> d, n |-> n])
    <3>1. /\ [op |-> "attach", d |-> d, n |-> n] \in Mutations
          /\ RequestChecked([op |-> "attach", d |-> d, n |-> n])
      BY <2>1 DEF Mutations, RequestChecked
    <3> QED BY <1>1, <2>2, <3>1, FailureIsolated, BackBeforeChecks
  <2>3. CASE ApplyAttach(d, n) /\ Answered(c, "awaitReady")
    <3>1. Isolated(c)
      BY <2>1, <2>3 DEF Answered, ApplyAttach, Isolated, OnlyOwnDisk, Managed, Exists,
                        IndInv, TypeOK
    <3>2. Goto(c, "awaitReady") => ChecksHold(c)'
      BY <1>1, <2>1, GotoChecks DEF Goto
    <3> QED BY <1>3, <2>3, <3>1, <3>2 DEF Answered
  <2>4. CASE Goto(c, "verify") /\ UNCHANGED apiVars
    BY <1>1, <2>1, <2>4, GotoChecks, ReadIsolated DEF Goto
  <2>5. CASE retryOnTransient(c, "NotFound") /\ UNCHANGED apiVars
    BY <1>3, <2>5, ReadIsolated
  <2> QED BY <1>11, <2>2, <2>3, <2>4, <2>5 DEF CreateAttachment
<1>12. CASE VerifyConflict(c)
  <2>1. pc[c] \in VMCheckedPCs
    BY <1>12 DEF VerifyConflict, VMCheckedPCs
  <2>2. Goto(c, "awaitReady") => ChecksHold(c)'
    BY <1>1, <1>2, <2>1, GotoChecks DEF Goto
  <2> QED BY <1>3, <1>12, <2>2, ReadIsolated DEF VerifyConflict
<1>13. CASE WaitForAttachmentSerial(c)
  BY <1>1, <1>13, DoneBeforeChecks, ReadIsolated DEF WaitForAttachmentSerial
<1> QED BY <1>5, <1>6, <1>7, <1>8, <1>9, <1>10, <1>11, <1>12, <1>13 DEF PublishStep

\* Every step of ControllerUnpublishVolume is isolated: GetAttachment goes on
\* only with an attachment that carries this driver's label.
LEMMA UnpublishIsolated ==
    ASSUME IndInv, IsolationInv, NEW c \in Calls, UnpublishStep(c)
    PROVE  Isolated(c) /\ ChecksHold(c)'
<1> DEFINE d == req[c].d
           n == req[c].n
<1>0. pc[c] \in UnpublishPCs => d \in Disks /\ n \in Nodes
  BY DEF IndInv, CallsWellFormed, NodeRequests
<1>1. UNCHANGED req
  BY DEF UnpublishStep, GetAttachment, DeleteAttachment, AwaitDeleted
<1>2. ASSUME NEW code, code # "OK", retryOnTransient(c, code) PROVE ChecksHold(c)'
  BY <1>1, <1>2, RetryFallsBack, BackBeforeChecks
<1>3. ReadFails(c) => UNCHANGED apiVars /\ ChecksHold(c)'
  BY <1>2 DEF ReadFails, ApiErrors
<1>4. CASE GetAttachment(c)
  <2>1. d \in Disks /\ n \in Nodes
    BY <1>0, <1>4 DEF GetAttachment, UnpublishPCs
  <2>2. CASE Managed(d, n) /\ Goto(c, "deleteAttachment") /\ UNCHANGED apiVars
    <3>1. d \in OwnedDisks
      BY <2>1, <2>2 DEF IsolationInv, LabelsTell
    <3> QED BY <1>1, <2>2, <3>1, GotoChecks, ReadIsolated DEF Goto, VMCheckedPCs
  <2> QED BY <1>1, <1>2, <1>3, <1>4, <2>2, DoneBeforeChecks, ReadIsolated DEF GetAttachment
<1>5. CASE DeleteAttachment(c)
  <2>1. d \in Disks /\ n \in Nodes /\ d \in OwnedDisks
    BY <1>0, <1>5 DEF DeleteAttachment, UnpublishPCs, IsolationInv, ChecksHold, DiskCheckedPCs
  <2>2. CASE MutationFails(c, [op |-> "detach", d |-> d, n |-> n])
    <3>1. /\ [op |-> "detach", d |-> d, n |-> n] \in Mutations
          /\ RequestChecked([op |-> "detach", d |-> d, n |-> n])
      BY <2>1 DEF Mutations, RequestChecked
    <3> QED BY <1>1, <2>2, <3>1, FailureIsolated, BackBeforeChecks
  <2>3. CASE ApplyDetach(d, n) /\ Answered(c, "awaitDeleted")
    <3>1. Isolated(c)
      BY <2>1, <2>3, DetachIsolated DEF Answered
    <3>2. Goto(c, "awaitDeleted") => ChecksHold(c)'
      BY <1>1, <2>1, GotoChecks DEF Goto, VMCheckedPCs
    <3> QED BY <1>2, <2>3, <3>1, <3>2 DEF Answered
  <2>4. CASE Return(c, "OK") /\ UNCHANGED apiVars
    BY <1>1, <2>4, DoneBeforeChecks, ReadIsolated
  <2> QED BY <1>5, <2>2, <2>3, <2>4 DEF DeleteAttachment
<1>6. CASE AwaitDeleted(c)
  BY <1>1, <1>2, <1>6, DoneBeforeChecks, ReadIsolated DEF AwaitDeleted
<1> QED BY <1>4, <1>5, <1>6 DEF UnpublishStep

\* Every step of DeleteVolume is isolated and keeps its check.
LEMMA DeleteIsolated ==
    ASSUME IndInv, IsolationInv, NEW c \in Calls, DeleteStep(c)
    PROVE  Isolated(c) /\ ChecksHold(c)'
<1> DEFINE d == req[c].d
<1>1. UNCHANGED req
  BY DEF DeleteStep, ListBeforeDelete, GetDoomedDisk, DeleteDisk, ConfirmDeleted
<1>2. ASSUME NEW code, code # "OK", retryOnTransient(c, code) PROVE ChecksHold(c)'
  BY <1>1, <1>2, RetryFallsBack, BackBeforeChecks
<1>3. ReadFails(c) => UNCHANGED apiVars /\ ChecksHold(c)'
  BY <1>2 DEF ReadFails, ApiErrors
<1>4. CASE ListBeforeDelete(c)
  <2>1. Goto(c, "getDoomed") => ChecksHold(c)'
    BY <1>1, GotoChecks DEF Goto, DiskCheckedPCs, VMCheckedPCs
  <2> QED BY <1>1, <1>4, <2>1, DoneBeforeChecks, ReadIsolated DEF ListBeforeDelete
<1>5. CASE GetDoomedDisk(c)
  <2>1. CASE d \in OwnedDisks /\ Goto(c, "deleteDisk") /\ UNCHANGED apiVars
    BY <1>1, <2>1, GotoChecks, ReadIsolated DEF Goto, VMCheckedPCs
  <2> QED BY <1>1, <1>2, <1>3, <1>5, <2>1, DoneBeforeChecks, ReadIsolated
          DEF GetDoomedDisk, DiskOwned
<1>6. CASE DeleteDisk(c)
  <2>1. d \in Disks /\ d \in OwnedDisks
    BY <1>6, OwnersAssumption DEF DeleteDisk, IsolationInv, ChecksHold, DiskCheckedPCs
  <2>2. CASE MutationFails(c, [op |-> "deleteDisk", d |-> d])
    <3>1. /\ [op |-> "deleteDisk", d |-> d] \in Mutations
          /\ RequestChecked([op |-> "deleteDisk", d |-> d])
      BY <2>1 DEF Mutations, RequestChecked
    <3> QED BY <1>1, <2>2, <3>1, FailureIsolated, BackBeforeChecks
  <2>3. CASE ApplyDeleteDisk(d) /\ Answered(c, "confirm")
    <3>1. Isolated(c)
      BY <2>1, <2>3 DEF Answered, ApplyDeleteDisk, Isolated, OnlyOwnDisk, Managed, Exists,
                        IndInv, TypeOK
    <3>2. Goto(c, "confirm") => ChecksHold(c)'
      BY <1>1, <2>1, GotoChecks DEF Goto, VMCheckedPCs
    <3> QED BY <1>2, <2>3, <3>1, <3>2 DEF Answered
  <2>4. CASE Return(c, "OK") /\ UNCHANGED apiVars
    BY <1>1, <2>4, DoneBeforeChecks, ReadIsolated
  <2> QED BY <1>6, <2>2, <2>3, <2>4 DEF DeleteDisk
<1>7. CASE ConfirmDeleted(c)
  BY <1>1, <1>2, <1>3, <1>7, DoneBeforeChecks, ReadIsolated DEF ConfirmDeleted
<1> QED BY <1>4, <1>5, <1>6, <1>7 DEF DeleteStep

\* The steps between acquireNodeLock, or the start of DeleteVolume, and return.
InsideStep(c) == PublishStep(c) \/ UnpublishStep(c) \/ DeleteStep(c)

\* A step of one handler leaves the control state of the others alone.
LEMMA OthersStay ==
    ASSUME IndInv, NEW c \in Calls, InsideStep(c)
    PROVE  /\ IndInv'
           /\ pc[c] \in CriticalPCs \cup DeletePCs
           /\ \A x \in Calls \ {c} :
                  pc'[x] = pc[x] /\ victim'[x] = victim[x] /\ ret'[x] = ret[x]
           /\ UNCHANGED <<req, published>>
<1>1. Moves(c) /\ ApiTypeOK'
  BY PublishMoves, UnpublishMoves, DeleteMoves DEF InsideStep
<1>2. IndInv'
  BY <1>1, MovesPreserve
<1>3. CASE Continues(c)
  BY <1>1, <1>2, <1>3 DEF Moves, Continues, IndInv, TypeOK
<1>4. CASE Finishes(c)
  BY <1>1, <1>2, <1>4 DEF Moves, Finishes, Return, IndInv, TypeOK
<1> QED BY <1>1, <1>3, <1>4 DEF Moves

\* A handler's step keeps the isolation invariant.
LEMMA InsideKeepsIsolation ==
    ASSUME IndInv, IsolationInv, NEW c \in Calls, InsideStep(c)
    PROVE  IsolationInv'
<1>1. Isolated(c) /\ ChecksHold(c)'
  BY PublishIsolated, UnpublishIsolated, DeleteIsolated DEF InsideStep
<1>2. UNCHANGED req /\ \A x \in Calls \ {c} : pc'[x] = pc[x]
  BY OthersStay
<1>3. ASSUME NEW x \in Calls PROVE ChecksHold(x)'
  BY <1>1, <1>2 DEF IsolationInv, ChecksHold
<1>4. \A m \in late' : RequestChecked(m)
  BY <1>1 DEF Isolated, IsolationInv
<1>5. ASSUME NEW d \in Disks, NEW n \in Nodes, Managed(d, n)', ~Managed(d, n)
      PROVE  d \in OwnedDisks /\ (VMOwnerLabelSet => n \in OwnedNodes)
  <2>1. pc[c] = "create" /\ d = req[c].d /\ n = req[c].n
    BY <1>1, <1>5 DEF Isolated
  <2> QED BY <2>1 DEF IsolationInv, ChecksHold, DiskCheckedPCs, VMCheckedPCs
<1>6. LabelsTell'
  BY <1>1, <1>5 DEF Isolated, OnlyOwnDisk, IsolationInv, LabelsTell
<1>7. OtherClustersVMsUntouched'
  BY <1>5 DEF IsolationInv, OtherClustersVMsUntouched
<1>8. OthersDisksStay'
  BY <1>1 DEF Isolated, OnlyOwnDisk, IsolationInv, OthersDisksStay
<1> QED BY <1>3, <1>4, <1>6, <1>7, <1>8 DEF IsolationInv, RequestChecked

\* What the environment does to another cluster's disk is done by the API or by
\* that cluster: a request that arrives late was checked when it was sent.
LEMMA EnvironmentIsolated ==
    ASSUME IndInv, IsolationInv, Environment, NEW d \in Disks \ OwnedDisks
    PROVE  /\ disk'[d] = disk[d]
           /\ \/ att'[d] = att[d]
              \/ \E n \in Nodes : AttachmentProgress(d, n) \/ ForeignStep(d, n)
<1> USE DEF IndInv, TypeOK
<1>1. ASSUME NEW e \in Disks, NEW n \in Nodes, AttachmentProgress(e, n) \/ ForeignStep(e, n)
      PROVE  disk' = disk /\ (e # d => att'[d] = att[d])
  BY <1>1 DEF AttachmentProgress, ForeignStep, ApplyAttach, ApplyDetach
<1>2. ASSUME NEW e \in Disks, DiskRemoved(e)
      PROVE  disk'[d] = disk[d] /\ att' = att
  BY <1>2 DEF DiskRemoved, IsolationInv, OthersDisksStay
<1>3. ASSUME NEW m \in late, LateArrival(m)
      PROVE  disk'[d] = disk[d] /\ att'[d] = att[d]
  <2>1. m.d # d
    BY DEF IsolationInv, RequestChecked
  <2> QED BY <1>3, <2>1 DEF LateArrival, ApplyAttach, ApplyDetach, ApplyDeleteDisk
<1> QED BY <1>1, <1>2, <1>3 DEF Environment

\* A request that arrives late was checked when it was sent; what the API and
\* the other cluster do concerns attachments whose label tells their owner.
LEMMA EnvironmentKeepsIsolation ==
    ASSUME IndInv, IsolationInv, Environment
    PROVE  IsolationInv'
<1>0. UNCHANGED <<pc, req>>
  BY EnvironmentPreserves DEF callVars
<1>1. /\ \A c \in Calls : ChecksHold(c)'
      /\ OthersDisksStay'
  BY <1>0, EnvironmentIsolated DEF IsolationInv, ChecksHold, OthersDisksStay
<1> USE DEF IndInv, TypeOK
<1>2. ASSUME NEW d \in Disks, NEW n \in Nodes, AttachmentProgress(d, n)
      PROVE  IsolationInv'
  <2>1. \A e \in Disks, m \in Nodes : Managed(e, m)' => Managed(e, m)
    BY <1>2 DEF AttachmentProgress, Managed, Exists
  <2>2. foreign' \subseteq foreign /\ UNCHANGED late
    BY <1>2 DEF AttachmentProgress
  <2> QED BY <1>1, <2>1, <2>2 DEF IsolationInv, LabelsTell, OtherClustersVMsUntouched,
                                  RequestChecked
<1>3. ASSUME NEW d \in Disks, NEW n \in Nodes, ForeignStep(d, n)
      PROVE  IsolationInv'
  <2>1. CASE ApplyAttach(d, n) /\ foreign' = foreign \cup {<<d, n>>}
    BY <1>1, <1>3, <2>1 DEF ForeignStep, ApplyAttach, IsolationInv, LabelsTell,
       OtherClustersVMsUntouched, RequestChecked, Managed, Exists
  <2>2. CASE ApplyDetach(d, n) /\ UNCHANGED foreign
    BY <1>1, <1>3, <2>2 DEF ForeignStep, ApplyDetach, IsolationInv, LabelsTell,
       OtherClustersVMsUntouched, RequestChecked, Managed, Exists
  <2> QED BY <1>3, <2>1, <2>2 DEF ForeignStep
<1>4. ASSUME NEW d \in Disks, DiskRemoved(d)
      PROVE  IsolationInv'
  BY <1>1, <1>4 DEF DiskRemoved, IsolationInv, LabelsTell, OtherClustersVMsUntouched,
                    RequestChecked, Managed, Exists
<1>5. ASSUME NEW m \in late, LateArrival(m)
      PROVE  IsolationInv'
  <2>0. /\ RequestChecked(m) /\ m \in Mutations
        /\ late' \subseteq late /\ UNCHANGED foreign
    BY <1>5 DEF IsolationInv, LateArrival
  <2>1. CASE m.op = "attach" /\ ApplyAttach(m.d, m.n)
    <3>1. m.d \in Disks /\ m.n \in Nodes
      BY <2>0, <2>1 DEF Mutations
    <3> QED BY <1>1, <2>0, <2>1, <3>1 DEF ApplyAttach, IsolationInv, LabelsTell,
               OtherClustersVMsUntouched, RequestChecked, Managed, Exists
  <2>2. CASE UNCHANGED att
    BY <1>1, <2>0, <2>2 DEF IsolationInv, LabelsTell, OtherClustersVMsUntouched,
       RequestChecked, Managed, Exists
  <2>3. CASE m.op = "detach" /\ ApplyDetach(m.d, m.n)
    <3>1. m.d \in Disks /\ m.n \in Nodes
      BY <2>0, <2>3 DEF Mutations
    <3> QED BY <1>1, <2>0, <2>3, <3>1 DEF ApplyDetach, IsolationInv, LabelsTell,
               OtherClustersVMsUntouched, RequestChecked, Managed, Exists
  <2> QED BY <1>5, <2>1, <2>2, <2>3 DEF LateArrival, ApplyDeleteDisk
<1> QED BY <1>2, <1>3, <1>4, <1>5 DEF Environment

\* A step that leaves the API alone and takes no handler past a check.
LEMMA ControlKeepsIsolation ==
    ASSUME IsolationInv, UNCHANGED apiVars,
           \A c \in Calls : \/ pc'[c] \notin DiskCheckedPCs
                            \/ pc'[c] = pc[c] /\ req'[c] = req[c]
    PROVE  IsolationInv'
<1>1. \A c \in Calls : ChecksHold(c)'
  BY DEF IsolationInv, ChecksHold, DiskCheckedPCs
<1> QED BY <1>1 DEF IsolationInv, apiVars, LabelsTell, OthersDisksStay,
                    OtherClustersVMsUntouched, RequestChecked, Managed, Exists

\* Starting, locking, answering and crashing leave the API alone and put
\* handlers before their checks.
LEMMA OutsideStaysOutside ==
    ASSUME IndInv,
           \/ \E c \in Calls : \/ \E r \in Requests : Begin(c, r)
                               \/ acquireNodeLock(c)
                               \/ Reply(c)
           \/ Crash
           \/ UNCHANGED vars
    PROVE  /\ UNCHANGED apiVars
           /\ \A c \in Calls : \/ pc'[c] \notin DiskCheckedPCs
                               \/ pc'[c] = pc[c] /\ req'[c] = req[c]
<1> USE DEF IndInv, TypeOK, DiskCheckedPCs, VMCheckedPCs
<1>1. ASSUME NEW c \in Calls, NEW r \in Requests, Begin(c, r)
      PROVE  UNCHANGED apiVars /\ pc'[c] \notin DiskCheckedPCs
             /\ \A x \in Calls \ {c} : pc'[x] = pc[x] /\ req'[x] = req[x]
  BY <1>1 DEF Begin, Goto, Return
<1>2. ASSUME NEW c \in Calls, acquireNodeLock(c)
      PROVE  UNCHANGED apiVars /\ pc'[c] \notin DiskCheckedPCs
             /\ \A x \in Calls \ {c} : pc'[x] = pc[x] /\ req'[x] = req[x]
  BY <1>2 DEF acquireNodeLock, FirstRequest
<1>3. ASSUME NEW c \in Calls, Reply(c)
      PROVE  UNCHANGED apiVars /\ pc'[c] \notin DiskCheckedPCs
             /\ \A x \in Calls \ {c} : pc'[x] = pc[x] /\ req'[x] = req[x]
  BY <1>3 DEF Reply
<1>4. CASE Crash
  BY <1>4 DEF Crash
<1>5. CASE UNCHANGED vars
  BY <1>5 DEF vars, callVars
<1> QED BY <1>1, <1>2, <1>3, <1>4, <1>5

\* The isolation invariant is inductive, given the type invariant.
LEMMA IsolationInvStep ==
    ASSUME IndInv, IsolationInv, [Next]_vars
    PROVE  IsolationInv'
<1>1. CASE \E c \in Calls : InsideStep(c)
  BY <1>1, InsideKeepsIsolation
<1>2. CASE Environment
  BY <1>2, EnvironmentKeepsIsolation
<1> QED BY <1>1, <1>2, OutsideStaysOutside, ControlKeepsIsolation
        DEF Next, HandlerStep, InsideStep

\* Nothing is attached, in transit or in service at the start.
LEMMA IsolationInvInit == Init => IsolationInv
BY DEF Init, IsolationInv, LabelsTell, OthersDisksStay, ChecksHold, OtherClustersVMsUntouched,
   Managed, Exists, DiskCheckedPCs, VMCheckedPCs

\* The isolation invariant holds in every state of every behaviour.
THEOREM IsolationInvHolds == Spec => []IsolationInv
<1>1. IsolationInv /\ IndInv /\ [Next]_vars => IsolationInv'
  BY IsolationInvStep
<1> QED BY IsolationInvInit, <1>1, IndInvHolds, PTL DEF Spec

\* With csi.vmOwnerLabel set, nothing this driver does, not even a create that
\* arrives after its handler has gone, attaches a disk to a VM of another
\* cluster.
THEOREM VMIsolation == Spec => []OtherClustersVMsUntouched
<1>1. IsolationInv => OtherClustersVMsUntouched
  BY DEF IsolationInv
<1> QED BY IsolationInvHolds, <1>1, PTL

\* A disk of another cluster and its attachments are changed by that cluster and
\* the API alone, whatever the orchestrator asks for, whatever was retried and
\* whatever arrives late: the label seen by an early request still holds when
\* the mutation is sent, and when it takes effect.
THEOREM DiskIsolation == Spec => OtherClustersUntouched
<1> DEFINE Untouched ==
              \A d \in Disks \ OwnedDisks :
                  \/ disk'[d] = disk[d] /\ att'[d] = att[d]
                  \/ \E n \in Nodes : AttachmentProgress(d, n) \/ ForeignStep(d, n)
<1>1. ASSUME IndInv, IsolationInv, [Next]_vars
      PROVE  [Untouched]_vars
  <2>1. ASSUME NEW c \in Calls, InsideStep(c) PROVE Untouched
    <3>1. Isolated(c)
      BY <1>1, <2>1, PublishIsolated, UnpublishIsolated, DeleteIsolated DEF InsideStep
    <3> QED BY <3>1 DEF Isolated, OnlyOwnDisk
  <2>2. CASE Environment
    BY <1>1, <2>2, EnvironmentIsolated
  <2>3. UNCHANGED apiVars => Untouched
    BY DEF apiVars
  <2> QED BY <1>1, <2>1, <2>2, <2>3, OutsideStaysOutside DEF Next, HandlerStep, InsideStep
<1>2. IndInv /\ IsolationInv /\ [Next]_vars => [Untouched]_vars
  BY <1>1
<1>3. Spec => [][Untouched]_vars
  BY <1>2, IndInvHolds, IsolationInvHolds, PTL DEF Spec
<1> QED BY <1>3 DEF OtherClustersUntouched
=============================================================================
