---------------------------- MODULE AttachProofs ----------------------------
(***************************************************************************)
(* Proofs about Attach, for any sets of disks, VMs and handlers, any limit *)
(* and any number of retries.                                              *)
(***************************************************************************)
EXTENDS Attach, FiniteSetTheorems, TLAPS

(***************************************************************************)
(* A handler's program counter fits the call it serves.                    *)
(***************************************************************************)
CallsWellFormed ==
    \A c \in Calls :
        /\ pc[c] = "idle" => req[c] = NoReq
        /\ pc[c] # "idle" => req[c] \in Requests
        /\ pc[c] = "lock" => req[c] \in NodeRequests
        /\ pc[c] \in PublishPCs => req[c] \in NodeRequests /\ req[c].op = "publish"
        /\ pc[c] \in UnpublishPCs => req[c] \in NodeRequests /\ req[c].op = "unpublish"
        /\ pc[c] \in DeletePCs => req[c] \in Requests /\ req[c].op = "delete"
        /\ pc[c] \in {"evict", "awaitEvicted"} => victim[c] \in Nodes

\* A node's mutex is held by the handler that is past acquireNodeLock for it.
LockHeldInside ==
    \A c \in Calls, n \in Nodes :
        lock[n] = c <=> (pc[c] \in CriticalPCs /\ req[c].n = n)

IndInv == TypeOK /\ CallsWellFormed /\ LockHeldInside

(***************************************************************************)
(* What any step inside a handler does to the control state: it goes on    *)
(* within the same call, or it returns.                                    *)
(***************************************************************************)
SameCall(l, m) ==
    \/ l \in PublishPCs /\ m \in PublishPCs
    \/ l \in UnpublishPCs /\ m \in UnpublishPCs
    \/ l \in DeletePCs /\ m \in DeletePCs

Continues(c) ==
    /\ \E l \in PCs : SameCall(pc[c], l) /\ pc' = [pc EXCEPT ![c] = l]
    /\ tries' \in [Calls -> 0..MaxRetries]
    /\ victim' \in [Calls -> Nodes \cup {NoNode}]
    /\ \A x \in Calls \ {c} : victim'[x] = victim[x]
    /\ pc'[c] \in {"evict", "awaitEvicted"} => victim'[c] \in Nodes
    /\ UNCHANGED <<lock, ret>>

Finishes(c) == \E code \in Codes : Return(c, code)

Moves(c) ==
    /\ pc[c] \in CriticalPCs \cup DeletePCs
    /\ Continues(c) \/ Finishes(c)
    /\ UNCHANGED <<req, published>>

ApiTypeOK ==
    /\ disk \in [Disks -> DiskState]
    /\ att \in [Disks -> [Nodes -> AttState]]
    /\ foreign \subseteq Disks \X Nodes
    /\ late \subseteq Mutations

\* A retried or failed attempt stays within its call or returns.
LEMMA RetryMoves ==
    ASSUME IndInv, NEW c \in Calls, NEW code \in Codes,
           pc[c] \in EnsureCreatedPCs \cup UnpublishPCs \cup DeletePCs,
           retryOnTransient(c, code)
    PROVE  Continues(c) \/ Finishes(c)
<1> USE LimitsAssumption
<1>1. CASE /\ isTransientError(code)
           /\ AttemptsLeft(c)
           /\ pc' = [pc EXCEPT ![c] = FirstRequest(req[c].op)]
           /\ tries' = [tries EXCEPT ![c] = @ + 1]
           /\ victim' = [victim EXCEPT ![c] = NoNode]
           /\ UNCHANGED <<lock, ret>>
  <2>1. FirstRequest(req[c].op) \in PCs /\ SameCall(pc[c], FirstRequest(req[c].op))
        /\ FirstRequest(req[c].op) \notin {"evict", "awaitEvicted"}
    BY DEF IndInv, CallsWellFormed, FirstRequest, PCs, SameCall, PublishPCs,
           EnsureCreatedPCs, UnpublishPCs, DeletePCs, CriticalPCs
  <2>2. tries' \in [Calls -> 0..MaxRetries]
    BY <1>1 DEF IndInv, TypeOK, AttemptsLeft
  <2>3. victim' \in [Calls -> Nodes \cup {NoNode}]
        /\ \A x \in Calls \ {c} : victim'[x] = victim[x]
    BY <1>1 DEF IndInv, TypeOK
  <2>4. pc'[c] = FirstRequest(req[c].op)
    BY <1>1 DEF IndInv, TypeOK
  <2>5. Continues(c)
    BY <1>1, <2>1, <2>2, <2>3, <2>4 DEF Continues
  <2> QED BY <2>5
<1>2. CASE Return(c, WrappedCode(req[c].op, code))
  <2>1. WrappedCode(req[c].op, code) \in Codes
    BY DEF WrappedCode, Codes
  <2> QED BY <1>2, <2>1 DEF Finishes
<1>3. CASE Return(c, "Internal")
  BY <1>3 DEF Finishes, Codes
<1> QED BY <1>1, <1>2, <1>3 DEF retryOnTransient

\* Going on at another request of the same call.
LEMMA GotoMoves ==
    ASSUME IndInv, NEW c \in Calls, NEW l \in PCs, SameCall(pc[c], l),
           l = "awaitEvicted" => victim[c] \in Nodes, l # "evict",
           Goto(c, l)
    PROVE  Continues(c)
BY DEF IndInv, TypeOK, Goto, Continues

\* A failed read stays within its call or returns, and changes nothing.
LEMMA ReadFailsMoves ==
    ASSUME IndInv, NEW c \in Calls,
           pc[c] \in EnsureCreatedPCs \cup UnpublishPCs \cup DeletePCs,
           ReadFails(c)
    PROVE  (Continues(c) \/ Finishes(c)) /\ ApiTypeOK'
<1>1. PICK code \in ApiErrors : retryOnTransient(c, code)
  BY DEF ReadFails
<1>2. code \in Codes
  BY DEF ApiErrors, Codes
<1>3. Continues(c) \/ Finishes(c)
  BY <1>1, <1>2, RetryMoves
<1>4. ApiTypeOK'
  BY DEF ReadFails, apiVars, IndInv, TypeOK, ApiTypeOK
<1> QED BY <1>3, <1>4

\* A failed mutation stays within its call or returns; it may be left in transit.
LEMMA MutationFailsMoves ==
    ASSUME IndInv, NEW c \in Calls, NEW m \in Mutations,
           pc[c] \in EnsureCreatedPCs \cup UnpublishPCs \cup DeletePCs,
           MutationFails(c, m)
    PROVE  (Continues(c) \/ Finishes(c)) /\ ApiTypeOK'
<1>1. CASE ReadFails(c)
  BY <1>1, ReadFailsMoves
<1>2. CASE late' = late \cup {m} /\ retryOnTransient(c, "Internal")
           /\ UNCHANGED <<disk, att, foreign>>
  <2>1. Continues(c) \/ Finishes(c)
    BY <1>2, RetryMoves DEF Codes
  <2>2. ApiTypeOK'
    BY <1>2 DEF IndInv, TypeOK, ApiTypeOK
  <2> QED BY <2>1, <2>2
<1> QED BY <1>1, <1>2 DEF MutationFails

\* The effects of the API's mutations have the right types.
LEMMA EffectTypes ==
    ASSUME IndInv, NEW d \in Disks, NEW n \in Nodes
    PROVE  /\ ApplyAttach(d, n) /\ UNCHANGED <<foreign, late>> => ApiTypeOK'
           /\ ApplyDetach(d, n) /\ UNCHANGED <<foreign, late>> => ApiTypeOK'
           /\ ApplyDeleteDisk(d) /\ UNCHANGED <<foreign, late>> => ApiTypeOK'
<1> USE DEF IndInv, TypeOK, ApiTypeOK
<1>1. ASSUME NEW s \in AttState
      PROVE  [att EXCEPT ![d][n] = s] \in [Disks -> [Nodes -> AttState]]
  OBVIOUS
<1>2. ASSUME ApplyAttach(d, n), UNCHANGED <<foreign, late>> PROVE ApiTypeOK'
  BY <1>1, <1>2 DEF ApplyAttach, AttState
<1>3. ASSUME ApplyDetach(d, n), UNCHANGED <<foreign, late>> PROVE ApiTypeOK'
  <2>1. (IF Exists(d, n) THEN "deleting" ELSE "absent") \in AttState
    BY DEF AttState
  <2>2. att' \in [Disks -> [Nodes -> AttState]]
    BY <1>1, <1>3, <2>1 DEF ApplyDetach
  <2> QED BY <1>3, <2>2 DEF ApplyDetach
<1>4. ASSUME ApplyDeleteDisk(d), UNCHANGED <<foreign, late>> PROVE ApiTypeOK'
  BY <1>4 DEF ApplyDeleteDisk, DiskState
<1> QED BY <1>2, <1>3, <1>4

\* Every step inside ControllerPublishVolume goes on in that call or returns.
LEMMA PublishMoves ==
    ASSUME IndInv, NEW c \in Calls, PublishStep(c)
    PROVE  Moves(c) /\ ApiTypeOK'
<1> DEFINE d == req[c].d
           n == req[c].n
<1> USE DEF PublishPCs, EnsureCreatedPCs
<1>0. ASSUME pc[c] \in PublishPCs
      PROVE  /\ d \in Disks /\ n \in Nodes
             /\ pc[c] \in CriticalPCs \cup DeletePCs
             /\ \A l \in PublishPCs : l \in PCs /\ SameCall(pc[c], l)
             /\ UNCHANGED apiVars => ApiTypeOK'
  BY <1>0 DEF IndInv, TypeOK, CallsWellFormed, NodeRequests, CriticalPCs, PCs, SameCall,
              ApiTypeOK, apiVars
<1>1. CASE CountNodeAttachments(c)
  <2>1. UNCHANGED apiVars /\ pc[c] = "count"
    BY <1>1 DEF CountNodeAttachments
  <2>2. CASE \E code \in Codes : Return(c, code)
    BY <1>0, <2>1, <2>2, <1>1 DEF Moves, Finishes, CountNodeAttachments
  <2>3. CASE Goto(c, "getDisk")
    BY <1>0, <2>1, <2>3, <1>1, GotoMoves DEF Moves, CountNodeAttachments
  <2> QED BY <2>2, <2>3, <1>1 DEF CountNodeAttachments, Codes
<1>2. CASE GetDiskAndValidateOwnership(c)
  <2>1. pc[c] = "getDisk" /\ UNCHANGED <<req, published>>
    BY <1>2 DEF GetDiskAndValidateOwnership
  <2>2. CASE ReadFails(c)
    BY <1>0, <2>1, <2>2, ReadFailsMoves DEF Moves
  <2>3. CASE UNCHANGED apiVars /\ \E l \in {"getVM", "listDisk"} : Goto(c, l)
    BY <1>0, <2>1, <2>3, GotoMoves DEF Moves
  <2>4. CASE UNCHANGED apiVars /\ retryOnTransient(c, "NotFound")
    BY <1>0, <2>1, <2>4, RetryMoves DEF Moves, Codes
  <2> QED BY <2>2, <2>3, <2>4, <1>2 DEF GetDiskAndValidateOwnership
<1>3. CASE validateVMOwnership(c)
  <2>1. pc[c] = "getVM" /\ UNCHANGED <<req, published>>
    BY <1>3 DEF validateVMOwnership
  <2>2. CASE ReadFails(c)
    BY <1>0, <2>1, <2>2, ReadFailsMoves DEF Moves
  <2>3. CASE UNCHANGED apiVars /\ Goto(c, "listDisk")
    BY <1>0, <2>1, <2>3, GotoMoves DEF Moves
  <2>4. CASE UNCHANGED apiVars /\ retryOnTransient(c, "NotFound")
    BY <1>0, <2>1, <2>4, RetryMoves DEF Moves, Codes
  <2> QED BY <2>2, <2>3, <2>4, <1>3 DEF validateVMOwnership
<1>4. CASE ensureNoOtherAttachmentsUseThisDisk(c)
  <2>1. pc[c] = "listDisk" /\ UNCHANGED <<req, published>>
    BY <1>4 DEF ensureNoOtherAttachmentsUseThisDisk
  <2>2. CASE ReadFails(c)
    BY <1>0, <2>1, <2>2, ReadFailsMoves DEF Moves
  <2>3. CASE UNCHANGED apiVars /\ Goto(c, "create")
    BY <1>0, <2>1, <2>3, GotoMoves DEF Moves
  <2>4. CASE UNCHANGED apiVars /\ retryOnTransient(c, "FailedPrecondition")
    BY <1>0, <2>1, <2>4, RetryMoves DEF Moves, Codes
  <2>5. CASE /\ UNCHANGED apiVars
             /\ \E v \in HoldersOf(d) : victim' = [victim EXCEPT ![c] = v]
             /\ pc' = [pc EXCEPT ![c] = "evict"]
             /\ UNCHANGED <<lock, tries, ret>>
    <3>1. PICK v \in Nodes : victim' = [victim EXCEPT ![c] = v]
      BY <2>5 DEF HoldersOf
    <3>2. Continues(c)
      BY <1>0, <2>1, <2>5, <3>1 DEF Continues, IndInv, TypeOK
    <3> QED BY <1>0, <2>1, <2>5, <3>2 DEF Moves
  <2> QED BY <2>2, <2>3, <2>4, <2>5, <1>4 DEF ensureNoOtherAttachmentsUseThisDisk, EvictionDecided
<1>5. CASE EvictStale(c)
  <2>1. pc[c] = "evict" /\ UNCHANGED <<req, published>> /\ victim[c] \in Nodes
    BY <1>5 DEF EvictStale, IndInv, CallsWellFormed
  <2>2. [op |-> "detach", d |-> d, n |-> victim[c]] \in Mutations
    BY <1>0, <2>1 DEF Mutations
  <2>3. CASE MutationFails(c, [op |-> "detach", d |-> d, n |-> victim[c]])
    BY <1>0, <2>1, <2>2, <2>3, MutationFailsMoves DEF Moves
  <2>4. CASE ApplyDetach(d, victim[c]) /\ Answered(c, "awaitEvicted")
    <3>1. ApiTypeOK'
      BY <1>0, <2>1, <2>4, EffectTypes DEF Answered
    <3>2. Continues(c) \/ Finishes(c)
      BY <1>0, <2>1, <2>4, GotoMoves, RetryMoves DEF Answered, Codes
    <3> QED BY <1>0, <2>1, <3>1, <3>2 DEF Moves
  <2> QED BY <2>3, <2>4, <1>5 DEF EvictStale
<1>6. CASE AwaitEvicted(c)
  <2>1. pc[c] = "awaitEvicted" /\ UNCHANGED <<req, published, apiVars>>
    BY <1>6 DEF AwaitEvicted
  <2>2. CASE retryOnTransient(c, "Unavailable")
    BY <1>0, <2>1, <2>2, RetryMoves DEF Moves, Codes
  <2>3. CASE /\ victim' = [victim EXCEPT ![c] = NoNode]
             /\ pc' = [pc EXCEPT ![c] = "create"]
             /\ UNCHANGED <<lock, tries, ret>>
    <3>1. Continues(c)
      BY <1>0, <2>1, <2>3 DEF Continues, IndInv, TypeOK
    <3> QED BY <1>0, <2>1, <3>1 DEF Moves
  <2> QED BY <2>2, <2>3, <1>6 DEF AwaitEvicted
<1>7. CASE CreateAttachment(c)
  <2>1. pc[c] = "create" /\ UNCHANGED <<req, published>>
    BY <1>7 DEF CreateAttachment
  <2>2. [op |-> "attach", d |-> d, n |-> n] \in Mutations
    BY <1>0, <2>1 DEF Mutations
  <2>3. CASE MutationFails(c, [op |-> "attach", d |-> d, n |-> n])
    BY <1>0, <2>1, <2>2, <2>3, MutationFailsMoves DEF Moves
  <2>4. CASE ApplyAttach(d, n) /\ Answered(c, "awaitReady")
    <3>1. ApiTypeOK'
      BY <1>0, <2>1, <2>4, EffectTypes DEF Answered
    <3>2. Continues(c) \/ Finishes(c)
      BY <1>0, <2>1, <2>4, GotoMoves, RetryMoves DEF Answered, Codes
    <3> QED BY <1>0, <2>1, <3>1, <3>2 DEF Moves
  <2>5. CASE Goto(c, "verify") /\ UNCHANGED apiVars
    BY <1>0, <2>1, <2>5, GotoMoves DEF Moves
  <2>6. CASE retryOnTransient(c, "NotFound") /\ UNCHANGED apiVars
    BY <1>0, <2>1, <2>6, RetryMoves DEF Moves, Codes
  <2> QED BY <2>3, <2>4, <2>5, <2>6, <1>7 DEF CreateAttachment
<1>8. CASE VerifyConflict(c)
  <2>1. pc[c] = "verify" /\ UNCHANGED <<req, published, apiVars>>
    BY <1>8 DEF VerifyConflict
  <2>2. CASE \E code \in {"Aborted", "NotFound"} : retryOnTransient(c, code)
    BY <1>0, <2>1, <2>2, RetryMoves DEF Moves, Codes
  <2>3. CASE Goto(c, "awaitReady")
    BY <1>0, <2>1, <2>3, GotoMoves DEF Moves
  <2> QED BY <2>2, <2>3, <1>8 DEF VerifyConflict
<1>9. CASE WaitForAttachmentSerial(c)
  BY <1>0, <1>9 DEF WaitForAttachmentSerial, Moves, Finishes, Codes
<1> QED BY <1>1, <1>2, <1>3, <1>4, <1>5, <1>6, <1>7, <1>8, <1>9 DEF PublishStep

\* Every step inside ControllerUnpublishVolume goes on in that call or returns.
LEMMA UnpublishMoves ==
    ASSUME IndInv, NEW c \in Calls, UnpublishStep(c)
    PROVE  Moves(c) /\ ApiTypeOK'
<1> DEFINE d == req[c].d
           n == req[c].n
<1> USE DEF UnpublishPCs
<1>0. ASSUME pc[c] \in UnpublishPCs
      PROVE  /\ d \in Disks /\ n \in Nodes
             /\ pc[c] \in CriticalPCs \cup DeletePCs
             /\ \A l \in UnpublishPCs : l \in PCs /\ SameCall(pc[c], l)
             /\ UNCHANGED apiVars => ApiTypeOK'
  BY <1>0 DEF IndInv, TypeOK, CallsWellFormed, NodeRequests, CriticalPCs, PCs, SameCall,
              ApiTypeOK, apiVars
<1>1. CASE GetAttachment(c)
  <2>1. pc[c] = "getAttachment" /\ UNCHANGED <<req, published>>
    BY <1>1 DEF GetAttachment
  <2>2. CASE ReadFails(c)
    BY <1>0, <2>1, <2>2, ReadFailsMoves DEF Moves
  <2>3. CASE Return(c, "OK") /\ UNCHANGED apiVars
    BY <1>0, <2>1, <2>3 DEF Moves, Finishes, Codes
  <2>4. CASE Goto(c, "deleteAttachment") /\ UNCHANGED apiVars
    BY <1>0, <2>1, <2>4, GotoMoves DEF Moves
  <2>5. CASE retryOnTransient(c, "PermissionDenied") /\ UNCHANGED apiVars
    BY <1>0, <2>1, <2>5, RetryMoves DEF Moves, Codes
  <2> QED BY <2>2, <2>3, <2>4, <2>5, <1>1 DEF GetAttachment
<1>2. CASE DeleteAttachment(c)
  <2>1. pc[c] = "deleteAttachment" /\ UNCHANGED <<req, published>>
    BY <1>2 DEF DeleteAttachment
  <2>2. [op |-> "detach", d |-> d, n |-> n] \in Mutations
    BY <1>0, <2>1 DEF Mutations
  <2>3. CASE MutationFails(c, [op |-> "detach", d |-> d, n |-> n])
    BY <1>0, <2>1, <2>2, <2>3, MutationFailsMoves DEF Moves
  <2>4. CASE ApplyDetach(d, n) /\ Answered(c, "awaitDeleted")
    <3>1. ApiTypeOK'
      BY <1>0, <2>1, <2>4, EffectTypes DEF Answered
    <3>2. Continues(c) \/ Finishes(c)
      BY <1>0, <2>1, <2>4, GotoMoves, RetryMoves DEF Answered, Codes
    <3> QED BY <1>0, <2>1, <3>1, <3>2 DEF Moves
  <2>5. CASE Return(c, "OK") /\ UNCHANGED apiVars
    BY <1>0, <2>1, <2>5 DEF Moves, Finishes, Codes
  <2> QED BY <2>3, <2>4, <2>5, <1>2 DEF DeleteAttachment
<1>3. CASE AwaitDeleted(c)
  <2>1. pc[c] = "awaitDeleted" /\ UNCHANGED <<req, published, apiVars>>
    BY <1>3 DEF AwaitDeleted
  <2>2. CASE Return(c, "OK")
    BY <1>0, <2>1, <2>2 DEF Moves, Finishes, Codes
  <2>3. CASE retryOnTransient(c, "Unavailable")
    BY <1>0, <2>1, <2>3, RetryMoves DEF Moves, Codes
  <2> QED BY <2>2, <2>3, <1>3 DEF AwaitDeleted
<1> QED BY <1>1, <1>2, <1>3 DEF UnpublishStep

\* Every step inside DeleteVolume goes on in that call or returns.
LEMMA DeleteMoves ==
    ASSUME IndInv, NEW c \in Calls, DeleteStep(c)
    PROVE  Moves(c) /\ ApiTypeOK'
<1> DEFINE d == req[c].d
<1> USE DEF DeletePCs
<1>0. ASSUME pc[c] \in DeletePCs
      PROVE  /\ d \in Disks
             /\ pc[c] \in CriticalPCs \cup DeletePCs
             /\ \A l \in DeletePCs : l \in PCs /\ SameCall(pc[c], l)
             /\ UNCHANGED apiVars => ApiTypeOK'
  BY <1>0 DEF IndInv, TypeOK, CallsWellFormed, Requests, NodeRequests, CriticalPCs, PCs,
              SameCall, ApiTypeOK, apiVars
<1>1. CASE ListBeforeDelete(c)
  <2>1. pc[c] = "listAll" /\ UNCHANGED <<req, published, apiVars>>
    BY <1>1 DEF ListBeforeDelete
  <2>2. CASE \E code \in Codes : Return(c, code)
    BY <1>0, <2>1, <2>2 DEF Moves, Finishes
  <2>3. CASE Goto(c, "getDoomed")
    BY <1>0, <2>1, <2>3, GotoMoves DEF Moves
  <2> QED BY <2>2, <2>3, <1>1 DEF ListBeforeDelete, Codes
<1>2. CASE GetDoomedDisk(c)
  <2>1. pc[c] = "getDoomed" /\ UNCHANGED <<req, published>>
    BY <1>2 DEF GetDoomedDisk
  <2>2. CASE ReadFails(c)
    BY <1>0, <2>1, <2>2, ReadFailsMoves DEF Moves
  <2>3. CASE Return(c, "OK") /\ UNCHANGED apiVars
    BY <1>0, <2>1, <2>3 DEF Moves, Finishes, Codes
  <2>4. CASE Goto(c, "deleteDisk") /\ UNCHANGED apiVars
    BY <1>0, <2>1, <2>4, GotoMoves DEF Moves
  <2>5. CASE retryOnTransient(c, "PermissionDenied") /\ UNCHANGED apiVars
    BY <1>0, <2>1, <2>5, RetryMoves DEF Moves, Codes
  <2> QED BY <2>2, <2>3, <2>4, <2>5, <1>2 DEF GetDoomedDisk
<1>3. CASE DeleteDisk(c)
  <2>1. pc[c] = "deleteDisk" /\ UNCHANGED <<req, published>>
    BY <1>3 DEF DeleteDisk
  <2>2. [op |-> "deleteDisk", d |-> d] \in Mutations
    BY <1>0, <2>1 DEF Mutations
  <2>3. CASE MutationFails(c, [op |-> "deleteDisk", d |-> d])
    BY <1>0, <2>1, <2>2, <2>3, MutationFailsMoves DEF Moves
  <2>4. CASE ApplyDeleteDisk(d) /\ Answered(c, "confirm")
    <3>1. ApiTypeOK'
      BY <1>0, <2>1, <2>4 DEF Answered, ApplyDeleteDisk, IndInv, TypeOK, ApiTypeOK, DiskState
    <3>2. Continues(c) \/ Finishes(c)
      BY <1>0, <2>1, <2>4, GotoMoves, RetryMoves DEF Answered, Codes
    <3> QED BY <1>0, <2>1, <3>1, <3>2 DEF Moves
  <2>5. CASE Return(c, "OK") /\ UNCHANGED apiVars
    BY <1>0, <2>1, <2>5 DEF Moves, Finishes, Codes
  <2> QED BY <2>3, <2>4, <2>5, <1>3 DEF DeleteDisk
<1>4. CASE ConfirmDeleted(c)
  <2>1. pc[c] = "confirm" /\ UNCHANGED <<req, published>>
    BY <1>4 DEF ConfirmDeleted
  <2>2. CASE ReadFails(c)
    BY <1>0, <2>1, <2>2, ReadFailsMoves DEF Moves
  <2>3. CASE Return(c, "OK") /\ UNCHANGED apiVars
    BY <1>0, <2>1, <2>3 DEF Moves, Finishes, Codes
  <2>4. CASE retryOnTransient(c, "Unavailable") /\ UNCHANGED apiVars
    BY <1>0, <2>1, <2>4, RetryMoves DEF Moves, Codes
  <2> QED BY <2>2, <2>3, <2>4, <1>4 DEF ConfirmDeleted
<1> QED BY <1>1, <1>2, <1>3, <1>4 DEF DeleteStep

\* A move inside a handler keeps the invariant: the lock is given back
\* exactly when the handler leaves its critical section.
LEMMA MovesPreserve ==
    ASSUME IndInv, NEW c \in Calls, Moves(c), ApiTypeOK'
    PROVE  IndInv'
<1> USE NoneAssumption, LimitsAssumption
<1>1. CASE Continues(c)
  <2>1. PICK l \in PCs : SameCall(pc[c], l) /\ pc' = [pc EXCEPT ![c] = l]
    BY <1>1 DEF Continues
  <2>2. TypeOK'
    BY <1>1, <2>1 DEF Moves, Continues, IndInv, TypeOK, ApiTypeOK
  <2>3. CallsWellFormed'
    BY <1>1, <2>1 DEF Moves, Continues, IndInv, TypeOK, CallsWellFormed, SameCall,
         PublishPCs, EnsureCreatedPCs, UnpublishPCs, DeletePCs
  <2>4. LockHeldInside'
    BY <1>1, <2>1 DEF Moves, Continues, IndInv, TypeOK, LockHeldInside, SameCall,
         CriticalPCs, PublishPCs, EnsureCreatedPCs, UnpublishPCs, DeletePCs
  <2> QED BY <2>2, <2>3, <2>4 DEF IndInv
<1>2. CASE Finishes(c)
  <2>1. PICK code \in Codes : Return(c, code)
    BY <1>2 DEF Finishes
  <2>2. TypeOK'
    BY <2>1 DEF Moves, Return, DeferredUnlock, IndInv, TypeOK, ApiTypeOK, PCs
  <2>3. CallsWellFormed'
    BY <2>1 DEF Moves, Return, IndInv, TypeOK, CallsWellFormed,
         PublishPCs, EnsureCreatedPCs, UnpublishPCs, CriticalPCs, DeletePCs
  <2>4. LockHeldInside'
    BY <2>1 DEF Moves, Return, DeferredUnlock, IndInv, TypeOK, LockHeldInside,
         CriticalPCs, PublishPCs, EnsureCreatedPCs, UnpublishPCs, DeletePCs
  <2> QED BY <2>2, <2>3, <2>4 DEF IndInv
<1> QED BY <1>1, <1>2 DEF Moves

\* A new call starts before the lock, or ends at once.
LEMMA BeginPreserves ==
    ASSUME IndInv, NEW c \in Calls, NEW r \in Requests, Begin(c, r)
    PROVE  IndInv'
<1> USE NoneAssumption, LimitsAssumption
<1>0. pc[c] = "idle" /\ req' = [req EXCEPT ![c] = r] /\ published' \subseteq published
      /\ UNCHANGED apiVars
  BY DEF Begin, Active
<1>1. CASE Goto(c, IF r.op = "delete" THEN "listAll" ELSE "lock")
  <2>1. TypeOK'
    BY <1>0, <1>1 DEF Goto, IndInv, TypeOK, apiVars, PCs, DeletePCs
  <2>2. CallsWellFormed'
    <3>1. r.op # "delete" => r \in NodeRequests
      BY DEF Requests
    <3> QED BY <1>0, <1>1, <3>1 DEF Goto, IndInv, TypeOK, CallsWellFormed,
              PublishPCs, EnsureCreatedPCs, UnpublishPCs, DeletePCs
  <2>3. LockHeldInside'
    BY <1>0, <1>1 DEF Goto, IndInv, TypeOK, LockHeldInside, CriticalPCs,
         PublishPCs, EnsureCreatedPCs, UnpublishPCs
  <2> QED BY <2>1, <2>2, <2>3 DEF IndInv
<1>2. CASE Return(c, "InvalidArgument")
  <2>1. TypeOK'
    BY <1>0, <1>2 DEF Return, DeferredUnlock, IndInv, TypeOK, apiVars, PCs, Codes
  <2>2. CallsWellFormed'
    BY <1>0, <1>2 DEF Return, IndInv, TypeOK, CallsWellFormed,
         PublishPCs, EnsureCreatedPCs, UnpublishPCs, DeletePCs
  <2>3. LockHeldInside'
    BY <1>0, <1>2 DEF Return, DeferredUnlock, IndInv, TypeOK, LockHeldInside, CriticalPCs,
         PublishPCs, EnsureCreatedPCs, UnpublishPCs
  <2> QED BY <2>1, <2>2, <2>3 DEF IndInv
<1> QED BY <1>1, <1>2 DEF Begin

\* acquireNodeLock takes a free mutex, so nobody else is inside for the node.
LEMMA LockPreserves ==
    ASSUME IndInv, NEW c \in Calls, acquireNodeLock(c)
    PROVE  IndInv'
<1> USE NoneAssumption, LimitsAssumption
<1>0. PICK l \in PCs :
        /\ pc' = [pc EXCEPT ![c] = l]
        /\ req[c].op = "publish" => l \in PublishPCs
        /\ req[c].op = "unpublish" => l \in UnpublishPCs
        /\ l \in {"count", "getDisk", "getAttachment"}
  <2>1. req[c] \in NodeRequests
    BY DEF acquireNodeLock, IndInv, CallsWellFormed
  <2>2. req[c].op \in {"publish", "unpublish"}
    BY <2>1 DEF NodeRequests
  <2> QED BY <2>2 DEF acquireNodeLock, FirstRequest, PCs, CriticalPCs, PublishPCs,
            EnsureCreatedPCs, UnpublishPCs
<1>1. req[c] \in NodeRequests /\ req[c].n \in Nodes /\ pc[c] = "lock"
      /\ req[c].op \in {"publish", "unpublish"}
  BY DEF acquireNodeLock, IndInv, CallsWellFormed, NodeRequests
<1>2. TypeOK'
  BY <1>0 DEF acquireNodeLock, IndInv, TypeOK, apiVars
<1>3. CallsWellFormed'
  BY <1>0, <1>1 DEF acquireNodeLock, IndInv, TypeOK, CallsWellFormed,
       PublishPCs, EnsureCreatedPCs, UnpublishPCs, DeletePCs
<1>4. LockHeldInside'
  <2>1. lock[req[c].n] = NoCall /\ lock' = [lock EXCEPT ![req[c].n] = c]
        /\ UNCHANGED req
    BY DEF acquireNodeLock, NodeLockFree
  <2>2. l \in CriticalPCs /\ "lock" \notin CriticalPCs
    BY <1>0 DEF CriticalPCs, PublishPCs, EnsureCreatedPCs, UnpublishPCs
  <2> QED BY <1>0, <1>1, <2>1, <2>2 DEF IndInv, TypeOK, LockHeldInside
<1> QED BY <1>2, <1>3, <1>4 DEF IndInv

\* A handler that answers has already given its lock back.
LEMMA ReplyPreserves ==
    ASSUME IndInv, NEW c \in Calls, Reply(c)
    PROVE  IndInv'
<1> USE NoneAssumption, LimitsAssumption
<1>1. TypeOK'
  <2>1. published' \subseteq Disks \X Nodes
    <3>1. CASE req[c].op = "publish" /\ ret[c] = "OK"
      <4>1. req[c].d \in Disks /\ req[c].n \in Nodes
        BY <3>1 DEF Reply, IndInv, CallsWellFormed, Requests, NodeRequests
      <4> QED BY <3>1, <4>1 DEF Reply, IndInv, TypeOK
    <3> QED BY <3>1 DEF Reply, IndInv, TypeOK
  <2> QED BY <2>1 DEF Reply, IndInv, TypeOK, apiVars, PCs, Codes
<1>2. CallsWellFormed'
  BY DEF Reply, IndInv, TypeOK, CallsWellFormed,
       PublishPCs, EnsureCreatedPCs, UnpublishPCs, DeletePCs
<1>3. LockHeldInside'
  BY DEF Reply, IndInv, TypeOK, LockHeldInside, CriticalPCs,
       PublishPCs, EnsureCreatedPCs, UnpublishPCs
<1> QED BY <1>1, <1>2, <1>3 DEF IndInv

\* A crash takes the handlers and the locks together.
LEMMA CrashPreserves ==
    ASSUME IndInv, Crash
    PROVE  IndInv'
BY NoneAssumption, LimitsAssumption DEF Crash, IndInv, TypeOK, CallsWellFormed, LockHeldInside,
   apiVars, CriticalPCs, PublishPCs, EnsureCreatedPCs, UnpublishPCs, DeletePCs, PCs, Codes

\* The environment changes nothing of the controller's own state.
LEMMA EnvironmentPreserves ==
    ASSUME IndInv, Environment
    PROVE  IndInv' /\ UNCHANGED <<callVars, req, published>>
<1>1. ASSUME NEW d \in Disks, NEW n \in Nodes, AttachmentProgress(d, n)
      PROVE  ApiTypeOK' /\ UNCHANGED <<callVars, req, published>>
  <2>1. ASSUME NEW s \in AttState
        PROVE  [att EXCEPT ![d][n] = s] \in [Disks -> [Nodes -> AttState]]
    BY DEF IndInv, TypeOK
  <2> QED BY <1>1, <2>1 DEF AttachmentProgress, IndInv, TypeOK, ApiTypeOK, AttState
<1>2. ASSUME NEW d \in Disks, NEW n \in Nodes, ForeignStep(d, n)
      PROVE  ApiTypeOK' /\ UNCHANGED <<callVars, req, published>>
  <2>1. CASE ApplyAttach(d, n) /\ foreign' = foreign \cup {<<d, n>>}
    <3>1. [att EXCEPT ![d][n] = "pending"] \in [Disks -> [Nodes -> AttState]]
      BY DEF IndInv, TypeOK, AttState
    <3> QED BY <1>2, <2>1, <3>1 DEF ForeignStep, ApplyAttach, IndInv, TypeOK, ApiTypeOK
  <2>2. CASE ApplyDetach(d, n) /\ UNCHANGED foreign
    BY <1>2, <2>2, EffectTypes DEF ForeignStep
  <2> QED BY <1>2, <2>1, <2>2 DEF ForeignStep
<1>3. ASSUME NEW d \in Disks, DiskRemoved(d)
      PROVE  ApiTypeOK' /\ UNCHANGED <<callVars, req, published>>
  BY <1>3 DEF DiskRemoved, IndInv, TypeOK, ApiTypeOK, DiskState
<1>4. ASSUME NEW m \in late, LateArrival(m)
      PROVE  ApiTypeOK' /\ UNCHANGED <<callVars, req, published>>
  <2>0. m \in Mutations /\ late' \subseteq late /\ UNCHANGED <<foreign, callVars, req, published>>
    BY <1>4 DEF LateArrival, IndInv, TypeOK
  <2>1. CASE m.op = "attach" /\ ApplyAttach(m.d, m.n)
    <3>1. m.d \in Disks /\ m.n \in Nodes
      BY <2>0, <2>1 DEF Mutations
    <3>2. [att EXCEPT ![m.d][m.n] = "pending"] \in [Disks -> [Nodes -> AttState]]
      BY <3>1 DEF IndInv, TypeOK, AttState
    <3> QED BY <2>0, <2>1, <3>2 DEF ApplyAttach, IndInv, TypeOK, ApiTypeOK
  <2>2. CASE UNCHANGED <<disk, att>>
    BY <2>0, <2>2 DEF IndInv, TypeOK, ApiTypeOK
  <2>3. CASE m.op = "detach" /\ ApplyDetach(m.d, m.n)
    <3>1. m.d \in Disks /\ m.n \in Nodes
      BY <2>0, <2>3 DEF Mutations
    <3>2. ASSUME NEW s \in AttState
          PROVE  [att EXCEPT ![m.d][m.n] = s] \in [Disks -> [Nodes -> AttState]]
      BY <3>1 DEF IndInv, TypeOK
    <3>3. (IF Exists(m.d, m.n) THEN "deleting" ELSE "absent") \in AttState
      BY DEF AttState
    <3>4. att' \in [Disks -> [Nodes -> AttState]]
      BY <2>3, <3>2, <3>3 DEF ApplyDetach
    <3> QED BY <2>0, <2>3, <3>4 DEF ApplyDetach, IndInv, TypeOK, ApiTypeOK
  <2>4. CASE m.op = "deleteDisk" /\ ApplyDeleteDisk(m.d)
    <3>1. m.d \in Disks
      BY <2>0, <2>4 DEF Mutations
    <3> QED BY <2>0, <2>4, <3>1 DEF ApplyDeleteDisk, IndInv, TypeOK, ApiTypeOK, DiskState
  <2> QED BY <1>4, <2>1, <2>2, <2>3, <2>4 DEF LateArrival
<1>5. ApiTypeOK' /\ UNCHANGED <<callVars, req, published>>
  BY <1>1, <1>2, <1>3, <1>4 DEF Environment
<1>6. IndInv'
  BY <1>5 DEF IndInv, TypeOK, ApiTypeOK, CallsWellFormed, LockHeldInside, callVars
<1> QED BY <1>5, <1>6

\* No handler runs and no lock is held at the start.
LEMMA IndInvInit == Init => IndInv
BY NoneAssumption, LimitsAssumption DEF Init, IndInv, TypeOK, CallsWellFormed, LockHeldInside,
   CriticalPCs, PublishPCs, EnsureCreatedPCs, UnpublishPCs, DeletePCs, PCs, Codes,
   DiskState, AttState

\* Every step keeps the inductive invariant.
LEMMA IndInvStep ==
    ASSUME IndInv, [Next]_vars
    PROVE  IndInv'
<1>1. ASSUME NEW c \in Calls, HandlerStep(c)
      PROVE  IndInv'
  BY <1>1, PublishMoves, UnpublishMoves, DeleteMoves, MovesPreserve, ReplyPreserves
     DEF HandlerStep
<1>2. CASE UNCHANGED vars
  BY <1>2 DEF vars, apiVars, callVars, IndInv, TypeOK, CallsWellFormed, LockHeldInside
<1> QED BY <1>1, <1>2, BeginPreserves, LockPreserves, CrashPreserves, EnvironmentPreserves
        DEF Next

\* The inductive invariant holds in every state of every behaviour.
THEOREM IndInvHolds == Spec => []IndInv
<1>1. IndInv /\ [Next]_vars => IndInv'
  BY IndInvStep
<1> QED BY IndInvInit, <1>1, PTL DEF Spec

\* Every variable keeps its type: in particular no handler retries more than
\* restAPIMaxRetries times, whatever fails and in whatever order.
THEOREM TypeCorrect == Spec => []TypeOK
<1>1. IndInv => TypeOK
  BY DEF IndInv
<1> QED BY IndInvHolds, <1>1, PTL

\* The node locks do what controller.go says of them: whatever the number of
\* handlers, and across crashes, at most one attach or detach runs per node.
THEOREM NodeLockExclusion == Spec => []NodeLockExcludes
<1>1. IndInv => NodeLockExcludes
  <2>1. SUFFICES ASSUME IndInv, NEW c1 \in Calls, NEW c2 \in Calls,
                        c1 # c2, pc[c1] \in CriticalPCs, pc[c2] \in CriticalPCs,
                        req[c1].n = req[c2].n
                 PROVE  FALSE
    BY DEF NodeLockExcludes
  <2>2. req[c1].n \in Nodes
    BY <2>1 DEF IndInv, CallsWellFormed, CriticalPCs, NodeRequests
  <2> QED BY <2>1, <2>2 DEF IndInv, LockHeldInside
<1> QED BY IndInvHolds, <1>1, PTL
=============================================================================
