------------------------- MODULE AttachSafetyProofs -------------------------
(***************************************************************************)
(* The proof that the attach path keeps what it promises, for any sets of  *)
(* disks, VMs and handlers, any limit and any number of retries: a disk    *)
(* has one holder, an acknowledged attachment stays, a success is true, a  *)
(* disk in use is not deleted, and the path implements ExclusiveAttach.    *)
(*                                                                         *)
(* Two things are assumed of the world, and neither can be dropped: the    *)
(* orchestrator waits for a call to end before its next one for the same   *)
(* volume, and the API applies no request that its sender has given up.    *)
(***************************************************************************)
EXTENDS AttachLimitProofs, AttachIsolationProofs

(***************************************************************************)
(* The invariant.  What a handler has read of its disk in an earlier       *)
(* request is still true in the later ones, because nobody else changes    *)
(* that disk meanwhile.                                                    *)
(***************************************************************************)
OneCallPerDisk ==
    \A c1, c2 \in Calls :
        (c1 # c2 /\ Active(c1) /\ Active(c2)) => req[c1].d # req[c2].d

\* What the orchestrator has asked away it does not rely on.
Withdrawn(c) == published \cap AskedAway(req[c]) = {}

\* The stale attachment is the disk's only one, and not the one asked for.
EvictsOnlyHolder(c) ==
    pc[c] \in {"evict", "awaitEvicted"} =>
        HoldersOf(req[c].d) \subseteq {victim[c]} /\ victim[c] # req[c].n

\* An attachment is created when no other VM holds the disk.
CreatesAlone(c) == pc[c] = "create" => HoldersOf(req[c].d) \subseteq {req[c].n}

\* A disk found unused before its deletion remains so.
DeletesUnused(c) == pc[c] \in DeletePCs \ {"listAll"} => HoldersOf(req[c].d) = {}

\* A success that the orchestrator has not heard of yet is still true.
AnswerTrue(c) ==
    (pc[c] = "done" /\ ret[c] = "OK") =>
        /\ req[c].op = "publish" =>
               req[c].d \in OwnedDisks /\ att[req[c].d][req[c].n] = "ready"
        /\ (req[c].op = "unpublish" /\ req[c].d \in OwnedDisks) =>
               ~Exists(req[c].d, req[c].n)
        /\ req[c].op = "delete" => disk[req[c].d] = "absent"

CallFacts(c) ==
    /\ Withdrawn(c)
    /\ EvictsOnlyHolder(c)
    /\ CreatesAlone(c)
    /\ DeletesUnused(c)
    /\ AnswerTrue(c)

PromisesKept ==
    \A d \in Disks, n \in Nodes :
        <<d, n>> \in published => d \in OwnedDisks /\ att[d][n] = "ready"

SafetyInv ==
    /\ late = {}
    /\ OneCallPerDisk
    /\ SingleHolder
    /\ PromisesKept
    /\ \A c \in Calls : Active(c) => CallFacts(c)

(***************************************************************************)
(* What a step of handler c can do to the API, by the request it sends.    *)
(***************************************************************************)
Reads == UNCHANGED <<disk, att>>

Detaches(c) ==
    /\ pc[c] \in {"evict", "deleteAttachment"}
    /\ \E n \in Nodes : /\ ApplyDetach(req[c].d, n)
                        /\ <<req[c].d, n>> \in AskedAway(req[c])

Attaches(c) ==
    /\ pc[c] = "create"
    /\ CreateAccepted(req[c].d, req[c].n)
    /\ ApplyAttach(req[c].d, req[c].n)

Deletes(c) == pc[c] = "deleteDisk" /\ ApplyDeleteDisk(req[c].d)

Effect(c) ==
    /\ late' = {} /\ UNCHANGED foreign
    /\ Reads \/ Detaches(c) \/ Attaches(c) \/ Deletes(c)

\* With MaxLate = 0 a mutation that fails has no effect at all.
LEMMA FailureIsRead ==
    ASSUME MaxLate = 0, late = {}, NEW c \in Calls, NEW m \in Mutations, MutationFails(c, m)
    PROVE  ReadFails(c)
<1>1. late \cup {m} = {m}
  OBVIOUS
<1>2. Cardinality(late \cup {m}) = 1
  BY <1>1, FS_Singleton
<1> QED BY <1>2 DEF MutationFails

\* Every step inside a handler has one of the four effects, and detaches only
\* what the orchestrator has asked away.
LEMMA InsideEffect ==
    ASSUME MaxLate = 0, IndInv, late = {}, NEW c \in Calls, EvictsOnlyHolder(c), InsideStep(c)
    PROVE  Effect(c)
<1> DEFINE d == req[c].d
           n == req[c].n
<1>0. /\ pc[c] \in PublishPCs => d \in Disks /\ n \in Nodes /\ req[c].op = "publish"
      /\ pc[c] \in UnpublishPCs => d \in Disks /\ n \in Nodes /\ req[c].op = "unpublish"
      /\ pc[c] \in DeletePCs => d \in Disks
  BY DEF IndInv, CallsWellFormed, NodeRequests, Requests
<1>1. UNCHANGED apiVars => Effect(c)
  BY DEF apiVars, Effect, Reads
<1>2. ReadFails(c) => Effect(c)
  BY <1>1 DEF ReadFails
<1>3. CASE EvictStale(c)
  <2>1. pc[c] = "evict" /\ d \in Disks /\ n \in Nodes /\ req[c].op = "publish"
        /\ victim[c] \in Nodes /\ victim[c] # n
    BY <1>0, <1>3 DEF EvictStale, IndInv, CallsWellFormed, PublishPCs, EnsureCreatedPCs,
                      EvictsOnlyHolder
  <2>2. CASE MutationFails(c, [op |-> "detach", d |-> d, n |-> victim[c]])
    BY <1>2, <2>1, <2>2, FailureIsRead DEF Mutations
  <2>3. CASE ApplyDetach(d, victim[c]) /\ Answered(c, "awaitEvicted")
    <3>1. <<d, victim[c]>> \in AskedAway(req[c])
      BY <2>1 DEF AskedAway
    <3> QED BY <2>1, <2>3, <3>1 DEF Answered, Effect, Detaches
  <2> QED BY <1>3, <2>2, <2>3 DEF EvictStale
<1>4. CASE CreateAttachment(c)
  <2>1. pc[c] = "create" /\ d \in Disks /\ n \in Nodes
    BY <1>0, <1>4 DEF CreateAttachment, PublishPCs, EnsureCreatedPCs
  <2>2. CASE MutationFails(c, [op |-> "attach", d |-> d, n |-> n])
    BY <1>2, <2>1, <2>2, FailureIsRead DEF Mutations
  <2>3. CASE CreateAccepted(d, n) /\ ApplyAttach(d, n) /\ Answered(c, "awaitReady")
    BY <2>1, <2>3 DEF Answered, Effect, Attaches
  <2> QED BY <1>1, <1>4, <2>2, <2>3 DEF CreateAttachment
<1>5. CASE DeleteAttachment(c)
  <2>1. pc[c] = "deleteAttachment" /\ d \in Disks /\ n \in Nodes /\ req[c].op = "unpublish"
    BY <1>0, <1>5 DEF DeleteAttachment, UnpublishPCs
  <2>2. CASE MutationFails(c, [op |-> "detach", d |-> d, n |-> n])
    BY <1>2, <2>1, <2>2, FailureIsRead DEF Mutations
  <2>3. CASE ApplyDetach(d, n) /\ Answered(c, "awaitDeleted")
    <3>1. <<d, n>> \in AskedAway(req[c])
      BY <2>1 DEF AskedAway
    <3> QED BY <2>1, <2>3, <3>1 DEF Answered, Effect, Detaches
  <2> QED BY <1>1, <1>5, <2>2, <2>3 DEF DeleteAttachment
<1>6. CASE DeleteDisk(c)
  <2>1. pc[c] = "deleteDisk" /\ d \in Disks
    BY <1>0, <1>6 DEF DeleteDisk, DeletePCs
  <2>2. CASE MutationFails(c, [op |-> "deleteDisk", d |-> d])
    BY <1>2, <2>1, <2>2, FailureIsRead DEF Mutations
  <2>3. CASE ApplyDeleteDisk(d) /\ Answered(c, "confirm")
    BY <2>1, <2>3 DEF Answered, Effect, Deletes
  <2> QED BY <1>1, <1>6, <2>2, <2>3 DEF DeleteDisk
<1>7. CASE \/ CountNodeAttachments(c) \/ AwaitEvicted(c) \/ VerifyConflict(c)
           \/ WaitForAttachmentSerial(c) \/ AwaitDeleted(c) \/ ListBeforeDelete(c)
  BY <1>1, <1>7 DEF CountNodeAttachments, AwaitEvicted, VerifyConflict,
     WaitForAttachmentSerial, AwaitDeleted, ListBeforeDelete, apiVars
<1>8. CASE \/ GetDiskAndValidateOwnership(c) \/ validateVMOwnership(c)
           \/ ensureNoOtherAttachmentsUseThisDisk(c) \/ GetAttachment(c)
           \/ GetDoomedDisk(c) \/ ConfirmDeleted(c)
  BY <1>1, <1>2, <1>8 DEF GetDiskAndValidateOwnership, validateVMOwnership,
     ensureNoOtherAttachmentsUseThisDisk, GetAttachment, GetDoomedDisk, ConfirmDeleted
<1> QED BY <1>3, <1>4, <1>5, <1>6, <1>7, <1>8
        DEF InsideStep, PublishStep, UnpublishStep, DeleteStep

\* Reading, detaching and deleting change nobody's holders: an attachment
\* marked for deletion is still one.
LEMMA HoldersKept ==
    ASSUME IndInv, NEW c \in Calls, Effect(c), ~Attaches(c), NEW d \in Disks
    PROVE  /\ HoldersOf(d)' = HoldersOf(d)
           /\ \A n \in Nodes : Managed(d, n)' <=> Managed(d, n)
<1>1. ASSUME NEW n \in Nodes PROVE Managed(d, n)' <=> Managed(d, n)
  <2>1. CASE Reads
    BY <2>1 DEF Reads, Effect, Managed, Exists
  <2>2. CASE Detaches(c)
    BY <2>2 DEF Detaches, ApplyDetach, Effect, Managed, Exists, IndInv, TypeOK
  <2>3. CASE Deletes(c)
    BY <2>3 DEF Deletes, ApplyDeleteDisk, Effect, Managed, Exists
  <2> QED BY <2>1, <2>2, <2>3 DEF Effect
<1> QED BY <1>1 DEF HoldersOf

(***************************************************************************)
(* The facts of one call.                                                  *)
(***************************************************************************)
\* They are about the call's own control state and its own disk; holders may
\* disappear, and what is ready, absent or deleted must stay so.
LEMMA FactsSurvive ==
    ASSUME NEW x \in Calls, CallFacts(x),
           pc'[x] = pc[x], req'[x] = req[x], victim'[x] = victim[x], ret'[x] = ret[x],
           published' \cap AskedAway(req[x]) = {},
           HoldersOf(req[x].d)' \subseteq HoldersOf(req[x].d),
           req[x].d \in OwnedDisks =>
               \/ att'[req[x].d][req[x].n] = att[req[x].d][req[x].n]
               \/ att[req[x].d][req[x].n] \notin {"ready", "absent"},
           disk[req[x].d] = "absent" => disk'[req[x].d] = "absent"
    PROVE  CallFacts(x)'
<1>0. UNCHANGED <<pc[x], req[x], victim[x], ret[x]>>
  OBVIOUS
<1>1. HoldersOf(req[x].d)' = {n \in Nodes : Managed(req[x].d, n)'}
  BY <1>0 DEF HoldersOf
<1>2. Withdrawn(x)'
  BY DEF Withdrawn, AskedAway
<1>3. EvictsOnlyHolder(x)' /\ CreatesAlone(x)' /\ DeletesUnused(x)'
  BY DEF CallFacts, EvictsOnlyHolder, CreatesAlone, DeletesUnused
<1>4. AnswerTrue(x)'
  BY DEF CallFacts, AnswerTrue, Exists
<1> QED BY <1>2, <1>3, <1>4 DEF CallFacts

\* A call that is before its decisive requests, or that failed, claims little.
LEMMA FactsOfFailure ==
    ASSUME IndInv, NEW c \in Calls, FallsBack(c), CallFacts(c), UNCHANGED <<req, published>>,
           pc'[c] = "getDoomed" =>
               pc[c] \in DeletePCs \ {"listAll"} /\ HoldersOf(req[c].d)' = HoldersOf(req[c].d)
    PROVE  CallFacts(c)'
<1>1. pc'[c] \in {"getDisk", "getAttachment", "getDoomed", "done"}
  BY DEF FallsBack, IndInv, TypeOK
<1>2. Withdrawn(c)'
  BY DEF CallFacts, Withdrawn, AskedAway
<1>3. EvictsOnlyHolder(c)' /\ CreatesAlone(c)'
  BY <1>1 DEF EvictsOnlyHolder, CreatesAlone
<1>4. DeletesUnused(c)'
  BY <1>1 DEF CallFacts, DeletesUnused, DeletePCs
<1>5. AnswerTrue(c)'
  BY <1>1 DEF AnswerTrue, FallsBack
<1> QED BY <1>2, <1>3, <1>4, <1>5 DEF CallFacts

\* So does one that goes on to a request that relies on nothing.
LEMMA FactsOfModesty ==
    ASSUME IndInv, NEW c \in Calls, NEW l, pc' = [pc EXCEPT ![c] = l],
           CallFacts(c), UNCHANGED <<req, published>>,
           l \notin {"evict", "awaitEvicted", "create", "done"} \cup (DeletePCs \ {"listAll"})
    PROVE  CallFacts(c)'
<1>1. pc'[c] = l
  BY DEF IndInv, TypeOK
<1> QED BY <1>1 DEF CallFacts, Withdrawn, AskedAway, EvictsOnlyHolder, CreatesAlone,
                    DeletesUnused, AnswerTrue

\* An answer other than OK claims nothing.
LEMMA FactsOfError ==
    ASSUME IndInv, NEW c \in Calls, NEW code, code # "OK", Return(c, code),
           CallFacts(c), UNCHANGED <<req, published>>
    PROVE  CallFacts(c)'
<1>1. FallsBack(c) /\ pc'[c] = "done"
  BY DEF Return, FallsBack, IndInv, TypeOK
<1> QED BY <1>1, FactsOfFailure

\* An answer OK claims what AnswerTrue says.
LEMMA FactsOfSuccess ==
    ASSUME IndInv, NEW c \in Calls, Return(c, "OK"), CallFacts(c),
           UNCHANGED <<req, published, disk, att>>,
           req[c].op = "publish" =>
               req[c].d \in OwnedDisks /\ att[req[c].d][req[c].n] = "ready",
           req[c].op = "unpublish" => ~Exists(req[c].d, req[c].n),
           req[c].op = "delete" => disk[req[c].d] = "absent"
    PROVE  CallFacts(c)'
<1>1. pc'[c] = "done"
  BY DEF Return, IndInv, TypeOK
<1> QED BY <1>1 DEF CallFacts, Withdrawn, AskedAway, EvictsOnlyHolder, CreatesAlone,
                    DeletesUnused, DeletePCs, AnswerTrue, Exists

\* ControllerPublishVolume: what listDisk has seen of the holders is what
\* evict and create rely on, and OK is answered for a ready attachment.
LEMMA PublishFacts ==
    ASSUME MaxLate = 0, IndInv, IsolationInv, SafetyInv, NEW c \in Calls, PublishStep(c)
    PROVE  CallFacts(c)'
<1> DEFINE d == req[c].d
           n == req[c].n
<1>0. InsideStep(c) /\ UNCHANGED <<req, published>>
  BY OthersStay DEF InsideStep
<1>1. pc[c] \in PublishPCs /\ d \in Disks /\ n \in Nodes /\ req[c].op = "publish"
  <2>1. pc[c] \in PublishPCs
    BY DEF PublishStep, CountNodeAttachments, GetDiskAndValidateOwnership, validateVMOwnership,
       ensureNoOtherAttachmentsUseThisDisk, EvictStale, AwaitEvicted, CreateAttachment,
       VerifyConflict, WaitForAttachmentSerial, PublishPCs, EnsureCreatedPCs
  <2> QED BY <2>1 DEF IndInv, CallsWellFormed, NodeRequests
<1>2. CallFacts(c) /\ late = {}
  BY <1>1 DEF SafetyInv, Active, PublishPCs, EnsureCreatedPCs
<1>3. Effect(c) /\ IndInv'
  BY <1>0, <1>2, InsideEffect, OthersStay DEF CallFacts
<1>4. pc'[c] # "getDoomed"
  BY <1>0, <1>1, <1>3 DEF IndInv, CallsWellFormed, DeletePCs
<1>5. ASSUME NEW code, code # "OK", retryOnTransient(c, code) PROVE CallFacts(c)'
  BY <1>0, <1>2, <1>4, <1>5, RetryFallsBack, FactsOfFailure
<1>6. ReadFails(c) => CallFacts(c)'
  BY <1>5 DEF ReadFails, ApiErrors
<1>7. ASSUME NEW m, MutationFails(c, m) PROVE CallFacts(c)'
  BY <1>5, <1>6, <1>7 DEF MutationFails
<1>8. CASE CountNodeAttachments(c)
  <2>1. Goto(c, "getDisk") => CallFacts(c)'
    BY <1>0, <1>2, FactsOfModesty DEF Goto, DeletePCs
  <2> QED BY <1>0, <1>2, <1>8, <2>1, FactsOfError DEF CountNodeAttachments
<1>9. CASE GetDiskAndValidateOwnership(c)
  <2>1. ASSUME NEW l \in {"getVM", "listDisk"}, Goto(c, l) PROVE CallFacts(c)'
    BY <1>0, <1>2, <2>1, FactsOfModesty DEF Goto, DeletePCs
  <2> QED BY <1>5, <1>6, <1>9, <2>1 DEF GetDiskAndValidateOwnership
<1>10. CASE validateVMOwnership(c)
  <2>1. Goto(c, "listDisk") => CallFacts(c)'
    BY <1>0, <1>2, FactsOfModesty DEF Goto, DeletePCs
  <2> QED BY <1>5, <1>6, <1>10, <2>1 DEF validateVMOwnership
<1>11. CASE ensureNoOtherAttachmentsUseThisDisk(c)
  <2>1. CASE UNCHANGED apiVars /\ HoldersOf(d) \subseteq {n} /\ Goto(c, "create")
    <3>1. HoldersOf(req[c].d)' = HoldersOf(d) /\ req'[c] = req[c] /\ pc'[c] = "create"
      BY <1>0, <2>1 DEF apiVars, HoldersOf, Managed, Exists, Goto, IndInv, TypeOK
    <3> QED BY <1>0, <1>2, <2>1, <3>1 DEF CallFacts, Withdrawn, AskedAway, EvictsOnlyHolder,
               CreatesAlone, DeletesUnused, DeletePCs, AnswerTrue
  <2>2. CASE UNCHANGED apiVars /\ \E v \in HoldersOf(d) \ {n} :
                 /\ victim' = [victim EXCEPT ![c] = v]
                 /\ pc' = [pc EXCEPT ![c] = "evict"]
    <3>1. PICK v \in HoldersOf(d) \ {n} : /\ victim' = [victim EXCEPT ![c] = v]
                                          /\ pc' = [pc EXCEPT ![c] = "evict"]
      BY <2>2
    <3>2. HoldersOf(d) \subseteq {v}
      BY <1>1 DEF SafetyInv, SingleHolder, HoldersOf
    <3>3. HoldersOf(req[c].d)' = HoldersOf(d) /\ req'[c] = req[c] /\ pc'[c] = "evict"
          /\ victim'[c] = v
      BY <1>0, <2>2, <3>1 DEF apiVars, HoldersOf, Managed, Exists, IndInv, TypeOK
    <3> QED BY <1>0, <1>2, <3>1, <3>2, <3>3 DEF CallFacts, Withdrawn, AskedAway,
               EvictsOnlyHolder, CreatesAlone, DeletesUnused, DeletePCs, AnswerTrue
  <2> QED BY <1>5, <1>6, <1>11, <2>1, <2>2
          DEF ensureNoOtherAttachmentsUseThisDisk, EvictionDecided
<1>12. CASE EvictStale(c)
  <2>1. CASE Goto(c, "awaitEvicted")
    <3>1. pc[c] = "evict" /\ pc'[c] = "awaitEvicted" /\ victim'[c] = victim[c]
      BY <1>12, <2>1 DEF EvictStale, Goto, IndInv, TypeOK
    <3>2. HoldersOf(req[c].d)' = HoldersOf(d) /\ req'[c] = req[c]
      BY <1>0, <1>1, <1>3, <3>1, HoldersKept DEF Attaches
    <3> QED BY <1>0, <1>2, <3>1, <3>2 DEF CallFacts, Withdrawn, AskedAway, EvictsOnlyHolder,
               CreatesAlone, DeletesUnused, DeletePCs, AnswerTrue
  <2> QED BY <1>5, <1>7, <1>12, <2>1 DEF EvictStale, Answered
<1>13. CASE AwaitEvicted(c)
  <2>1. CASE EvictionConfirmed(c) /\ pc' = [pc EXCEPT ![c] = "create"]
    <3>1. HoldersOf(d) \subseteq {n} /\ UNCHANGED apiVars
      BY <1>2, <1>13, <2>1 DEF AwaitEvicted, EvictionConfirmed, CallFacts, EvictsOnlyHolder,
                               HoldersOf, Managed
    <3>2. HoldersOf(req[c].d)' = HoldersOf(d) /\ req'[c] = req[c] /\ pc'[c] = "create"
      BY <1>0, <2>1, <3>1 DEF apiVars, HoldersOf, Managed, Exists, IndInv, TypeOK
    <3> QED BY <1>0, <1>2, <3>1, <3>2 DEF CallFacts, Withdrawn, AskedAway, EvictsOnlyHolder,
               CreatesAlone, DeletesUnused, DeletePCs, AnswerTrue
  <2> QED BY <1>5, <1>13, <2>1 DEF AwaitEvicted
<1>14. CASE CreateAttachment(c)
  <2>1. ASSUME NEW l \in {"awaitReady", "verify"}, Goto(c, l) PROVE CallFacts(c)'
    BY <1>0, <1>2, <2>1, FactsOfModesty DEF Goto, DeletePCs
  <2> QED BY <1>5, <1>7, <1>14, <2>1 DEF CreateAttachment, Answered
<1>15. CASE VerifyConflict(c)
  <2>1. Goto(c, "awaitReady") => CallFacts(c)'
    BY <1>0, <1>2, FactsOfModesty DEF Goto, DeletePCs
  <2> QED BY <1>5, <1>15, <2>1 DEF VerifyConflict
<1>16. CASE WaitForAttachmentSerial(c)
  <2>1. d \in OwnedDisks /\ UNCHANGED <<disk, att>>
    BY <1>16 DEF WaitForAttachmentSerial, IsolationInv, ChecksHold, DiskCheckedPCs,
                 VMCheckedPCs, apiVars
  <2>2. CASE SerialReady(d, n) /\ Return(c, "OK")
    BY <1>0, <1>1, <1>2, <2>1, <2>2, FactsOfSuccess DEF SerialReady
  <2>3. CASE Return(c, "Unavailable")
    BY <1>0, <1>2, <2>3, FactsOfError
  <2> QED BY <1>16, <2>2, <2>3 DEF WaitForAttachmentSerial
<1> QED BY <1>8, <1>9, <1>10, <1>11, <1>12, <1>13, <1>14, <1>15, <1>16 DEF PublishStep

\* ControllerUnpublishVolume: OK is answered when the attachment is absent.
LEMMA UnpublishFacts ==
    ASSUME MaxLate = 0, IndInv, SafetyInv, NEW c \in Calls, UnpublishStep(c)
    PROVE  CallFacts(c)'
<1> DEFINE d == req[c].d
           n == req[c].n
<1>0. InsideStep(c) /\ UNCHANGED <<req, published>> /\ IndInv'
  BY OthersStay DEF InsideStep
<1>1. pc[c] \in UnpublishPCs /\ req[c].op = "unpublish"
  BY DEF UnpublishStep, GetAttachment, DeleteAttachment, AwaitDeleted, UnpublishPCs,
         IndInv, CallsWellFormed
<1>2. CallFacts(c)
  BY <1>1 DEF SafetyInv, Active, UnpublishPCs
<1>3. pc'[c] # "getDoomed"
  BY <1>0, <1>1 DEF IndInv, CallsWellFormed, DeletePCs
<1>4. ASSUME NEW code, code # "OK", retryOnTransient(c, code) PROVE CallFacts(c)'
  BY <1>0, <1>2, <1>3, <1>4, RetryFallsBack, FactsOfFailure
<1>5. ReadFails(c) => CallFacts(c)'
  BY <1>4 DEF ReadFails, ApiErrors
<1>6. ASSUME NEW m, MutationFails(c, m) PROVE CallFacts(c)'
  BY <1>4, <1>5, <1>6 DEF MutationFails
<1>7. (~Exists(d, n) /\ Return(c, "OK") /\ UNCHANGED apiVars) => CallFacts(c)'
  BY <1>0, <1>1, <1>2, FactsOfSuccess DEF apiVars
<1>8. ASSUME NEW l \in UnpublishPCs, Goto(c, l) PROVE CallFacts(c)'
  BY <1>0, <1>2, <1>8, FactsOfModesty DEF Goto, DeletePCs, UnpublishPCs
<1>9. CASE GetAttachment(c)
  BY <1>4, <1>5, <1>7, <1>8, <1>9 DEF GetAttachment, UnpublishPCs
<1>10. CASE DeleteAttachment(c)
  BY <1>4, <1>6, <1>7, <1>8, <1>10 DEF DeleteAttachment, Answered, UnpublishPCs
<1>11. CASE AwaitDeleted(c)
  BY <1>4, <1>7, <1>11 DEF AwaitDeleted
<1> QED BY <1>9, <1>10, <1>11 DEF UnpublishStep

\* DeleteVolume: what listAll has seen holds until the end, however often
\* EnsureDiskDeleted is retried, and OK is answered when the disk is absent.
LEMMA DeleteFacts ==
    ASSUME MaxLate = 0, IndInv, SafetyInv, NEW c \in Calls, DeleteStep(c)
    PROVE  CallFacts(c)'
<1> DEFINE d == req[c].d
<1>0. InsideStep(c) /\ UNCHANGED <<req, published>> /\ IndInv'
  BY OthersStay DEF InsideStep
<1>1. pc[c] \in DeletePCs /\ req[c].op = "delete" /\ d \in Disks
  <2>1. pc[c] \in DeletePCs
    BY DEF DeleteStep, ListBeforeDelete, GetDoomedDisk, DeleteDisk, ConfirmDeleted, DeletePCs
  <2> QED BY <2>1 DEF IndInv, CallsWellFormed, Requests, NodeRequests
<1>2. CallFacts(c) /\ late = {}
  BY <1>1 DEF SafetyInv, Active, DeletePCs
<1>3. Effect(c) /\ ~Attaches(c)
  BY <1>0, <1>1, <1>2, InsideEffect DEF CallFacts, Attaches, DeletePCs
<1>4. HoldersOf(req[c].d)' = HoldersOf(d)
  BY <1>0, <1>1, <1>3, HoldersKept DEF HoldersOf
<1>5. ASSUME NEW code, code # "OK", retryOnTransient(c, code), pc[c] # "listAll"
      PROVE  CallFacts(c)'
  BY <1>0, <1>1, <1>2, <1>4, <1>5, RetryFallsBack, FactsOfFailure
<1>6. (ReadFails(c) /\ pc[c] # "listAll") => CallFacts(c)'
  BY <1>5 DEF ReadFails, ApiErrors
<1>7. ASSUME NEW m, MutationFails(c, m), pc[c] # "listAll" PROVE CallFacts(c)'
  BY <1>5, <1>6, <1>7 DEF MutationFails
<1>8. (disk[d] = "absent" /\ Return(c, "OK") /\ UNCHANGED apiVars) => CallFacts(c)'
  BY <1>0, <1>1, <1>2, FactsOfSuccess DEF apiVars
<1>9. ASSUME NEW l \in DeletePCs, Goto(c, l), HoldersOf(d) = {} PROVE CallFacts(c)'
  <2>1. pc'[c] = l
    BY <1>9 DEF Goto, IndInv, TypeOK
  <2> QED BY <1>0, <1>2, <1>4, <1>9, <2>1 DEF CallFacts, Withdrawn, AskedAway,
             EvictsOnlyHolder, CreatesAlone, DeletesUnused, DeletePCs, AnswerTrue
<1>10. CASE ListBeforeDelete(c)
  BY <1>0, <1>2, <1>9, <1>10, FactsOfError DEF ListBeforeDelete, InUse, DeletePCs
<1>11. pc[c] # "listAll" => HoldersOf(d) = {}
  BY <1>1, <1>2 DEF CallFacts, DeletesUnused
<1>12. CASE GetDoomedDisk(c)
  BY <1>5, <1>6, <1>8, <1>9, <1>11, <1>12 DEF GetDoomedDisk, DeletePCs
<1>13. CASE DeleteDisk(c)
  BY <1>5, <1>7, <1>8, <1>9, <1>11, <1>13 DEF DeleteDisk, Answered, DeletePCs
<1>14. CASE ConfirmDeleted(c)
  BY <1>5, <1>6, <1>8, <1>14 DEF ConfirmDeleted, DeletionConfirmed
<1> QED BY <1>10, <1>12, <1>13, <1>14 DEF DeleteStep

(***************************************************************************)
(* Every step keeps the invariant.                                         *)
(***************************************************************************)
\* A handler's step touches no promise: what it detaches was asked away, and
\* what it attaches was absent.
LEMMA InsideKeepsPromises ==
    ASSUME IndInv, SafetyInv, NEW c \in Calls, Withdrawn(c), Effect(c), UNCHANGED published,
           req[c].d \in Disks
    PROVE  PromisesKept'
<1>1. ASSUME NEW d \in Disks, NEW n \in Nodes, <<d, n>> \in published
      PROVE  att'[d][n] = att[d][n]
  <2>1. att[d][n] = "ready"
    BY <1>1 DEF SafetyInv, PromisesKept
  <2>2. CASE Detaches(c)
    BY <1>1, <2>2 DEF Detaches, ApplyDetach, Withdrawn, IndInv, TypeOK
  <2>3. CASE Attaches(c)
    BY <2>1, <2>3 DEF Attaches, CreateAccepted, ApplyAttach, Exists, IndInv, TypeOK
  <2>4. CASE Reads \/ Deletes(c)
    BY <2>4 DEF Reads, Deletes, ApplyDeleteDisk
  <2> QED BY <2>2, <2>3, <2>4 DEF Effect
<1> QED BY <1>1 DEF SafetyInv, PromisesKept

\* A handler's step gives no disk a second holder: it attaches when no other
\* VM holds the disk.
LEMMA InsideKeepsSingleHolder ==
    ASSUME IndInv, SafetyInv, NEW c \in Calls, CreatesAlone(c), Effect(c)
    PROVE  SingleHolder'
<1>1. CASE ~Attaches(c)
  BY <1>1, HoldersKept DEF SafetyInv, SingleHolder
<1>2. CASE Attaches(c)
  <2>1. HoldersOf(req[c].d) \subseteq {req[c].n}
    BY <1>2 DEF Attaches, CreatesAlone
  <2>2. ASSUME NEW d \in Disks, NEW n \in Nodes, Managed(d, n)'
        PROVE  Managed(d, n) \/ (d = req[c].d /\ n = req[c].n)
    BY <1>2, <2>2 DEF Attaches, ApplyAttach, Effect, Managed, Exists, IndInv, TypeOK
  <2> QED BY <2>1, <2>2 DEF SafetyInv, SingleHolder, HoldersOf
<1> QED BY <1>1, <1>2

\* A handler's step keeps the invariant.
LEMMA InsideKeepsSafety ==
    ASSUME MaxLate = 0, IndInv, IsolationInv, SafetyInv, NEW c \in Calls, InsideStep(c)
    PROVE  SafetyInv'
<1>0. /\ pc[c] \in CriticalPCs \cup DeletePCs
      /\ \A x \in Calls \ {c} :
             pc'[x] = pc[x] /\ victim'[x] = victim[x] /\ ret'[x] = ret[x]
      /\ UNCHANGED <<req, published>> /\ IndInv'
  BY OthersStay
<1>1. Active(c) /\ req[c].d \in Disks
  BY <1>0 DEF Active, CriticalPCs, PublishPCs, EnsureCreatedPCs, UnpublishPCs, DeletePCs,
     IndInv, CallsWellFormed, Requests, NodeRequests
<1>2. CallFacts(c) /\ late = {}
  BY <1>1 DEF SafetyInv
<1>3. Effect(c) /\ Isolated(c)
  BY <1>2, InsideEffect, PublishIsolated, UnpublishIsolated, DeleteIsolated
     DEF CallFacts, InsideStep
<1>4. PromisesKept' /\ SingleHolder'
  BY <1>0, <1>1, <1>2, <1>3, InsideKeepsPromises, InsideKeepsSingleHolder DEF CallFacts
<1>5. \A x \in Calls : Active(x)' => Active(x)
  BY <1>0, <1>1 DEF Active
<1>6. OneCallPerDisk'
  BY <1>0, <1>5 DEF SafetyInv, OneCallPerDisk
<1>7. CallFacts(c)'
  BY PublishFacts, UnpublishFacts, DeleteFacts DEF InsideStep
<1>8. ASSUME NEW x \in Calls, Active(x)', x # c
      PROVE  CallFacts(x)'
  <2>1. Active(x) /\ CallFacts(x) /\ req[x].d # req[c].d /\ req[x].d \in Disks
    BY <1>0, <1>1, <1>5, <1>8 DEF SafetyInv, OneCallPerDisk, Active, IndInv, CallsWellFormed,
       Requests, NodeRequests
  <2>2. UNCHANGED foreign /\ att'[req[x].d] = att[req[x].d] /\ disk'[req[x].d] = disk[req[x].d]
    BY <1>3, <2>1 DEF Isolated, OnlyOwnDisk
  <2>3. HoldersOf(req[x].d)' \subseteq HoldersOf(req[x].d)
    BY <1>0, <2>2 DEF HoldersOf, Managed, Exists
  <2>4. published' \cap AskedAway(req[x]) = {}
    BY <1>0, <2>1 DEF CallFacts, Withdrawn
  <2> QED BY <1>0, <1>8, <2>1, <2>2, <2>3, <2>4, FactsSurvive
<1> QED BY <1>3, <1>4, <1>6, <1>7, <1>8 DEF Effect, SafetyInv

\* The orchestrator starts no second call for a volume, and relies no more on
\* what it asks away.
LEMMA BeginKeepsSafety ==
    ASSUME SerialPerVolume, IndInv, SafetyInv, NEW c \in Calls, NEW r \in Requests, Begin(c, r)
    PROVE  SafetyInv'
<1>0. /\ pc[c] = "idle" /\ MayBegin(r)
      /\ req' = [req EXCEPT ![c] = r]
      /\ published' = published \ AskedAway(r)
      /\ UNCHANGED <<disk, att, foreign, late>>
      /\ pc'[c] \in {"listAll", "lock", "done"}
      /\ pc'[c] = "done" => ret'[c] # "OK"
      /\ \A x \in Calls \ {c} :
             pc'[x] = pc[x] /\ victim'[x] = victim[x] /\ ret'[x] = ret[x] /\ req'[x] = req[x]
      /\ req'[c] = r
  BY DEF Begin, Active, Goto, Return, apiVars, IndInv, TypeOK
<1>1. late' = {} /\ SingleHolder' /\ PromisesKept'
  BY <1>0 DEF SafetyInv, SingleHolder, PromisesKept, Managed, Exists
<1>2. OneCallPerDisk'
  BY <1>0 DEF SafetyInv, OneCallPerDisk, Active, MayBegin
<1>3. CallFacts(c)'
  BY <1>0 DEF CallFacts, Withdrawn, AskedAway, EvictsOnlyHolder, CreatesAlone, DeletesUnused,
              DeletePCs, AnswerTrue
<1>4. ASSUME NEW x \in Calls, Active(x)', x # c
      PROVE  CallFacts(x)'
  <2>1. CallFacts(x)
    BY <1>0, <1>4 DEF SafetyInv, Active
  <2>2. HoldersOf(req[x].d)' \subseteq HoldersOf(req[x].d)
    BY <1>0, <1>4 DEF HoldersOf, Managed, Exists
  <2>3. published' \cap AskedAway(req[x]) = {}
    BY <1>0, <2>1 DEF CallFacts, Withdrawn
  <2> QED BY <1>0, <1>4, <2>1, <2>2, <2>3, FactsSurvive
<1> QED BY <1>1, <1>2, <1>3, <1>4 DEF SafetyInv

\* Taking the node lock is before anything a call could claim.
LEMMA LockKeepsSafety ==
    ASSUME IndInv, SafetyInv, NEW c \in Calls, acquireNodeLock(c)
    PROVE  SafetyInv'
<1>0. /\ pc[c] = "lock"
      /\ UNCHANGED <<disk, att, foreign, late, victim, ret, req, published>>
      /\ \A x \in Calls \ {c} : pc'[x] = pc[x]
      /\ pc'[c] \in {"count", "getDisk", "getAttachment"}
  <2>1. req[c].op \in {"publish", "unpublish"}
    BY DEF acquireNodeLock, IndInv, CallsWellFormed, NodeRequests
  <2> QED BY <2>1 DEF acquireNodeLock, FirstRequest, apiVars, IndInv, TypeOK
<1>1. late' = {} /\ SingleHolder' /\ PromisesKept'
  BY <1>0 DEF SafetyInv, SingleHolder, PromisesKept, Managed, Exists
<1>2. \A x \in Calls : Active(x)' => Active(x)
  BY <1>0 DEF Active
<1>3. OneCallPerDisk'
  BY <1>0, <1>2 DEF SafetyInv, OneCallPerDisk
<1>4. CallFacts(c) => CallFacts(c)'
  BY <1>0 DEF CallFacts, Withdrawn, AskedAway, EvictsOnlyHolder, CreatesAlone, DeletesUnused,
              DeletePCs, AnswerTrue
<1>5. ASSUME NEW x \in Calls, Active(x)', x # c
      PROVE  CallFacts(x)'
  <2>1. CallFacts(x)
    BY <1>2, <1>5 DEF SafetyInv
  <2>2. HoldersOf(req[x].d)' \subseteq HoldersOf(req[x].d)
    BY <1>0, <1>5 DEF HoldersOf, Managed, Exists
  <2>3. published' \cap AskedAway(req[x]) = {}
    BY <1>0, <2>1 DEF CallFacts, Withdrawn
  <2> QED BY <1>0, <1>5, <2>1, <2>2, <2>3, FactsSurvive
<1> QED BY <1>1, <1>2, <1>3, <1>4, <1>5 DEF SafetyInv

\* A promise is made of an answer that is still true.
LEMMA ReplyKeepsSafety ==
    ASSUME IndInv, SafetyInv, NEW c \in Calls, Reply(c)
    PROVE  SafetyInv'
<1> DEFINE d == req[c].d
           n == req[c].n
<1>0. /\ pc[c] = "done" /\ pc'[c] = "idle"
      /\ UNCHANGED <<disk, att, foreign, late, victim>>
      /\ published' \subseteq published \cup {<<d, n>>}
      /\ \A x \in Calls \ {c} : pc'[x] = pc[x] /\ ret'[x] = ret[x] /\ req'[x] = req[x]
  BY DEF Reply, apiVars, IndInv, TypeOK
<1>1. CallFacts(c) /\ Active(c)
  BY <1>0 DEF SafetyInv, Active
<1>2. late' = {} /\ SingleHolder'
  BY <1>0 DEF SafetyInv, SingleHolder, Managed, Exists
<1>3. PromisesKept'
  <2>1. CASE req[c].op = "publish" /\ ret[c] = "OK"
    <3>1. d \in OwnedDisks /\ att[d][n] = "ready"
      BY <1>0, <1>1, <2>1 DEF CallFacts, AnswerTrue
    <3> QED BY <1>0, <3>1 DEF SafetyInv, PromisesKept
  <2>2. CASE published' = published
    BY <1>0, <2>2 DEF SafetyInv, PromisesKept
  <2> QED BY <2>1, <2>2 DEF Reply
<1>4. OneCallPerDisk'
  BY <1>0 DEF SafetyInv, OneCallPerDisk, Active
<1>5. ASSUME NEW x \in Calls, Active(x)'
      PROVE  CallFacts(x)'
  <2>1. x # c /\ CallFacts(x) /\ req[x].d # d
    BY <1>0, <1>1, <1>5 DEF SafetyInv, OneCallPerDisk, Active
  <2>2. HoldersOf(req[x].d)' \subseteq HoldersOf(req[x].d)
    BY <1>0, <2>1 DEF HoldersOf, Managed, Exists
  <2>3. published' \cap AskedAway(req[x]) = {}
    <3>1. <<d, n>> \notin AskedAway(req[x])
      BY <2>1 DEF AskedAway
    <3> QED BY <1>0, <2>1, <3>1 DEF CallFacts, Withdrawn
  <2> QED BY <1>0, <1>5, <2>1, <2>2, <2>3, FactsSurvive
<1> QED BY <1>2, <1>3, <1>4, <1>5 DEF SafetyInv

\* A crash forgets the calls and leaves the disks as they are.
LEMMA CrashKeepsSafety ==
    ASSUME SafetyInv, Crash
    PROVE  SafetyInv'
<1>1. UNCHANGED <<disk, att, foreign, late, published>> /\ \A x \in Calls : ~Active(x)'
  BY DEF Crash, apiVars, Active
<1> QED BY <1>1 DEF SafetyInv, OneCallPerDisk, SingleHolder, PromisesKept, Managed, Exists

\* What the API does by itself, and what another cluster does, lets no ready
\* attachment of an owned disk go, creates none, and brings no disk back.
LEMMA EnvironmentGentle ==
    ASSUME IndInv, late = {}, Environment
    PROVE  /\ \A d \in OwnedDisks, n \in Nodes :
                  \/ att'[d][n] = att[d][n]
                  \/ att[d][n] \notin {"ready", "absent"}
           /\ \A d \in Disks : /\ disk[d] = "absent" => disk'[d] = "absent"
                               /\ disk[d] = "present" => disk'[d] = "present"
<1> USE OwnersAssumption DEF IndInv, TypeOK
<1>1. ASSUME NEW e \in Disks, NEW m \in Nodes, AttachmentProgress(e, m)
      PROVE  /\ \A d \in OwnedDisks, n \in Nodes :
                    att'[d][n] = att[d][n] \/ att[d][n] \notin {"ready", "absent"}
             /\ UNCHANGED disk
  BY <1>1 DEF AttachmentProgress
<1>2. ASSUME NEW e \in Disks, NEW m \in Nodes, ForeignStep(e, m)
      PROVE  (\A d \in OwnedDisks, n \in Nodes : att'[d][n] = att[d][n]) /\ UNCHANGED disk
  BY <1>2 DEF ForeignStep, ApplyAttach, ApplyDetach
<1>3. ASSUME NEW e \in Disks, DiskRemoved(e)
      PROVE  /\ UNCHANGED att
             /\ \A d \in Disks : /\ disk[d] = "absent" => disk'[d] = "absent"
                                 /\ disk[d] = "present" => disk'[d] = "present"
  BY <1>3 DEF DiskRemoved
<1> QED BY <1>1, <1>2, <1>3 DEF Environment

\* The environment keeps the invariant.
LEMMA EnvironmentKeepsSafety ==
    ASSUME IndInv, SafetyInv, Environment
    PROVE  SafetyInv'
<1>0. /\ late = {} /\ late' = {} /\ NothingAppears
      /\ UNCHANGED <<pc, victim, ret, req, published>>
  BY EnvironmentPreserves, EnvironmentAddsNothing DEF SafetyInv, callVars
<1>1. SingleHolder'
  BY <1>0 DEF SafetyInv, SingleHolder, NothingAppears
<1>2. PromisesKept'
  BY <1>0, EnvironmentGentle DEF SafetyInv, PromisesKept
<1>3. OneCallPerDisk'
  BY <1>0 DEF SafetyInv, OneCallPerDisk, Active
<1>4. ASSUME NEW x \in Calls, Active(x)'
      PROVE  CallFacts(x)'
  <2>1. CallFacts(x) /\ req[x].d \in Disks /\ Active(x)
    BY <1>0, <1>4 DEF SafetyInv, Active, IndInv, CallsWellFormed, Requests, NodeRequests
  <2>2. HoldersOf(req[x].d)' \subseteq HoldersOf(req[x].d)
    BY <1>0, <2>1 DEF HoldersOf, NothingAppears
  <2>3. published' \cap AskedAway(req[x]) = {}
    BY <1>0, <2>1 DEF CallFacts, Withdrawn
  <2>4. disk[req[x].d] = "absent" => disk'[req[x].d] = "absent"
    <3>1. \A d \in Disks : disk[d] = "absent" => disk'[d] = "absent"
      BY <1>0, EnvironmentGentle
    <3> QED BY <2>1, <3>1
  <2>5. CASE req[x] \in NodeRequests
    <3>1. req[x].n \in Nodes
      BY <2>5 DEF NodeRequests
    <3>2. req[x].d \in OwnedDisks =>
             \/ att'[req[x].d][req[x].n] = att[req[x].d][req[x].n]
             \/ att[req[x].d][req[x].n] \notin {"ready", "absent"}
      BY <1>0, <3>1, EnvironmentGentle
    <3> QED BY <1>0, <2>1, <2>2, <2>3, <2>4, <3>2, FactsSurvive
  <2>6. CASE req[x] \notin NodeRequests
    <3>1. req[x].op = "delete"
      BY <2>1, <2>6 DEF IndInv, CallsWellFormed, Requests, Active
    <3>2. pc[x] \notin {"evict", "awaitEvicted", "create"}
      BY <3>1 DEF IndInv, CallsWellFormed, PublishPCs, EnsureCreatedPCs
    <3>3. req'[x] = req[x] /\ pc'[x] = pc[x] /\ ret'[x] = ret[x]
      BY <1>0
    <3> QED BY <1>0, <2>1, <2>2, <2>3, <2>4, <3>1, <3>2, <3>3 DEF CallFacts, Withdrawn,
               EvictsOnlyHolder, CreatesAlone, DeletesUnused, AnswerTrue
  <2> QED BY <2>5, <2>6
<1> QED BY <1>0, <1>1, <1>2, <1>3, <1>4 DEF SafetyInv

\* The safety invariant is inductive, given the other two.
LEMMA SafetyInvStep ==
    ASSUME SerialPerVolume, MaxLate = 0, IndInv, IsolationInv, SafetyInv, [Next]_vars
    PROVE  SafetyInv'
<1>1. CASE \E c \in Calls : InsideStep(c)
  BY <1>1, InsideKeepsSafety
<1>2. CASE UNCHANGED vars
  BY <1>2 DEF vars, apiVars, callVars, SafetyInv, OneCallPerDisk, SingleHolder, PromisesKept,
     Managed, Exists, HoldersOf, Active, CallFacts, Withdrawn, EvictsOnlyHolder, CreatesAlone,
     DeletesUnused, AnswerTrue
<1> QED BY <1>1, <1>2, BeginKeepsSafety, LockKeepsSafety, ReplyKeepsSafety, CrashKeepsSafety,
           EnvironmentKeepsSafety
        DEF Next, HandlerStep, InsideStep

\* Nothing is attached, promised or in service at the start.
LEMMA SafetyInvInit == Init => SafetyInv
BY DEF Init, SafetyInv, OneCallPerDisk, SingleHolder, PromisesKept, Active, Managed, Exists

\* The safety invariant holds in every state of every behaviour.
THEOREM SafetyInvHolds ==
    ASSUME SerialPerVolume, MaxLate = 0
    PROVE  Spec => []SafetyInv
<1>1. SafetyInv /\ IndInv /\ IsolationInv /\ [Next]_vars => SafetyInv'
  BY SafetyInvStep
<1> QED BY SafetyInvInit, <1>1, IndInvHolds, IsolationInvHolds, PTL DEF Spec

\* The eviction before each create works: no failure, retry or crash of any
\* number of handlers leaves a disk attached to two VMs.
THEOREM OneHolder ==
    ASSUME SerialPerVolume, MaxLate = 0
    PROVE  Spec => []SingleHolder
<1>1. SafetyInv => SingleHolder
  BY DEF SafetyInv
<1> QED BY SafetyInvHolds, <1>1, PTL

\* An acknowledged publish stays true: no handler detaches what the
\* orchestrator still relies on.
THEOREM PublishedStays ==
    ASSUME SerialPerVolume, MaxLate = 0
    PROVE  Spec => []PublishedStaysAttached
<1>1. SafetyInv => PublishedStaysAttached
  BY DEF SafetyInv, PromisesKept, PublishedStaysAttached
<1> QED BY SafetyInvHolds, <1>1, PTL

\* Unpublish and delete report success only when the attachment and the disk
\* are gone, and they are still gone when the answer is sent.
THEOREM SuccessIsTrue ==
    ASSUME SerialPerVolume, MaxLate = 0
    PROVE  Spec => []SuccessMeansGone
<1>1. SafetyInv => SuccessMeansGone
  BY DEF SafetyInv, Active, CallFacts, AnswerTrue, SuccessMeansGone
<1> QED BY SafetyInvHolds, <1>1, PTL

\* DeleteVolume looks for attachments once, before its first attempt: what earlier
\* publishes have left, failed or crashed ones included, is seen, so that no
\* attempt begins to delete a disk that this driver has attached.
THEOREM AttachedNotDeleted ==
    ASSUME SerialPerVolume, MaxLate = 0
    PROVE  Spec => DeleteSparesAttached
<1> DEFINE Spared == \A d \in OwnedDisks :
              (disk[d] = "present" /\ disk'[d] # "present") => HoldersOf(d) = {}
<1>1. ASSUME IndInv, SafetyInv, [Next]_vars
      PROVE  [Spared]_vars
  <2>1. ASSUME NEW c \in Calls, InsideStep(c), NEW d \in OwnedDisks, disk'[d] # disk[d]
        PROVE  HoldersOf(d) = {}
    <3>1. Active(c) /\ CallFacts(c) /\ late = {}
      BY <1>1, <2>1, OthersStay DEF SafetyInv, Active, CriticalPCs, PublishPCs,
         EnsureCreatedPCs, UnpublishPCs, DeletePCs
    <3>2. Effect(c)
      BY <1>1, <2>1, <3>1, InsideEffect DEF CallFacts
    <3>3. Deletes(c)
      BY <2>1, <3>2 DEF Effect, Reads, Detaches, ApplyDetach, Attaches, ApplyAttach
    <3>4. d = req[c].d
      BY <1>1, <2>1, <3>3, OwnersAssumption DEF Deletes, ApplyDeleteDisk, IndInv, TypeOK
    <3> QED BY <3>1, <3>3, <3>4 DEF Deletes, CallFacts, DeletesUnused, DeletePCs
  <2>2. CASE Environment
    BY <1>1, <2>2, EnvironmentGentle, OwnersAssumption DEF SafetyInv
  <2>3. UNCHANGED apiVars => Spared
    BY DEF apiVars
  <2> QED BY <1>1, <2>1, <2>2, <2>3, OutsideStaysOutside DEF Next, HandlerStep, InsideStep
<1>2. IndInv /\ SafetyInv /\ [Next]_vars => [Spared]_vars
  BY <1>1
<1>3. Spec => [][Spared]_vars
  BY <1>2, IndInvHolds, SafetyInvHolds, PTL DEF Spec
<1> QED BY <1>3 DEF DeleteSparesAttached

(***************************************************************************)
(* The refinement.  A create is the abstract Attach, the end of an         *)
(* asynchronous deletion is Detach, an answer is Promise, and the start of *)
(* a call is Withdraw; every other step leaves holders and promises alone. *)
(***************************************************************************)
Holders == [d \in Disks |-> HoldersOf(d)]

\* Nothing is held or promised at the start.
LEMMA ContractInit == Init => Contract!Init
<1>1. Init => \A d \in Disks : HoldersOf(d) = {}
  BY DEF Init, HoldersOf, Managed, Exists
<1> QED BY <1>1 DEF Init, Contract!Init

\* A step that changes nobody's holders and no promise is a stutter.
LEMMA ContractStutter ==
    ASSUME \A d \in Disks : HoldersOf(d)' = HoldersOf(d), UNCHANGED published
    PROVE  UNCHANGED Contract!vars
<1>1. Holders' = Holders
  BY DEF Holders
<1> QED BY <1>1 DEF Holders, Contract!vars

\* A step of a handler is an abstract Attach or a stutter.
LEMMA InsideImplements ==
    ASSUME MaxLate = 0, IndInv, IsolationInv, SafetyInv, NEW c \in Calls, InsideStep(c)
    PROVE  [Contract!Next]_(Contract!vars)
<1>0. UNCHANGED <<req, published>> /\ pc[c] \in CriticalPCs \cup DeletePCs
  BY OthersStay
<1>1. CallFacts(c) /\ late = {}
  BY <1>0 DEF SafetyInv, Active, CriticalPCs, PublishPCs, EnsureCreatedPCs, UnpublishPCs,
              DeletePCs
<1>2. Effect(c)
  BY <1>1, InsideEffect DEF CallFacts
<1>3. CASE ~Attaches(c)
  BY <1>0, <1>2, <1>3, HoldersKept, ContractStutter
<1>4. CASE Attaches(c)
  <2>1. PICK e \in Disks, m \in Nodes : e = req[c].d /\ m = req[c].n
    BY <1>4 DEF Attaches, IndInv, CallsWellFormed, PublishPCs, EnsureCreatedPCs, NodeRequests
  <2>2. HoldersOf(e) = {}
    BY <1>1, <1>4, <2>1 DEF Attaches, CallFacts, CreatesAlone, CreateAccepted, HoldersOf, Managed
  <2>3. <<e, m>> \notin foreign
    BY <1>4, <2>1 DEF Attaches, IsolationInv, LabelsTell, ChecksHold, DiskCheckedPCs, VMCheckedPCs
  <2>4. ASSUME NEW d \in Disks, NEW n \in Nodes
        PROVE  Managed(d, n)' <=> (Managed(d, n) \/ (d = e /\ n = m))
    BY <1>2, <1>4, <2>1, <2>3 DEF Attaches, ApplyAttach, Managed, Exists, IndInv, TypeOK, Effect
  <2>5. HoldersOf(e)' = {m} /\ \A d \in Disks \ {e} : HoldersOf(d)' = HoldersOf(d)
    BY <2>1, <2>2, <2>4 DEF HoldersOf
  <2>6. Holders' = [Holders EXCEPT ![e] = {m}]
    BY <2>1, <2>5 DEF Holders
  <2>7. Contract!Attach(e, m)
    BY <1>0, <2>1, <2>2, <2>6 DEF Contract!Attach, Holders
  <2> QED BY <2>1, <2>7 DEF Contract!Next
<1> QED BY <1>3, <1>4

\* A step of the environment is an abstract Detach or a stutter: what
\* disappears was marked for deletion, so nobody was promised it.
LEMMA EnvironmentImplements ==
    ASSUME IndInv, IsolationInv, IsolationInv', SafetyInv, Environment
    PROVE  [Contract!Next]_(Contract!vars)
<1>0. UNCHANGED published /\ NothingAppears /\ late = {}
  BY EnvironmentPreserves, EnvironmentAddsNothing DEF SafetyInv
<1>1. ASSUME NEW e \in Disks, NEW m \in Nodes, AttachmentProgress(e, m)
      PROVE  [Contract!Next]_(Contract!vars)
  <2>1. CASE att[e][m] = "deleting" /\ Managed(e, m)
    <3>1. HoldersOf(e) = {m}
      BY <2>1 DEF SafetyInv, SingleHolder, HoldersOf
    <3>2. <<e, m>> \notin published
      BY <2>1 DEF SafetyInv, PromisesKept
    <3>3. ASSUME NEW d \in Disks, NEW n \in Nodes
          PROVE  Managed(d, n)' <=> (Managed(d, n) /\ ~(d = e /\ n = m))
      BY <1>1, <2>1 DEF AttachmentProgress, Managed, Exists, IndInv, TypeOK
    <3>4. HoldersOf(e)' = {} /\ \A d \in Disks \ {e} : HoldersOf(d)' = HoldersOf(d)
      BY <3>1, <3>3 DEF HoldersOf
    <3>5. Holders' = [Holders EXCEPT ![e] = {}]
      BY <3>4 DEF Holders
    <3>6. Contract!Detach(e)
      BY <1>0, <3>1, <3>2, <3>5 DEF Contract!Detach, Holders
    <3> QED BY <3>6 DEF Contract!Next
  <2>2. CASE ~(att[e][m] = "deleting" /\ Managed(e, m))
    <3>1. ASSUME NEW d \in Disks, NEW n \in Nodes
          PROVE  Managed(d, n)' <=> Managed(d, n)
      <4>1. CASE att[e][m] = "pending"
        BY <1>1, <4>1 DEF AttachmentProgress, Managed, Exists, IndInv, TypeOK
      <4>2. CASE att[e][m] = "deleting"
        <5>1. <<e, m>> \in foreign
          BY <2>2, <4>2 DEF Managed, Exists
        <5>2. att' = [att EXCEPT ![e][m] = "absent"] /\ foreign' = foreign \ {<<e, m>>}
          BY <1>1, <4>2 DEF AttachmentProgress
        <5>3. CASE d = e /\ n = m
          BY <5>1, <5>2, <5>3 DEF Managed, Exists, IndInv, TypeOK
        <5>4. CASE ~(d = e /\ n = m)
          BY <5>2, <5>4 DEF Managed, Exists, IndInv, TypeOK
        <5> QED BY <5>3, <5>4
      <4> QED BY <1>1, <4>1, <4>2 DEF AttachmentProgress
    <3>2. \A d \in Disks : HoldersOf(d)' = HoldersOf(d)
      BY <3>1 DEF HoldersOf
    <3> QED BY <1>0, <3>2, ContractStutter
  <2> QED BY <2>1, <2>2
<1>2. ASSUME NEW e \in Disks, NEW m \in Nodes, ForeignStep(e, m)
      PROVE  [Contract!Next]_(Contract!vars)
  <2>1. HoldersOf(e) = {} /\ HoldersOf(e)' = {}
    BY <1>2 DEF ForeignStep, IsolationInv, LabelsTell, HoldersOf
  <2>2. ASSUME NEW d \in Disks \ {e}, NEW n \in Nodes
        PROVE  Managed(d, n)' <=> Managed(d, n)
    BY <1>2 DEF ForeignStep, ApplyAttach, ApplyDetach, Managed, Exists, IndInv, TypeOK
  <2>3. \A d \in Disks : HoldersOf(d)' = HoldersOf(d)
    BY <2>1, <2>2 DEF HoldersOf
  <2> QED BY <1>0, <2>3, ContractStutter
<1>3. ASSUME NEW e \in Disks, DiskRemoved(e)
      PROVE  [Contract!Next]_(Contract!vars)
  <2>1. \A d \in Disks : HoldersOf(d)' = HoldersOf(d)
    BY <1>3 DEF DiskRemoved, HoldersOf, Managed, Exists
  <2> QED BY <1>0, <2>1, ContractStutter
<1> QED BY <1>0, <1>1, <1>2, <1>3 DEF Environment

\* A step outside the handlers' requests is an abstract Promise or Withdraw,
\* or a stutter.
LEMMA OutsideImplements ==
    ASSUME IndInv, IsolationInv, SafetyInv,
           \/ \E c \in Calls : \/ \E r \in Requests : Begin(c, r)
                               \/ acquireNodeLock(c)
                               \/ Reply(c)
           \/ Crash
           \/ UNCHANGED vars
    PROVE  [Contract!Next]_(Contract!vars)
<1>0. \A d \in Disks : HoldersOf(d)' = HoldersOf(d)
  BY OutsideStaysOutside DEF apiVars, HoldersOf, Managed, Exists
<1>1. Holders' = Holders
  BY <1>0 DEF Holders
<1>2. published' \subseteq published => Contract!Withdraw
  BY <1>1 DEF Contract!Withdraw, Holders
<1>3. CASE published' \subseteq published
  BY <1>2, <1>3 DEF Contract!Next
<1>4. ASSUME NEW c \in Calls, Reply(c), req[c].op = "publish", ret[c] = "OK"
      PROVE  Contract!Next
  <2>0. pc[c] = "done" /\ published' = published \cup {<<req[c].d, req[c].n>>}
    BY <1>4 DEF Reply
  <2>1. PICK e \in Disks, m \in Nodes : e = req[c].d /\ m = req[c].n
    BY <1>4, <2>0 DEF IndInv, CallsWellFormed, Requests, NodeRequests
  <2>2. e \in OwnedDisks /\ att[e][m] = "ready"
    BY <1>4, <2>0, <2>1 DEF SafetyInv, Active, CallFacts, AnswerTrue
  <2>3. Managed(e, m)
    BY <2>2 DEF IsolationInv, LabelsTell, Managed, Exists
  <2>4. HoldersOf(e) = {m}
    BY <2>3 DEF SafetyInv, SingleHolder, HoldersOf
  <2>5. Contract!Promise(e, m)
    BY <1>1, <2>0, <2>1, <2>4 DEF Contract!Promise, Holders
  <2> QED BY <2>1, <2>5 DEF Contract!Next
<1>5. \A c \in Calls : Reply(c) =>
          published' \subseteq published \/ (req[c].op = "publish" /\ ret[c] = "OK")
  BY DEF Reply
<1> QED BY <1>3, <1>4, <1>5 DEF Begin, acquireNodeLock, Crash, vars

\* The attach path implements ExclusiveAttach: seen from the orchestrator, all
\* the requests, waits, retries and crashes amount to disks that are attached
\* when nobody holds them and detached when nobody was promised them.
THEOREM AttachImplements ==
    ASSUME SerialPerVolume, MaxLate = 0
    PROVE  Spec => ImplementsExclusiveAttach
<1>1. IndInv /\ IsolationInv /\ IsolationInv' /\ SafetyInv /\ [Next]_vars
          => [Contract!Next]_(Contract!vars)
  BY InsideImplements, EnvironmentImplements, OutsideImplements DEF Next, HandlerStep, InsideStep
<1>2. Spec => Contract!Spec
  BY <1>1, ContractInit, IndInvHolds, IsolationInvHolds, SafetyInvHolds, PTL
     DEF Spec, Contract!Spec
<1> QED BY <1>2 DEF ImplementsExclusiveAttach
=============================================================================
