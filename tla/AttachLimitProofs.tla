------------------------- MODULE AttachLimitProofs -------------------------
(***************************************************************************)
(* The proof that no VM gets more attachments than maxVolumesPerNode, for  *)
(* any sets of disks, VMs and handlers, any limit and any number of        *)
(* retries, provided that no abandoned create reaches the API late         *)
(* (MaxLate = 0; with late creates the limit can be exceeded).             *)
(***************************************************************************)
EXTENDS AttachProofs

(***************************************************************************)
(* NodeLimit is not inductive.  A publish that has passed the limit check  *)
(* may still take its slot, so until it returns the slots of its node that *)
(* are taken by other disks are fewer than the limit.                      *)
(***************************************************************************)
OthersOn(n, d) == AttachedTo(n) \ {d}

SlotReserved ==
    \A c \in Calls : pc[c] \in EnsureCreatedPCs =>
        Cardinality(OthersOn(req[c].n, req[c].d)) < MaxVolumesPerNode

LimitInv ==
    /\ late = {}
    /\ \A n \in Nodes : Cardinality(AttachedTo(n)) <= MaxVolumesPerNode
    /\ SlotReserved

\* No attachment of this driver appears, except that handler c, once past the
\* limit check, may create the one it was asked for.
OnlyAsked(c) ==
    \A d \in Disks, n \in Nodes :
        Managed(d, n)' => \/ Managed(d, n)
                          \/ /\ pc[c] \in EnsureCreatedPCs
                             /\ d = req[c].d
                             /\ n = req[c].n

NothingAppears == \A d \in Disks, n \in Nodes : Managed(d, n)' => Managed(d, n)

\* The disks on a VM can be counted, and fewer disks count less.
LEMMA CountMonotone ==
    ASSUME NEW S, NEW T \in SUBSET Disks, S \subseteq T
    PROVE  Cardinality(S) <= Cardinality(T) /\ Cardinality(T) \in Nat /\ Cardinality(S) \in Nat
<1>1. IsFiniteSet(T) /\ IsFiniteSet(S)
  BY FiniteAssumption, FS_Subset
<1> QED BY <1>1, FS_Subset, FS_CardinalityType

\* One more disk counts at most one more.
LEMMA CountOneMore ==
    ASSUME NEW T \in SUBSET Disks, NEW d \in Disks, NEW S, S \subseteq T \cup {d}
    PROVE  Cardinality(S) <= Cardinality(T) + 1
<1>1. IsFiniteSet(T)
  BY FiniteAssumption, FS_Subset
<1>2. Cardinality(T \cup {d}) <= Cardinality(T) + 1
  <2>1. Cardinality(T) \in Nat
    BY <1>1, FS_CardinalityType
  <2>2. Cardinality(T \cup {d}) = IF d \in T THEN Cardinality(T) ELSE Cardinality(T) + 1
    BY <1>1, FS_AddElement
  <2> QED BY <2>1, <2>2
<1>3. Cardinality(S) <= Cardinality(T \cup {d}) /\ Cardinality(S) \in Nat
      /\ Cardinality(T \cup {d}) \in Nat /\ Cardinality(T) \in Nat
  BY CountMonotone
<1> QED BY <1>2, <1>3

\* Marking an attachment for deletion makes none appear.
LEMMA DetachAddsNothing ==
    ASSUME IndInv, NEW d \in Disks, NEW n \in Nodes, ApplyDetach(d, n), UNCHANGED foreign
    PROVE  NothingAppears
BY DEF IndInv, TypeOK, ApplyDetach, NothingAppears, Managed, Exists

\* A failed mutation adds no attachment, and with MaxLate = 0 leaves nothing
\* in transit.
LEMMA FailureAddsNothing ==
    ASSUME MaxLate = 0, late = {}, NEW c \in Calls, NEW m \in Mutations, MutationFails(c, m)
    PROVE  late' = {} /\ NothingAppears
<1>1. Cardinality(late \cup {m}) = 1
  <2>1. late \cup {m} = {m}
    OBVIOUS
  <2> QED BY <2>1, FS_Singleton
<1>2. ReadFails(c)
  BY <1>1 DEF MutationFails
<1> QED BY <1>2 DEF ReadFails, apiVars, NothingAppears, Managed, Exists

\* Only a publish past its limit check creates, and only what it was asked.
LEMMA HandlerAddsOnlyAsked ==
    ASSUME IndInv, MaxLate = 0, late = {}, NEW c \in Calls,
           PublishStep(c) \/ UnpublishStep(c) \/ DeleteStep(c)
    PROVE  late' = {} /\ OnlyAsked(c)
<1> DEFINE d == req[c].d
           n == req[c].n
<1>0. /\ pc[c] \in PublishPCs \cup UnpublishPCs => d \in Disks /\ n \in Nodes
      /\ pc[c] \in DeletePCs => d \in Disks
  BY DEF IndInv, CallsWellFormed, NodeRequests, Requests
<1>1. NothingAppears => OnlyAsked(c)
  BY DEF NothingAppears, OnlyAsked
<1>2. UNCHANGED apiVars => late' = {} /\ OnlyAsked(c)
  BY DEF apiVars, OnlyAsked, Managed, Exists
<1>3. ReadFails(c) => late' = {} /\ OnlyAsked(c)
  BY <1>2 DEF ReadFails
<1>4. CASE EvictStale(c)
  <2>1. pc[c] = "evict" /\ d \in Disks /\ victim[c] \in Nodes
    BY <1>0, <1>4 DEF EvictStale, IndInv, CallsWellFormed, PublishPCs, EnsureCreatedPCs
  <2>2. CASE MutationFails(c, [op |-> "detach", d |-> d, n |-> victim[c]])
    BY <1>1, <2>1, <2>2, FailureAddsNothing DEF Mutations
  <2>3. CASE ApplyDetach(d, victim[c]) /\ Answered(c, "awaitEvicted")
    BY <1>1, <2>1, <2>3, DetachAddsNothing DEF Answered
  <2> QED BY <1>4, <2>2, <2>3 DEF EvictStale
<1>5. CASE CreateAttachment(c)
  <2>1. pc[c] = "create" /\ d \in Disks /\ n \in Nodes
    BY <1>0, <1>5 DEF CreateAttachment, PublishPCs, EnsureCreatedPCs
  <2>2. CASE MutationFails(c, [op |-> "attach", d |-> d, n |-> n])
    BY <1>1, <2>1, <2>2, FailureAddsNothing DEF Mutations
  <2>3. CASE ApplyAttach(d, n) /\ Answered(c, "awaitReady")
    BY <2>1, <2>3 DEF Answered, ApplyAttach, OnlyAsked, Managed, Exists, IndInv, TypeOK,
                      EnsureCreatedPCs
  <2> QED BY <1>2, <1>5, <2>2, <2>3 DEF CreateAttachment
<1>6. CASE DeleteAttachment(c)
  <2>1. pc[c] = "deleteAttachment" /\ d \in Disks /\ n \in Nodes
    BY <1>0, <1>6 DEF DeleteAttachment, UnpublishPCs
  <2>2. CASE MutationFails(c, [op |-> "detach", d |-> d, n |-> n])
    BY <1>1, <2>1, <2>2, FailureAddsNothing DEF Mutations
  <2>3. CASE ApplyDetach(d, n) /\ Answered(c, "awaitDeleted")
    BY <1>1, <2>1, <2>3, DetachAddsNothing DEF Answered
  <2> QED BY <1>2, <1>6, <2>2, <2>3 DEF DeleteAttachment
<1>7. CASE DeleteDisk(c)
  <2>1. pc[c] = "deleteDisk" /\ d \in Disks
    BY <1>0, <1>7 DEF DeleteDisk, DeletePCs
  <2>2. CASE MutationFails(c, [op |-> "deleteDisk", d |-> d])
    BY <1>1, <2>1, <2>2, FailureAddsNothing DEF Mutations
  <2>3. CASE ApplyDeleteDisk(d) /\ Answered(c, "confirm")
    BY <2>3 DEF Answered, ApplyDeleteDisk, OnlyAsked, Managed, Exists
  <2> QED BY <1>2, <1>7, <2>2, <2>3 DEF DeleteDisk
<1>8. CASE \/ CountNodeAttachments(c) \/ AwaitEvicted(c) \/ VerifyConflict(c)
           \/ WaitForAttachmentSerial(c) \/ AwaitDeleted(c) \/ ListBeforeDelete(c)
  BY <1>2, <1>8 DEF CountNodeAttachments, AwaitEvicted, VerifyConflict,
     WaitForAttachmentSerial, AwaitDeleted, ListBeforeDelete, apiVars
<1>9. CASE \/ GetDiskAndValidateOwnership(c) \/ validateVMOwnership(c)
           \/ ensureNoOtherAttachmentsUseThisDisk(c) \/ GetAttachment(c)
           \/ GetDoomedDisk(c) \/ ConfirmDeleted(c)
  BY <1>2, <1>3, <1>9 DEF GetDiskAndValidateOwnership, validateVMOwnership,
     ensureNoOtherAttachmentsUseThisDisk, GetAttachment, GetDoomedDisk, ConfirmDeleted
<1> QED BY <1>4, <1>5, <1>6, <1>7, <1>8, <1>9 DEF PublishStep, UnpublishStep, DeleteStep

\* A step that makes nothing appear keeps every count and every reservation
\* of the handlers that stay where they are.
LEMMA FewerKeepsLimit ==
    ASSUME IndInv, IndInv', LimitInv, late' = {}, NothingAppears,
           \A c \in Calls : pc'[c] \in EnsureCreatedPCs =>
               pc[c] \in EnsureCreatedPCs /\ req'[c] = req[c]
    PROVE  LimitInv'
<1>1. \A n \in Nodes : AttachedTo(n)' \subseteq AttachedTo(n) /\ AttachedTo(n) \in SUBSET Disks
  BY DEF NothingAppears, AttachedTo
<1>2. ASSUME NEW n \in Nodes PROVE Cardinality(AttachedTo(n)') <= MaxVolumesPerNode
  BY <1>1, CountMonotone, LimitsAssumption DEF LimitInv
<1>3. ASSUME NEW c \in Calls, pc'[c] \in EnsureCreatedPCs
      PROVE  Cardinality(OthersOn(req[c].n, req[c].d)') < MaxVolumesPerNode
             /\ req'[c] = req[c]
  <2>1. req[c].n \in Nodes /\ pc[c] \in EnsureCreatedPCs /\ req'[c] = req[c]
    BY <1>3 DEF IndInv, CallsWellFormed, PublishPCs, NodeRequests
  <2>2. /\ OthersOn(req[c].n, req[c].d)' \subseteq OthersOn(req[c].n, req[c].d)
        /\ OthersOn(req[c].n, req[c].d) \in SUBSET Disks
    BY <1>1, <2>1 DEF OthersOn
  <2> QED BY <2>1, <2>2, CountMonotone, LimitsAssumption DEF LimitInv, SlotReserved
<1> QED BY <1>2, <1>3 DEF LimitInv, SlotReserved

\* The limit check reserves a slot: below the limit there is room for one
\* more, and no other handler of the node runs.
LEMMA CountKeepsLimit ==
    ASSUME IndInv, IndInv', LimitInv, NEW c \in Calls, CountNodeAttachments(c)
    PROVE  LimitInv'
<1> DEFINE n == req[c].n
           d == req[c].d
<1>0. /\ pc[c] = "count" /\ n \in Nodes
      /\ UNCHANGED <<att, foreign, late, req>>
      /\ \A x \in Calls \ {c} : pc'[x] = pc[x]
  BY DEF CountNodeAttachments, IndInv, TypeOK, CallsWellFormed, PublishPCs, NodeRequests,
         apiVars, Return, Goto
<1>1. \A m \in Nodes : AttachedTo(m)' = AttachedTo(m)
  BY <1>0 DEF AttachedTo, Managed, Exists
<1>2. pc'[c] \in EnsureCreatedPCs => Cardinality(AttachedTo(n)) < MaxVolumesPerNode
  <2>1. CASE pc' = [pc EXCEPT ![c] = "done"]
    BY <2>1 DEF EnsureCreatedPCs, IndInv, TypeOK
  <2>2. CASE ~AtLimit(Cardinality(AttachedTo(n)))
    <3>1. Cardinality(AttachedTo(n)) \in Nat
      BY CountMonotone DEF AttachedTo
    <3> QED BY <2>2, <3>1, LimitsAssumption DEF AtLimit
  <2> QED BY <2>1, <2>2 DEF CountNodeAttachments, Return
<1>3. ASSUME NEW x \in Calls, pc'[x] \in EnsureCreatedPCs
      PROVE  Cardinality(OthersOn(req[x].n, req[x].d)') < MaxVolumesPerNode
  <2>1. CASE x = c
    <3>1. OthersOn(n, d)' \subseteq AttachedTo(n) /\ AttachedTo(n) \in SUBSET Disks
      BY <1>0, <1>1 DEF OthersOn, AttachedTo
    <3> QED BY <1>2, <1>3, <2>1, <3>1, CountMonotone, LimitsAssumption
  <2>2. CASE x # c
    <3>1. pc[x] \in EnsureCreatedPCs /\ req[x].n \in Nodes
      BY <1>0, <1>3, <2>2 DEF IndInv, CallsWellFormed, PublishPCs, NodeRequests
    <3>2. OthersOn(req[x].n, req[x].d)' = OthersOn(req[x].n, req[x].d)
      BY <1>0, <1>1, <3>1 DEF OthersOn
    <3> QED BY <3>1, <3>2 DEF LimitInv, SlotReserved
  <2> QED BY <2>1, <2>2
<1> QED BY <1>0, <1>1, <1>3 DEF LimitInv, SlotReserved

\* A handler past the limit check uses the slot it reserved; the node lock
\* keeps every other handler of the node from counting on the same one.
LEMMA CreateKeepsLimit ==
    ASSUME IndInv, IndInv', LimitInv, NEW c \in Calls, pc[c] \in EnsureCreatedPCs,
           Moves(c), late' = {}, OnlyAsked(c)
    PROVE  LimitInv'
<1> DEFINE n == req[c].n
           d == req[c].d
<1>0. /\ n \in Nodes /\ d \in Disks /\ UNCHANGED req
      /\ \A x \in Calls \ {c} : pc'[x] = pc[x]
  <2>1. n \in Nodes /\ d \in Disks /\ UNCHANGED req
    BY DEF Moves, IndInv, CallsWellFormed, PublishPCs, NodeRequests
  <2>2. \A x \in Calls \ {c} : pc'[x] = pc[x]
    BY DEF Moves, Continues, Finishes, Return, IndInv, TypeOK
  <2> QED BY <2>1, <2>2
<1>1. /\ \A m \in Nodes \ {n} : AttachedTo(m)' \subseteq AttachedTo(m)
      /\ \A m \in Nodes : AttachedTo(m) \in SUBSET Disks
      /\ AttachedTo(n)' \subseteq OthersOn(n, d) \cup {d}
      /\ AttachedTo(n)' \ {d} \subseteq OthersOn(n, d)
      /\ OthersOn(n, d) \in SUBSET Disks
  BY <1>0 DEF OnlyAsked, AttachedTo, OthersOn
<1>2. Cardinality(OthersOn(n, d)) < MaxVolumesPerNode
  BY DEF LimitInv, SlotReserved
<1>3. ASSUME NEW m \in Nodes PROVE Cardinality(AttachedTo(m)') <= MaxVolumesPerNode
  <2>1. CASE m = n
    <3>1. /\ Cardinality(AttachedTo(n)') <= Cardinality(OthersOn(n, d)) + 1
          /\ Cardinality(OthersOn(n, d)) \in Nat
      BY <1>0, <1>1, CountOneMore, CountMonotone
    <3>2. AttachedTo(n)' \in SUBSET Disks
      BY <1>0, <1>1
    <3>3. Cardinality(AttachedTo(n)') \in Nat
      BY <3>2, CountMonotone
    <3>4. AttachedTo(m)' = AttachedTo(n)'
      BY <1>0, <2>1 DEF AttachedTo
    <3> QED BY <1>2, <3>1, <3>3, <3>4, LimitsAssumption
  <2>2. CASE m # n
    BY <1>1, <2>2, CountMonotone, LimitsAssumption DEF LimitInv
  <2> QED BY <2>1, <2>2
<1>4. ASSUME NEW x \in Calls, pc'[x] \in EnsureCreatedPCs
      PROVE  Cardinality(OthersOn(req[x].n, req[x].d)') < MaxVolumesPerNode
  <2>1. CASE x = c
    <3>1. OthersOn(n, d)' \subseteq OthersOn(n, d)
      BY <1>0, <1>1 DEF OthersOn
    <3> QED BY <1>1, <1>2, <2>1, <3>1, CountMonotone, LimitsAssumption
  <2>2. CASE x # c
    <3>1. pc[x] \in EnsureCreatedPCs /\ req[x].n \in Nodes
      BY <1>0, <1>4, <2>2 DEF IndInv, CallsWellFormed, PublishPCs, NodeRequests
    <3>2. req[x].n # n
      BY <1>0, <2>2, <3>1 DEF IndInv, LockHeldInside, CriticalPCs, PublishPCs
    <3>3. /\ OthersOn(req[x].n, req[x].d)' \subseteq OthersOn(req[x].n, req[x].d)
          /\ OthersOn(req[x].n, req[x].d) \in SUBSET Disks
      BY <1>0, <1>1, <3>1, <3>2 DEF OthersOn
    <3>4. Cardinality(OthersOn(req[x].n, req[x].d)) < MaxVolumesPerNode
      BY <3>1 DEF LimitInv, SlotReserved
    <3> QED BY <3>3, <3>4, CountMonotone, LimitsAssumption
  <2> QED BY <2>1, <2>2
<1> QED BY <1>0, <1>3, <1>4 DEF LimitInv, SlotReserved

\* What the environment does by itself adds no attachment of this driver.
LEMMA EnvironmentAddsNothing ==
    ASSUME IndInv, late = {}, Environment
    PROVE  late' = {} /\ NothingAppears
<1>1. ASSUME NEW d \in Disks, NEW n \in Nodes, AttachmentProgress(d, n)
      PROVE  late' = {} /\ NothingAppears
  BY <1>1 DEF AttachmentProgress, IndInv, TypeOK, NothingAppears, Managed, Exists
<1>2. ASSUME NEW d \in Disks, NEW n \in Nodes, ForeignStep(d, n)
      PROVE  late' = {} /\ NothingAppears
  <2>1. CASE ApplyAttach(d, n) /\ foreign' = foreign \cup {<<d, n>>}
    BY <1>2, <2>1 DEF ForeignStep, ApplyAttach, IndInv, TypeOK, NothingAppears, Managed, Exists
  <2>2. CASE ApplyDetach(d, n) /\ UNCHANGED foreign
    BY <1>2, <2>2, DetachAddsNothing DEF ForeignStep
  <2> QED BY <1>2, <2>1, <2>2 DEF ForeignStep
<1>3. ASSUME NEW d \in Disks, DiskRemoved(d)
      PROVE  late' = {} /\ NothingAppears
  BY <1>3 DEF DiskRemoved, NothingAppears, Managed, Exists
<1> QED BY <1>1, <1>2, <1>3 DEF Environment

\* LimitInv is inductive, given the type and lock invariant.
LEMMA LimitInvStep ==
    ASSUME MaxLate = 0, MaxVolumesPerNode > 0, IndInv, IndInv', LimitInv, [Next]_vars
    PROVE  LimitInv'
<1>0. /\ late = {}
      /\ UNCHANGED apiVars => late' = {} /\ NothingAppears
  BY DEF LimitInv, apiVars, NothingAppears, Managed, Exists
<1>1. ASSUME NEW c \in Calls, NEW r \in Requests, Begin(c, r)
      PROVE  LimitInv'
  <2>1. UNCHANGED apiVars
    BY <1>1 DEF Begin
  <2>2. \A x \in Calls : pc'[x] \in EnsureCreatedPCs =>
            pc[x] \in EnsureCreatedPCs /\ req'[x] = req[x]
    BY <1>1 DEF Begin, Goto, Return, EnsureCreatedPCs, IndInv, TypeOK
  <2> QED BY <1>0, <2>1, <2>2, FewerKeepsLimit
<1>2. ASSUME NEW c \in Calls, acquireNodeLock(c)
      PROVE  LimitInv'
  <2>1. UNCHANGED apiVars
    BY <1>2 DEF acquireNodeLock, apiVars
  <2>2. \A x \in Calls : pc'[x] \in EnsureCreatedPCs =>
            pc[x] \in EnsureCreatedPCs /\ req'[x] = req[x]
    BY <1>2 DEF acquireNodeLock, FirstRequest, EnsureCreatedPCs, IndInv, TypeOK
  <2> QED BY <1>0, <2>1, <2>2, FewerKeepsLimit
<1>3. ASSUME NEW c \in Calls, PublishStep(c) \/ UnpublishStep(c) \/ DeleteStep(c)
      PROVE  LimitInv'
  <2>1. Moves(c) /\ late' = {} /\ OnlyAsked(c)
    BY <1>0, <1>3, PublishMoves, UnpublishMoves, DeleteMoves, HandlerAddsOnlyAsked
  <2>2. CASE pc[c] \in EnsureCreatedPCs
    BY <2>1, <2>2, CreateKeepsLimit
  <2>3. CASE pc[c] = "count"
    <3>1. CountNodeAttachments(c)
      BY <1>3, <2>3 DEF PublishStep, UnpublishStep, DeleteStep, GetDiskAndValidateOwnership,
         validateVMOwnership, ensureNoOtherAttachmentsUseThisDisk, EvictStale, AwaitEvicted,
         CreateAttachment, VerifyConflict, WaitForAttachmentSerial, GetAttachment,
         DeleteAttachment, AwaitDeleted, ListBeforeDelete, GetDoomedDisk, DeleteDisk,
         ConfirmDeleted
    <3> QED BY <3>1, CountKeepsLimit
  <2>4. CASE pc[c] \notin PublishPCs
    <3>1. NothingAppears
      BY <2>1, <2>4 DEF OnlyAsked, NothingAppears, PublishPCs
    <3>2. \A x \in Calls : pc'[x] \in EnsureCreatedPCs =>
              pc[x] \in EnsureCreatedPCs /\ req'[x] = req[x]
      BY <2>1, <2>4 DEF Moves, Continues, Finishes, Return, SameCall, IndInv, TypeOK,
         PublishPCs, EnsureCreatedPCs, UnpublishPCs, DeletePCs
    <3> QED BY <2>1, <3>1, <3>2, FewerKeepsLimit
  <2> QED BY <2>2, <2>3, <2>4 DEF PublishPCs
<1>4. ASSUME NEW c \in Calls, Reply(c)
      PROVE  LimitInv'
  <2>1. UNCHANGED apiVars
    BY <1>4 DEF Reply, apiVars
  <2>2. \A x \in Calls : pc'[x] \in EnsureCreatedPCs =>
            pc[x] \in EnsureCreatedPCs /\ req'[x] = req[x]
    BY <1>4 DEF Reply, EnsureCreatedPCs, IndInv, TypeOK
  <2> QED BY <1>0, <2>1, <2>2, FewerKeepsLimit
<1>5. CASE Crash
  <2>1. UNCHANGED apiVars
    BY <1>5 DEF Crash, apiVars
  <2>2. \A x \in Calls : pc'[x] \notin EnsureCreatedPCs
    BY <1>5 DEF Crash, EnsureCreatedPCs
  <2> QED BY <1>0, <2>1, <2>2, FewerKeepsLimit
<1>6. CASE Environment
  BY <1>0, <1>6, EnvironmentPreserves, EnvironmentAddsNothing, FewerKeepsLimit DEF callVars
<1>7. CASE UNCHANGED vars
  BY <1>0, <1>7, FewerKeepsLimit DEF vars, callVars
<1> QED BY <1>1, <1>2, <1>3, <1>4, <1>5, <1>6, <1>7 DEF Next, HandlerStep

\* Nothing is attached at the start.
LEMMA LimitInvInit ==
    ASSUME Init
    PROVE  LimitInv
<1>1. ASSUME NEW n \in Nodes PROVE AttachedTo(n) = {}
  BY <1>1 DEF Init, AttachedTo, Managed, Exists
<1>2. \A n \in Nodes : Cardinality(AttachedTo(n)) = 0
  BY <1>1, FS_EmptySet
<1>3. late = {} /\ \A c \in Calls : pc[c] \notin EnsureCreatedPCs
  BY DEF Init, EnsureCreatedPCs
<1> QED BY <1>2, <1>3, LimitsAssumption DEF LimitInv, SlotReserved

\* "Check MaxVolumesPerNode limit after acquiring lock to prevent race
\* condition" works: however many handlers race, fail, retry and crash, no VM
\* gets more attachments than the limit, unless the API applies a create that
\* its sender had given up.
THEOREM NodeLimitKept ==
    ASSUME MaxLate = 0
    PROVE  Spec => []NodeLimit
<1>1. CASE MaxVolumesPerNode > 0
  <2>1. Init => LimitInv
    BY LimitInvInit
  <2>2. LimitInv /\ IndInv /\ IndInv' /\ [Next]_vars => LimitInv'
    BY <1>1, LimitInvStep
  <2>3. LimitInv => NodeLimit
    BY DEF LimitInv, NodeLimit
  <2> QED BY <2>1, <2>2, <2>3, IndInvHolds, PTL DEF Spec
<1>2. CASE ~(MaxVolumesPerNode > 0)
  <2>1. NodeLimit
    BY <1>2 DEF NodeLimit
  <2> QED BY <2>1, PTL
<1> QED BY <1>1, <1>2
=============================================================================
