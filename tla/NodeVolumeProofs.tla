-------------------------- MODULE NodeVolumeProofs --------------------------
(***************************************************************************)
(* What the node service does to a volume, proved for every set of pods,   *)
(* read-only or not, every number of handlers and every bound on stacked   *)
(* mounts.                                                                 *)
(*                                                                         *)
(* Type correctness needs no assumption.  The safety of the data and of    *)
(* the mounts needs three, each of which the code cannot do without, as    *)
(* counterexamples of the model show: that no call is repeated while its   *)
(* handler still runs, that blkid only fails with exit code 2, and that    *)
(* /proc/mounts can be read.  The read-only remount may fail.              *)
(***************************************************************************)
EXTENDS NodeVolume, SequenceTheorems, TLAPS

(***************************************************************************)
(* Types, and which request a handler can be serving where it is.          *)
(***************************************************************************)
ServesRequest(c) ==
    /\ pc[c] # "idle" => req[c] \in Requests
    /\ pc[c] \in StagePCs => req[c].op = "stage"
    /\ pc[c] \in UnstagePCs => req[c].op = "unstage"
    /\ pc[c] \in PublishPCs => req[c].op = "publish"
    /\ pc[c] \in UnpublishPCs => req[c].op = "unpublish"

NodeTypeInv ==
    /\ TypeOK
    /\ tgt \in [Pods -> Seq(Mounts)]
    /\ stat.pc # "idle" => stat.p \in Pods
    /\ \A c \in Calls : ServesRequest(c)

(***************************************************************************)
(* The inductive invariant of the safety properties.  What a check of the  *)
(* mount table or of blkid has told a handler is still so when the handler *)
(* acts on it, and what the kubelet has been told agrees with the mounts.  *)
(***************************************************************************)
OneHandler == \A c, d \in Calls : Active(c) /\ Active(d) => c = d

\* Nothing is ever mounted twice on a path, nor anything but the volume.
SingleMounts ==
    /\ stg \in {0, 1}
    /\ \A p \in Pods : tgt[p] # <<>> => Len(tgt[p]) = 1 /\ Top(p).src = "volume"

KubeletKnows ==
    /\ kst = "yes" => stg = 1
    /\ kst = "no" => stg = 0
    /\ \A p \in Pods : /\ kpub[p] = "yes" => tgt[p] # <<>>
                       /\ kpub[p] = "no" => tgt[p] = <<>>

\* Without filesystem there is neither a mount nor data.
DataOnFilesystem ==
    kind = "mount" /\ content = "blank" =>
        stg = 0 /\ ~written /\ \A p \in Pods : tgt[p] = <<>>

StageFacts(c) ==
    req[c].op = "stage" =>
        /\ kst # "no"
        /\ pc[c] \in StagePCs \ {"stageCheck"} => stg = 0
        /\ pc[c] \in StagePCs \ {"stageCheck", "waitDevice", "stageMount"} => kind = "mount"
        /\ pc[c] = "format" => content = "blank"
        /\ pc[c] = "done" /\ ret[c] = "OK" => stg = 1

UnstageFacts(c) ==
    req[c].op = "unstage" =>
        /\ kst = "maybe" /\ \A p \in Pods : kpub[p] = "no"
        /\ pc[c] = "unstageRemove" => stg = 0
        /\ pc[c] = "done" /\ ret[c] = "OK" => stg = 0

\* The last conjunct: statistics of the target are not being collected unless
\* it was published before.
PublishFacts(c) ==
    req[c].op = "publish" =>
        /\ kst = "yes" /\ kpub[req[c].p] # "no"
        /\ pc[c] = "bind" => tgt[req[c].p] = <<>>
        /\ pc[c] = "remount" => tgt[req[c].p] # <<>>
        /\ pc[c] = "done" /\ ret[c] = "OK" => tgt[req[c].p] # <<>>
        /\ stat.pc # "idle" /\ stat.p = req[c].p => kpub[req[c].p] = "yes"

UnpublishFacts(c) ==
    req[c].op = "unpublish" =>
        /\ kpub[req[c].p] = "maybe"
        /\ pc[c] = "unpublishRemove" => tgt[req[c].p] = <<>>
        /\ pc[c] = "done" /\ ret[c] = "OK" => tgt[req[c].p] = <<>>

HandlerFacts(c) ==
    Active(c) => StageFacts(c) /\ UnstageFacts(c) /\ PublishFacts(c) /\ UnpublishFacts(c)

\* A target that showed the node's own disk stays unmounted.
StatsFacts ==
    /\ stat.answer = "healthy" => stat.saw = "volume"
    /\ stat.pc # "idle" => stat.answer = "none"
    /\ stat.pc = "health" => stat.saw = "volume" \/ tgt[stat.p] = <<>>

NodeInv ==
    /\ NodeTypeInv
    /\ OneHandler
    /\ SingleMounts
    /\ KubeletKnows
    /\ DataOnFilesystem
    /\ \A c \in Calls : HandlerFacts(c)
    /\ StatsFacts
    /\ DataNeverDestroyed

-----------------------------------------------------------------------------
(***************************************************************************)
(* Stacks of mounts.                                                       *)
(***************************************************************************)

\* A bind mount goes on top of the stack.
LEMMA StackPush ==
    ASSUME NEW s \in Seq(Mounts), NEW m \in Mounts
    PROVE  /\ Append(s, m) \in Seq(Mounts) /\ Len(Append(s, m)) = Len(s) + 1
           /\ Append(s, m)[Len(s) + 1] = m /\ Append(s, m) # <<>>
BY AppendProperties

\* Unmount takes the top one off.
LEMMA StackPop ==
    ASSUME NEW s \in Seq(Mounts), s # <<>>
    PROVE  /\ SubSeq(s, 1, Len(s) - 1) \in Seq(Mounts)
           /\ Len(SubSeq(s, 1, Len(s) - 1)) = Len(s) - 1
<1>1. Len(s) \in Nat \ {0}
  BY EmptySeq, LenProperties
<1>2. \A i \in 1 .. (Len(s) - 1) : s[i] \in Mounts
  BY <1>1, ElementOfSeq
<1>3. Len(s) - 1 \in Int
  BY <1>1
<1>4. /\ SubSeq(s, 1, Len(s) - 1) \in Seq(Mounts)
      /\ Len(SubSeq(s, 1, Len(s) - 1))
            = IF 1 <= Len(s) - 1 THEN (Len(s) - 1) - 1 + 1 ELSE 0
  BY <1>2, <1>3, SubSeqProperties
<1>5. \A n \in Nat \ {0} : (IF 1 <= n - 1 THEN (n - 1) - 1 + 1 ELSE 0) = n - 1
  OBVIOUS
<1> QED BY <1>1, <1>4, <1>5, Zenon

\* The remount leaves the stack as it is but for the top one's flag.
LEMMA StackRemount ==
    ASSUME NEW s \in Seq(Mounts), s # <<>>
    PROVE  LET t == [s EXCEPT ![Len(s)].ro = TRUE] IN
           /\ t \in Seq(Mounts) /\ Len(t) = Len(s) /\ t # <<>>
           /\ t[Len(t)].src = s[Len(s)].src
<1>1. Len(s) \in Nat \ {0} /\ Len(s) \in DOMAIN s /\ s[Len(s)] \in Mounts
  BY EmptySeq, LenProperties, ElementOfSeq
<1>2. [s[Len(s)] EXCEPT !.ro = TRUE] \in Mounts
  BY <1>1 DEF Mounts
<1>3. [s[Len(s)] EXCEPT !.ro = TRUE].src = s[Len(s)].src
  BY <1>1 DEF Mounts
<1> DEFINE t == [s EXCEPT ![Len(s)] = [s[Len(s)] EXCEPT !.ro = TRUE]]
<1>4. t \in Seq(Mounts) /\ Len(t) = Len(s)
  BY <1>1, <1>2, ExceptSeq
<1>5. t[Len(s)].src = s[Len(s)].src
  BY <1>1, <1>3
<1>6. t # <<>>
  BY <1>1, <1>4
<1> QED BY <1>4, <1>5, <1>6

-----------------------------------------------------------------------------
(***************************************************************************)
(* Types.                                                                  *)
(***************************************************************************)
VolumeTyped ==
    /\ kind \in {"block", "mount"} /\ content \in Content
    /\ written \in BOOLEAN /\ lost \in BOOLEAN
    /\ stg \in 0..MaxStack
    /\ tgt \in [Pods -> Seq(Mounts)] /\ \A p \in Pods : Len(tgt[p]) <= MaxStack

\* The handler of c goes on within S, or ends with a code.
Moves(c, S) ==
    /\ UNCHANGED req
    /\ \/ \E l \in S : Goto(c, l)
       \/ \E code \in Codes : Return(c, code)

HandlerStep(c) == StageStep(c) \/ UnstageStep(c) \/ PublishStep(c) \/ UnpublishStep(c)

\* A handler that publishes or unpublishes has a target.
LEMMA RequestHasTarget ==
    ASSUME NEW r \in Requests, r.op \in {"publish", "unpublish"}
    PROVE  r.p \in Pods
BY DEF Requests

\* Each handler runs through its own labels and leaves the kubelet's knowledge
\* to the reply.
LEMMA StageMoves ==
    ASSUME NEW c \in Calls, StageStep(c)
    PROVE  Moves(c, StagePCs) /\ UNCHANGED kubeletVars /\ pc[c] \in StagePCs
<1> USE DEF Moves, StagePCs, Codes
<1>1. CASE StageCheck(c) \/ WaitForDevice(c)
  BY <1>1 DEF StageCheck, WaitForDevice
<1>2. CASE StageMount(c) \/ RepairedMount(c) \/ FormattedMount(c)
  BY <1>2 DEF StageMount, RepairedMount, FormattedMount, MountDevice, MountErrorReported
<1>3. CASE ProbeDevice(c)
  BY <1>3 DEF ProbeDevice
<1>4. CASE RepairFilesystem(c) \/ FormatDevice(c)
  BY <1>4 DEF RepairFilesystem, FormatDevice
<1> QED BY <1>1, <1>2, <1>3, <1>4 DEF StageStep

\* NodeUnstageVolume likewise.
LEMMA UnstageMoves ==
    ASSUME NEW c \in Calls, UnstageStep(c)
    PROVE  Moves(c, UnstagePCs) /\ UNCHANGED kubeletVars /\ pc[c] \in UnstagePCs
BY DEF UnstageStep, UnstageCheck, UnstageUnmount, UnstageRemove, UnmountErrorReported, Moves,
       UnstagePCs, Codes

\* NodePublishVolume likewise.
LEMMA PublishMoves ==
    ASSUME NEW c \in Calls, PublishStep(c)
    PROVE  Moves(c, PublishPCs) /\ UNCHANGED kubeletVars /\ pc[c] \in PublishPCs
BY DEF PublishStep, PublishCheck, BindTarget, RemountReadOnly, Moves, PublishPCs, Codes

\* NodeUnpublishVolume likewise.
LEMMA UnpublishMoves ==
    ASSUME NEW c \in Calls, UnpublishStep(c)
    PROVE  Moves(c, UnpublishPCs) /\ UNCHANGED kubeletVars /\ pc[c] \in UnpublishPCs
BY DEF UnpublishStep, UnpublishCheck, UnpublishUnmount, UnpublishRemove,
       UnmountErrorReported, Moves, UnpublishPCs, Codes

\* Whatever a handler does, it keeps to the request it serves.
LEMMA HandlerKeepsCalls ==
    ASSUME NodeTypeInv, NEW c \in Calls, HandlerStep(c)
    PROVE  /\ pc' \in [Calls -> PCs] /\ ret' \in [Calls -> Codes]
           /\ UNCHANGED <<req, kubeletVars>>
           /\ \A d \in Calls : ServesRequest(d)'
<1>1. ASSUME NEW S \in {StagePCs, UnstagePCs, PublishPCs, UnpublishPCs}, Moves(c, S),
             pc[c] \in S
      PROVE  /\ pc' \in [Calls -> PCs] /\ ret' \in [Calls -> Codes]
             /\ UNCHANGED req
             /\ \A d \in Calls : ServesRequest(d)'
  <2>1. /\ pc' \in [Calls -> PCs] /\ ret' \in [Calls -> Codes] /\ UNCHANGED req
        /\ pc'[c] \in S \cup {"done"}
        /\ \A d \in Calls : d # c => pc'[d] = pc[d]
    BY <1>1 DEF Moves, Goto, Return, NodeTypeInv, TypeOK, PCs
  <2>2. pc[c] # "idle" /\ pc'[c] # "idle"
    BY <1>1, <2>1 DEF StagePCs, UnstagePCs, PublishPCs, UnpublishPCs
  <2>3. ServesRequest(c)'
    BY <1>1, <2>1, <2>2 DEF NodeTypeInv, ServesRequest, StagePCs, UnstagePCs, PublishPCs,
                            UnpublishPCs
  <2>4. ASSUME NEW d \in Calls, d # c
        PROVE  ServesRequest(d)'
    BY <2>1, <2>4 DEF NodeTypeInv, ServesRequest
  <2> QED BY <2>1, <2>3, <2>4
<1> QED BY <1>1, StageMoves, UnstageMoves, PublishMoves, UnpublishMoves DEF HandlerStep

\* The mounts and the device keep their types through every handler.
LEMMA StageKeepsVolume ==
    ASSUME VolumeTyped, NEW c \in Calls, StageStep(c)
    PROVE  VolumeTyped'
<1> USE DEF volVars
<1>1. CASE UNCHANGED volVars
  BY <1>1 DEF VolumeTyped
<1>2. CASE MountDevice(c)
  <2>1. stg' \in 0..MaxStack
    BY <1>2, NodeConstants DEF MountDevice, Mountable, VolumeTyped
  <2>2. UNCHANGED <<kind, content, written, lost, tgt>>
    BY <1>2 DEF MountDevice
  <2> QED BY <2>1, <2>2 DEF VolumeTyped
<1>3. CASE RepairFilesystem(c) \/ FormatDevice(c)
  <2>1. content' \in Content /\ UNCHANGED <<kind, stg, tgt>>
    BY <1>3 DEF RepairFilesystem, FormatDevice, VolumeTyped, Content
  <2>2. written' \in BOOLEAN
    BY <1>3 DEF RepairFilesystem, FormatDevice, VolumeTyped
  <2>3. lost' \in BOOLEAN
    BY <1>3, Zenon DEF RepairFilesystem, FormatDevice, VolumeTyped
  <2> QED BY <2>1, <2>2, <2>3 DEF VolumeTyped
<1> QED BY <1>1, <1>2, <1>3 DEF StageStep, StageCheck, WaitForDevice, StageMount, ProbeDevice,
                                RepairedMount, FormattedMount

\* NodeUnstageVolume takes a mount off, if there is one.
LEMMA UnstageKeepsVolume ==
    ASSUME VolumeTyped, NEW c \in Calls, UnstageStep(c)
    PROVE  VolumeTyped'
<1>1. CASE UnstageCheck(c)
  BY <1>1 DEF UnstageCheck, volVars, VolumeTyped
<1>2. CASE UnstageUnmount(c)
  <2>1. stg' \in 0..MaxStack /\ UNCHANGED <<kind, content, written, lost, tgt>>
    BY <1>2, NodeConstants DEF UnstageUnmount, VolumeTyped
  <2> QED BY <2>1 DEF VolumeTyped
<1>3. CASE UnstageRemove(c)
  <2>1. UNCHANGED <<kind, content, stg, tgt>>
    BY <1>3 DEF UnstageRemove
  <2>2. written' \in BOOLEAN /\ lost' \in BOOLEAN
    BY <1>3, Zenon DEF UnstageRemove, RemoveAll
  <2> QED BY <2>1, <2>2 DEF VolumeTyped
<1> QED BY <1>1, <1>2, <1>3 DEF UnstageStep

\* NodePublishVolume puts one on a target, within the bound, or changes its flag.
LEMMA PublishKeepsVolume ==
    ASSUME VolumeTyped, NEW c \in Calls, PublishStep(c), req[c].p \in Pods
    PROVE  VolumeTyped'
<1> DEFINE p == req[c].p
<1>0. tgt[p] \in Seq(Mounts) /\ Len(tgt[p]) \in Nat
  BY LenProperties DEF VolumeTyped
<1>1. CASE UNCHANGED volVars
  BY <1>1 DEF volVars, VolumeTyped
<1>2. ASSUME BindTarget(c), ~UNCHANGED tgt
      PROVE  VolumeTyped'
  <2>1. PICK m \in Mounts : tgt' = [tgt EXCEPT ![p] = Append(tgt[p], m)]
    BY <1>2 DEF BindTarget, Mounts
  <2>2. Len(tgt[p]) < MaxStack /\ UNCHANGED <<kind, content, written, lost, stg>>
    BY <1>2 DEF BindTarget
  <2>3. Append(tgt[p], m) \in Seq(Mounts) /\ Len(Append(tgt[p], m)) <= MaxStack
    BY <1>0, <2>2, StackPush, NodeConstants
  <2> QED BY <2>1, <2>2, <2>3 DEF VolumeTyped
<1>3. ASSUME RemountReadOnly(c), ~UNCHANGED tgt
      PROVE  VolumeTyped'
  <2>1. /\ tgt[p] # <<>> /\ tgt' = [tgt EXCEPT ![p] = [tgt[p] EXCEPT ![Len(tgt[p])].ro = TRUE]]
        /\ UNCHANGED <<kind, content, written, lost, stg>>
    BY <1>3 DEF RemountReadOnly
  <2> DEFINE t == [tgt[p] EXCEPT ![Len(tgt[p])].ro = TRUE]
  <2>2. t \in Seq(Mounts) /\ Len(t) = Len(tgt[p])
    BY <1>0, <2>1, StackRemount
  <2> HIDE DEF t
  <2>3. tgt' = [tgt EXCEPT ![p] = t]
    BY <2>1 DEF t
  <2> QED BY <2>1, <2>2, <2>3 DEF VolumeTyped
<1> QED BY <1>1, <1>2, <1>3 DEF PublishStep, PublishCheck, BindTarget, RemountReadOnly, volVars

\* NodeUnpublishVolume takes one off a target, if there is one.
LEMMA UnpublishKeepsVolume ==
    ASSUME VolumeTyped, NEW c \in Calls, UnpublishStep(c), req[c].p \in Pods
    PROVE  VolumeTyped'
<1> DEFINE p == req[c].p
<1>0. tgt[p] \in Seq(Mounts) /\ Len(tgt[p]) \in Nat
  BY LenProperties DEF VolumeTyped
<1>1. CASE UNCHANGED volVars
  BY <1>1 DEF volVars, VolumeTyped
<1>2. ASSUME UnpublishUnmount(c), ~UNCHANGED tgt
      PROVE  VolumeTyped'
  <2>1. /\ tgt[p] # <<>> /\ tgt' = [tgt EXCEPT ![p] = SubSeq(tgt[p], 1, Len(tgt[p]) - 1)]
        /\ UNCHANGED <<kind, content, written, lost, stg>>
    BY <1>2 DEF UnpublishUnmount, VolumeTyped
  <2> DEFINE t == SubSeq(tgt[p], 1, Len(tgt[p]) - 1)
  <2>2. t \in Seq(Mounts) /\ Len(t) = Len(tgt[p]) - 1
    BY <1>0, <2>1, StackPop
  <2> HIDE DEF t
  <2>3. tgt' = [tgt EXCEPT ![p] = t] /\ Len(t) <= MaxStack
    BY <1>0, <2>1, <2>2, NodeConstants DEF t, VolumeTyped
  <2> QED BY <2>1, <2>2, <2>3 DEF VolumeTyped
<1>3. CASE UnpublishRemove(c)
  <2>1. UNCHANGED <<kind, content, stg, tgt>>
    BY <1>3 DEF UnpublishRemove
  <2>2. written' \in BOOLEAN /\ lost' \in BOOLEAN
    BY <1>3, Zenon DEF UnpublishRemove, RemoveAll
  <2> QED BY <2>1, <2>2 DEF VolumeTyped
<1> QED BY <1>1, <1>2, <1>3 DEF UnpublishStep, UnpublishCheck, UnpublishUnmount, volVars

\* The kubelet's side of a call: what it asks and what it makes of the answer.
LEMMA BeginTyped ==
    ASSUME NodeTypeInv, NEW c \in Calls, NEW r \in Requests, Begin(c, r)
    PROVE  /\ kst' \in Known /\ kpub' \in [Pods -> Known]
           /\ pc' \in [Calls -> PCs] /\ ret' \in [Calls -> Codes]
           /\ req' = [req EXCEPT ![c] = r] /\ UNCHANGED volVars
           /\ \A d \in Calls : d # c => pc'[d] = pc[d] /\ ret'[d] = ret[d]
           /\ pc'[c] \in {FirstStep(r.op), "done"}
           /\ pc'[c] = "done" => ret'[c] = "InvalidArgument"
           /\ \A d \in Calls : ServesRequest(d)'
<1>0. r.op \in {"stage", "unstage", "publish", "unpublish"}
  BY DEF Requests
<1>1. kst' \in Known /\ kpub' \in [Pods -> Known]
  BY <1>0, RequestHasTarget DEF Begin, Doubt, NodeTypeInv, TypeOK, Known
<1>2. /\ r.op = "stage" => FirstStep(r.op) = "stageCheck"
      /\ r.op = "unstage" => FirstStep(r.op) = "unstageCheck"
      /\ r.op = "publish" => FirstStep(r.op) = "publishCheck"
      /\ r.op = "unpublish" => FirstStep(r.op) = "unpublishCheck"
  BY DEF FirstStep
<1>3. FirstStep(r.op) \in PCs \ {"idle", "done"}
  BY <1>0, <1>2 DEF PCs, StagePCs, UnstagePCs, PublishPCs, UnpublishPCs
<1>4. /\ pc' \in [Calls -> PCs] /\ ret' \in [Calls -> Codes]
      /\ req' = [req EXCEPT ![c] = r] /\ UNCHANGED volVars
      /\ \A d \in Calls : d # c => pc'[d] = pc[d] /\ ret'[d] = ret[d]
      /\ pc'[c] \in {FirstStep(r.op), "done"}
      /\ pc'[c] = "done" => ret'[c] = "InvalidArgument"
  BY <1>3 DEF Begin, Goto, Return, NodeTypeInv, TypeOK, PCs, Codes
<1>5. ServesRequest(c)'
  BY <1>0, <1>2, <1>4 DEF ServesRequest, NodeTypeInv, TypeOK, StagePCs, UnstagePCs, PublishPCs,
                          UnpublishPCs
<1>6. ASSUME NEW d \in Calls, d # c
      PROVE  ServesRequest(d)'
  BY <1>4, <1>6 DEF ServesRequest, NodeTypeInv, TypeOK
<1> QED BY <1>1, <1>4, <1>5, <1>6

\* The answer, and what the kubelet knows then.
LEMMA ReplyTyped ==
    ASSUME NodeTypeInv, NEW c \in Calls, Reply(c)
    PROVE  /\ kst' \in Known /\ kpub' \in [Pods -> Known]
           /\ pc' = [pc EXCEPT ![c] = "idle"] /\ ret' = [ret EXCEPT ![c] = "none"]
           /\ req' = [req EXCEPT ![c] = NoReq] /\ UNCHANGED volVars
           /\ \A d \in Calls : ServesRequest(d)'
<1>0. pc[c] = "done" /\ req[c] \in Requests
  BY DEF Reply, NodeTypeInv, ServesRequest
<1>1. req[c].op \in {"stage", "unstage", "publish", "unpublish"}
  BY <1>0 DEF Requests
<1>2. kst' \in Known /\ kpub' \in [Pods -> Known]
  BY <1>0, <1>1, RequestHasTarget DEF Reply, kubeletVars, NodeTypeInv, TypeOK, Known
<1>3. /\ pc' = [pc EXCEPT ![c] = "idle"] /\ ret' = [ret EXCEPT ![c] = "none"]
      /\ req' = [req EXCEPT ![c] = NoReq] /\ UNCHANGED volVars
  BY DEF Reply
<1>4. \A d \in Calls : ServesRequest(d)'
  BY <1>3 DEF ServesRequest, NodeTypeInv, TypeOK, StagePCs, UnstagePCs, PublishPCs, UnpublishPCs
<1> QED BY <1>2, <1>3, <1>4

\* A call to NodeGetVolumeStats.
LEMMA StatsTyped ==
    ASSUME NodeTypeInv,
           (\E p \in Pods : BeginStats(p)) \/ GetFilesystemStats \/ checkVolumeHealth
    PROVE  /\ stat' \in Stats /\ (stat'.pc # "idle" => stat'.p \in Pods)
           /\ UNCHANGED <<volVars, kubeletVars, pc, req, ret>>
<1>0. stat \in Stats
  BY DEF NodeTypeInv, TypeOK
<1>1. UNCHANGED <<volVars, kubeletVars, pc, req, ret>>
  BY DEF BeginStats, GetFilesystemStats, checkVolumeHealth
<1>2. ASSUME NEW p \in Pods, BeginStats(p)
      PROVE  stat' \in Stats /\ (stat'.pc # "idle" => stat'.p \in Pods)
  <2>1. NoReq \in Pods \cup {NoReq} /\ p \in Pods \cup {NoReq}
    OBVIOUS
  <2>2. CASE stat' = NoStat
    BY <2>1, <2>2 DEF NoStat, Stats
  <2>3. CASE stat' = [NoStat EXCEPT !.pc = "statfs", !.p = p]
    BY <2>1, <2>3 DEF NoStat, Stats
  <2> QED BY <1>2, <2>2, <2>3 DEF BeginStats
<1>3. ASSUME NEW a \in {"abnormal", "healthy"}, Answer(a)
      PROVE  stat' \in Stats /\ (stat'.pc # "idle" => stat'.p \in Pods)
  <2>1. NoReq \in Pods \cup {NoReq}
    OBVIOUS
  <2>2. stat' \in Stats
    BY <1>0, <1>3, <2>1 DEF Answer, Stats
  <2>3. stat'.pc = "idle"
    BY <1>0, <1>3 DEF Answer, Stats
  <2> QED BY <2>2, <2>3
<1>4. ASSUME NEW s \in {"volume", "host"}, stat.pc = "statfs",
             stat' = [stat EXCEPT !.pc = "health", !.saw = s]
      PROVE  stat' \in Stats /\ (stat'.pc # "idle" => stat'.p \in Pods)
  BY <1>0, <1>4 DEF NodeTypeInv, Stats
<1>5. CASE GetFilesystemStats
  <2>1. ASSUME tgt[stat.p] # <<>>, stat.p \in Pods
        PROVE  Top(stat.p).src \in {"volume", "host"}
    <3>1. tgt[stat.p] \in Seq(Mounts)
      BY <2>1 DEF NodeTypeInv
    <3>2. Len(tgt[stat.p]) \in 1 .. Len(tgt[stat.p])
      BY <2>1, <3>1, EmptySeq
    <3>3. Top(stat.p) \in Mounts
      BY <3>1, <3>2, ElementOfSeq DEF Top
    <3> QED BY <3>3 DEF Mounts
  <2>2. stat.p \in Pods
    BY <1>5 DEF GetFilesystemStats, NodeTypeInv
  <2>3. (IF tgt[stat.p] = <<>> THEN "host" ELSE Top(stat.p).src) \in {"volume", "host"}
    BY <2>1, <2>2
  <2> QED BY <1>3, <1>4, <1>5, <2>3 DEF GetFilesystemStats
<1> QED BY <1>1, <1>2, <1>3, <1>5 DEF checkVolumeHealth

\* No step of the node service, the kubelet or the environment breaks a type.
LEMMA NodeTypeInvStep == NodeTypeInv /\ [Next]_vars => NodeTypeInv'
<1> SUFFICES ASSUME NodeTypeInv, [Next]_vars
             PROVE  NodeTypeInv'
  OBVIOUS
<1>0. VolumeTyped
  BY DEF NodeTypeInv, TypeOK, VolumeTyped
<1>1. ASSUME VolumeTyped', kst' \in Known, kpub' \in [Pods -> Known],
             pc' \in [Calls -> PCs], req' \in [Calls -> Requests \cup {NoReq}],
             ret' \in [Calls -> Codes], stat' \in Stats, stat'.pc # "idle" => stat'.p \in Pods,
             \A d \in Calls : ServesRequest(d)'
      PROVE  NodeTypeInv'
  BY <1>1 DEF NodeTypeInv, TypeOK, VolumeTyped
<1>2. UNCHANGED volVars => VolumeTyped'
  BY <1>0 DEF VolumeTyped, volVars
<1>3. UNCHANGED <<pc, req>> => \A d \in Calls : ServesRequest(d)'
  BY DEF NodeTypeInv, ServesRequest
<1>4. ASSUME NEW c \in Calls, CallStep(c), UNCHANGED stat
      PROVE  NodeTypeInv'
  <2>1. ASSUME NEW r \in Requests, Begin(c, r)
        PROVE  NodeTypeInv'
    <3>1. req' \in [Calls -> Requests \cup {NoReq}]
      BY <2>1, BeginTyped DEF NodeTypeInv, TypeOK
    <3> QED BY <1>1, <1>2, <1>4, <2>1, <3>1, BeginTyped DEF NodeTypeInv, TypeOK
  <2>2. CASE HandlerStep(c)
    <3>1. VolumeTyped'
      <4>1. CASE StageStep(c) \/ UnstageStep(c)
        BY <1>0, <4>1, StageKeepsVolume, UnstageKeepsVolume
      <4>2. CASE PublishStep(c) \/ UnpublishStep(c)
        <5>1. pc[c] \in PublishPCs \cup UnpublishPCs
          BY <4>2, PublishMoves, UnpublishMoves
        <5>2. req[c].p \in Pods
          BY <5>1, RequestHasTarget DEF NodeTypeInv, ServesRequest, PublishPCs, UnpublishPCs
        <5> QED BY <1>0, <4>2, <5>2, PublishKeepsVolume, UnpublishKeepsVolume
      <4> QED BY <2>2, <4>1, <4>2 DEF HandlerStep
    <3> QED BY <1>1, <1>4, <2>2, <3>1, HandlerKeepsCalls DEF NodeTypeInv, TypeOK, kubeletVars
  <2>3. CASE Reply(c)
    <3>1. /\ pc' \in [Calls -> PCs] /\ ret' \in [Calls -> Codes]
          /\ req' \in [Calls -> Requests \cup {NoReq}]
      BY <2>3, ReplyTyped DEF NodeTypeInv, TypeOK, PCs, Codes
    <3> QED BY <1>1, <1>2, <1>4, <2>3, <3>1, ReplyTyped DEF NodeTypeInv, TypeOK
  <2> QED BY <1>4, <2>1, <2>2, <2>3 DEF CallStep, HandlerStep
<1>5. CASE (\E p \in Pods : BeginStats(p)) \/ GetFilesystemStats \/ checkVolumeHealth
  BY <1>1, <1>2, <1>3, <1>5, StatsTyped DEF NodeTypeInv, TypeOK, kubeletVars
<1>6. CASE Crash
  <2>1. /\ pc' \in [Calls -> PCs] /\ ret' \in [Calls -> Codes]
        /\ req' \in [Calls -> Requests \cup {NoReq}]
        /\ stat' \in Stats /\ stat'.pc = "idle"
    BY <1>6 DEF Crash, PCs, Codes, NoStat, Stats
  <2>2. \A d \in Calls : ServesRequest(d)'
    BY <1>6 DEF Crash, ServesRequest, StagePCs, UnstagePCs, PublishPCs, UnpublishPCs
  <2> QED BY <1>1, <1>2, <1>6, <2>1, <2>2 DEF Crash, NodeTypeInv, TypeOK, kubeletVars
<1>7. CASE ((\E p \in Pods : PodWrites(p)) \/ Damage) /\ UNCHANGED stat
  <2>1. /\ written' \in BOOLEAN /\ content' \in Content
        /\ UNCHANGED <<kind, lost, stg, tgt, kubeletVars, pc, req, ret, stat>>
    BY <1>0, <1>7 DEF PodWrites, Damage, Content, VolumeTyped
  <2>2. VolumeTyped'
    BY <1>0, <2>1 DEF VolumeTyped
  <2> QED BY <1>1, <1>3, <2>1, <2>2 DEF NodeTypeInv, TypeOK, kubeletVars
<1>8. CASE UNCHANGED vars
  BY <1>1, <1>2, <1>3, <1>8 DEF vars, kubeletVars, NodeTypeInv, TypeOK
<1> QED BY <1>4, <1>5, <1>6, <1>7, <1>8 DEF Next

\* A volume that was never on the node.
LEMMA NodeTypeInvInit == Init => NodeTypeInv
<1> SUFFICES ASSUME Init
             PROVE  NodeTypeInv
  OBVIOUS
<1>1. tgt \in [Pods -> Seq(Mounts)] /\ \A p \in Pods : Len(tgt[p]) <= MaxStack
  BY EmptySeq, NodeConstants DEF Init
<1>2. stat \in Stats /\ stat.pc = "idle"
  BY DEF Init, NoStat, Stats
<1>3. \A c \in Calls : ServesRequest(c)
  BY DEF Init, ServesRequest, StagePCs, UnstagePCs, PublishPCs, UnpublishPCs
<1>4. stg \in 0..MaxStack
  BY NodeConstants DEF Init
<1> QED BY <1>1, <1>2, <1>3, <1>4 DEF Init, NodeTypeInv, TypeOK, Content, Known, PCs, Codes

\* Every variable of the node service keeps its type, and no path ever carries
\* more mounts than the kernel accepts (pkg/node/node.go), whatever overlaps
\* and whatever fails.
THEOREM NodeTypes == Spec => []TypeOK
<1>1. NodeTypeInv => TypeOK
  BY DEF NodeTypeInv
<1> QED BY <1>1, NodeTypeInvInit, NodeTypeInvStep, PTL DEF Spec

-----------------------------------------------------------------------------
(***************************************************************************)
(* Safety, where the node service can rely on what its checks tell it.     *)
(***************************************************************************)
ChecksReliable == ~RepeatsOverlap /\ Fallible \cap {"probe", "mounts"} = {}

\* Then IsMountPoint tells what is mounted.
LEMMA MountTableRead ==
    ASSUME ChecksReliable, NEW depth \in Nat, NEW mounted \in IsMountPoint(depth)
    PROVE  mounted <=> depth # 0
<1>1. IsMountPoint(depth) = {depth > 0}
  BY DEF ChecksReliable, IsMountPoint
<1>2. mounted = (depth > 0)
  BY <1>1, Zenon
<1>3. (depth > 0) <=> depth # 0
  OBVIOUS
<1> QED BY <1>2, <1>3, Zenon

\* While a handler runs the others are idle, and its step leaves them so.
LEMMA OthersIdle ==
    ASSUME NodeInv, NEW c \in Calls, pc[c] # "idle",
           \A d \in Calls : d # c => pc'[d] = pc[d]
    PROVE  OneHandler' /\ \A d \in Calls : d # c => HandlerFacts(d)'
BY DEF NodeInv, OneHandler, Active, HandlerFacts

\* What the steps of NodeStageVolume do to the volume: one mount at most, and
\* mkfs only where blkid has found nothing.
LEMMA StageEffect ==
    ASSUME ChecksReliable, NodeInv, NEW c \in Calls, StageStep(c)
    PROVE  /\ UNCHANGED tgt
           /\ stg' = stg \/ stg' = 1
           /\ StageFacts(c)'
           /\ DataOnFilesystem' /\ DataNeverDestroyed'
<1>0. /\ pc[c] \in StagePCs /\ req[c].op = "stage" /\ UNCHANGED <<req, kubeletVars>>
      /\ StageFacts(c)
  BY StageMoves DEF NodeInv, NodeTypeInv, Moves, ServesRequest, HandlerFacts, Active, StagePCs
<1>a. pc \in [Calls -> PCs] /\ ret \in [Calls -> Codes] /\ stg \in {0, 1} /\ DataOnFilesystem
      /\ DataNeverDestroyed /\ kind \in {"block", "mount"}
  BY DEF NodeInv, NodeTypeInv, TypeOK, SingleMounts
<1>b. UNCHANGED volVars => DataOnFilesystem' /\ DataNeverDestroyed'
  BY <1>a DEF volVars, DataOnFilesystem, DataNeverDestroyed
<1>1. CASE StageCheck(c)
  <2>1. \/ stg = 1 /\ Return(c, "OK")
        \/ stg = 0 /\ Goto(c, "waitDevice")
        \/ Return(c, "InvalidArgument")
    <3>1. PICK mounted \in IsMountPoint(stg) :
             IF mounted THEN Return(c, "OK")
             ELSE Goto(c, "waitDevice") \/ Return(c, "InvalidArgument")
      BY <1>1, Zenon DEF StageCheck
    <3>2. mounted <=> stg # 0
      BY <1>a, MountTableRead
    <3> QED BY <1>a, <3>1, <3>2
  <2>2. UNCHANGED volVars
    BY <1>1 DEF StageCheck
  <2>3. StageFacts(c)'
    BY <1>0, <1>a, <2>1, <2>2 DEF StageFacts, Goto, Return, volVars, kubeletVars, StagePCs
  <2> QED BY <1>b, <2>2, <2>3 DEF volVars
<1>2. CASE WaitForDevice(c)
  <2>1. UNCHANGED volVars
    BY <1>2 DEF WaitForDevice
  <2>2. StageFacts(c)'
    BY <1>0, <1>a, <1>2, <2>1 DEF WaitForDevice, StageFacts, Goto, Return, volVars, kubeletVars,
                                  StagePCs
  <2> QED BY <1>b, <2>1, <2>2 DEF volVars
<1>3. CASE MountDevice(c) /\ pc[c] \in StagePCs \ {"stageCheck"}
  <2>1. /\ stg' = 1 /\ UNCHANGED <<kind, content, written, lost, tgt>>
        /\ kind = "mount" => content = "clean"
    BY <1>0, <1>3 DEF MountDevice, Mountable, IsBlock, StageFacts
  <2>2. StageFacts(c)'
    BY <1>0, <1>a, <1>3, <2>1 DEF MountDevice, StageFacts, Return, kubeletVars, StagePCs
  <2> QED BY <1>a, <2>1, <2>2 DEF DataOnFilesystem, DataNeverDestroyed
<1>4. CASE /\ StageMount(c) \/ RepairedMount(c) \/ FormattedMount(c)
           /\ ~MountDevice(c)
  <2>1. UNCHANGED volVars
    BY <1>4 DEF StageMount, RepairedMount, FormattedMount
  <2>2. \/ \E code \in {"Internal", "FailedPrecondition"} : Return(c, code)
        \/ kind = "mount" /\ pc[c] = "stageMount" /\ Goto(c, "probe")
    BY <1>a, <1>4 DEF StageMount, RepairedMount, FormattedMount, MountErrorReported, IsBlock
  <2>3. StageFacts(c)'
    BY <1>0, <1>a, <2>1, <2>2 DEF StageFacts, Goto, Return, volVars, kubeletVars, StagePCs
  <2> QED BY <1>b, <2>1, <2>3 DEF volVars
<1>5. CASE ProbeDevice(c)
  <2>1. UNCHANGED volVars
    BY <1>5 DEF ProbeDevice
  <2>2. IsDeviceFormatted = {content # "blank"}
    BY DEF IsDeviceFormatted, FilesystemSignature, ChecksReliable
  <2>3. Goto(c, IF content # "blank" THEN "repair" ELSE "format")
    BY <1>5, <2>2 DEF ProbeDevice
  <2>4. StageFacts(c)'
    BY <1>0, <1>a, <1>5, <2>1, <2>3 DEF ProbeDevice, StageFacts, Goto, volVars, kubeletVars,
                                        StagePCs
  <2> QED BY <1>b, <2>1, <2>4 DEF volVars
<1>6. CASE RepairFilesystem(c)
  <2>1. /\ content' = content \/ content' = "clean"
        /\ UNCHANGED <<kind, written, lost, stg, tgt>>
        /\ \/ Goto(c, "repairedMount")
           \/ \E code \in {"FailedPrecondition", "DeadlineExceeded"} : Return(c, code)
    BY <1>6 DEF RepairFilesystem
  <2>2. StageFacts(c)'
    BY <1>0, <1>a, <1>6, <2>1 DEF RepairFilesystem, StageFacts, Goto, Return, kubeletVars,
                                  StagePCs
  <2> QED BY <1>a, <2>1, <2>2 DEF DataOnFilesystem, DataNeverDestroyed
<1>7. CASE FormatDevice(c)
  <2>1. kind = "mount" /\ content = "blank" /\ ~written /\ stg = 0
    BY <1>0, <1>a, <1>7 DEF FormatDevice, StageFacts, StagePCs, DataOnFilesystem
  <2>2. \A p \in Pods : tgt[p] = <<>>
    BY <1>a, <2>1 DEF DataOnFilesystem
  <2>3. UNCHANGED <<kind, stg, tgt>>
    BY <1>7 DEF FormatDevice
  <2>6. ~written' /\ ~lost'
    <3>1. CASE written' = FALSE /\ lost' = (lost \/ written)
      BY <1>a, <2>1, <3>1, Zenon DEF DataNeverDestroyed
    <3>2. CASE UNCHANGED <<written, lost>>
      BY <1>a, <2>1, <3>2 DEF DataNeverDestroyed
    <3> QED BY <1>7, <3>1, <3>2, Zenon DEF FormatDevice
  <2>4. \/ Goto(c, "formattedMount")
        \/ Return(c, "Internal")
    BY <1>7 DEF FormatDevice
  <2>5. StageFacts(c)'
    BY <1>0, <1>a, <1>7, <2>1, <2>3, <2>4 DEF FormatDevice, StageFacts, Goto, Return,
                                              kubeletVars, StagePCs
  <2> QED BY <1>a, <2>1, <2>2, <2>3, <2>5, <2>6 DEF DataOnFilesystem, DataNeverDestroyed
<1> QED BY <1>1, <1>2, <1>3, <1>4, <1>5, <1>6, <1>7
        DEF StageStep, StageMount, RepairedMount, FormattedMount, StagePCs

\* NodeUnstageVolume gives up the mount while the kubelet believes in nothing,
\* and removes the path once it carries none.
LEMMA UnstageEffect ==
    ASSUME ChecksReliable, NodeInv, NEW c \in Calls, UnstageStep(c)
    PROVE  /\ UNCHANGED <<kind, content, tgt>>
           /\ stg' = stg \/ stg' = 0
           /\ kst = "maybe"
           /\ UnstageFacts(c)'
           /\ (written' => written) /\ DataNeverDestroyed'
<1>0. /\ pc[c] \in UnstagePCs /\ req[c].op = "unstage" /\ UNCHANGED <<req, kubeletVars>>
      /\ UnstageFacts(c)
  BY UnstageMoves DEF NodeInv, NodeTypeInv, Moves, ServesRequest, HandlerFacts, Active,
                      UnstagePCs
<1>a. /\ pc \in [Calls -> PCs] /\ ret \in [Calls -> Codes] /\ stg \in {0, 1}
      /\ DataNeverDestroyed
  BY DEF NodeInv, NodeTypeInv, TypeOK, SingleMounts
<1>b. kst = "maybe"
  BY <1>0 DEF UnstageFacts
<1>1. CASE UnstageCheck(c)
  <2>1. \/ stg = 0 /\ Goto(c, "unstageRemove")
        \/ Goto(c, "unstageUnmount")
    <3>1. PICK mounted \in IsMountPoint(stg) :
             Goto(c, IF mounted THEN "unstageUnmount" ELSE "unstageRemove")
      BY <1>1, Zenon DEF UnstageCheck
    <3>2. mounted <=> stg # 0
      BY <1>a, MountTableRead
    <3> QED BY <1>a, <3>1, <3>2
  <2>2. UNCHANGED volVars
    BY <1>1 DEF UnstageCheck
  <2>3. UnstageFacts(c)'
    BY <1>0, <1>a, <2>1, <2>2 DEF UnstageFacts, Goto, volVars, kubeletVars
  <2> QED BY <1>a, <1>b, <2>2, <2>3 DEF volVars, DataNeverDestroyed
<1>2. CASE UnstageUnmount(c)
  <2>1. /\ UNCHANGED <<kind, content, written, lost, tgt>>
        /\ \/ stg' = 0 /\ Goto(c, "unstageRemove")
           \/ stg' = stg /\ Return(c, "Internal")
    BY <1>a, <1>2 DEF UnstageUnmount, UnmountErrorReported
  <2>2. UnstageFacts(c)'
    BY <1>0, <1>a, <2>1 DEF UnstageFacts, Goto, Return, kubeletVars
  <2> QED BY <1>a, <1>b, <2>1, <2>2 DEF DataNeverDestroyed
<1>3. CASE UnstageRemove(c)
  <2>1. stg = 0 /\ UNCHANGED <<kind, content, stg, tgt>> /\ Return(c, "OK")
    BY <1>0, <1>3 DEF UnstageRemove, UnstageFacts
  <2>2. ~(stg > 0)
    BY <2>1
  <2>3. (written' => written) /\ (lost' => lost)
    BY <1>3, <2>2, Zenon DEF UnstageRemove, RemoveAll
  <2>4. UnstageFacts(c)'
    BY <1>0, <1>a, <2>1 DEF UnstageFacts, Return, kubeletVars
  <2> QED BY <1>a, <1>b, <2>1, <2>3, <2>4 DEF DataNeverDestroyed
<1> QED BY <1>1, <1>2, <1>3 DEF UnstageStep

\* NodePublishVolume mounts a target that is not mounted, and mounts the volume
\* because it is staged.
LEMMA PublishEffect ==
    ASSUME ChecksReliable, NodeInv, NEW c \in Calls, PublishStep(c), UNCHANGED stat
    PROVE  /\ UNCHANGED <<kind, content, written, lost, stg>>
           /\ req[c].p \in Pods /\ kst = "yes" /\ kpub[req[c].p] # "no"
           /\ \A p \in Pods : p # req[c].p => tgt'[p] = tgt[p]
           /\ tgt[req[c].p] # <<>> => tgt'[req[c].p] # <<>>
           /\ tgt'[req[c].p] # tgt[req[c].p] =>
                 /\ tgt'[req[c].p] # <<>> /\ Len(tgt'[req[c].p]) = 1
                 /\ Top(req[c].p)'.src = "volume"
                 /\ tgt[req[c].p] = <<>> => kpub[req[c].p] = "maybe"
           /\ PublishFacts(c)'
<1> DEFINE p == req[c].p
<1>0. /\ pc[c] \in PublishPCs /\ req[c].op = "publish" /\ UNCHANGED <<req, kubeletVars>>
      /\ PublishFacts(c) /\ req[c] \in Requests
  BY PublishMoves DEF NodeInv, NodeTypeInv, Moves, ServesRequest, HandlerFacts, Active,
                      PublishPCs
<1>1. p \in Pods
  BY <1>0, RequestHasTarget
<1>2. /\ pc \in [Calls -> PCs] /\ ret \in [Calls -> Codes] /\ tgt \in [Pods -> Seq(Mounts)]
      /\ stg = 1 /\ kst = "yes" /\ kpub[p] \in {"yes", "maybe"}
  BY <1>0, <1>1 DEF NodeInv, NodeTypeInv, TypeOK, PublishFacts, KubeletKnows, Known
<1>3. CASE PublishCheck(c)
  <2>1. \/ tgt[p] # <<>> /\ Return(c, "OK")
        \/ tgt[p] = <<>> /\ Goto(c, "bind")
        \/ Return(c, "InvalidArgument")
    <3>1. PICK mounted \in IsMountPoint(Len(tgt[p])) :
             IF mounted THEN Return(c, "OK")
             ELSE IF IsBlock /\ p \in ReadOnlyPods
             THEN Return(c, "InvalidArgument")
             ELSE Goto(c, "bind")
      BY <1>3, Zenon DEF PublishCheck
    <3>2. Len(tgt[p]) \in Nat /\ (Len(tgt[p]) # 0 <=> tgt[p] # <<>>)
      BY <1>1, <1>2, EmptySeq, LenProperties
    <3>3. mounted <=> tgt[p] # <<>>
      BY <3>2, MountTableRead
    <3> QED BY <3>1, <3>3
  <2>2. UNCHANGED volVars
    BY <1>3 DEF PublishCheck
  <2>3. PublishFacts(c)'
    BY <1>0, <1>2, <2>1, <2>2 DEF PublishFacts, Goto, Return, volVars, kubeletVars
  <2> QED BY <1>1, <1>2, <2>2, <2>3 DEF volVars
<1>4. CASE BindTarget(c)
  <2> DEFINE m == [src |-> "volume", ro |-> FALSE]
  <2>1. m \in Mounts /\ m.src = "volume"
    BY DEF Mounts
  <2>2. tgt[p] = <<>>
    BY <1>0, <1>4 DEF BindTarget, PublishFacts
  <2>3. \/ /\ tgt' = [tgt EXCEPT ![p] = Append(tgt[p], m)]
           /\ Goto(c, "remount") \/ Return(c, "OK")
        \/ Return(c, "Internal") /\ UNCHANGED tgt
    BY <1>2, <1>4 DEF BindTarget
  <2> HIDE DEF m
  <2> DEFINE t == Append(tgt[p], m)
  <2>4. t # <<>> /\ Len(t) = 1 /\ t[Len(t)] = m
    BY <1>1, <1>2, <2>1, <2>2, StackPush, EmptySeq
  <2> HIDE DEF t
  <2>5. UNCHANGED <<kind, content, written, lost, stg>>
    BY <1>4 DEF BindTarget
  <2>6. CASE Return(c, "Internal") /\ UNCHANGED tgt
    <3>1. PublishFacts(c)'
      BY <1>0, <1>2, <2>6 DEF PublishFacts, Return, kubeletVars
    <3> QED BY <1>1, <1>2, <2>5, <2>6, <3>1
  <2>7. CASE tgt' = [tgt EXCEPT ![p] = t] /\ (Goto(c, "remount") \/ Return(c, "OK"))
    <3>1. tgt'[p] = t /\ \A q \in Pods : q # p => tgt'[q] = tgt[q]
      BY <1>1, <1>2, <2>7
    <3>2. Top(p)'.src = "volume"
      BY <1>0, <2>1, <2>4, <3>1 DEF Top
    <3>3. kpub[p] = "maybe"
      BY <1>1, <1>2, <2>2 DEF NodeInv, KubeletKnows
    <3>4. PublishFacts(c)'
      BY <1>0, <1>2, <2>4, <2>7, <3>1 DEF PublishFacts, Goto, Return, kubeletVars
    <3> QED BY <1>1, <1>2, <2>2, <2>4, <2>5, <3>1, <3>2, <3>3, <3>4
  <2> QED BY <2>3, <2>6, <2>7 DEF t
<1>5. CASE RemountReadOnly(c)
  <2>1. tgt[p] # <<>> /\ Len(tgt[p]) = 1 /\ Top(p).src = "volume"
    BY <1>0, <1>1, <1>5 DEF RemountReadOnly, PublishFacts, NodeInv, SingleMounts
  <2>2. /\ Return(c, "OK") /\ UNCHANGED <<kind, content, written, lost, stg>>
        /\ \/ UNCHANGED tgt
           \/ tgt' = [tgt EXCEPT ![p] = [tgt[p] EXCEPT ![Len(tgt[p])].ro = TRUE]]
    BY <1>5 DEF RemountReadOnly
  <2> DEFINE t == [tgt[p] EXCEPT ![Len(tgt[p])].ro = TRUE]
  <2>3. t # <<>> /\ Len(t) = 1 /\ t[Len(t)].src = "volume"
    BY <1>1, <1>2, <2>1, StackRemount DEF Top
  <2> HIDE DEF t
  <2>4. CASE UNCHANGED tgt
    <3>1. PublishFacts(c)'
      BY <1>0, <1>2, <2>1, <2>2, <2>4 DEF PublishFacts, Return, kubeletVars
    <3> QED BY <1>1, <1>2, <2>2, <2>4, <3>1
  <2>5. CASE tgt' = [tgt EXCEPT ![p] = t]
    <3>1. tgt'[p] = t /\ \A q \in Pods : q # p => tgt'[q] = tgt[q]
      BY <1>1, <1>2, <2>5
    <3>2. Top(p)'.src = "volume"
      BY <1>0, <2>3, <3>1 DEF Top
    <3>3. PublishFacts(c)'
      BY <1>0, <1>2, <2>2, <2>3, <3>1 DEF PublishFacts, Return, kubeletVars
    <3> QED BY <1>1, <1>2, <2>1, <2>2, <2>3, <3>1, <3>2, <3>3
  <2> QED BY <2>2, <2>4, <2>5 DEF t
<1> QED BY <1>3, <1>4, <1>5 DEF PublishStep

\* NodeUnpublishVolume gives up the mount of a target that the kubelet no longer
\* relies on, and removes the path once it carries none.
LEMMA UnpublishEffect ==
    ASSUME ChecksReliable, NodeInv, NEW c \in Calls, UnpublishStep(c)
    PROVE  /\ UNCHANGED <<kind, content, stg>>
           /\ req[c].p \in Pods /\ kpub[req[c].p] = "maybe"
           /\ \A p \in Pods : p # req[c].p => tgt'[p] = tgt[p]
           /\ tgt'[req[c].p] = tgt[req[c].p] \/ tgt'[req[c].p] = <<>>
           /\ (written' => written) /\ DataNeverDestroyed'
           /\ UnpublishFacts(c)'
<1> DEFINE p == req[c].p
<1>0. /\ pc[c] \in UnpublishPCs /\ req[c].op = "unpublish" /\ UNCHANGED <<req, kubeletVars>>
      /\ UnpublishFacts(c) /\ req[c] \in Requests
  BY UnpublishMoves DEF NodeInv, NodeTypeInv, Moves, ServesRequest, HandlerFacts, Active,
                        UnpublishPCs
<1>1. p \in Pods
  BY <1>0, RequestHasTarget
<1>2. /\ pc \in [Calls -> PCs] /\ ret \in [Calls -> Codes] /\ tgt \in [Pods -> Seq(Mounts)]
      /\ kpub[p] = "maybe" /\ DataNeverDestroyed
      /\ tgt[p] # <<>> => Len(tgt[p]) = 1
  BY <1>0, <1>1 DEF NodeInv, NodeTypeInv, TypeOK, UnpublishFacts, SingleMounts
<1>3. CASE UnpublishCheck(c)
  <2>1. \/ tgt[p] = <<>> /\ Goto(c, "unpublishRemove")
        \/ Goto(c, "unpublishUnmount")
    <3>1. PICK mounted \in IsMountPoint(Len(tgt[p])) :
             Goto(c, IF mounted THEN "unpublishUnmount" ELSE "unpublishRemove")
      BY <1>3, Zenon DEF UnpublishCheck
    <3>2. Len(tgt[p]) \in Nat /\ (Len(tgt[p]) # 0 <=> tgt[p] # <<>>)
      BY <1>1, <1>2, EmptySeq, LenProperties
    <3>3. mounted <=> tgt[p] # <<>>
      BY <3>2, MountTableRead
    <3> QED BY <3>1, <3>3
  <2>2. UNCHANGED volVars
    BY <1>3 DEF UnpublishCheck
  <2>3. UnpublishFacts(c)'
    BY <1>0, <1>2, <2>1, <2>2 DEF UnpublishFacts, Goto, volVars, kubeletVars
  <2> QED BY <1>1, <1>2, <2>2, <2>3 DEF volVars, DataNeverDestroyed
<1>4. CASE UnpublishUnmount(c)
  <2> DEFINE t == IF tgt[p] = <<>> THEN tgt[p] ELSE SubSeq(tgt[p], 1, Len(tgt[p]) - 1)
  <2>1. /\ UNCHANGED <<kind, content, written, lost, stg>>
        /\ \/ tgt' = [tgt EXCEPT ![p] = t] /\ Goto(c, "unpublishRemove")
           \/ UNCHANGED tgt /\ Return(c, "Internal")
    BY <1>4 DEF UnpublishUnmount, UnmountErrorReported
  <2>2. t = <<>>
    <3>1. CASE tgt[p] # <<>>
      <4>1. /\ SubSeq(tgt[p], 1, Len(tgt[p]) - 1) \in Seq(Mounts)
            /\ Len(SubSeq(tgt[p], 1, Len(tgt[p]) - 1)) = 0
        BY <1>1, <1>2, <3>1, StackPop
      <4>2. SubSeq(tgt[p], 1, Len(tgt[p]) - 1) = <<>>
        BY <4>1, EmptySeq
      <4> QED BY <3>1, <4>2, Zenon
    <3> QED BY <3>1, Zenon
  <2> HIDE DEF t
  <2>3. /\ \A q \in Pods : q # p => tgt'[q] = tgt[q]
        /\ \/ tgt'[p] = <<>> /\ Goto(c, "unpublishRemove")
           \/ tgt'[p] = tgt[p] /\ Return(c, "Internal")
    BY <1>1, <1>2, <2>1, <2>2
  <2>4. UnpublishFacts(c)'
    BY <1>0, <1>2, <2>3 DEF UnpublishFacts, Goto, Return, kubeletVars
  <2> QED BY <1>1, <1>2, <2>1, <2>3, <2>4 DEF DataNeverDestroyed
<1>5. CASE UnpublishRemove(c)
  <2>1. tgt[p] = <<>> /\ UNCHANGED <<kind, content, stg, tgt>> /\ Return(c, "OK")
    BY <1>0, <1>5 DEF UnpublishRemove, UnpublishFacts
  <2>2. (written' => written) /\ (lost' => lost)
    BY <1>5, <2>1, Zenon DEF UnpublishRemove, RemoveAll
  <2>3. UnpublishFacts(c)'
    BY <1>0, <1>2, <2>1 DEF UnpublishFacts, Return, kubeletVars
  <2> QED BY <1>1, <1>2, <2>1, <2>2, <2>3 DEF DataNeverDestroyed
<1> QED BY <1>3, <1>4, <1>5 DEF UnpublishStep

\* Hence no step of a handler breaks the invariant.
LEMMA HandlerSafe ==
    ASSUME ChecksReliable, NodeInv, NodeTypeInv', NEW c \in Calls, HandlerStep(c),
           UNCHANGED stat
    PROVE  NodeInv'
<1> USE DEF NodeInv
<1>0. /\ UNCHANGED <<req, kubeletVars>> /\ pc[c] # "idle"
      /\ \A d \in Calls : d # c => pc'[d] = pc[d]
  <2>1. ASSUME NEW S, Moves(c, S)
        PROVE  UNCHANGED req /\ \A d \in Calls : d # c => pc'[d] = pc[d]
    BY <2>1 DEF Moves, Goto, Return, NodeTypeInv, TypeOK
  <2>2. UNCHANGED kubeletVars /\ \E S : Moves(c, S)
    BY StageMoves, UnstageMoves, PublishMoves, UnpublishMoves DEF HandlerStep
  <2>3. pc[c] # "idle"
    BY StageMoves, UnstageMoves, PublishMoves, UnpublishMoves
       DEF HandlerStep, StagePCs, UnstagePCs, PublishPCs, UnpublishPCs
  <2> QED BY <2>1, <2>2, <2>3
<1>1. OneHandler' /\ \A d \in Calls : d # c => HandlerFacts(d)'
  BY <1>0, OthersIdle
<1>2. CASE StageStep(c)
  <2>1. req[c].op = "stage" /\ StageFacts(c)
    BY <1>0, <1>2, StageMoves DEF NodeTypeInv, ServesRequest, HandlerFacts, Active
  <2>2. HandlerFacts(c)'
    BY <1>0, <1>2, <2>1, StageEffect DEF HandlerFacts, UnstageFacts, PublishFacts,
                                         UnpublishFacts
  <2>3. SingleMounts' /\ KubeletKnows'
    BY <1>0, <1>2, <2>1, StageEffect DEF SingleMounts, KubeletKnows, StageFacts, Top,
                                         kubeletVars
  <2>4. StatsFacts'
    BY <1>2, StageEffect DEF StatsFacts
  <2> QED BY <1>1, <1>2, <2>2, <2>3, <2>4, StageEffect
<1>3. CASE UnstageStep(c)
  <2>1. req[c].op = "unstage"
    BY <1>3, UnstageMoves DEF NodeTypeInv, ServesRequest
  <2>2. HandlerFacts(c)'
    BY <1>0, <1>3, <2>1, UnstageEffect DEF HandlerFacts, StageFacts, PublishFacts,
                                           UnpublishFacts
  <2>3. SingleMounts' /\ KubeletKnows'
    BY <1>0, <1>3, UnstageEffect DEF SingleMounts, KubeletKnows, Top, kubeletVars
  <2>4. StatsFacts' /\ DataOnFilesystem'
    BY <1>3, UnstageEffect DEF StatsFacts, DataOnFilesystem
  <2> QED BY <1>1, <1>3, <2>2, <2>3, <2>4, UnstageEffect
<1>4. CASE PublishStep(c)
  <2> DEFINE p == req[c].p
  <2>1. req[c].op = "publish" /\ PublishFacts(c)
    BY <1>0, <1>4, PublishMoves DEF NodeTypeInv, ServesRequest, HandlerFacts, Active
  <2>2. HandlerFacts(c)'
    BY <1>0, <1>4, <2>1, PublishEffect DEF HandlerFacts, StageFacts, UnstageFacts,
                                           UnpublishFacts
  <2>3. /\ p \in Pods /\ \A q \in Pods : q # p => tgt'[q] = tgt[q]
        /\ UNCHANGED <<kind, content, written, lost, stg>> /\ kst = "yes" /\ kpub[p] # "no"
        /\ tgt[p] # <<>> => tgt'[p] # <<>>
        /\ tgt'[p] # tgt[p] => /\ tgt'[p] # <<>> /\ Len(tgt'[p]) = 1
                               /\ Top(p)'.src = "volume"
                               /\ tgt[p] = <<>> => kpub[p] = "maybe"
    BY <1>4, PublishEffect
  <2>4. SingleMounts'
    <3>1. ASSUME NEW q \in Pods, tgt'[q] # <<>>
          PROVE  Len(tgt'[q]) = 1 /\ Top(q)'.src = "volume"
      <4>1. CASE tgt'[q] = tgt[q]
        BY <3>1, <4>1 DEF SingleMounts, Top
      <4>2. CASE tgt'[q] # tgt[q]
        BY <1>0, <2>3, <3>1, <4>2
      <4> QED BY <4>1, <4>2
    <3> QED BY <2>3, <3>1 DEF SingleMounts
  <2>5. KubeletKnows'
    BY <1>0, <2>3 DEF KubeletKnows, kubeletVars
  <2>6. DataOnFilesystem' /\ DataNeverDestroyed'
    <3>1. kind = "mount" => content # "blank"
      BY <2>3 DEF DataOnFilesystem, KubeletKnows
    <3> QED BY <2>3, <3>1 DEF DataOnFilesystem, DataNeverDestroyed
  <2>7. StatsFacts'
    <3>1. ASSUME stat.pc = "health", tgt[stat.p] = <<>>
          PROVE  tgt'[stat.p] = <<>>
      <4>1. stat.p \in Pods /\ stat.pc # "idle"
        BY <3>1 DEF NodeTypeInv
      <4>2. stat.p = p => kpub[p] = "yes"
        BY <2>1, <4>1 DEF PublishFacts
      <4>3. stat.p # p
        BY <2>3, <3>1, <4>2 DEF KubeletKnows
      <4> QED BY <2>3, <3>1, <4>1, <4>3
    <3> QED BY <3>1 DEF StatsFacts
  <2> QED BY <1>1, <2>2, <2>4, <2>5, <2>6, <2>7
<1>5. CASE UnpublishStep(c)
  <2> DEFINE p == req[c].p
  <2>1. req[c].op = "unpublish"
    BY <1>5, UnpublishMoves DEF NodeTypeInv, ServesRequest
  <2>2. HandlerFacts(c)'
    BY <1>0, <1>5, <2>1, UnpublishEffect DEF HandlerFacts, StageFacts, UnstageFacts,
                                             PublishFacts
  <2>3. /\ p \in Pods /\ kpub[p] = "maybe" /\ UNCHANGED <<kind, content, stg>>
        /\ \A q \in Pods : tgt'[q] = tgt[q] \/ (q = p /\ tgt'[q] = <<>>)
        /\ written' => written
        /\ DataNeverDestroyed'
    BY <1>5, UnpublishEffect
  <2>4. SingleMounts' /\ KubeletKnows' /\ DataOnFilesystem'
    BY <1>0, <2>3 DEF SingleMounts, KubeletKnows, DataOnFilesystem, Top, kubeletVars
  <2>5. StatsFacts'
    BY <2>3 DEF StatsFacts, NodeTypeInv
  <2> QED BY <1>1, <2>2, <2>3, <2>4, <2>5
<1> QED BY <1>2, <1>3, <1>4, <1>5 DEF HandlerStep

\* A call begins only while no handler runs, and puts in doubt what it is about.
LEMMA BeginSafe ==
    ASSUME ChecksReliable, NodeInv, NodeTypeInv', NEW c \in Calls, NEW r \in Requests,
           Begin(c, r), UNCHANGED stat
    PROVE  NodeInv'
<1> USE DEF NodeInv
<1>0. \A d \in Calls : ~Active(d)
  BY DEF Begin, KubeletAsks, ChecksReliable
<1>1. /\ req' = [req EXCEPT ![c] = r] /\ UNCHANGED volVars
      /\ \A d \in Calls : d # c => pc'[d] = pc[d]
      /\ pc'[c] \in {FirstStep(r.op), "done"}
      /\ pc'[c] = "done" => ret'[c] = "InvalidArgument"
  BY BeginTyped
<1>2. req'[c] = r
  BY <1>1 DEF NodeTypeInv, TypeOK
<1>3. OneHandler' /\ \A d \in Calls : d # c => HandlerFacts(d)'
  BY <1>0, <1>1 DEF OneHandler, HandlerFacts, Active
<1>4. r.op \in {"stage", "unstage", "publish", "unpublish"}
  BY DEF Requests
<1>5. SingleMounts' /\ DataOnFilesystem' /\ StatsFacts' /\ DataNeverDestroyed'
  BY <1>1 DEF volVars, SingleMounts, DataOnFilesystem, StatsFacts, DataNeverDestroyed, Top
<1>6. CASE r.op = "stage"
  <2>1. UNCHANGED kpub /\ kst' = (IF kst = "yes" THEN "yes" ELSE "maybe")
    BY <1>6 DEF Begin, Doubt
  <2>2. KubeletKnows'
    BY <1>1, <2>1 DEF KubeletKnows, volVars
  <2>3. pc'[c] \in {"stageCheck", "done"}
    BY <1>1, <1>6 DEF FirstStep
  <2>4. HandlerFacts(c)'
    BY <1>1, <1>2, <1>6, <2>1, <2>3 DEF HandlerFacts, StageFacts, UnstageFacts, PublishFacts,
                                        UnpublishFacts, StagePCs
  <2> QED BY <1>3, <1>5, <2>2, <2>4
<1>7. CASE r.op = "unstage"
  <2>1. UNCHANGED kpub /\ kst' = "maybe" /\ \A p \in Pods : kpub[p] = "no"
    BY <1>7 DEF Begin, Doubt, KubeletAsks
  <2>2. KubeletKnows'
    BY <1>1, <2>1 DEF KubeletKnows, volVars
  <2>3. pc'[c] \in {"unstageCheck", "done"}
    BY <1>1, <1>7 DEF FirstStep
  <2>4. HandlerFacts(c)'
    BY <1>1, <1>2, <1>7, <2>1, <2>3 DEF HandlerFacts, StageFacts, UnstageFacts, PublishFacts,
                                        UnpublishFacts
  <2> QED BY <1>3, <1>5, <2>2, <2>4
<1>8. CASE r.op = "publish"
  <2>1. /\ UNCHANGED kst /\ kst = "yes" /\ (stat.p = r.p => kpub[r.p] = "yes")
        /\ kpub' = [kpub EXCEPT ![r.p] = IF kpub[r.p] = "yes" THEN "yes" ELSE "maybe"]
    BY <1>8 DEF Begin, Doubt, KubeletAsks
  <2>2. r.p \in Pods /\ kpub \in [Pods -> Known]
    BY <1>8, RequestHasTarget DEF NodeTypeInv, TypeOK
  <2>3. KubeletKnows'
    BY <1>1, <2>1, <2>2 DEF KubeletKnows, volVars
  <2>4. pc'[c] \in {"publishCheck", "done"}
    BY <1>1, <1>8 DEF FirstStep
  <2>5. HandlerFacts(c)'
    BY <1>1, <1>2, <1>8, <2>1, <2>2, <2>4 DEF HandlerFacts, StageFacts, UnstageFacts,
                                              PublishFacts, UnpublishFacts
  <2> QED BY <1>3, <1>5, <2>3, <2>5
<1>9. CASE r.op = "unpublish"
  <2>1. UNCHANGED kst /\ kpub' = [kpub EXCEPT ![r.p] = "maybe"]
    BY <1>9 DEF Begin, Doubt
  <2>2. r.p \in Pods /\ kpub \in [Pods -> Known]
    BY <1>9, RequestHasTarget DEF NodeTypeInv, TypeOK
  <2>3. KubeletKnows'
    BY <1>1, <2>1, <2>2 DEF KubeletKnows, volVars
  <2>4. pc'[c] \in {"unpublishCheck", "done"}
    BY <1>1, <1>9 DEF FirstStep
  <2>5. HandlerFacts(c)'
    BY <1>1, <1>2, <1>9, <2>1, <2>2, <2>4 DEF HandlerFacts, StageFacts, UnstageFacts,
                                              PublishFacts, UnpublishFacts
  <2> QED BY <1>3, <1>5, <2>3, <2>5
<1> QED BY <1>4, <1>6, <1>7, <1>8, <1>9

\* What the kubelet takes from an answer is true of the mounts.
LEMMA ReplySafe ==
    ASSUME NodeInv, NodeTypeInv', NEW c \in Calls, Reply(c), UNCHANGED stat
    PROVE  NodeInv'
<1> USE DEF NodeInv
<1>0. /\ pc' = [pc EXCEPT ![c] = "idle"] /\ UNCHANGED volVars
      /\ pc[c] = "done" /\ req[c] \in Requests /\ HandlerFacts(c) /\ Active(c)
  BY ReplyTyped DEF Reply, NodeTypeInv, ServesRequest, Active
<1>1. \A d \in Calls : pc'[d] = "idle"
  BY <1>0 DEF OneHandler, Active, NodeTypeInv, TypeOK
<1>2. OneHandler' /\ \A d \in Calls : HandlerFacts(d)'
  BY <1>1 DEF OneHandler, HandlerFacts, Active
<1>3. SingleMounts' /\ DataOnFilesystem' /\ StatsFacts' /\ DataNeverDestroyed'
  BY <1>0 DEF volVars, SingleMounts, DataOnFilesystem, StatsFacts, DataNeverDestroyed, Top
<1>4. KubeletKnows'
  <2>0. req[c].op \in {"stage", "unstage", "publish", "unpublish"}
    BY <1>0 DEF Requests
  <2>1. CASE ret[c] # "OK"
    BY <1>0, <2>1 DEF Reply, KubeletKnows, volVars, kubeletVars
  <2>2. CASE ret[c] = "OK" /\ req[c].op = "stage"
    BY <1>0, <2>2 DEF Reply, KubeletKnows, volVars, HandlerFacts, StageFacts
  <2>3. CASE ret[c] = "OK" /\ req[c].op = "unstage"
    BY <1>0, <2>3 DEF Reply, KubeletKnows, volVars, HandlerFacts, UnstageFacts
  <2>4. CASE ret[c] = "OK" /\ req[c].op = "publish"
    <3>1. req[c].p \in Pods /\ kpub \in [Pods -> Known] /\ tgt[req[c].p] # <<>>
      BY <1>0, <2>4, RequestHasTarget DEF NodeTypeInv, TypeOK, HandlerFacts, PublishFacts
    <3>2. kpub' = [kpub EXCEPT ![req[c].p] = "yes"] /\ UNCHANGED kst
      BY <2>4 DEF Reply
    <3> QED BY <1>0, <3>1, <3>2 DEF KubeletKnows, volVars
  <2>5. CASE ret[c] = "OK" /\ req[c].op = "unpublish"
    <3>1. req[c].p \in Pods /\ kpub \in [Pods -> Known] /\ tgt[req[c].p] = <<>>
      BY <1>0, <2>5, RequestHasTarget DEF NodeTypeInv, TypeOK, HandlerFacts, UnpublishFacts
    <3>2. kpub' = [kpub EXCEPT ![req[c].p] = "no"] /\ UNCHANGED kst
      BY <2>5 DEF Reply
    <3> QED BY <1>0, <3>1, <3>2 DEF KubeletKnows, volVars
  <2> QED BY <2>0, <2>1, <2>2, <2>3, <2>4, <2>5
<1> QED BY <1>2, <1>3, <1>4

\* Statistics: a target that is mounted again during the call was mounted at
\* its beginning, so what statfs described was the volume.
LEMMA StatsSafe ==
    ASSUME NodeInv, NodeTypeInv',
           (\E p \in Pods : BeginStats(p)) \/ GetFilesystemStats \/ checkVolumeHealth
    PROVE  NodeInv'
<1> USE DEF NodeInv
<1>0. UNCHANGED <<volVars, kubeletVars, pc, req, ret>> /\ stat \in Stats
  BY StatsTyped DEF NodeTypeInv, TypeOK
<1>1. /\ OneHandler' /\ SingleMounts' /\ KubeletKnows' /\ DataOnFilesystem'
      /\ DataNeverDestroyed'
  BY <1>0 DEF volVars, kubeletVars, OneHandler, Active, SingleMounts, KubeletKnows,
              DataOnFilesystem, DataNeverDestroyed, Top
<1>2. ASSUME \/ stat'.pc = "idle"
             \/ stat.pc # "idle" /\ stat'.p = stat.p
             \/ kpub[stat'.p] = "yes"
      PROVE  \A c \in Calls : HandlerFacts(c)'
  BY <1>0, <1>2 DEF volVars, kubeletVars, HandlerFacts, Active, StageFacts, UnstageFacts,
                    PublishFacts, UnpublishFacts
<1>3. ASSUME NEW p \in Pods, BeginStats(p)
      PROVE  NodeInv'
  <2>1. /\ stat'.pc \in {"idle", "statfs"} /\ stat'.answer = "none"
        /\ stat'.pc = "statfs" => stat'.p = p
    <3>1. CASE stat' = NoStat
      BY <3>1 DEF NoStat
    <3>2. CASE stat' = [NoStat EXCEPT !.pc = "statfs", !.p = p]
      BY <3>2 DEF NoStat
    <3> QED BY <1>3, <3>1, <3>2 DEF BeginStats
  <2>2. kpub[p] = "yes"
    BY <1>3 DEF BeginStats
  <2>3. StatsFacts'
    BY <2>1 DEF StatsFacts
  <2> QED BY <1>1, <1>2, <2>1, <2>2, <2>3
<1>4. ASSUME NEW a \in {"abnormal", "healthy"}, Answer(a), a = "healthy" => stat.saw = "volume"
      PROVE  NodeInv'
  <2>1. stat'.pc = "idle" /\ stat'.answer = a /\ stat'.saw = stat.saw
    BY <1>0, <1>4 DEF Answer, Stats
  <2>2. StatsFacts'
    BY <1>4, <2>1 DEF StatsFacts
  <2> QED BY <1>1, <1>2, <2>1, <2>2
<1>5. CASE GetFilesystemStats /\ ~Answer("abnormal")
  <2>1. stat.pc = "statfs" /\ stat.p \in Pods /\ stat.answer = "none"
    BY <1>5 DEF GetFilesystemStats, NodeTypeInv, StatsFacts
  <2> DEFINE s == IF tgt[stat.p] = <<>> THEN "host" ELSE Top(stat.p).src
  <2>2. s = "volume" \/ tgt[stat.p] = <<>>
    BY <2>1 DEF SingleMounts
  <2>3. stat' = [stat EXCEPT !.pc = "health", !.saw = s]
    BY <1>5 DEF GetFilesystemStats
  <2> HIDE DEF s
  <2>4. /\ stat'.pc = "health" /\ stat'.p = stat.p /\ stat'.answer = "none"
        /\ stat'.saw = s
    BY <1>0, <2>1, <2>3 DEF Stats
  <2>5. StatsFacts'
    BY <1>0, <2>2, <2>4 DEF StatsFacts, volVars
  <2> QED BY <1>1, <1>2, <2>1, <2>4, <2>5
<1>6. CASE checkVolumeHealth
  <2>1. Answer("healthy") => StillMounted \/ Answer("abnormal")
    BY <1>6 DEF checkVolumeHealth
  <2>2. StillMounted => stat.saw = "volume"
    BY <1>6 DEF checkVolumeHealth, StillMounted, StatsFacts
  <2> QED BY <1>4, <1>6, <2>1, <2>2 DEF checkVolumeHealth
<1> QED BY <1>3, <1>4, <1>5, <1>6

\* A crash forgets the calls, a pod writes where a filesystem is, damage leaves
\* a signature.
LEMMA EnvironmentSafe ==
    ASSUME NodeInv, NodeTypeInv',
           \/ Crash
           \/ (\E p \in Pods : PodWrites(p)) /\ UNCHANGED stat
           \/ Damage /\ UNCHANGED stat
    PROVE  NodeInv'
<1> USE DEF NodeInv
<1>1. CASE Crash
  <2>1. /\ UNCHANGED <<volVars, kubeletVars>> /\ \A c \in Calls : pc'[c] = "idle"
        /\ stat'.pc = "idle" /\ stat'.answer = "none"
    BY <1>1 DEF Crash, NoStat
  <2>2. OneHandler' /\ \A c \in Calls : HandlerFacts(c)'
    BY <2>1 DEF OneHandler, HandlerFacts, Active
  <2>3. SingleMounts' /\ KubeletKnows' /\ DataOnFilesystem' /\ DataNeverDestroyed' /\ StatsFacts'
    BY <2>1 DEF volVars, kubeletVars, SingleMounts, KubeletKnows, DataOnFilesystem,
                DataNeverDestroyed, StatsFacts, Top
  <2> QED BY <2>2, <2>3
<1>2. CASE ((\E p \in Pods : PodWrites(p)) \/ Damage) /\ UNCHANGED stat
  <2>0. content = "blank" <=> content' = "blank"
    BY <1>2 DEF PodWrites, Damage
  <2>1. UNCHANGED <<kind, lost, stg, tgt, kubeletVars, pc, req, ret, stat>>
    BY <1>2 DEF PodWrites, Damage
  <2>2. DataOnFilesystem'
    BY <1>2, <2>0, <2>1 DEF PodWrites, Damage, DataOnFilesystem
  <2>3. OneHandler' /\ SingleMounts' /\ KubeletKnows' /\ DataNeverDestroyed' /\ StatsFacts'
    BY <2>1 DEF kubeletVars, OneHandler, Active, SingleMounts, KubeletKnows,
                DataNeverDestroyed, StatsFacts, Top
  <2>4. \A c \in Calls : HandlerFacts(c)'
    BY <2>0, <2>1 DEF kubeletVars, HandlerFacts, Active, StageFacts, UnstageFacts, PublishFacts,
                UnpublishFacts
  <2> QED BY <2>2, <2>3, <2>4
<1> QED BY <1>1, <1>2

\* Every step keeps the inductive invariant.
LEMMA NodeInvStep ==
    ASSUME ChecksReliable
    PROVE  NodeInv /\ [Next]_vars => NodeInv'
<1> SUFFICES ASSUME NodeInv, [Next]_vars
             PROVE  NodeInv'
  OBVIOUS
<1>0. NodeTypeInv'
  BY NodeTypeInvStep DEF NodeInv
<1>1. ASSUME NEW c \in Calls, CallStep(c), UNCHANGED stat
      PROVE  NodeInv'
  BY <1>0, <1>1, BeginSafe, HandlerSafe, ReplySafe DEF CallStep, HandlerStep
<1>2. CASE (\E p \in Pods : BeginStats(p)) \/ GetFilesystemStats \/ checkVolumeHealth
  BY <1>0, <1>2, StatsSafe
<1>3. CASE \/ Crash
           \/ (\E p \in Pods : PodWrites(p)) /\ UNCHANGED stat
           \/ Damage /\ UNCHANGED stat
  BY <1>0, <1>3, EnvironmentSafe
<1>4. CASE UNCHANGED vars
  BY <1>0, <1>4 DEF vars, volVars, kubeletVars, NodeInv, OneHandler, Active, SingleMounts,
     KubeletKnows, DataOnFilesystem, HandlerFacts, StageFacts, UnstageFacts, PublishFacts,
     UnpublishFacts, StatsFacts, DataNeverDestroyed, Top
<1> QED BY <1>1, <1>2, <1>3, <1>4 DEF Next

\* A volume that was never on the node satisfies it.
LEMMA NodeInvInit == Init => NodeInv
<1> SUFFICES ASSUME Init
             PROVE  NodeInv
  OBVIOUS
<1>1. \A c \in Calls : ~Active(c)
  BY DEF Init, Active
<1>2. OneHandler /\ \A c \in Calls : HandlerFacts(c)
  BY <1>1 DEF OneHandler, HandlerFacts
<1>3. SingleMounts /\ KubeletKnows /\ DataOnFilesystem /\ DataNeverDestroyed
  BY DEF Init, SingleMounts, KubeletKnows, DataOnFilesystem, DataNeverDestroyed
<1>4. StatsFacts
  BY DEF Init, NoStat, StatsFacts
<1> QED BY <1>2, <1>3, <1>4, NodeTypeInvInit DEF NodeInv

-----------------------------------------------------------------------------
(***************************************************************************)
(* The theorems.                                                           *)
(***************************************************************************)

\* The inductive invariant holds where the checks are reliable.
THEOREM NodeInvHolds ==
    ASSUME ChecksReliable
    PROVE  Spec => []NodeInv
BY NodeInvInit, NodeInvStep, PTL DEF Spec

\* "We MUST NOT automatically reformat" (NodeStageVolume), nor empty a volume
\* through a path that still shows it (NodeUnstageVolume, NodeUnpublishVolume):
\* with reliable checks no sequence of calls, failures and crashes destroys
\* what a pod has stored.
THEOREM DataSafe ==
    ASSUME ChecksReliable
    PROVE  Spec => []DataNeverDestroyed
<1>1. NodeInv => DataNeverDestroyed
  BY DEF NodeInv
<1> QED BY <1>1, NodeInvHolds, PTL

\* A pod whose NodePublishVolume succeeded sees the volume until it is
\* unpublished.
THEOREM PodSeesVolume ==
    ASSUME ChecksReliable
    PROVE  Spec => []PublishedShowsVolume
<1>1. NodeInv => PublishedShowsVolume
  BY DEF NodeInv, KubeletKnows, SingleMounts, PublishedShowsVolume
<1> QED BY <1>1, NodeInvHolds, PTL

\* Once NodeUnpublishVolume and NodeUnstageVolume have reported success the
\* device is free to be detached.
THEOREM ReleasedIsUnused ==
    ASSUME ChecksReliable
    PROVE  Spec => []ReleasedMeansUnused
<1>1. NodeInv => ReleasedMeansUnused
  <2> SUFFICES ASSUME NodeInv, kst = "no", \A p \in Pods : kpub[p] = "no"
               PROVE  ~DeviceInUse
    BY DEF ReleasedMeansUnused
  <2>1. stg = 0 /\ \A p \in Pods : tgt[p] = <<>>
    BY DEF NodeInv, KubeletKnows
  <2> QED BY <2>1 DEF DeviceInUse
<1> QED BY <1>1, NodeInvHolds, PTL

\* What NodeGetVolumeStats calls healthy are the volume's figures, whatever is
\* unpublished while it runs.
THEOREM HealthyIsVolume ==
    ASSUME ChecksReliable
    PROVE  Spec => []HealthyMeansVolume
<1>1. NodeInv => HealthyMeansVolume
  BY DEF NodeInv, StatsFacts, HealthyMeansVolume
<1> QED BY <1>1, NodeInvHolds, PTL
=============================================================================
