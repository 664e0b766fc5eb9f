-------------------------- MODULE InventoryProofs ---------------------------
(***************************************************************************)
(* Paging through ListVolumes, proved for every finite set of volumes and  *)
(* every set of page sizes: a call never slices beyond its list, and a     *)
(* client that follows the tokens to the end misses no volume that was     *)
(* there the whole time, unless one was deleted meanwhile.                 *)
(***************************************************************************)
EXTENDS Inventory, FiniteSetTheorems, TLAPS

(***************************************************************************)
(* The inductive invariant.                                                *)
(***************************************************************************)
Paging == lister.pc \in {"listDisks", "listAttachments", "answered"}

\* The list that the next token counts in.
Listed == IF lister.pc = "listAttachments" THEN lister.snapshot ELSE disks

BaseExists == lister.base \subseteq disks

SnapshotCurrent ==
    lister.pc = "listAttachments" /\ ~lister.shrunk =>
        lister.base \subseteq lister.snapshot /\ lister.snapshot \subseteq disks

\* What a client has not seen is at or behind the token.
NothingSkipped ==
    Paging /\ ~lister.shrunk =>
        \A v \in lister.base : v \in lister.seen \/ Index(v, Listed) >= lister.token

ListInv ==
    /\ TypeOK
    /\ BaseExists
    /\ SnapshotCurrent
    /\ NothingSkipped
    /\ ListingComplete

-----------------------------------------------------------------------------
(***************************************************************************)
(* Positions in a list.                                                    *)
(***************************************************************************)

\* A list of volumes has a length, no greater than the number of volumes.
LEMMA ListLength ==
    ASSUME NEW S \in SUBSET Vols
    PROVE  /\ IsFiniteSet(S) /\ Cardinality(S) \in Nat /\ Cardinality(Vols) \in Nat
           /\ Cardinality(S) <= Cardinality(Vols) /\ Cardinality(S) \in 0..Cardinality(Vols)
<1>1. IsFiniteSet(Vols)
  BY InventoryConstants
<1>2. IsFiniteSet(S) /\ Cardinality(S) <= Cardinality(Vols)
  BY <1>1, FS_Subset
<1>3. Cardinality(S) \in Nat /\ Cardinality(Vols) \in Nat
  BY <1>1, <1>2, FS_CardinalityType
<1> QED BY <1>2, <1>3

\* An entry's index is within the list.
LEMMA IndexInside ==
    ASSUME NEW S \in SUBSET Vols, NEW v \in Vols
    PROVE  /\ Index(v, S) \in Nat
           /\ v \in S => Index(v, S) < Cardinality(S)
<1> DEFINE B == {w \in S : w < v}
<1>1. B \in SUBSET S /\ B \in SUBSET Vols
  OBVIOUS
<1>2. Cardinality(B) \in Nat /\ Cardinality(S) \in Nat /\ IsFiniteSet(S)
  BY <1>1, ListLength
<1>3. v \in S => B # S
  <2>1. v \in Nat /\ ~(v < v)
    BY InventoryConstants
  <2> QED BY <2>1
<1>4. Cardinality(B) <= Cardinality(S) /\ (Cardinality(S) = Cardinality(B) => S = B)
  BY <1>1, <1>2, FS_Subset
<1> QED BY <1>2, <1>3, <1>4 DEF Index

\* A volume that is created moves an entry towards the end, if at all.
LEMMA IndexGrows ==
    ASSUME NEW S \in SUBSET Vols, NEW T \in SUBSET Vols, S \subseteq T, NEW v \in Vols
    PROVE  Index(v, S) <= Index(v, T)
<1> DEFINE B == {w \in S : w < v}
           C == {w \in T : w < v}
<1>1. B \in SUBSET C /\ C \in SUBSET Vols
  OBVIOUS
<1>2. IsFiniteSet(C)
  BY <1>1, ListLength
<1>3. Cardinality(B) <= Cardinality(C)
  BY <1>1, <1>2, FS_Subset
<1> QED BY <1>3 DEF Index

-----------------------------------------------------------------------------
(***************************************************************************)
(* Steps that leave the lister to itself.                                  *)
(***************************************************************************)

\* The types of the lister's fields.
LEMMA ListerFields ==
    ASSUME TypeOK
    PROVE  /\ disks \in SUBSET Vols /\ Ready \in SUBSET Vols
           /\ lister.token \in Nat /\ lister.token <= Cardinality(Vols)
           /\ lister.max \in MaxEntries /\ lister.max \in Nat
           /\ lister.snapshot \in SUBSET Vols /\ lister.base \in SUBSET Vols
           /\ lister.seen \in SUBSET Vols /\ lister.steady \in SUBSET Vols
           /\ lister.entries \in SUBSET Vols /\ lister.published \in SUBSET Vols
           /\ lister.pc \in {"idle", "listDisks", "listAttachments", "answered", "complete"}
<1>1. lister \in Listers /\ disks \in SUBSET Vols
  BY DEF TypeOK
<1>2. lister.token \in 0..Cardinality(Vols) /\ Cardinality(Vols) \in Nat
  BY <1>1, ListLength DEF Listers
<1>3. lister.max \in MaxEntries /\ lister.max \in Nat
  BY <1>1, InventoryConstants DEF Listers
<1>4. Ready \in SUBSET Vols
  BY DEF Ready
<1>5. lister.token \in Nat /\ lister.token <= Cardinality(Vols)
  BY <1>2
<1>6. /\ lister.snapshot \in SUBSET Vols /\ lister.base \in SUBSET Vols
      /\ lister.seen \in SUBSET Vols /\ lister.steady \in SUBSET Vols
      /\ lister.entries \in SUBSET Vols /\ lister.published \in SUBSET Vols
      /\ lister.pc \in {"idle", "listDisks", "listAttachments", "answered", "complete"}
  BY <1>1 DEF Listers
<1> QED BY <1>1, <1>3, <1>4, <1>5, <1>6

\* What remains to be shown when the lister does not move and no volume goes.
LEMMA ListerWaits ==
    ASSUME ListInv, TypeOK', UNCHANGED lister, disks \subseteq disks'
    PROVE  ListInv'
<1>0. /\ disks \in SUBSET Vols /\ disks' \in SUBSET Vols /\ lister.base \in SUBSET Vols
      /\ lister.snapshot \in SUBSET Vols /\ lister.token \in Nat
  <2>1. TypeOK
    BY DEF ListInv
  <2>2. disks' \in SUBSET Vols
    BY DEF TypeOK
  <2> QED BY <2>1, <2>2, ListerFields
<1>1. BaseExists' /\ SnapshotCurrent' /\ ListingComplete'
  BY DEF ListInv, BaseExists, SnapshotCurrent, ListingComplete
<1>2. NothingSkipped'
  <2> SUFFICES ASSUME Paging, ~lister.shrunk, NEW v \in lister.base, v \notin lister.seen
               PROVE  Index(v, Listed') >= lister.token
    BY DEF NothingSkipped, Paging
  <2>1. Index(v, Listed) >= lister.token
    BY DEF ListInv, NothingSkipped
  <2>2. Listed \in SUBSET Vols /\ Listed' \in SUBSET Vols /\ Listed \subseteq Listed' /\ v \in Vols
    BY <1>0 DEF Listed
  <2>3. Index(v, Listed) <= Index(v, Listed') /\ Index(v, Listed) \in Nat
        /\ Index(v, Listed') \in Nat
    BY <2>2, IndexGrows, IndexInside
  <2> QED BY <1>0, <2>1, <2>3
<1> QED BY <1>1, <1>2 DEF ListInv

\* The collector, the handlers' part in the gauge, and what adds to the state.
LEMMA OthersKeep ==
    ASSUME ListInv,
           \/ CollectorLists \/ CollectorSets \/ Restart \/ Settle \/ UNCHANGED vars
           \/ \E v \in Vols : \/ CreateVolume(v) \/ Attaches(v) \/ BecomesReady(v)
                              \/ PublishSucceeds(v) \/ UnpublishSucceeds(v)
    PROVE  ListInv'
<1>0. /\ TypeOK /\ disks \subseteq Vols /\ att \in [Vols -> {"none", "pending", "ready"}]
      /\ lister \in Listers /\ gauge \in -MaxDrift..MaxDrift
      /\ coll \in {-1} \cup 0..Cardinality(Vols) /\ observer \in {"lister", "collector"}
  BY DEF ListInv, TypeOK
<1>1. UNCHANGED <<observer, lister>>
  BY DEF CollectorLists, CollectorSets, Restart, Settle, CreateVolume, Attaches, BecomesReady,
         PublishSucceeds, UnpublishSucceeds, MoveGauge, vars
<1>2. disks \subseteq disks' /\ disks' \subseteq Vols
  BY <1>0 DEF CollectorLists, CollectorSets, Restart, Settle, CreateVolume, Attaches, BecomesReady,
              PublishSucceeds, UnpublishSucceeds, MoveGauge, vars, stateVars
<1>3. att' \in [Vols -> {"none", "pending", "ready"}]
  BY <1>0 DEF CollectorLists, CollectorSets, Restart, Settle, CreateVolume, Attaches, BecomesReady,
              PublishSucceeds, UnpublishSucceeds, MoveGauge, vars, stateVars
<1>4. calm' \in BOOLEAN
  BY <1>0 DEF TypeOK, CollectorLists, CollectorSets, Restart, Settle, CreateVolume, Attaches,
              BecomesReady, PublishSucceeds, UnpublishSucceeds, MoveGauge, vars, gaugeVars
<1>5. Cardinality(Vols) \in Nat /\ MaxDrift \in Nat /\ Cardinality(Vols) <= MaxDrift
  BY InventoryConstants, ListLength
<1>6. coll' \in {-1} \cup 0..Cardinality(Vols)
  <2>1. Ready \in SUBSET Vols
    BY DEF Ready
  <2>2. Cardinality(Ready) \in 0..Cardinality(Vols)
    BY <2>1, ListLength
  <2>3. coll' \in {coll, -1, Cardinality(Ready)}
    BY DEF CollectorLists, CountReady, CollectorSets, Restart, Settle, CreateVolume, Attaches,
           BecomesReady, PublishSucceeds, UnpublishSucceeds, MoveGauge, vars, gaugeVars
  <2> QED BY <1>0, <2>2, <2>3
<1>7. gauge' \in -MaxDrift..MaxDrift
  <2>1. \/ gauge' \in {gauge, 0} \/ gauge' \in -MaxDrift..MaxDrift
        \/ (coll # -1 /\ gauge' = coll)
    BY DEF CollectorLists, CollectorSets, Restart, Settle, CreateVolume, Attaches,
           BecomesReady, PublishSucceeds, UnpublishSucceeds, MoveGauge, vars, gaugeVars
  <2> QED BY <1>0, <1>5, <2>1
<1>8. TypeOK'
  BY <1>0, <1>1, <1>2, <1>3, <1>4, <1>6, <1>7 DEF TypeOK
<1> QED BY <1>1, <1>2, <1>8, ListerWaits

-----------------------------------------------------------------------------
(***************************************************************************)
(* Deletions, which the lister notes.                                      *)
(***************************************************************************)
\* A volume that is detached stays listed.
LEMMA DetachesKeeps ==
    ASSUME ListInv, NEW v \in Vols, Detaches(v)
    PROVE  ListInv'
<1>0. TypeOK /\ lister \in Listers /\ UNCHANGED disks
  BY DEF ListInv, TypeOK, Detaches
<1>1. /\ lister' \in Listers
      /\ lister'.pc = lister.pc /\ lister'.token = lister.token /\ lister'.base = lister.base
      /\ lister'.seen = lister.seen /\ lister'.snapshot = lister.snapshot
      /\ lister'.shrunk = lister.shrunk
  <2>1. lister' = [lister EXCEPT !.base = @ \ {}, !.steady = @ \ {v},
                                 !.shrunk = @ \/ ({} # {} /\ lister.pc # "idle")]
    BY DEF Detaches, Note
  <2>2. lister.shrunk \in BOOLEAN
    BY <1>0 DEF Listers
  <2>3. (lister.shrunk \/ ({} # {} /\ lister.pc # "idle")) = lister.shrunk
    BY <2>2
  <2>4. lister' = [lister EXCEPT !.base = @ \ {}, !.steady = @ \ {v}, !.shrunk = lister.shrunk]
    BY <2>1, <2>3
  <2> QED BY <1>0, <2>4 DEF Listers
<1>2. TypeOK'
  BY <1>0, <1>1 DEF TypeOK, Detaches, gaugeVars
<1>3. BaseExists' /\ SnapshotCurrent' /\ ListingComplete'
  BY <1>0, <1>1 DEF ListInv, BaseExists, SnapshotCurrent, ListingComplete
<1>4. NothingSkipped'
  BY <1>0, <1>1 DEF ListInv, NothingSkipped, Paging, Listed
<1> QED BY <1>2, <1>3, <1>4 DEF ListInv

\* A deletion under way of a listing is noted, and ends what is promised of it.
LEMMA DeleteKeeps ==
    ASSUME ListInv, NEW v \in Vols, DeleteVolume(v)
    PROVE  ListInv'
<1>0. TypeOK /\ lister \in Listers /\ disks' = disks \ {v}
  BY DEF ListInv, TypeOK, DeleteVolume
<1>1. lister' = [lister EXCEPT !.base = @ \ {v}, !.steady = @ \ {},
                               !.shrunk = @ \/ ({v} # {} /\ lister.pc # "idle")]
  BY DEF DeleteVolume, Note
<1>2. (lister.shrunk \/ ({v} # {} /\ lister.pc # "idle")) \in BOOLEAN
  OBVIOUS
<1>3. lister' \in Listers /\ lister'.pc = lister.pc /\ lister'.base = lister.base \ {v}
  <2> DEFINE s == lister.shrunk \/ ({v} # {} /\ lister.pc # "idle")
  <2>1. s \in BOOLEAN
    BY <1>2
  <2>2. lister' = [lister EXCEPT !.base = @ \ {v}, !.steady = @ \ {}, !.shrunk = s]
    BY <1>1
  <2> HIDE DEF s
  <2> QED BY <1>0, <2>1, <2>2 DEF Listers
<1>4. lister.pc # "idle" => lister'.shrunk
  BY <1>0, <1>1 DEF Listers
<1>5. TypeOK'
  BY <1>0, <1>3 DEF TypeOK, DeleteVolume, gaugeVars
<1>6. BaseExists'
  BY <1>0, <1>3 DEF ListInv, BaseExists
<1>7. SnapshotCurrent' /\ NothingSkipped' /\ ListingComplete'
  BY <1>3, <1>4 DEF SnapshotCurrent, NothingSkipped, ListingComplete, Paging
<1> QED BY <1>5, <1>6, <1>7 DEF ListInv

-----------------------------------------------------------------------------
(***************************************************************************)
(* The lister's own steps.                                                 *)
(***************************************************************************)

\* A client that is not listing.
LEMMA NoListerTyped ==
    ASSUME NEW m \in MaxEntries, NEW pc \in {"idle", "listDisks"},
           NEW base \in SUBSET Vols, NEW steady \in SUBSET Vols
    PROVE  /\ [NoLister EXCEPT !.pc = pc, !.max = m, !.base = base, !.steady = steady] \in Listers
           /\ [NoLister EXCEPT !.max = m] \in Listers
<1>1. 0 \in 0..Cardinality(Vols)
  BY ListLength
<1> QED BY <1>1 DEF NoLister, Listers

\* A new listing starts at 0: everything is behind the token.
LEMMA BeginKeeps ==
    ASSUME ListInv, NEW m \in MaxEntries, BeginListing(m)
    PROVE  ListInv'
<1>0. TypeOK /\ disks \in SUBSET Vols /\ Ready \in SUBSET Vols
  BY ListerFields DEF ListInv
<1>1. lister' = [NoLister EXCEPT !.pc = "listDisks", !.max = m, !.base = disks, !.steady = Ready]
      /\ UNCHANGED <<observer, stateVars, gaugeVars>>
  BY DEF BeginListing
<1>2. lister' \in Listers
  BY <1>0, <1>1, NoListerTyped
<1>3. lister'.pc = "listDisks" /\ lister'.token = 0 /\ lister'.base = disks
  BY <1>1 DEF NoLister
<1>4. TypeOK'
  BY <1>0, <1>1, <1>2 DEF TypeOK, stateVars, gaugeVars
<1>5. BaseExists' /\ SnapshotCurrent' /\ ListingComplete'
  BY <1>1, <1>3 DEF BaseExists, SnapshotCurrent, ListingComplete, stateVars
<1>6. NothingSkipped'
  <2>1. \A v \in disks : Index(v, disks) >= 0
    BY <1>0, IndexInside
  <2> QED BY <1>1, <1>3, <2>1 DEF NothingSkipped, Listed, stateVars
<1> QED BY <1>4, <1>5, <1>6 DEF ListInv

\* A call that fails is repeated with the token it had, over the list of then.
LEMMA FailsKeeps ==
    ASSUME ListInv, ListingFails
    PROVE  ListInv'
<1>0. /\ TypeOK /\ disks \in SUBSET Vols /\ Ready \in SUBSET Vols /\ lister.max \in MaxEntries
      /\ lister.base \in SUBSET Vols /\ lister.snapshot \in SUBSET Vols /\ lister.token \in Nat
  BY ListerFields DEF ListInv
<1>1. UNCHANGED <<observer, stateVars, gaugeVars>>
  BY DEF ListingFails
<1>2. CASE lister' = [lister EXCEPT !.pc = "listDisks", !.snapshot = {}, !.steady = Ready]
  <2>1. lister \in Listers
    BY <1>0 DEF TypeOK
  <2>2. /\ lister' \in Listers
        /\ lister'.pc = "listDisks" /\ lister'.base = lister.base /\ lister'.seen = lister.seen
        /\ lister'.token = lister.token /\ lister'.shrunk = lister.shrunk
    BY <1>0, <1>2, <2>1 DEF Listers
  <2>3. TypeOK'
    BY <1>0, <1>1, <2>2 DEF TypeOK, stateVars, gaugeVars
  <2>4. BaseExists' /\ SnapshotCurrent' /\ ListingComplete'
    BY <1>1, <2>2 DEF ListInv, BaseExists, SnapshotCurrent, ListingComplete, stateVars
  <2>5. NothingSkipped'
    <3> SUFFICES ASSUME ~lister.shrunk, NEW v \in lister.base, v \notin lister.seen
                 PROVE  Index(v, disks) >= lister.token
      BY <1>1, <2>2 DEF NothingSkipped, Listed, stateVars
    <3>1. Paging
      BY DEF ListingFails, Paging
    <3>2. Index(v, Listed) >= lister.token
      BY <3>1 DEF ListInv, NothingSkipped
    <3>3. Listed \in SUBSET Vols /\ Listed \subseteq disks /\ v \in Vols
      BY <1>0 DEF Listed, ListInv, SnapshotCurrent
    <3>4. Index(v, Listed) <= Index(v, disks) /\ Index(v, Listed) \in Nat /\ Index(v, disks) \in Nat
      BY <1>0, <3>3, IndexGrows, IndexInside
    <3> QED BY <1>0, <3>2, <3>4
  <2> QED BY <2>3, <2>4, <2>5 DEF ListInv
<1>3. CASE lister' = [NoLister EXCEPT !.max = lister.max]
  <2>1. lister' \in Listers
    <3>1. {} \in SUBSET Vols /\ "idle" \in {"idle", "listDisks"}
      OBVIOUS
    <3> QED BY <1>0, <1>3, <3>1, NoListerTyped
  <2>2. lister'.pc = "idle" /\ lister'.base = {}
    BY <1>3 DEF NoLister
  <2>3. TypeOK'
    BY <1>0, <1>1, <2>1 DEF TypeOK, stateVars, gaugeVars
  <2> QED BY <2>2, <2>3 DEF ListInv, BaseExists, SnapshotCurrent, NothingSkipped, Paging,
                            ListingComplete
<1> QED BY <1>2, <1>3 DEF ListingFails

\* The list of disks, as it is now.
LEMMA ListDisksKeeps ==
    ASSUME ListInv, ListDisks
    PROVE  ListInv'
<1>0. TypeOK /\ disks \in SUBSET Vols /\ lister \in Listers
  BY DEF ListInv, TypeOK
<1>1. /\ lister.pc = "listDisks" /\ UNCHANGED <<observer, stateVars, gaugeVars>>
      /\ lister' = [lister EXCEPT !.pc = "listAttachments", !.snapshot = disks]
  BY DEF ListDisks
<1>2. /\ lister' \in Listers
      /\ lister'.pc = "listAttachments" /\ lister'.snapshot = disks
      /\ lister'.base = lister.base /\ lister'.seen = lister.seen
      /\ lister'.token = lister.token /\ lister'.shrunk = lister.shrunk
  BY <1>0, <1>1 DEF Listers
<1>3. TypeOK'
  BY <1>0, <1>1, <1>2 DEF TypeOK, stateVars, gaugeVars
<1>4. BaseExists' /\ SnapshotCurrent' /\ ListingComplete'
  BY <1>1, <1>2 DEF ListInv, BaseExists, SnapshotCurrent, ListingComplete, stateVars
<1>5. NothingSkipped'
  BY <1>1, <1>2 DEF ListInv, NothingSkipped, Paging, Listed
<1> QED BY <1>3, <1>4, <1>5 DEF ListInv

\* The client asks on.
LEMMA NextPageKeeps ==
    ASSUME ListInv, NextPage
    PROVE  ListInv'
<1>0. TypeOK /\ Ready \in SUBSET Vols /\ lister \in Listers
  BY ListerFields DEF ListInv, TypeOK
<1>1. /\ lister.pc = "answered" /\ UNCHANGED <<observer, stateVars, gaugeVars>>
      /\ lister' = [lister EXCEPT !.pc = "listDisks", !.entries = {}, !.published = {},
                                  !.steady = Ready]
  BY DEF NextPage
<1>2. /\ lister' \in Listers
      /\ lister'.pc = "listDisks"
      /\ lister'.base = lister.base /\ lister'.seen = lister.seen
      /\ lister'.token = lister.token /\ lister'.shrunk = lister.shrunk
  BY <1>0, <1>1 DEF Listers
<1>3. TypeOK'
  BY <1>0, <1>1, <1>2 DEF TypeOK, stateVars, gaugeVars
<1>4. BaseExists' /\ SnapshotCurrent' /\ ListingComplete'
  BY <1>1, <1>2 DEF ListInv, BaseExists, SnapshotCurrent, ListingComplete, stateVars
<1>5. NothingSkipped'
  BY <1>1, <1>2 DEF ListInv, NothingSkipped, Paging, Listed, stateVars
<1> QED BY <1>3, <1>4, <1>5 DEF ListInv

\* A page is answered: nothing before its end is missing any more, and the
\* last page ends where the list does.
LEMMA PageKeeps ==
    ASSUME ListInv, ListAttachments
    PROVE  ListInv'
<1> DEFINE total == Cardinality(lister.snapshot)
           start == lister.token
           more == LimitedPage(start, lister.max, total)
           end == IF more THEN start + lister.max ELSE total
           page == {v \in lister.snapshot : Index(v, lister.snapshot) \in start..(end - 1)}
<1>0. /\ TypeOK /\ lister \in Listers /\ disks \in SUBSET Vols
      /\ lister.snapshot \in SUBSET Vols /\ lister.base \in SUBSET Vols
      /\ lister.seen \in SUBSET Vols
  BY ListerFields DEF ListInv, TypeOK
<1>1. /\ start \in Nat /\ lister.max \in Nat /\ total \in Nat /\ total <= Cardinality(Vols)
      /\ Cardinality(Vols) \in Nat
  BY <1>0, ListLength, ListerFields
<1>2. lister.pc = "listAttachments" /\ UNCHANGED <<observer, stateVars, gaugeVars>>
  BY DEF ListAttachments
<1>3. page \in SUBSET Vols /\ WithNodes(page) \in SUBSET Vols
  BY <1>0 DEF WithNodes
<1>4. ASSUME ~lister.shrunk, NEW v \in lister.base, v \notin lister.seen
      PROVE  /\ v \in lister.snapshot /\ v \in Vols
             /\ Index(v, lister.snapshot) \in Nat
             /\ Index(v, lister.snapshot) >= start
             /\ Index(v, lister.snapshot) < total
             /\ Index(v, lister.snapshot) <= Index(v, disks)
             /\ Index(v, disks) \in Nat
  <2>1. v \in lister.snapshot /\ v \in Vols /\ lister.snapshot \subseteq disks
    BY <1>0, <1>2, <1>4 DEF ListInv, SnapshotCurrent
  <2>2. Index(v, lister.snapshot) >= start
    BY <1>2, <1>4 DEF ListInv, NothingSkipped, Paging, Listed
  <2> QED BY <1>0, <2>1, <2>2, IndexInside, IndexGrows
<1>5. CASE BeyondList(start, total)
  <2>1. lister' = [lister EXCEPT !.pc = "complete", !.snapshot = {}, !.entries = {},
                                 !.published = {}]
    BY <1>5 DEF ListAttachments
  <2>2. /\ lister' \in Listers /\ lister'.pc = "complete"
        /\ lister'.base = lister.base /\ lister'.seen = lister.seen
        /\ lister'.shrunk = lister.shrunk
    BY <1>0, <2>1 DEF Listers
  <2>3. ~lister.shrunk => lister.base \subseteq lister.seen
    <3> SUFFICES ASSUME ~lister.shrunk, NEW v \in lister.base, v \notin lister.seen
                 PROVE  FALSE
      OBVIOUS
    <3>1. Index(v, lister.snapshot) \in Nat /\ Index(v, lister.snapshot) >= start
          /\ Index(v, lister.snapshot) < total
      BY <1>4
    <3> QED BY <1>1, <1>5, <3>1 DEF BeyondList
  <2>4. TypeOK'
    BY <1>0, <1>2, <2>2 DEF TypeOK, stateVars, gaugeVars
  <2>5. BaseExists' /\ ListingComplete'
    BY <1>2, <2>2, <2>3 DEF ListInv, BaseExists, ListingComplete, stateVars
  <2> QED BY <2>2, <2>4, <2>5 DEF ListInv, SnapshotCurrent, NothingSkipped, Paging
<1>6. CASE ~BeyondList(start, total)
  <2>1. start < total /\ end \in Nat /\ start <= end /\ end <= total
        /\ (~more => end = total) /\ (more => end \in 0..Cardinality(Vols))
    BY <1>1, <1>6 DEF BeyondList, LimitedPage
  <2>2. lister' = [lister EXCEPT !.pc = IF more THEN "answered" ELSE "complete",
                                 !.token = IF more THEN NextToken(end) ELSE @,
                                 !.snapshot = {},
                                 !.entries = page, !.published = WithNodes(page),
                                 !.seen = @ \cup page]
    <3>1. ~(start > end)
      BY <1>1, <2>1
    <3> QED BY <1>6, <3>1 DEF ListAttachments
  <2> HIDE DEF more, end, page, start, total
  <2>3. /\ lister' \in Listers
        /\ lister'.pc = (IF more THEN "answered" ELSE "complete")
        /\ more => lister'.token = end
        /\ lister'.base = lister.base /\ lister'.seen = lister.seen \cup page
        /\ lister'.shrunk = lister.shrunk
    BY <1>0, <1>3, <2>1, <2>2 DEF Listers, NextToken
  <2>4. TypeOK'
    BY <1>0, <1>2, <2>3 DEF TypeOK, stateVars, gaugeVars
  <2>5. ASSUME ~lister.shrunk, NEW v \in lister.base, v \notin lister.seen \cup page
        PROVE  more /\ Index(v, disks) >= end
    <3>1. /\ v \in lister.snapshot
          /\ Index(v, lister.snapshot) \in Nat /\ Index(v, lister.snapshot) >= start
          /\ Index(v, lister.snapshot) < total
          /\ Index(v, lister.snapshot) <= Index(v, disks) /\ Index(v, disks) \in Nat
      BY <1>4, <2>5
    <3>2. Index(v, lister.snapshot) \notin start..(end - 1)
      BY <2>5, <3>1 DEF page
    <3> QED BY <1>1, <2>1, <3>1, <3>2
  <2>6. BaseExists' /\ SnapshotCurrent'
    BY <1>2, <2>3 DEF ListInv, BaseExists, SnapshotCurrent, stateVars
  <2>7. ListingComplete'
    BY <2>3, <2>5 DEF ListingComplete
  <2>8. NothingSkipped'
    BY <1>2, <2>3, <2>5 DEF NothingSkipped, Paging, Listed, stateVars
  <2> QED BY <2>4, <2>6, <2>7, <2>8 DEF ListInv
<1> QED BY <1>5, <1>6

-----------------------------------------------------------------------------
(***************************************************************************)
(* The theorems.                                                           *)
(***************************************************************************)
\* Before the first listing nothing can be missed.
LEMMA ListInvInit == Init => ListInv
<1> SUFFICES ASSUME Init PROVE ListInv
  OBVIOUS
<1>1. lister = [NoLister EXCEPT !.max = CHOOSE m \in MaxEntries : TRUE]
  BY DEF Init
<1>2. (CHOOSE m \in MaxEntries : TRUE) \in MaxEntries
  BY InventoryConstants
<1>3. lister \in Listers
  <2>1. {} \in SUBSET Vols /\ "idle" \in {"idle", "listDisks"}
    OBVIOUS
  <2> QED BY <1>1, <1>2, <2>1, NoListerTyped
<1>4. lister.pc = "idle" /\ lister.base = {}
  BY <1>1 DEF NoLister
<1>5. gauge \in -MaxDrift..MaxDrift
  BY InventoryConstants DEF Init
<1>6. calm \in BOOLEAN
  BY DEF Init
<1>7. TypeOK
  BY <1>3, <1>5, <1>6 DEF Init, TypeOK
<1> QED BY <1>4, <1>7 DEF ListInv, BaseExists, SnapshotCurrent, NothingSkipped, Paging,
                          ListingComplete

\* Every step keeps the invariant of listings.
LEMMA ListInvStep == ListInv /\ [Next]_vars => ListInv'
<1> SUFFICES ASSUME ListInv, [Next]_vars PROVE ListInv'
  OBVIOUS
<1>1. CASE \E m \in MaxEntries : BeginListing(m)
  BY <1>1, BeginKeeps
<1>2. CASE ListerStep
  BY <1>2, FailsKeeps, ListDisksKeeps, PageKeeps, NextPageKeeps DEF ListerStep
<1>3. CASE \E v \in Vols : DeleteVolume(v) \/ Detaches(v)
  BY <1>3, DeleteKeeps, DetachesKeeps
<1>4. CASE \/ CollectorLists \/ CollectorSets \/ Restart \/ Settle \/ UNCHANGED vars
           \/ \E v \in Vols : \/ CreateVolume(v) \/ Attaches(v) \/ BecomesReady(v)
                              \/ PublishSucceeds(v) \/ UnpublishSucceeds(v)
  BY <1>4, OthersKeep
<1> QED BY <1>1, <1>2, <1>3, <1>4 DEF Next

\* The invariant of listings holds, for every choice of constants.
THEOREM ListInvHolds == Spec => []ListInv
BY ListInvInit, ListInvStep, PTL DEF Spec

\* The types of the inventory: no call of ListVolumes slices beyond its list,
\* which would be a panic, whatever token the list has shrunk below.
THEOREM InventoryTypes == Spec => []TypeOK
<1>1. ListInv => TypeOK
  BY DEF ListInv
<1> QED BY <1>1, ListInvHolds, PTL

\* A client that has paged to the end has seen every volume that was there the
\* whole time, whatever was created, attached or failed meanwhile, unless a
\* deletion moved the index that the token is.
THEOREM ListingMissesNothing == Spec => []ListingComplete
<1>1. ListInv => ListingComplete
  BY DEF ListInv
<1> QED BY <1>1, ListInvHolds, PTL
=============================================================================
