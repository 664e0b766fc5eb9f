------------------------------ MODULE Inventory ------------------------------
(***************************************************************************)
(* What the controller tells of its volumes while they come and go: a      *)
(* client that pages through ListVolumes, and the gauge of attachments     *)
(* that collectAttachmentMetrics sets and the handlers move                *)
(* (pkg/controller/controller.go, pkg/metrics/metrics.go).  Attach and     *)
(* Provision have the handlers; here they are one step each.               *)
(*                                                                         *)
(* Neither observer changes anything the other one reads, so a behaviour   *)
(* has one of them.  The API is external: every list is one atomic         *)
(* request, and it lists disks in the order of their names.                *)
(***************************************************************************)
EXTENDS Integers, FiniteSets

CONSTANTS
    Vols,           \* volumes, numbered in the order of their names
    MaxEntries,     \* values of max_entries; 0 asks for all
    MaxDrift        \* bound on the gauge, which repeated calls move without
                    \* end; the collector's count is within it

ASSUME InventoryConstants ==
    /\ Vols \subseteq Nat /\ IsFiniteSet(Vols)
    /\ MaxEntries \subseteq Nat /\ MaxEntries # {}
    /\ MaxDrift \in Nat /\ Cardinality(Vols) <= MaxDrift

VARIABLES
    observer,   \* "lister" or "collector"; never changes
    disks,      \* the volumes that exist
    att,        \* the attachment of each volume
    lister,     \* the client and the call of ListVolumes it is waiting for
    gauge,      \* attachments_total{state="attached"}
    coll,       \* collectAttachmentMetrics: idle, or with the count it has made
    calm        \* are the handlers done for good?

stateVars == <<disks, att>>
gaugeVars == <<gauge, coll, calm>>
vars == <<observer, stateVars, lister, gaugeVars>>

(***************************************************************************)
(* Names and references.  A reference is a path; a name is a path of one   *)
(* component.                                                              *)
(***************************************************************************)
Name(v) == <<v>>

\* DiskRef of the SDK, which every attachment of the driver is made with.
DiskRef(v) == <<"disks", v>>

(***************************************************************************)
(* Types.  lister.base holds the volumes that exist since the listing      *)
(* began, steady those attached since the present call began.              *)
(***************************************************************************)
Listers == [pc : {"idle", "listDisks", "listAttachments", "answered", "complete"},
            max : MaxEntries, token : 0..Cardinality(Vols),
            snapshot : SUBSET Vols, entries : SUBSET Vols, published : SUBSET Vols,
            seen : SUBSET Vols, base : SUBSET Vols, steady : SUBSET Vols,
            shrunk : BOOLEAN]

TypeOK ==
    /\ observer \in {"lister", "collector"}
    /\ disks \subseteq Vols
    /\ att \in [Vols -> {"none", "pending", "ready"}]
    /\ lister \in Listers
    /\ gauge \in -MaxDrift..MaxDrift
    /\ coll \in {-1} \cup 0..Cardinality(Vols)
    /\ calm \in BOOLEAN

NoLister == [pc |-> "idle", max |-> 0, token |-> 0, snapshot |-> {}, entries |-> {},
             published |-> {}, seen |-> {}, base |-> {}, steady |-> {}, shrunk |-> FALSE]

Init ==
    /\ observer \in {"lister", "collector"}
    /\ disks \in SUBSET Vols
    /\ att = [v \in Vols |-> "none"]
    /\ lister = [NoLister EXCEPT !.max = CHOOSE m \in MaxEntries : TRUE]
    /\ gauge = 0 /\ coll = -1 /\ calm = FALSE

Ready == {v \in Vols : att[v] = "ready"}

(***************************************************************************)
(* ListVolumes.                                                            *)
(***************************************************************************)
BeginListing(m) ==
    /\ observer = "lister"
    /\ lister.pc \in {"idle", "complete"}
    /\ lister' = [NoLister EXCEPT !.pc = "listDisks", !.max = m, !.base = disks,
                                  !.steady = Ready]
    /\ UNCHANGED <<observer, stateVars, gaugeVars>>

\* A call that fails is repeated, or the client gives the listing up.
ListingFails ==
    /\ lister.pc \in {"listDisks", "listAttachments"}
    /\ lister' \in {[lister EXCEPT !.pc = "listDisks", !.snapshot = {}, !.steady = Ready],
                    [NoLister EXCEPT !.max = lister.max]}
    /\ UNCHANGED <<observer, stateVars, gaugeVars>>

ListDisks ==
    /\ lister.pc = "listDisks"
    /\ lister' = [lister EXCEPT !.pc = "listAttachments", !.snapshot = disks]
    /\ UNCHANGED <<observer, stateVars, gaugeVars>>

\* The key of an attachment in diskToVMs.
AttachmentKey(v) == DiskRef(v)

\* Volumes whose entry has PublishedNodeIds.
WithNodes(listed) == {v \in listed : \E a \in Ready : AttachmentKey(a) = Name(v)}

\* The index of an entry.
Index(v, listed) == Cardinality({w \in listed : w < v})

\* Mutant: the check of a token beyond the list is missing.
NeverBeyond(start, total) == FALSE

BeyondList(start, total) == start >= total

\* Mutant: max_entries 0 is taken for a page of no entries.
LimitAlways(start, max, total) == start + max < total

\* Does the page end before the list does?
LimitedPage(start, max, total) == max > 0 /\ start + max < total

\* Mutant: the next page starts one entry too far.
SkipOne(end) == end + 1

NextToken(end) == end

\* The page [start, end) of the snapshot; the token that follows it, if any.
\* A slice that starts beyond the list is a panic.
ListAttachments ==
    /\ lister.pc = "listAttachments"
    /\ LET total == Cardinality(lister.snapshot)
           start == lister.token
           more == LimitedPage(start, lister.max, total)
           end == IF more THEN start + lister.max ELSE total
           page == {v \in lister.snapshot : Index(v, lister.snapshot) \in start..(end - 1)} IN
       lister' =
          IF BeyondList(start, total)
          THEN [lister EXCEPT !.pc = "complete", !.snapshot = {}, !.entries = {},
                              !.published = {}]
          ELSE IF start > end THEN [lister EXCEPT !.pc = "panicked"]
          ELSE [lister EXCEPT !.pc = IF more THEN "answered" ELSE "complete",
                              !.token = IF more THEN NextToken(end) ELSE @,
                              !.snapshot = {},
                              !.entries = page, !.published = WithNodes(page),
                              !.seen = @ \cup page]
    /\ UNCHANGED <<observer, stateVars, gaugeVars>>

\* The client asks for the page that the token names.
NextPage ==
    /\ lister.pc = "answered"
    /\ lister' = [lister EXCEPT !.pc = "listDisks", !.entries = {}, !.published = {},
                                !.steady = Ready]
    /\ UNCHANGED <<observer, stateVars, gaugeVars>>

ListerStep == ListingFails \/ ListDisks \/ ListAttachments \/ NextPage

(***************************************************************************)
(* collectAttachmentMetrics.                                               *)
(***************************************************************************)
\* Mutant: attachments count whether ready or not.
CountAll == {v \in Vols : att[v] # "none"}

CountReady == Ready

\* The list of a tick; when it fails the collector waits for the next one.
CollectorLists ==
    /\ observer = "collector"
    /\ coll = -1
    /\ coll' = Cardinality(CountReady)
    /\ UNCHANGED <<observer, stateVars, lister, gauge, calm>>

CollectorSets ==
    /\ coll # -1
    /\ gauge' = coll /\ coll' = -1
    /\ UNCHANGED <<observer, stateVars, lister, calm>>

(***************************************************************************)
(* The handlers and the API.                                               *)
(***************************************************************************)
\* What the lister's history notes of a change.
Note(gone, detached) ==
    lister' = [lister EXCEPT !.base = @ \ gone, !.steady = @ \ detached,
                             !.shrunk = @ \/ (gone # {} /\ lister.pc # "idle")]

CreateVolume(v) ==
    /\ v \notin disks
    /\ disks' = disks \cup {v}
    /\ UNCHANGED <<observer, att, lister, gaugeVars>>

DeleteVolume(v) ==
    /\ v \in disks
    /\ att[v] = "none"
    /\ disks' = disks \ {v}
    /\ Note({v}, {})
    /\ UNCHANGED <<observer, att, gaugeVars>>

\* The request that attaches or detaches reaches the API.
Attaches(v) ==
    /\ ~calm
    /\ v \in disks /\ att[v] = "none"
    /\ att' = [att EXCEPT ![v] = "pending"]
    /\ UNCHANGED <<observer, disks, lister, gaugeVars>>

Detaches(v) ==
    /\ ~calm
    /\ att[v] # "none"
    /\ att' = [att EXCEPT ![v] = "none"]
    /\ Note({}, {v})
    /\ UNCHANGED <<observer, disks, gaugeVars>>

BecomesReady(v) ==
    /\ att[v] = "pending"
    /\ att' = [att EXCEPT ![v] = "ready"]
    /\ UNCHANGED <<observer, disks, lister, gaugeVars>>

\* UpdateAttachmentState
MoveGauge(delta) ==
    /\ observer = "collector"
    /\ ~calm
    /\ gauge + delta \in -MaxDrift..MaxDrift
    /\ gauge' = gauge + delta
    /\ UNCHANGED <<observer, stateVars, lister, coll, calm>>

\* A handler succeeds, for the first time or once more, and says so some time
\* after the request that counted.
PublishSucceeds(v) == att[v] = "ready" /\ MoveGauge(1)
UnpublishSucceeds(v) == att[v] = "none" /\ MoveGauge(-1)

\* A new process of the controller starts with a gauge of 0.
Restart ==
    /\ observer = "collector"
    /\ ~calm
    /\ gauge' = 0 /\ coll' = -1
    /\ UNCHANGED <<observer, stateVars, lister, calm>>

\* From here on nothing is attached, detached or restarted any more.
Settle ==
    /\ observer = "collector"
    /\ ~calm /\ calm' = TRUE
    /\ UNCHANGED <<observer, stateVars, lister, gauge, coll>>

Next ==
    \/ \E m \in MaxEntries : BeginListing(m)
    \/ ListerStep
    \/ CollectorLists \/ CollectorSets
    \/ \E v \in Vols :
          \/ CreateVolume(v) \/ DeleteVolume(v)
          \/ Attaches(v) \/ Detaches(v) \/ BecomesReady(v)
          \/ PublishSucceeds(v) \/ UnpublishSucceeds(v)
    \/ Restart \/ Settle

\* The ticker goes on and lists do not fail every time; a client that has a
\* token asks for the next page.  Nothing else is bound to happen.
Fairness ==
    /\ WF_vars(CollectorLists) /\ WF_vars(CollectorSets)
    /\ WF_vars(NextPage)
    /\ SF_vars(ListDisks) /\ SF_vars(ListAttachments)

Spec == Init /\ [][Next]_vars /\ Fairness

(***************************************************************************)
(* Properties.                                                             *)
(***************************************************************************)

\* "ListVolumes lists all volumes": a client that has paged to the end has seen
\* every volume that was there the whole time, whatever was created meanwhile,
\* unless a deletion moved the index that the token is.
ListingComplete ==
    (lister.pc = "complete" /\ ~lister.shrunk) => lister.base \subseteq lister.seen

\* A client that follows the tokens comes to an end, whatever page size it asks
\* for and however the list changes under it.
ListingEnds == (lister.pc = "listDisks") ~> (lister.pc \in {"complete", "idle"})

\* "Set the gauge to the actual count", "This prevents the gauge from resetting
\* on pod restart": wherever repeated calls, restarts and a count that was old
\* when it was set have brought the gauge, it comes to the number of ready
\* attachments and stays there once the handlers are quiet.
GaugeConverges == <>[](calm => gauge = Cardinality(Ready))

\* "Add published node IDs if the volume is attached to any VMs": an entry of a
\* volume that was attached from the call's first request to its last has the
\* node.
AttachedShown ==
    lister.pc \in {"answered", "complete"} =>
        lister.entries \cap lister.steady \subseteq lister.published
=============================================================================
