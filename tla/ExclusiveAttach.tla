--------------------------- MODULE ExclusiveAttach ---------------------------
(***************************************************************************)
(* What the attach path promises its orchestrator, without saying how: a   *)
(* disk is held by at most one VM, it moves to another VM only through     *)
(* being held by none, and a VM that was promised the disk keeps it until  *)
(* the orchestrator has withdrawn the promise.                             *)
(***************************************************************************)
CONSTANTS Disks, Nodes

VARIABLES
    holders,    \* the VMs that hold each disk
    promised    \* <<d, n>>: the orchestrator was told that n holds d

vars == <<holders, promised>>

Init ==
    /\ holders = [d \in Disks |-> {}]
    /\ promised = {}

Attach(d, n) ==
    /\ holders[d] = {}
    /\ holders' = [holders EXCEPT ![d] = {n}]
    /\ UNCHANGED promised

Detach(d) ==
    /\ \A n \in holders[d] : <<d, n>> \notin promised
    /\ holders' = [holders EXCEPT ![d] = {}]
    /\ UNCHANGED promised

Promise(d, n) ==
    /\ holders[d] = {n}
    /\ promised' = promised \cup {<<d, n>>}
    /\ UNCHANGED holders

Withdraw ==
    /\ promised' \subseteq promised
    /\ UNCHANGED holders

Next ==
    \/ \E d \in Disks : Detach(d)
    \/ \E d \in Disks, n \in Nodes : Attach(d, n) \/ Promise(d, n)
    \/ Withdraw

Spec == Init /\ [][Next]_vars
=============================================================================
