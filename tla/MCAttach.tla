------------------------------ MODULE MCAttach ------------------------------
(***************************************************************************)
(* Small instances of Attach for TLC.                                      *)
(***************************************************************************)
EXTENDS Attach, TLC

\* Handlers are interchangeable, and so are disks and VMs of one owner.
CallSymmetry == Permutations(Calls)
Symmetry == CallSymmetry \cup Permutations(Disks) \cup Permutations(Nodes)
=============================================================================
