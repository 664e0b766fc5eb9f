---------------------------- MODULE MCNodeVolume ----------------------------
(***************************************************************************)
(* Small instances of NodeVolume for TLC.                                  *)
(***************************************************************************)
EXTENDS NodeVolume, TLC

CallSymmetry == Permutations(Calls)
=============================================================================
