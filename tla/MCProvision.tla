---------------------------- MODULE MCProvision ----------------------------
(***************************************************************************)
(* Small instances of Provision, alone and with the node's expansion, for  *)
(* TLC: a MiB of two bytes, a GiB of two MiB, and an int32 of four bits,   *)
(* so that 16 bytes are 8 MiB and wrap to a negative size.                 *)
(***************************************************************************)
EXTENDS Expansion, TLC

\* Rounded-up sizes, one of which is reported in GiB as if it were the other, an
\* exact one by a limit alone, nothing at all, and a size that wraps.
MCRanges == {[required |-> 3, limit |-> 8], [required |-> 5, limit |-> 0],
             [required |-> 0, limit |-> 8], [required |-> 0, limit |-> 0],
             [required |-> 16, limit |-> 0]}

CallSymmetry == Permutations(Calls)
=============================================================================
