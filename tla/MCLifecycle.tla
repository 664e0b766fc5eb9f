---------------------------- MODULE MCLifecycle -----------------------------
(***************************************************************************)
(* Small instances of Lifecycle for TLC.                                   *)
(***************************************************************************)
EXTENDS Lifecycle

MCNames == {"prod", "c1", "bad name"}
MCWellFormed == {"prod", "c1"}
MCModes == {"controller", "node", "all", "", "both"}

Documented == [EmptyConfig EXCEPT !.credentials = TRUE, !.project = "prod",
                                  !.identifier = "c1"]

\* A documented file, the deprecated form, negative numbers, no project, an
\* owner label without identifier, a malformed identifier, and no file.
MCFiles == {Documented,
            [Documented EXCEPT !.project = "", !.oldProject = "prod", !.identifier = ""],
            [Documented EXCEPT !.maxVolumesPerNode = -1,
                               !.number = [n \in Numbers |-> -1]],
            [Documented EXCEPT !.project = ""],
            [Documented EXCEPT !.identifier = "", !.vmOwnerLabel = TRUE],
            [Documented EXCEPT !.identifier = "bad name"],
            NoConfig}
=============================================================================
