------------------------------- MODULE Errors -------------------------------
(***************************************************************************)
(* The status codes of failed API requests, as pkg/evroc/sdk/storage.go    *)
(* produces them and retryOnTransient (pkg/controller/controller.go) tells *)
(* them apart.                                                             *)
(***************************************************************************)

isTransientError(code) ==
    code \in {"Unavailable", "DeadlineExceeded", "ResourceExhausted",
              "Aborted", "Internal"}

\* sdkErrorToGRPC of a failure that does not depend on the API's state: a
\* timeout, a cancelled context or a 5xx (Internal), or a refusal, of which
\* PermissionDenied stands for all that are permanent.
ApiErrors == {"Internal", "PermissionDenied"}
=============================================================================
