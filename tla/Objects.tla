------------------------------ MODULE Objects ------------------------------
(***************************************************************************)
(* What the cluster and the work queue both speak of.                      *)
(***************************************************************************)
CONSTANTS
    Names,        \* namespace/name of the SealedSecrets and of their Secrets
    None          \* no object
=============================================================================
