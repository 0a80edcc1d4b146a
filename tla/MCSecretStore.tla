--------------------------- MODULE MCSecretStore ---------------------------
(***************************************************************************)
(* An instance of SecretStore for TLC: three accounts, one more than the   *)
(* index can list, two of them perhaps in the shared namespace.            *)
(***************************************************************************)
EXTENDS SecretStore

CONSTANTS a, b, c

BothLegacy == <<a, b>>
=============================================================================
