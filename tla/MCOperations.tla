---------------------------- MODULE MCOperations ----------------------------
(***************************************************************************)
(* Instances of Operations for TLC.  MethodsAll has one method per         *)
(* distinct row of operation_spec (domain, control or not) and a guarded   *)
(* read; the methods left out have the same row as one that is there.      *)
(***************************************************************************)
EXTENDS Operations

CONSTANTS r1, r2, r3, c1

MethodsAll ==
    {"account.authenticate_fido2", "account.submit_fido2_pin", "account.cancel_fido2",
     "connection.connect", "connection.disconnect", "connection.cancel",
     "connection.feedback", "recents.pin", "servers.get"}
=============================================================================
