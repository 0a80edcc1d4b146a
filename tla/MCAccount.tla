----------------------------- MODULE MCAccount -----------------------------
(***************************************************************************)
(* Instances of Account for TLC.                                           *)
(***************************************************************************)
EXTENDS Account, TLC

CONSTANTS r1, r2, r3

WithoutGet == AllCalls \ {"account.get"}

Symmetry == Permutations(Request)
============================================================================
