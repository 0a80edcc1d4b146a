---------------------------- MODULE MCConnection ----------------------------
(***************************************************************************)
(* Instances of Connection for TLC.                                        *)
(***************************************************************************)
EXTENDS Connection, TLC

CONSTANTS r1, r2, r3, w1, c1

Connections == {"connection.connect", "connection.disconnect", "connection.cancel"}

WithFeature == Connections \cup {"feature.set"}

Symmetry == Permutations(Request)
=============================================================================
