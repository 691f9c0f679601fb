----------------------------- MODULE MCCloudSql -----------------------------
(***************************************************************************)
(* Small instances of CloudSql.                                            *)
(***************************************************************************)
EXTENDS CloudSql

CONSTANTS r1, r2, v1, v2

TwoReplicas == {r1, r2}
=============================================================================
