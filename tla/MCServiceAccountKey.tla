------------------------ MODULE MCServiceAccountKey ------------------------
(***************************************************************************)
(* A small instance of ServiceAccountKey: its constants are bounds only.   *)
(***************************************************************************)
EXTENDS ServiceAccountKey
=============================================================================
