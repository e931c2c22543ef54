---------------------------- MODULE MCDatasetRows ----------------------------
(* An instance of DatasetRows for TLC. *)
EXTENDS DatasetRows

TwoRowsEach == <<2, 2>>
=============================================================================
