-------------------------- MODULE MCDatasetImport --------------------------
(* Instances of DatasetImport for TLC. *)
EXTENDS DatasetImport, TLC

(* One upload of two rows with responses. *)
OneFile == 1 :> 2

(* Two rows with responses, then an empty file. *)
TwoFiles == 1 :> 2 @@ 2 :> 0
=============================================================================
