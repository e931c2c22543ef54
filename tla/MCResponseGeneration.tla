------------------------ MODULE MCResponseGeneration ------------------------
(* Instances of ResponseGeneration for TLC. *)
EXTENDS ResponseGeneration, TLC

(* One upload of two rows, without responses. *)
TwoRowFile == 1 :> 2
=============================================================================
