------------------------ MODULE MCComparisonWorkflow ------------------------
(* Instances of ComparisonWorkflow for TLC. *)
EXTENDS ComparisonWorkflow, TLC

CONSTANTS e1, e2, c1, c2

(* Two evaluators, each with one page. *)
OnePageEach == c1 :> e1 @@ c2 :> e2

(* Every row has a pair of responses. *)
PairsOnly == 1 :> 2 @@ 2 :> 2

(* The first row has a single response, the second one a pair. *)
ShortRowFirst == 1 :> 1 @@ 2 :> 2

(* The evaluators may be exchanged, together with their pages. *)
Symmetries ==
    {f \in Permutations({e1, e2, c1, c2}) :
        \A c \in {c1, c2} : f[c] \in {c1, c2} /\ OnePageEach[f[c]] = f[OnePageEach[c]]}
=============================================================================
