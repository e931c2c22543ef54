------------------------ MODULE MCEvaluationWorkflow ------------------------
(* Instances of EvaluationWorkflow for TLC. *)
EXTENDS EvaluationWorkflow, TLC

CONSTANTS e1, e2, s1, s2

(* Two evaluators, each with one request at a time. *)
OneSlotEach == s1 :> e1 @@ s2 :> e2

(* One evaluator whose page refetches while it submits. *)
TwoSlotsOfOne == s1 :> e1 @@ s2 :> e1

(* The evaluators may be exchanged, together with their slots. *)
Symmetries ==
    {f \in Permutations({e1, e2, s1, s2}) :
        \A s \in {s1, s2} : f[s] \in {s1, s2} /\ OneSlotEach[f[s]] = f[OneSlotEach[s]]}
=============================================================================
