------------------------------ MODULE ResultBook ------------------------------
(***************************************************************************)
(* What comparing and ranking promise, with no pages and no requests: an   *)
(* evaluator gets one result for a row, never changed or withdrawn; its    *)
(* references to responses come with it or once afterwards; and from the   *)
(* first reference on the responses of the dataset stay the ones that      *)
(* were judged.  ComparisonWorkflow implements it when every evaluator has *)
(* one page of the task.                                                   *)
(***************************************************************************)
EXTENDS Naturals

CONSTANTS Evaluators,  (* the users who may compare                          *)
          Rows         (* the rows of the task's dataset                     *)

VARIABLES result,      (* result[e][r]: results of e for row r               *)
          linked,      (* those of them that refer to responses              *)
          import,      (* which import the responses come from               *)
          present      (* the responses are there                            *)

bookVars == <<result, linked, import, present>>

Blank == [e \in Evaluators |-> [r \in Rows |-> 0]]

BInit == result = Blank /\ linked = Blank /\ import = 1 /\ present = TRUE

Entered(table, e, r) == [table EXCEPT ![e][r] = 1]

(* A result without references: a ranking that still has no entries. *)
Enter(e, r) ==
    /\ result[e][r] = 0
    /\ result' = Entered(result, e, r)
    /\ UNCHANGED <<linked, import, present>>

(* A result of this row gets its references, now or when it is entered. *)
Refer(e, r) ==
    /\ present
    /\ linked[e][r] = 0
    /\ linked' = Entered(linked, e, r)
    /\ result' = Entered(result, e, r)
    /\ UNCHANGED <<import, present>>

Withdraw ==
    /\ present
    /\ \A e \in Evaluators, r \in Rows : linked[e][r] = 0
    /\ present' = FALSE
    /\ UNCHANGED <<result, linked, import>>

Replace ==
    /\ ~present
    /\ present' = TRUE
    /\ import' = import + 1
    /\ UNCHANGED <<result, linked>>

BNext ==
    \/ \E e \in Evaluators, r \in Rows : Enter(e, r) \/ Refer(e, r)
    \/ Withdraw \/ Replace

BSpec == BInit /\ [][BNext]_bookVars
=============================================================================
