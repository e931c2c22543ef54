-------------------------- MODULE EvaluationLedger --------------------------
(***************************************************************************)
(* What the scoring workflow promises, with no requests and no races:      *)
(* every evaluator has one entry per dataset row, an entry only moves      *)
(* forward, and a task is closed only on the strength of finished entries. *)
(* EvaluationWorkflow implements it when every evaluator sends one request *)
(* at a time.                                                              *)
(***************************************************************************)
EXTENDS Naturals, FiniteSets

CONSTANTS Evaluators,  (* the users who may score                            *)
          MaxRows      (* bound on the rows of the task's dataset            *)

VARIABLES item,        (* item[e][r]: e's entry for row r                    *)
          completion   (* what the last completion of the task rested on     *)

ledgerVars == <<item, completion>>

Rows == 1..MaxRows

EntryDone(e) == {r \in Rows : item[e][r] = "COMPLETED"}

(* The completion record before the task has ever been completed. *)
NoCompletion == [done |-> FALSE, rows |-> 0, team |-> {}]

LInit ==
    /\ item = [e \in Evaluators |-> [r \in Rows |-> "NONE"]]
    /\ completion = NoCompletion

Open(e, r) ==
    /\ item[e][r] = "NONE"
    /\ \A q \in Rows : item[e][q] # "IN_PROGRESS"
    /\ item' = [item EXCEPT ![e][r] = "IN_PROGRESS"]
    /\ UNCHANGED completion

Score(e, r) ==
    /\ item[e][r] # "COMPLETED"
    /\ item' = [item EXCEPT ![e][r] = "COMPLETED"]
    /\ UNCHANGED completion

(***************************************************************************)
(* Closing a task that has n rows needs n finished entries of each member  *)
(* of its team, and of at least one evaluator when it has no team.         *)
(***************************************************************************)
Close(team, n) ==
    /\ \A e \in team : Cardinality(EntryDone(e)) >= n
    /\ \E e \in Evaluators : Cardinality(EntryDone(e)) >= n
    /\ completion' = [done |-> TRUE, rows |-> n, team |-> team]
    /\ UNCHANGED item

LNext ==
    \/ \E e \in Evaluators, r \in Rows : Open(e, r) \/ Score(e, r)
    \/ \E team \in SUBSET Evaluators, n \in 0..MaxRows : Close(team, n)

LSpec == LInit /\ [][LNext]_ledgerVars
=============================================================================
