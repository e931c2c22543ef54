----------------------- MODULE EvaluationWorkflowProofs ----------------------
(***************************************************************************)
(* Proofs about EvaluationWorkflow, for any evaluators, request slots,     *)
(* admins, rows and restarts.                                              *)
(***************************************************************************)
EXTENDS EvaluationWorkflow, FiniteSetTheorems, TLAPS

(* Answering a request keeps the request variables well typed. *)
LEMMA AnswerTypes ==
  ASSUME NEW s \in Requests, RequestTypes, Answer(s)
  PROVE  RequestTypes'
<1>1. pc' \in [Requests -> PC]
  BY DEF RequestTypes, Answer, PC
<1>2. row' \in [Requests -> 0..MaxRows] /\ total' \in [Requests -> 0..MaxRows]
  BY BoundsAssumption DEF RequestTypes, Answer
<1>3. /\ seen' \in [Requests -> SUBSET Rows]
      /\ team' \in [Requests -> SUBSET Evaluators]
      /\ todo' \in [Requests -> SUBSET Evaluators]
  BY DEF RequestTypes, Answer
<1> QED
  BY <1>1, <1>2, <1>3 DEF RequestTypes

(* Moving a request to its next step keeps its program counter well typed. *)
LEMMA GoToTypes ==
  ASSUME NEW s \in Requests, NEW step \in PC, pc \in [Requests -> PC], GoTo(s, step)
  PROVE  pc' \in [Requests -> PC]
BY DEF GoTo

(* Every database call of a started request keeps the state well typed. *)
LEMMA ServeTypes ==
  ASSUME NEW s \in Requests, TypeOK, Serve(s)
  PROVE  TypeOK'
<1> USE DEF TypeOK, taskVars
<1>0. {"findOpen", "pickRow", "openRow", "countRows", "readTeam", "countTeam", "write"}
        \subseteq PC
  BY DEF PC, NextSteps, SubmitSteps
<1>1. CASE ListDone(s)
  <2>1. pc' \in [Requests -> PC]
    BY <1>0, <1>1, GoToTypes DEF ListDone, RequestTypes
  <2>2. seen' \in [Requests -> SUBSET Rows]
    BY <1>1 DEF ListDone, RequestTypes, Finished
  <2> QED
    BY <1>1, <2>1, <2>2 DEF ListDone, RequestTypes, TaskTypes
<1>2. CASE FindOpen(s)
  <2>1. TaskTypes'
    BY <1>2 DEF FindOpen, TaskTypes
  <2>2. RequestTypes' /\ refetch' \in SUBSET Requests
    <3>1. CASE Answer(s) /\ refetch' = refetch \ {s}
      BY <3>1, AnswerTypes
    <3>2. CASE GoTo(s, "pickRow") /\ UNCHANGED <<row, seen, total, team, todo, refetch>>
      BY <3>2, <1>0, GoToTypes DEF RequestTypes
    <3> QED
      BY <1>2, <3>1, <3>2 DEF FindOpen
  <2> QED
    BY <1>2, <2>1, <2>2 DEF FindOpen
<1>3. CASE PickRow(s)
  <2>1. pc' \in [Requests -> PC]
    BY <1>0, <1>3, GoToTypes DEF PickRow, RequestTypes
  <2>2. row' \in [Requests -> 0..MaxRows]
    BY <1>3, BoundsAssumption DEF PickRow, RequestTypes, TaskTypes
  <2> QED
    BY <1>3, <2>1, <2>2 DEF PickRow, RequestTypes, TaskTypes
<1>4. CASE OpenRow(s)
  <2>1. RequestTypes'
    BY <1>4, AnswerTypes DEF OpenRow
  <2>2. item' \in [Evaluators -> [Rows -> ItemStatus]]
    BY <1>4 DEF OpenRow, TaskTypes, ItemStatus
  <2> QED
    BY <1>4, <2>1, <2>2 DEF OpenRow, TaskTypes
<1>5. CASE CountRows(s)
  <2>1. TaskTypes'
    BY <1>5 DEF CountRows, TaskTypes
  <2>2. RequestTypes' /\ refetch' \in SUBSET Requests
    <3>1. CASE Answer(s) /\ refetch' = refetch \ {s}
      BY <3>1, AnswerTypes
    <3>2. CASE /\ total' = [total EXCEPT ![s] = rowCount]
               /\ GoTo(s, "readTeam")
               /\ UNCHANGED <<row, seen, team, todo, refetch>>
      BY <3>2, <1>0, GoToTypes DEF RequestTypes, TaskTypes
    <3> QED
      BY <1>5, <3>1, <3>2 DEF CountRows
  <2> QED
    BY <1>5, <2>1, <2>2 DEF CountRows
<1>6. CASE ReadTeam(s)
  <2>1. pc' \in [Requests -> PC]
    BY <1>0, <1>6, GoToTypes DEF ReadTeam, RequestTypes
  <2> QED
    BY <1>6, <2>1 DEF ReadTeam, RequestTypes, TaskTypes
<1>7. CASE CountMember(s)
  <2>1. TaskTypes'
    BY <1>7 DEF CountMember, TaskTypes
  <2>2. RequestTypes' /\ refetch' \in SUBSET Requests
    <3>1. CASE Answer(s) /\ refetch' = refetch \ {s}
      BY <3>1, AnswerTypes
    <3>2. CASE /\ \E e \in todo[s] : todo' = [todo EXCEPT ![s] = @ \ {e}]
               /\ UNCHANGED <<pc, row, seen, total, team, refetch>>
      BY <3>2 DEF RequestTypes
    <3> QED
      BY <1>7, <3>1, <3>2 DEF CountMember
  <2> QED
    BY <1>7, <2>1, <2>2 DEF CountMember
<1>8. CASE CompleteTask(s)
  <2>1. RequestTypes'
    BY <1>8, AnswerTypes DEF CompleteTask
  <2>2. completion' \in [done : BOOLEAN, rows : 0..MaxRows, team : SUBSET Evaluators]
    BY <1>8 DEF CompleteTask, RequestTypes
  <2> QED
    BY <1>8, <2>1, <2>2 DEF CompleteTask, TaskTypes, TaskStatus
<1>9. CASE CheckExisting(s)
  <2>1. RequestTypes'
    <3>1. CASE Answer(s)
      BY <3>1, AnswerTypes
    <3>2. CASE GoTo(s, "write") /\ UNCHANGED <<row, seen, total, team, todo>>
      BY <3>2, <1>0, GoToTypes DEF RequestTypes
    <3> QED
      BY <1>9, <3>1, <3>2 DEF CheckExisting
  <2> QED
    BY <1>9, <2>1 DEF CheckExisting, TaskTypes
<1>10. CASE WriteEvaluation(s)
  <2>1. RequestTypes'
    BY <1>10, AnswerTypes DEF WriteEvaluation
  <2>2. item' \in [Evaluators -> [Rows -> ItemStatus]]
    BY <1>10 DEF WriteEvaluation, TaskTypes, ItemStatus
  <2> QED
    BY <1>10, <2>1, <2>2 DEF WriteEvaluation, TaskTypes
<1> QED
  BY <1>1, <1>2, <1>3, <1>4, <1>5, <1>6, <1>7, <1>8, <1>9, <1>10 DEF Serve

(* The initial states are well typed. *)
LEMMA TypeInit == Init => TypeOK
BY BoundsAssumption DEF Init, TypeOK, TaskTypes, RequestTypes, NoCompletion,
     TaskStatus, ItemStatus, PC, Admins

(* Every step keeps the state well typed. *)
LEMMA TypeStep == TypeOK /\ [Next]_vars => TypeOK'
<1> SUFFICES ASSUME TypeOK, [Next]_vars
             PROVE  TypeOK'
  OBVIOUS
<1> USE DEF TypeOK, taskVars, requestVars
<1>1. CASE AssignEvaluators
  BY <1>1 DEF AssignEvaluators, TaskTypes, RequestTypes
<1>2. CASE AssignFails
  BY <1>2 DEF AssignFails, TaskTypes, RequestTypes
<1>3. CASE AppendRow
  BY <1>3, BoundsAssumption DEF AppendRow, TaskTypes, RequestTypes
<1>4. CASE Crash
  BY <1>4, BoundsAssumption DEF Crash, TaskTypes, RequestTypes, PC
<1>5. ASSUME NEW a \in Activators, BeginActivate(a) \/ WriteActive(a)
      PROVE  TypeOK'
  BY <1>5 DEF BeginActivate, WriteActive, Admins, TaskTypes, RequestTypes, TaskStatus
<1>6. ASSUME NEW a \in Pausers, BeginPause(a) \/ WritePaused(a)
      PROVE  TypeOK'
  BY <1>6 DEF BeginPause, WritePaused, Admins, TaskTypes, RequestTypes, TaskStatus
<1>7. ASSUME NEW s \in Requests, BeginNext(s)
      PROVE  TypeOK'
  <2>1. "listDone" \in PC
    BY DEF PC, NextSteps
  <2>2. pc' \in [Requests -> PC]
    BY <1>7, <2>1, GoToTypes DEF BeginNext, RequestTypes
  <2> QED
    BY <1>7, <2>2 DEF BeginNext, TaskTypes, RequestTypes
<1>8. ASSUME NEW s \in Requests, Serve(s)
      PROVE  TypeOK'
  BY <1>8, ServeTypes
<1>9. ASSUME NEW s \in Requests, NEW r \in Rows, BeginSubmit(s, r)
      PROVE  TypeOK'
  <2>1. "checkExisting" \in PC
    BY DEF PC, SubmitSteps
  <2>2. pc' \in [Requests -> PC]
    BY <1>9, <2>1, GoToTypes DEF BeginSubmit, RequestTypes
  <2>3. row' \in [Requests -> 0..MaxRows]
    BY <1>9, BoundsAssumption DEF BeginSubmit, RequestTypes, Rows
  <2> QED
    BY <1>9, <2>2, <2>3 DEF BeginSubmit, TaskTypes, RequestTypes
<1>10. CASE UNCHANGED vars
  BY <1>10 DEF vars, TaskTypes, RequestTypes
<1> QED
  BY <1>1, <1>2, <1>3, <1>4, <1>5, <1>6, <1>7, <1>8, <1>9, <1>10 DEF Next

(***************************************************************************)
(* The state of the task, its items and every request in flight keeps its  *)
(* type, whichever of the handlers' steps interleave.                      *)
(***************************************************************************)
THEOREM TypeCorrect == Spec => []TypeOK
BY TypeInit, TypeStep, PTL DEF Spec

-----------------------------------------------------------------------------
(* Two action properties that need little more than the types.             *)

(***************************************************************************)
(* The server's steps of a started request touch neither the admins' side  *)
(* nor any status other than by completing the task.                       *)
(***************************************************************************)
LEMMA ServeStatus ==
  ASSUME NEW s \in Requests, Serve(s)
  PROVE  status' \in {status, "COMPLETED"} /\ UNCHANGED <<assigned, apc>>
BY DEF Serve, ListDone, FindOpen, PickRow, OpenRow, CountRows, ReadTeam, CountMember,
       CompleteTask, CheckExisting, WriteEvaluation, taskVars

(***************************************************************************)
(* A completed task that no admin request is writing stays completed:      *)
(* pause and activate both refuse to start on it.                          *)
(***************************************************************************)
THEOREM CompletedSettles == Spec => SettledStays
<1>1. [Next]_vars => [Settled => Settled']_vars
  <2> SUFFICES ASSUME [Next]_vars, Settled
               PROVE  Settled'
    OBVIOUS
  <2> USE DEF Settled
  <2>1. CASE AssignEvaluators \/ AssignFails \/ AppendRow
    BY <2>1 DEF AssignEvaluators, AssignFails, AppendRow
  <2>2. CASE Crash
    BY <2>2 DEF Crash
  <2>3. ASSUME NEW a \in Activators, BeginActivate(a) \/ WriteActive(a)
        PROVE  FALSE
    BY <2>3 DEF BeginActivate, WriteActive, Admins
  <2>4. ASSUME NEW a \in Pausers, BeginPause(a) \/ WritePaused(a)
        PROVE  FALSE
    BY <2>4 DEF BeginPause, WritePaused, Admins
  <2>5. ASSUME NEW s \in Requests, Serve(s)
        PROVE  Settled'
    BY <2>5, ServeStatus
  <2>6. ASSUME NEW s \in Requests, NEW r \in Rows, BeginSubmit(s, r)
        PROVE  Settled'
    BY <2>6 DEF BeginSubmit, taskVars
  <2>7. ASSUME NEW s \in Requests, BeginNext(s)
        PROVE  Settled'
    BY <2>7 DEF BeginNext, taskVars
  <2>8. CASE UNCHANGED vars
    BY <2>8 DEF vars
  <2> QED
    BY <2>1, <2>2, <2>3, <2>4, <2>5, <2>6, <2>7, <2>8 DEF Next
<1> QED
  BY <1>1, PTL DEF Spec, SettledStays

(* A step of a request changes only its own variables and its owner's items. *)
LEMMA ServeLocal ==
  ASSUME NEW s \in Requests, TypeOK, Serve(s)
  PROVE  /\ \A t \in Requests \ {s} :
               /\ pc'[t] = pc[t] /\ row'[t] = row[t] /\ seen'[t] = seen[t]
               /\ total'[t] = total[t] /\ team'[t] = team[t] /\ todo'[t] = todo[t]
         /\ \A e \in Evaluators \ {Owner[s]} : item'[e] = item[e]
<1> USE DEF TypeOK, TaskTypes, RequestTypes, taskVars, GoTo, Answer
<1>1. \A t \in Requests \ {s} : pc'[t] = pc[t] /\ row'[t] = row[t]
  BY DEF Serve, ListDone, FindOpen, PickRow, OpenRow, CountRows, ReadTeam, CountMember,
         CompleteTask, CheckExisting, WriteEvaluation
<1>2. \A t \in Requests \ {s} : seen'[t] = seen[t] /\ total'[t] = total[t]
  BY DEF Serve, ListDone, FindOpen, PickRow, OpenRow, CountRows, ReadTeam, CountMember,
         CompleteTask, CheckExisting, WriteEvaluation
<1>3. \A t \in Requests \ {s} : team'[t] = team[t] /\ todo'[t] = todo[t]
  BY DEF Serve, ListDone, FindOpen, PickRow, OpenRow, CountRows, ReadTeam, CountMember,
         CompleteTask, CheckExisting, WriteEvaluation
<1>4. \A e \in Evaluators \ {Owner[s]} : item'[e] = item[e]
  BY DEF Serve, ListDone, FindOpen, PickRow, OpenRow, CountRows, ReadTeam, CountMember,
         CompleteTask, CheckExisting, WriteEvaluation
<1> QED
  BY <1>1, <1>2, <1>3, <1>4

(* create() inserts the assignments once. *)
AssignedOnce == toAssign = {} \/ assigned = {}

(* The assignments of a task never change once there are any. *)
LEMMA AssignedOnceInv == Spec => []AssignedOnce
<1>1. Init => AssignedOnce
  BY DEF Init, AssignedOnce
<1>2. AssignedOnce /\ [Next]_vars => AssignedOnce'
  BY DEF AssignedOnce, Next, vars, AssignEvaluators, AssignFails, AppendRow, Crash,
         BeginActivate, WriteActive, BeginPause, WritePaused, BeginNext, BeginSubmit, Serve,
         ListDone, FindOpen, PickRow, OpenRow, CountRows, ReadTeam, CountMember,
         CompleteTask, CheckExisting, WriteEvaluation, taskVars
<1> QED
  BY <1>1, <1>2, PTL DEF Spec

(***************************************************************************)
(* A request of an evaluator outside the assignments gets no further: the  *)
(* check at the start of both handlers is enough.                          *)
(***************************************************************************)
THEOREM OutsidersStayOut == Spec => OutsidersShutOut
<1>1. TypeOK /\ AssignedOnce /\ [Next]_vars
        => [\A e \in Evaluators : Outside(e) => Outside(e)' /\ item'[e] = item[e]]_vars
  <2> SUFFICES ASSUME TypeOK, AssignedOnce, [Next]_vars, NEW e \in Evaluators, Outside(e)
               PROVE  Outside(e)' /\ item'[e] = item[e]
    OBVIOUS
  <2> USE DEF Outside
  <2>1. CASE AssignEvaluators \/ AssignFails \/ AppendRow
    BY <2>1 DEF AssignEvaluators, AssignFails, AppendRow, AssignedOnce, requestVars
  <2>2. CASE Crash
    BY <2>2 DEF Crash
  <2>3. ASSUME NEW a \in Activators, BeginActivate(a) \/ WriteActive(a)
        PROVE  Outside(e)' /\ item'[e] = item[e]
    BY <2>3 DEF BeginActivate, WriteActive, taskVars, requestVars
  <2>4. ASSUME NEW a \in Pausers, BeginPause(a) \/ WritePaused(a)
        PROVE  Outside(e)' /\ item'[e] = item[e]
    BY <2>4 DEF BeginPause, WritePaused, taskVars, requestVars
  <2>5. ASSUME NEW s \in Requests, Serve(s)
        PROVE  Outside(e)' /\ item'[e] = item[e]
    <3>1. pc[s] # "idle"
      BY <2>5 DEF Serve, ListDone, FindOpen, PickRow, OpenRow, CountRows, ReadTeam,
         CountMember, CompleteTask, CheckExisting, WriteEvaluation
    <3>2. Owner[s] # e
      BY <3>1
    <3> QED
      BY <2>5, <3>2, ServeLocal, ServeStatus
  <2>6. ASSUME NEW s \in Requests, BeginNext(s)
        PROVE  Outside(e)' /\ item'[e] = item[e]
    BY <2>6 DEF BeginNext, Admitted, GoTo, taskVars, TypeOK, RequestTypes
  <2>7. ASSUME NEW s \in Requests, NEW r \in Rows, BeginSubmit(s, r)
        PROVE  Outside(e)' /\ item'[e] = item[e]
    BY <2>7 DEF BeginSubmit, Admitted, GoTo, taskVars, TypeOK, RequestTypes
  <2>8. CASE UNCHANGED vars
    BY <2>8 DEF vars
  <2> QED
    BY <2>1, <2>2, <2>3, <2>4, <2>5, <2>6, <2>7, <2>8 DEF Next
<1> QED
  BY <1>1, TypeCorrect, AssignedOnceInv, PTL DEF Spec, OutsidersShutOut

-----------------------------------------------------------------------------
(***************************************************************************)
(* The inductive invariant of the safety theorems.  It says what a request *)
(* in flight still knows: with sequential clients nobody else changes its  *)
(* owner's items, so what it read is not stale; and of its team-mates it   *)
(* only uses that their finished items do not get fewer.                   *)
(***************************************************************************)
ReadSteps == {"findOpen", "pickRow", "openRow", "countRows", "readTeam", "countTeam"}

KnowsFinished(s) == pc[s] \in ReadSteps => seen[s] = Finished(Owner[s])

NothingOpen(s) == pc[s] \in ReadSteps \ {"findOpen"} => InProgress(Owner[s]) = {}

PickedFirst(s) ==
    pc[s] = "openRow" =>
        row[s] \in Rows /\ row[s] \notin seen[s] /\ 1..(row[s] - 1) \subseteq seen[s]

SubmitsOpenRow(s) ==
    /\ pc[s] \in SubmitSteps => row[s] \in Rows
    /\ pc[s] = "write" => item[Owner[s]][row[s]] # "COMPLETED"

CountedSelf(s) ==
    pc[s] \in {"readTeam", "countTeam"} => Cardinality(Finished(Owner[s])) >= total[s]

CountedTeam(s) ==
    pc[s] = "countTeam" =>
        \A e \in team[s] \ todo[s] : Cardinality(Finished(e)) >= total[s]

RequestInv(s) ==
    /\ KnowsFinished(s)
    /\ NothingOpen(s)
    /\ PickedFirst(s)
    /\ SubmitsOpenRow(s)
    /\ CountedSelf(s)
    /\ CountedTeam(s)

IInv ==
    /\ TypeOK
    /\ \A s \in Requests : RequestInv(s)
    /\ ServedInOrder
    /\ CompletionJustified

(* The finished items of an evaluator are finitely many. *)
LEMMA FinishedFinite ==
  ASSUME NEW e \in Evaluators
  PROVE  IsFiniteSet(Finished(e)) /\ Cardinality(Finished(e)) \in Nat
<1>1. IsFiniteSet(Rows)
  BY FS_Interval, BoundsAssumption DEF Rows
<1>2. Finished(e) \subseteq Rows
  BY DEF Finished
<1> QED
  BY <1>1, <1>2, FS_Subset, FS_CardinalityType

(* When no final item is lost, no count of final items gets smaller. *)
LEMMA CountGrows ==
  ASSUME NEW e \in Evaluators, Finished(e) \subseteq Finished(e)'
  PROVE  /\ Cardinality(Finished(e)) \in Nat
         /\ Cardinality(Finished(e)') \in Nat
         /\ Cardinality(Finished(e)) <= Cardinality(Finished(e)')
<1>1. IsFiniteSet(Rows)
  BY FS_Interval, BoundsAssumption DEF Rows
<1>2. Finished(e)' \subseteq Rows
  BY DEF Finished
<1>3. IsFiniteSet(Finished(e)')
  BY <1>1, <1>2, FS_Subset
<1> QED
  BY <1>3, FinishedFinite, FS_Subset, FS_CardinalityType

NoFinalLost == \A e \in Evaluators : Finished(e) \subseteq Finished(e)'

(* What a request knows survives any step that keeps its variables and its owner's items. *)
LEMMA RequestKept ==
  ASSUME TypeOK, NEW t \in Requests, RequestInv(t), NoFinalLost,
         pc'[t] = pc[t], row'[t] = row[t], seen'[t] = seen[t],
         total'[t] = total[t], team'[t] = team[t], todo'[t] = todo[t],
         item'[Owner[t]] = item[Owner[t]]
  PROVE  RequestInv(t)'
<1>1. Owner[t] \in Evaluators /\ team[t] \subseteq Evaluators /\ total[t] \in Nat
  BY OwnerAssumption, BoundsAssumption DEF TypeOK, RequestTypes
<1>2. Finished(Owner[t])' = Finished(Owner[t]) /\ InProgress(Owner[t])' = InProgress(Owner[t])
  BY DEF Finished, InProgress
<1>3. KnowsFinished(t)' /\ NothingOpen(t)' /\ PickedFirst(t)'
  BY <1>2 DEF RequestInv, KnowsFinished, NothingOpen, PickedFirst
<1>4. SubmitsOpenRow(t)' /\ CountedSelf(t)'
  BY <1>2 DEF RequestInv, SubmitsOpenRow, CountedSelf
<1>5. CountedTeam(t)'
  <2> SUFFICES ASSUME pc[t] = "countTeam", NEW e \in team[t] \ todo[t]
               PROVE  Cardinality(Finished(e)') >= total[t]
    BY DEF CountedTeam
  <2>1. Cardinality(Finished(e)) >= total[t]
    BY DEF RequestInv, CountedTeam
  <2>2. Cardinality(Finished(e)) <= Cardinality(Finished(e)')
        /\ Cardinality(Finished(e)) \in Nat /\ Cardinality(Finished(e)') \in Nat
    BY <1>1, CountGrows DEF NoFinalLost
  <2> QED
    BY <1>1, <2>1, <2>2
<1> QED
  BY <1>3, <1>4, <1>5 DEF RequestInv

(* A completion stays justified while no final item is lost. *)
LEMMA JustificationKept ==
  ASSUME TypeOK, CompletionJustified, NoFinalLost, completion' = completion
  PROVE  CompletionJustified'
<1> SUFFICES ASSUME completion.done
             PROVE  /\ \A e \in completion.team : Cardinality(Finished(e)') >= completion.rows
                    /\ \E e \in Evaluators : Cardinality(Finished(e)') >= completion.rows
  BY DEF CompletionJustified
<1>1. completion.rows \in Nat /\ completion.team \subseteq Evaluators
  BY BoundsAssumption DEF TypeOK, TaskTypes
<1>2. ASSUME NEW e \in Evaluators, Cardinality(Finished(e)) >= completion.rows
      PROVE  Cardinality(Finished(e)') >= completion.rows
  BY <1>1, <1>2, CountGrows DEF NoFinalLost
<1> QED
  BY <1>1, <1>2 DEF CompletionJustified

(* An answered request owes nothing. *)
LEMMA IdleRequest ==
  ASSUME NEW t, pc'[t] = "idle"
  PROVE  RequestInv(t)'
BY DEF RequestInv, KnowsFinished, NothingOpen, PickedFirst, SubmitsOpenRow, CountedSelf,
       CountedTeam, ReadSteps, SubmitSteps

(* A step that only reads keeps all final items. *)
LEMMA ReadsLoseNothing ==
  ASSUME item' = item
  PROVE  NoFinalLost /\ (ServedInOrder => ServedInOrder')
BY DEF NoFinalLost, ServedInOrder, Finished, InProgress

(***************************************************************************)
(* Opening the picked row: nothing is open, so the new item is the only    *)
(* one, and every row before it is final; it is not final itself, so the   *)
(* upsert's update branch replaces no final status.                        *)
(***************************************************************************)
LEMMA OpenRowEffect ==
  ASSUME NEW s \in Requests, TypeOK, RequestInv(s), ServedInOrder, OpenRow(s)
  PROVE  NoFinalLost /\ ServedInOrder'
<1> DEFINE e == Owner[s]
<1> DEFINE r == row[s]
<1>1. e \in Evaluators
  BY OwnerAssumption
<1>2. pc[s] = "openRow" /\ item' = [item EXCEPT ![e][r] = "IN_PROGRESS"]
  BY DEF OpenRow
<1>3. /\ InProgress(e) = {} /\ r \in Rows
      /\ r \notin Finished(e) /\ 1..(r - 1) \subseteq Finished(e)
  BY <1>2 DEF RequestInv, KnowsFinished, NothingOpen, PickedFirst, ReadSteps
<1>4. /\ item'[e] = [item[e] EXCEPT ![r] = "IN_PROGRESS"]
      /\ \A f \in Evaluators \ {e} : item'[f] = item[f]
      /\ item[e] \in [Rows -> ItemStatus]
  BY <1>1, <1>2 DEF TypeOK, TaskTypes
<1> HIDE DEF e, r
<1>5. Finished(e)' = Finished(e) /\ InProgress(e)' = {r}
  BY <1>3, <1>4 DEF Finished, InProgress
<1>6. \A f \in Evaluators \ {e} :
        Finished(f)' = Finished(f) /\ InProgress(f)' = InProgress(f)
  BY <1>4 DEF Finished, InProgress
<1>7. NoFinalLost
  BY <1>5, <1>6 DEF NoFinalLost
<1>8. ServedInOrder'
  BY <1>3, <1>5, <1>6 DEF ServedInOrder
<1> QED
  BY <1>7, <1>8

(* An accepted submit adds one final item and removes at most one open item. *)
LEMMA WriteEffect ==
  ASSUME NEW s \in Requests, TypeOK, RequestInv(s), ServedInOrder, WriteEvaluation(s)
  PROVE  NoFinalLost /\ ServedInOrder'
<1> DEFINE e == Owner[s]
<1> DEFINE r == row[s]
<1>1. e \in Evaluators
  BY OwnerAssumption
<1>2. pc[s] = "write" /\ item' = [item EXCEPT ![e][r] = "COMPLETED"]
  BY DEF WriteEvaluation
<1>3. r \in Rows
  BY <1>2 DEF RequestInv, SubmitsOpenRow, SubmitSteps
<1>4. /\ item'[e] = [item[e] EXCEPT ![r] = "COMPLETED"]
      /\ \A f \in Evaluators \ {e} : item'[f] = item[f]
      /\ item[e] \in [Rows -> ItemStatus]
  BY <1>1, <1>2 DEF TypeOK, TaskTypes
<1> HIDE DEF e, r
<1>5. Finished(e) \subseteq Finished(e)' /\ InProgress(e)' \subseteq InProgress(e)
  BY <1>3, <1>4 DEF Finished, InProgress
<1>6. \A f \in Evaluators \ {e} :
        Finished(f)' = Finished(f) /\ InProgress(f)' = InProgress(f)
  BY <1>4 DEF Finished, InProgress
<1>7. NoFinalLost
  BY <1>5, <1>6 DEF NoFinalLost
<1>8. ServedInOrder'
  <2> SUFFICES ASSUME NEW f \in Evaluators, NEW q \in InProgress(f)'
               PROVE  1..(q - 1) \subseteq Finished(f)'
    BY DEF ServedInOrder
  <2>1. q \in InProgress(f)
    BY <1>5, <1>6
  <2>2. 1..(q - 1) \subseteq Finished(f)
    BY <2>1 DEF ServedInOrder
  <2> QED
    BY <2>2, <1>7 DEF NoFinalLost
<1> QED
  BY <1>7, <1>8

(***************************************************************************)
(* The four facts every step of a started request establishes.             *)
(***************************************************************************)
ServeGoal(s) == RequestInv(s)' /\ ServedInOrder' /\ CompletionJustified' /\ NoFinalLost

LEMMA ServeEffect ==
  ASSUME NEW s \in Requests, IInv, Serve(s)
  PROVE  ServeGoal(s)
<1> USE DEF ServeGoal
<1>0. TypeOK /\ RequestInv(s) /\ ServedInOrder /\ CompletionJustified
  BY DEF IInv
<1>a. /\ pc \in [Requests -> PC] /\ row \in [Requests -> 0..MaxRows]
      /\ seen \in [Requests -> SUBSET Rows] /\ total \in [Requests -> 0..MaxRows]
      /\ team \in [Requests -> SUBSET Evaluators] /\ todo \in [Requests -> SUBSET Evaluators]
      /\ rowCount \in 0..MaxRows /\ assigned \subseteq Evaluators
      /\ Owner[s] \in Evaluators
  BY <1>0, OwnerAssumption DEF TypeOK, RequestTypes, TaskTypes
<1>b. ASSUME item' = item, completion' = completion, RequestInv(s)'
      PROVE  ServeGoal(s)
  BY <1>0, <1>b, ReadsLoseNothing, JustificationKept
<1>c. ASSUME item' = item, completion' = completion, Answer(s)
      PROVE  ServeGoal(s)
  <2>1. pc'[s] = "idle"
    BY <1>a, <1>c DEF Answer
  <2> QED
    BY <1>b, <1>c, <2>1, IdleRequest
<1>d. item' = item => /\ Finished(Owner[s])' = Finished(Owner[s])
                      /\ InProgress(Owner[s])' = InProgress(Owner[s])
                      /\ \A e \in Evaluators : Finished(e)' = Finished(e)
  BY DEF Finished, InProgress
<1>1. CASE ListDone(s)
  <2>1. /\ pc'[s] = "findOpen" /\ seen'[s] = Finished(Owner[s])
        /\ item' = item /\ completion' = completion
    BY <1>1, <1>a DEF ListDone, GoTo, taskVars
  <2>2. RequestInv(s)'
    BY <2>1, <1>d DEF RequestInv, KnowsFinished, NothingOpen, PickedFirst, SubmitsOpenRow,
       CountedSelf, CountedTeam, ReadSteps, SubmitSteps
  <2> QED
    BY <1>b, <2>1, <2>2
<1>2. CASE FindOpen(s)
  <2>1. item' = item /\ completion' = completion
    BY <1>2 DEF FindOpen, taskVars
  <2>2. CASE Answer(s)
    BY <1>c, <2>1, <2>2
  <2>3. CASE InProgress(Owner[s]) = {} /\ GoTo(s, "pickRow") /\ UNCHANGED seen
    <3>1. pc'[s] = "pickRow" /\ pc[s] = "findOpen"
      BY <1>2, <1>a, <2>3 DEF GoTo, FindOpen
    <3>2. RequestInv(s)'
      BY <1>0, <2>1, <2>3, <3>1, <1>d DEF RequestInv, KnowsFinished, NothingOpen, PickedFirst,
         SubmitsOpenRow, CountedSelf, CountedTeam, ReadSteps, SubmitSteps
    <3> QED
      BY <1>b, <2>1, <3>2
  <2> QED
    BY <1>2, <2>2, <2>3 DEF FindOpen
<1>3. CASE PickRow(s)
  <2>1. item' = item /\ completion' = completion /\ pc[s] = "pickRow" /\ seen' = seen
    BY <1>3 DEF PickRow, taskVars
  <2>2. CASE \E r \in (1..rowCount) \ seen[s] :
               /\ \A q \in (1..rowCount) \ seen[s] : r <= q
               /\ row' = [row EXCEPT ![s] = r]
               /\ GoTo(s, "openRow")
    <3>1. PICK r \in (1..rowCount) \ seen[s] :
               /\ \A q \in (1..rowCount) \ seen[s] : r <= q
               /\ row' = [row EXCEPT ![s] = r]
               /\ GoTo(s, "openRow")
      BY <2>2
    <3>2. row'[s] = r /\ pc'[s] = "openRow"
      BY <3>1, <1>a DEF GoTo
    <3>3. r \in Rows /\ r \notin seen[s] /\ 1..(r - 1) \subseteq seen[s]
      BY <3>1, <1>a, BoundsAssumption DEF Rows
    <3>4. RequestInv(s)'
      BY <1>0, <2>1, <3>2, <3>3, <1>d DEF RequestInv, KnowsFinished, NothingOpen, PickedFirst,
         SubmitsOpenRow, CountedSelf, CountedTeam, ReadSteps, SubmitSteps
    <3> QED
      BY <1>b, <2>1, <3>4
  <2>3. CASE GoTo(s, "countRows")
    <3>1. pc'[s] = "countRows"
      BY <2>3, <1>a DEF GoTo
    <3>2. RequestInv(s)'
      BY <1>0, <2>1, <3>1, <1>d DEF RequestInv, KnowsFinished, NothingOpen, PickedFirst,
         SubmitsOpenRow, CountedSelf, CountedTeam, ReadSteps, SubmitSteps
    <3> QED
      BY <1>b, <2>1, <3>2
  <2> QED
    BY <1>3, <2>2, <2>3 DEF PickRow
<1>4. CASE OpenRow(s)
  <2>1. NoFinalLost /\ ServedInOrder'
    BY <1>0, <1>4, OpenRowEffect
  <2>2. pc'[s] = "idle" /\ completion' = completion
    BY <1>4, <1>a DEF OpenRow, Answer
  <2> QED
    BY <1>0, <2>1, <2>2, IdleRequest, JustificationKept
<1>5. CASE CountRows(s)
  <2>1. item' = item /\ completion' = completion /\ pc[s] = "countRows"
    BY <1>5 DEF CountRows, taskVars
  <2>2. CASE Answer(s)
    BY <1>c, <2>1, <2>2
  <2>3. CASE /\ Cardinality(seen[s]) >= rowCount
             /\ total' = [total EXCEPT ![s] = rowCount]
             /\ GoTo(s, "readTeam")
             /\ UNCHANGED seen
    <3>1. pc'[s] = "readTeam" /\ total'[s] = rowCount /\ seen'[s] = seen[s]
      BY <2>3, <1>a DEF GoTo
    <3>2. RequestInv(s)'
      BY <1>0, <2>1, <2>3, <3>1, <1>d DEF RequestInv, KnowsFinished, NothingOpen, PickedFirst,
         SubmitsOpenRow, CountedSelf, CountedTeam, ReadSteps, SubmitSteps
    <3> QED
      BY <1>b, <2>1, <3>2
  <2> QED
    BY <1>5, <2>2, <2>3 DEF CountRows
<1>6. CASE ReadTeam(s)
  <2>1. item' = item /\ completion' = completion /\ pc[s] = "readTeam"
    BY <1>6 DEF ReadTeam, taskVars
  <2>2. /\ pc'[s] = "countTeam" /\ team'[s] = assigned /\ todo'[s] = assigned
        /\ seen'[s] = seen[s] /\ total'[s] = total[s]
    BY <1>6, <1>a DEF ReadTeam, GoTo
  <2>3. RequestInv(s)'
    BY <1>0, <2>1, <2>2, <1>d DEF RequestInv, KnowsFinished, NothingOpen, PickedFirst,
       SubmitsOpenRow, CountedSelf, CountedTeam, ReadSteps, SubmitSteps
  <2> QED
    BY <1>b, <2>1, <2>3
<1>7. CASE CountMember(s)
  <2>1. item' = item /\ completion' = completion /\ pc[s] = "countTeam"
    BY <1>7 DEF CountMember, taskVars
  <2>2. CASE Answer(s)
    BY <1>c, <2>1, <2>2
  <2>3. CASE \E e \in todo[s] : /\ Cardinality(Finished(e)) >= total[s]
                              /\ todo' = [todo EXCEPT ![s] = @ \ {e}]
                              /\ UNCHANGED <<pc, row, seen, total, team>>
    <3>1. PICK e \in todo[s] : /\ Cardinality(Finished(e)) >= total[s]
                              /\ todo' = [todo EXCEPT ![s] = @ \ {e}]
                              /\ UNCHANGED <<pc, row, seen, total, team>>
      BY <2>3
    <3>2. todo'[s] = todo[s] \ {e} /\ pc'[s] = "countTeam" /\ e \in Evaluators
      BY <3>1, <2>1, <1>a
    <3>3. CountedTeam(s)'
      <4> SUFFICES ASSUME NEW f \in team[s] \ todo'[s]
                   PROVE  Cardinality(Finished(f)') >= total[s]
        BY <3>1 DEF CountedTeam
      <4>1. Finished(f)' = Finished(f)
        BY <2>1 DEF Finished
      <4>2. f = e \/ f \in team[s] \ todo[s]
        BY <3>2
      <4> QED
        BY <1>0, <2>1, <3>1, <4>1, <4>2 DEF RequestInv, CountedTeam
    <3>4. RequestInv(s)'
      BY <1>0, <2>1, <3>1, <3>2, <3>3, <1>d DEF RequestInv, KnowsFinished, NothingOpen,
         PickedFirst, SubmitsOpenRow, CountedSelf, ReadSteps, SubmitSteps
    <3> QED
      BY <1>b, <2>1, <3>4
  <2> QED
    BY <1>7, <2>2, <2>3 DEF CountMember
<1>8. CASE CompleteTask(s)
  <2>1. /\ item' = item /\ pc[s] = "countTeam" /\ todo[s] = {} /\ pc'[s] = "idle"
        /\ completion' = [done |-> TRUE, rows |-> total[s], team |-> team[s]]
    BY <1>8, <1>a DEF CompleteTask, Answer
  <2>2. /\ \A e \in team[s] : Cardinality(Finished(e)) >= total[s]
        /\ Cardinality(Finished(Owner[s])) >= total[s]
    BY <1>0, <2>1 DEF RequestInv, CountedTeam, CountedSelf
  <2>3. CompletionJustified'
    BY <2>1, <2>2, <1>a, <1>d DEF CompletionJustified
  <2> QED
    BY <1>0, <2>1, <2>3, IdleRequest, ReadsLoseNothing
<1>9. CASE CheckExisting(s)
  <2>1. item' = item /\ completion' = completion /\ pc[s] = "checkExisting"
    BY <1>9 DEF CheckExisting, taskVars
  <2>2. CASE Answer(s)
    BY <1>c, <2>1, <2>2
  <2>3. CASE item[Owner[s]][row[s]] # "COMPLETED" /\ GoTo(s, "write") /\ UNCHANGED row
    <3>1. pc'[s] = "write"
      BY <2>3, <1>a DEF GoTo
    <3>2. RequestInv(s)'
      BY <1>0, <2>1, <2>3, <3>1 DEF RequestInv, KnowsFinished, NothingOpen, PickedFirst,
         SubmitsOpenRow, CountedSelf, CountedTeam, ReadSteps, SubmitSteps
    <3> QED
      BY <1>b, <2>1, <3>2
  <2> QED
    BY <1>9, <2>2, <2>3 DEF CheckExisting
<1>10. CASE WriteEvaluation(s)
  <2>1. NoFinalLost /\ ServedInOrder'
    BY <1>0, <1>10, WriteEffect
  <2>2. pc'[s] = "idle" /\ completion' = completion
    BY <1>10, <1>a DEF WriteEvaluation, Answer
  <2> QED
    BY <1>0, <2>1, <2>2, IdleRequest, JustificationKept
<1> QED
  BY <1>1, <1>2, <1>3, <1>4, <1>5, <1>6, <1>7, <1>8, <1>9, <1>10 DEF Serve

(* With sequential clients, other requests keep what they know across a step of s. *)
LEMMA OthersKept ==
  ASSUME SequentialClients, NEW s \in Requests, IInv, Serve(s), NEW t \in Requests \ {s}
  PROVE  RequestInv(t)'
<1>1. TypeOK /\ RequestInv(t) /\ NoFinalLost
  BY ServeEffect DEF IInv, ServeGoal
<1>2. Owner[t] \in Evaluators \ {Owner[s]}
  BY OwnerAssumption DEF SequentialClients
<1> QED
  BY <1>1, <1>2, ServeLocal, RequestKept

(* Starting a handler reads the task and nothing else. *)
LEMMA BeginEffect ==
  ASSUME NEW s \in Requests, IInv,
         BeginNext(s) \/ \E r \in Rows : BeginSubmit(s, r)
  PROVE  /\ \A t \in Requests : RequestInv(t)'
         /\ ServedInOrder' /\ CompletionJustified' /\ item' = item
<1>0. TypeOK /\ (\A t \in Requests : RequestInv(t)) /\ ServedInOrder /\ CompletionJustified
  BY DEF IInv
<1>1. item' = item /\ completion' = completion
  BY DEF BeginNext, BeginSubmit, taskVars
<1>2. NoFinalLost /\ ServedInOrder' /\ CompletionJustified'
  BY <1>0, <1>1, ReadsLoseNothing, JustificationKept
<1>3. ASSUME NEW t \in Requests \ {s}
      PROVE  RequestInv(t)'
  <2>1. /\ pc'[t] = pc[t] /\ row'[t] = row[t] /\ seen'[t] = seen[t]
        /\ total'[t] = total[t] /\ team'[t] = team[t] /\ todo'[t] = todo[t]
    BY <1>0 DEF BeginNext, BeginSubmit, GoTo, TypeOK, RequestTypes
  <2> QED
    BY <1>0, <1>1, <1>2, <2>1, RequestKept
<1>4. RequestInv(s)'
  <2>1. \/ pc'[s] \in {"idle", "listDone"}
        \/ pc'[s] = "checkExisting" /\ row'[s] \in Rows
    BY <1>0 DEF BeginNext, BeginSubmit, GoTo, TypeOK, RequestTypes
  <2> QED
    BY <2>1 DEF RequestInv, KnowsFinished, NothingOpen, PickedFirst, SubmitsOpenRow,
       CountedSelf, CountedTeam, ReadSteps, SubmitSteps
<1> QED
  BY <1>1, <1>2, <1>3, <1>4

(* The steps of admins, imports and of a restart leave what requests know alone, or end them. *)
LEMMA OtherSteps ==
  ASSUME IInv,
         \/ AssignEvaluators \/ AssignFails \/ AppendRow \/ Crash
         \/ \E a \in Activators : BeginActivate(a) \/ WriteActive(a)
         \/ \E a \in Pausers : BeginPause(a) \/ WritePaused(a)
         \/ UNCHANGED vars
  PROVE  /\ \A t \in Requests : RequestInv(t)'
         /\ ServedInOrder' /\ CompletionJustified'
         /\ item' = item /\ completion' = completion
<1>0. TypeOK /\ (\A t \in Requests : RequestInv(t)) /\ ServedInOrder /\ CompletionJustified
  BY DEF IInv
<1>1. item' = item /\ completion' = completion
  BY DEF AssignEvaluators, AssignFails, AppendRow, Crash, BeginActivate, WriteActive,
         BeginPause, WritePaused, taskVars, vars
<1>2. NoFinalLost /\ ServedInOrder' /\ CompletionJustified'
  BY <1>0, <1>1, ReadsLoseNothing, JustificationKept
<1>3. ASSUME NEW t \in Requests
      PROVE  RequestInv(t)'
  <2>1. CASE Crash
    BY <2>1, IdleRequest DEF Crash
  <2>2. CASE UNCHANGED requestVars
    BY <1>0, <1>1, <1>2, <2>2, RequestKept DEF requestVars
  <2>3. Crash \/ UNCHANGED requestVars
    BY DEF AssignEvaluators, AssignFails, AppendRow, BeginActivate, WriteActive,
           BeginPause, WritePaused, requestVars, vars
  <2> QED
    BY <2>1, <2>2, <2>3
<1> QED
  BY <1>1, <1>2, <1>3

(* The inductive invariant holds of every behaviour with sequential clients. *)
THEOREM Invariance ==
  ASSUME SequentialClients
  PROVE  Spec => []IInv
<1>1. Init => IInv
  <2> SUFFICES ASSUME Init PROVE IInv
    OBVIOUS
  <2>1. TypeOK
    BY TypeInit
  <2>2. \A s \in Requests : RequestInv(s)
    BY DEF Init, RequestInv, KnowsFinished, NothingOpen, PickedFirst, SubmitsOpenRow,
       CountedSelf, CountedTeam, ReadSteps, SubmitSteps
  <2>3. ServedInOrder
    BY DEF Init, ServedInOrder, InProgress
  <2>4. CompletionJustified
    BY DEF Init, CompletionJustified, NoCompletion
  <2> QED
    BY <2>1, <2>2, <2>3, <2>4 DEF IInv
<1>2. IInv /\ [Next]_vars => IInv'
  <2> SUFFICES ASSUME IInv, [Next]_vars
               PROVE  IInv'
    OBVIOUS
  <2>1. TypeOK'
    BY TypeStep DEF IInv
  <2>2. ASSUME NEW s \in Requests, Serve(s)
        PROVE  (\A t \in Requests : RequestInv(t)') /\ ServedInOrder' /\ CompletionJustified'
    BY <2>2, ServeEffect, OthersKept DEF ServeGoal
  <2>3. ASSUME NEW s \in Requests, BeginNext(s) \/ \E r \in Rows : BeginSubmit(s, r)
        PROVE  (\A t \in Requests : RequestInv(t)') /\ ServedInOrder' /\ CompletionJustified'
    BY <2>3, BeginEffect
  <2>4. (\A t \in Requests : RequestInv(t)') /\ ServedInOrder' /\ CompletionJustified'
    BY <2>2, <2>3, OtherSteps DEF Next
  <2> QED
    BY <2>1, <2>4 DEF IInv
<1> QED
  BY <1>1, <1>2, PTL DEF Spec

(***************************************************************************)
(* With one request per evaluator in flight, getNextItem serves rows in    *)
(* rowIndex order: what lies before an open item is final.                 *)
(***************************************************************************)
THEOREM QueueServedInOrder ==
  ASSUME SequentialClients
  PROVE  Spec => []ServedInOrder
<1>1. IInv => ServedInOrder
  BY DEF IInv
<1> QED
  BY <1>1, Invariance, PTL

(* No pending write of a sequential client would replace a final evaluation. *)
THEOREM FinalsNotOverwritten ==
  ASSUME SequentialClients
  PROVE  Spec => []NoFinalOverwritten
<1>1. IInv => NoFinalOverwritten
  <2> SUFFICES ASSUME IInv, NEW s \in Requests, pc[s] \in {"write", "openRow"}
               PROVE  item[Owner[s]][row[s]] # "COMPLETED"
    BY DEF NoFinalOverwritten
  <2>1. RequestInv(s)
    BY DEF IInv
  <2> QED
    BY <2>1 DEF RequestInv, SubmitsOpenRow, PickedFirst, KnowsFinished, ReadSteps, Finished
<1> QED
  BY <1>1, Invariance, PTL

(* Every completion ever recorded stays justified by finished evaluations. *)
THEOREM CompletionsJustified ==
  ASSUME SequentialClients
  PROVE  Spec => []CompletionJustified
<1>1. IInv => CompletionJustified
  BY DEF IInv
<1> QED
  BY <1>1, Invariance, PTL

-----------------------------------------------------------------------------
(* The workflow implements the ledger: the mapping is the identity on item *)
(* and completion, so each step is an entry's step, a closing or a stutter.*)

LEMMA OpenRowIsOpen ==
  ASSUME NEW s \in Requests, IInv, OpenRow(s)
  PROVE  \E r \in Rows : Ledger!Open(Owner[s], r)
<1>1. RequestInv(s) /\ TypeOK /\ Owner[s] \in Evaluators
  BY OwnerAssumption DEF IInv
<1>2. pc[s] = "openRow" /\ UNCHANGED completion
      /\ item' = [item EXCEPT ![Owner[s]][row[s]] = "IN_PROGRESS"]
  BY DEF OpenRow
<1>3. row[s] \in Rows /\ row[s] \notin Finished(Owner[s]) /\ InProgress(Owner[s]) = {}
  BY <1>1, <1>2 DEF RequestInv, KnowsFinished, NothingOpen, PickedFirst, ReadSteps
<1>4. \A q \in Rows : item[Owner[s]][q] # "IN_PROGRESS"
  BY <1>3 DEF InProgress
<1>5. item[Owner[s]][row[s]] = "NONE"
  BY <1>1, <1>3, <1>4 DEF TypeOK, TaskTypes, ItemStatus, Finished
<1> QED
  BY <1>2, <1>3, <1>4, <1>5 DEF Ledger!Open, Ledger!Rows, Rows

LEMMA WriteIsScore ==
  ASSUME NEW s \in Requests, IInv, WriteEvaluation(s)
  PROVE  \E r \in Rows : Ledger!Score(Owner[s], r)
<1>1. RequestInv(s)
  BY DEF IInv
<1>2. pc[s] = "write" /\ UNCHANGED completion
      /\ item' = [item EXCEPT ![Owner[s]][row[s]] = "COMPLETED"]
  BY DEF WriteEvaluation
<1>3. row[s] \in Rows /\ item[Owner[s]][row[s]] # "COMPLETED"
  BY <1>1, <1>2 DEF RequestInv, SubmitsOpenRow, SubmitSteps
<1> QED
  BY <1>2, <1>3 DEF Ledger!Score

LEMMA CompleteIsClose ==
  ASSUME NEW s \in Requests, IInv, CompleteTask(s)
  PROVE  \E members \in SUBSET Evaluators, n \in 0..MaxRows : Ledger!Close(members, n)
<1>1. RequestInv(s) /\ Owner[s] \in Evaluators
  BY OwnerAssumption DEF IInv
<1>2. team[s] \in SUBSET Evaluators /\ total[s] \in 0..MaxRows
  BY DEF IInv, TypeOK, RequestTypes
<1>3. /\ pc[s] = "countTeam" /\ todo[s] = {} /\ UNCHANGED item
      /\ completion' = [done |-> TRUE, rows |-> total[s], team |-> team[s]]
  BY DEF CompleteTask
<1>4. /\ \A e \in team[s] : Cardinality(Finished(e)) >= total[s]
      /\ Cardinality(Finished(Owner[s])) >= total[s]
  BY <1>1, <1>3 DEF RequestInv, CountedTeam, CountedSelf
<1>5. \A e \in Evaluators :
        Ledger!Cardinality(Ledger!EntryDone(e)) = Cardinality(Finished(e))
  BY DEF Ledger!Cardinality, Cardinality, Ledger!EntryDone, Ledger!Rows, Finished, Rows
<1>6. Ledger!Close(team[s], total[s])
  BY <1>1, <1>2, <1>3, <1>4, <1>5 DEF Ledger!Close
<1> QED
  BY <1>2, <1>6

(***************************************************************************)
(* With sequential clients every behaviour of the API is one of the        *)
(* ledger: entries only move forward and a task is closed on finished work.*)
(***************************************************************************)
THEOREM ImplementsLedger ==
  ASSUME SequentialClients
  PROVE  Spec => LedgerSpec
<1>1. Init => Ledger!LInit
  BY DEF Init, Ledger!LInit, NoCompletion, Ledger!NoCompletion, Rows, Ledger!Rows
<1>2. IInv /\ [Next]_vars => [Ledger!LNext]_(Ledger!ledgerVars)
  <2> SUFFICES ASSUME IInv, [Next]_vars
               PROVE  Ledger!LNext \/ UNCHANGED <<item, completion>>
    BY DEF Ledger!ledgerVars
  <2>1. ASSUME NEW s \in Requests, Serve(s)
        PROVE  Ledger!LNext \/ UNCHANGED <<item, completion>>
    <3>1. Owner[s] \in Evaluators
      BY OwnerAssumption
    <3>2. CASE OpenRow(s)
      BY <3>1, <3>2, OpenRowIsOpen DEF Ledger!LNext, Ledger!Rows, Rows
    <3>3. CASE WriteEvaluation(s)
      BY <3>1, <3>3, WriteIsScore DEF Ledger!LNext, Ledger!Rows, Rows
    <3>4. CASE CompleteTask(s)
      BY <3>4, CompleteIsClose DEF Ledger!LNext
    <3>5. CASE ~OpenRow(s) /\ ~WriteEvaluation(s) /\ ~CompleteTask(s)
      BY <2>1, <3>5 DEF Serve, ListDone, FindOpen, PickRow, CountRows, ReadTeam,
         CountMember, CheckExisting, taskVars
    <3> QED
      BY <3>2, <3>3, <3>4, <3>5
  <2>2. ASSUME NEW s \in Requests, BeginNext(s) \/ \E r \in Rows : BeginSubmit(s, r)
        PROVE  UNCHANGED <<item, completion>>
    BY <2>2 DEF BeginNext, BeginSubmit, taskVars
  <2> QED
    BY <2>1, <2>2, OtherSteps DEF Next
<1> QED
  BY <1>1, <1>2, Invariance, PTL DEF Spec, LedgerSpec, Ledger!LSpec
=============================================================================
