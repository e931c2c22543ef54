------------------------- MODULE EvaluationWorkflow -------------------------
(***************************************************************************)
(* One SINGLE-score evaluation task, from its creation to its automatic    *)
(* completion, as the API serves it.  Every handler is an async function:  *)
(* between two awaits any other request may run, so a request is a small   *)
(* state machine that carries what it read.  One action is one database    *)
(* call together with the synchronous code that follows it.                *)
(*                                                                         *)
(* A request slot belongs to one evaluator (Owner).  An evaluator with one *)
(* slot sends a request only when the previous one was answered; one with  *)
(* two slots also has the page's background refetch in flight.             *)
(***************************************************************************)
EXTENDS Naturals, FiniteSets

CONSTANTS Evaluators,  (* users with the EVALUATOR role in the organization  *)
          Requests,    (* request slots of the evaluators' clients           *)
          Owner,       (* Owner[s]: the evaluator whose client uses slot s   *)
          Activators,  (* request slots of admins for activate               *)
          Pausers,     (* request slots of admins for pause                  *)
          MaxRows,     (* bound on the rows of the task's dataset            *)
          MaxCrashes   (* bound on restarts of the API process               *)

ASSUME EvaluatorsAssumption == IsFiniteSet(Evaluators)
ASSUME OwnerAssumption == Owner \in [Requests -> Evaluators]
ASSUME BoundsAssumption == MaxRows \in Nat /\ MaxCrashes \in Nat

Rows == 1..MaxRows
Admins == Activators \cup Pausers

VARIABLES
    status,     (* evaluationTask.status                                     *)
    assigned,   (* evaluators with a taskAssignment row                      *)
    toAssign,   (* evaluatorIds create() has not inserted yet                *)
    rowCount,   (* rows of the dataset, rowIndex 1..rowCount                 *)
    item,       (* evaluation.status by evaluator and row, NONE: no record   *)
    completion, (* what the last write of COMPLETED rested on (history)      *)
    pc,         (* what each evaluator request awaits next                   *)
    row,        (* the row a request works on, 0: none                       *)
    seen,       (* getNextItem's evaluatedIds                                *)
    total,      (* maybeCompleteTask's totalRows                             *)
    team,       (* maybeCompleteTask's assignments                           *)
    todo,       (* members of team its loop has not counted yet              *)
    apc,        (* what each admin request awaits next                       *)
    refetch,    (* clients that owe a getNextItem after an accepted submit   *)
    crashes     (* API restarts so far                                       *)

taskVars == <<status, assigned, toAssign, rowCount, item, completion>>
requestVars == <<pc, row, seen, total, team, todo>>
vars == <<status, assigned, toAssign, rowCount, item, completion,
          pc, row, seen, total, team, todo, apc, refetch, crashes>>

TaskStatus == {"DRAFT", "ACTIVE", "PAUSED", "COMPLETED"}
ItemStatus == {"NONE", "IN_PROGRESS", "COMPLETED"}
NextSteps == {"listDone", "findOpen", "pickRow", "openRow",
              "countRows", "readTeam", "countTeam"}
SubmitSteps == {"checkExisting", "write"}
PC == {"idle"} \cup NextSteps \cup SubmitSteps

Finished(e) == {r \in Rows : item[e][r] = "COMPLETED"}
InProgress(e) == {r \in Rows : item[e][r] = "IN_PROGRESS"}

(* Faulty variant: any evaluator of the organization is admitted. *)
AdmittedAlways(e) == e \in Evaluators

(* assertEvaluatorAssigned: a task without assignments is open to anyone. *)
Admitted(e) == assigned = {} \/ e \in assigned

NoCompletion == [done |-> FALSE, rows |-> 0, team |-> {}]

TaskTypes ==
    /\ status \in TaskStatus
    /\ assigned \in SUBSET Evaluators
    /\ toAssign \in SUBSET Evaluators
    /\ rowCount \in 0..MaxRows
    /\ item \in [Evaluators -> [Rows -> ItemStatus]]
    /\ completion \in [done : BOOLEAN, rows : 0..MaxRows, team : SUBSET Evaluators]

RequestTypes ==
    /\ pc \in [Requests -> PC]
    /\ row \in [Requests -> 0..MaxRows]
    /\ seen \in [Requests -> SUBSET Rows]
    /\ total \in [Requests -> 0..MaxRows]
    /\ team \in [Requests -> SUBSET Evaluators]
    /\ todo \in [Requests -> SUBSET Evaluators]

(* The task's tables, the requests in flight and their clients are well typed. *)
TypeOK ==
    /\ TaskTypes
    /\ RequestTypes
    /\ apc \in [Admins -> {"idle", "write"}]
    /\ refetch \in SUBSET Requests
    /\ crashes \in 0..MaxCrashes

(* create() has inserted the DRAFT task; its assignments come in a second call. *)
Init ==
    /\ status = "DRAFT"
    /\ assigned = {}
    /\ toAssign \in SUBSET Evaluators
    /\ rowCount \in 0..MaxRows
    /\ item = [e \in Evaluators |-> [r \in Rows |-> "NONE"]]
    /\ completion = NoCompletion
    /\ pc = [s \in Requests |-> "idle"]
    /\ row = [s \in Requests |-> 0]
    /\ seen = [s \in Requests |-> {}]
    /\ total = [s \in Requests |-> 0]
    /\ team = [s \in Requests |-> {}]
    /\ todo = [s \in Requests |-> {}]
    /\ apc = [a \in Admins |-> "idle"]
    /\ refetch = {}
    /\ crashes = 0

-----------------------------------------------------------------------------
(* The admin's side: EvaluationTasksService.                               *)

AssignEvaluators ==
    /\ toAssign # {}
    /\ assigned' = toAssign
    /\ toAssign' = {}
    /\ UNCHANGED <<status, rowCount, item, completion, requestVars, apc, refetch, crashes>>

(* createMany rejects an unknown evaluator id: create() throws, the task stays. *)
AssignFails ==
    /\ toAssign # {}
    /\ toAssign' = {}
    /\ UNCHANGED <<status, assigned, rowCount, item, completion, requestVars, apc, refetch, crashes>>

BeginActivate(a) ==
    /\ apc[a] = "idle"
    /\ status \in {"DRAFT", "PAUSED"}
    /\ apc' = [apc EXCEPT ![a] = "write"]
    /\ UNCHANGED <<taskVars, requestVars, refetch, crashes>>

WriteActive(a) ==
    /\ apc[a] = "write"
    /\ status' = "ACTIVE"
    /\ apc' = [apc EXCEPT ![a] = "idle"]
    /\ UNCHANGED <<assigned, toAssign, rowCount, item, completion, requestVars, refetch, crashes>>

(* Faulty variant: pause forgets to require an ACTIVE task. *)
BeginPauseUnchecked(a) ==
    /\ apc[a] = "idle"
    /\ apc' = [apc EXCEPT ![a] = "write"]
    /\ UNCHANGED <<taskVars, requestVars, refetch, crashes>>

BeginPause(a) ==
    /\ apc[a] = "idle"
    /\ status = "ACTIVE"
    /\ apc' = [apc EXCEPT ![a] = "write"]
    /\ UNCHANGED <<taskVars, requestVars, refetch, crashes>>

WritePaused(a) ==
    /\ apc[a] = "write"
    /\ status' = "PAUSED"
    /\ apc' = [apc EXCEPT ![a] = "idle"]
    /\ UNCHANGED <<assigned, toAssign, rowCount, item, completion, requestVars, refetch, crashes>>

(* createPrompt, or a batch of a running import, appends a row; no task is asked. *)
AppendRow ==
    /\ rowCount < MaxRows
    /\ rowCount' = rowCount + 1
    /\ UNCHANGED <<status, assigned, toAssign, item, completion, requestVars, apc, refetch, crashes>>

-----------------------------------------------------------------------------
(* The evaluator's side: EvaluationsService.                               *)

(* The request is answered: its local variables are gone. *)
Answer(s) ==
    /\ pc' = [pc EXCEPT ![s] = "idle"]
    /\ row' = [row EXCEPT ![s] = 0]
    /\ seen' = [seen EXCEPT ![s] = {}]
    /\ total' = [total EXCEPT ![s] = 0]
    /\ team' = [team EXCEPT ![s] = {}]
    /\ todo' = [todo EXCEPT ![s] = {}]

GoTo(s, step) == pc' = [pc EXCEPT ![s] = step]

(* getNextItem reads the task: 403 unless it is ACTIVE and the caller admitted. *)
BeginNext(s) ==
    /\ pc[s] = "idle"
    /\ \/ /\ status = "ACTIVE"
          /\ Admitted(Owner[s])
          /\ GoTo(s, "listDone")
          /\ UNCHANGED refetch
       \/ /\ ~(status = "ACTIVE" /\ Admitted(Owner[s]))
          /\ refetch' = refetch \ {s}
          /\ UNCHANGED pc
    /\ UNCHANGED <<taskVars, row, seen, total, team, todo, apc, crashes>>

ListDone(s) ==
    /\ pc[s] = "listDone"
    /\ seen' = [seen EXCEPT ![s] = Finished(Owner[s])]
    /\ GoTo(s, "findOpen")
    /\ UNCHANGED <<taskVars, row, total, team, todo, apc, refetch, crashes>>

(* An IN_PROGRESS item is resumed as it is: answered with no write. *)
FindOpen(s) ==
    /\ pc[s] = "findOpen"
    /\ \/ /\ InProgress(Owner[s]) # {}
          /\ Answer(s)
          /\ refetch' = refetch \ {s}
       \/ /\ InProgress(Owner[s]) = {}
          /\ GoTo(s, "pickRow")
          /\ UNCHANGED <<row, seen, total, team, todo, refetch>>
    /\ UNCHANGED <<taskVars, apc, crashes>>

(* Faulty variant: findFirst without orderBy. *)
PickRowUnordered(s) ==
    LET left == (1..rowCount) \ seen[s] IN
    /\ pc[s] = "pickRow"
    /\ \/ \E r \in left :
            /\ row' = [row EXCEPT ![s] = r]
            /\ GoTo(s, "openRow")
       \/ /\ left = {}
          /\ GoTo(s, "countRows")
          /\ UNCHANGED row
    /\ UNCHANGED <<taskVars, seen, total, team, todo, apc, refetch, crashes>>

(* Faulty variant: the row after the last evaluated one, past the end too. *)
PickRowPastEnd(s) ==
    /\ pc[s] = "pickRow"
    /\ row' = [row EXCEPT ![s] = Cardinality(seen[s]) + 1]
    /\ GoTo(s, "openRow")
    /\ UNCHANGED <<taskVars, seen, total, team, todo, apc, refetch, crashes>>

(* The first row by rowIndex outside the list read two awaits ago. *)
PickRow(s) ==
    LET left == (1..rowCount) \ seen[s] IN
    /\ pc[s] = "pickRow"
    /\ \/ \E r \in left :
            /\ \A q \in left : r <= q
            /\ row' = [row EXCEPT ![s] = r]
            /\ GoTo(s, "openRow")
       \/ /\ left = {}
          /\ GoTo(s, "countRows")
          /\ UNCHANGED row
    /\ UNCHANGED <<taskVars, seen, total, team, todo, apc, refetch, crashes>>

(* The upsert whose update branch sets IN_PROGRESS whatever the record says. *)
OpenRow(s) ==
    /\ pc[s] = "openRow"
    /\ item' = [item EXCEPT ![Owner[s]][row[s]] = "IN_PROGRESS"]
    /\ Answer(s)
    /\ refetch' = refetch \ {s}
    /\ UNCHANGED <<status, assigned, toAssign, rowCount, completion, apc, crashes>>

(* Faulty variant: completes whenever the evaluator's queue looked empty. *)
CountRowsUnchecked(s) ==
    /\ pc[s] = "countRows"
    /\ total' = [total EXCEPT ![s] = rowCount]
    /\ GoTo(s, "readTeam")
    /\ UNCHANGED <<taskVars, row, seen, todo, team, apc, refetch, crashes>>

(* Faulty variant: <= for <, so that nobody has ever finished. *)
CountRowsOffByOne(s) ==
    /\ pc[s] = "countRows"
    /\ Cardinality(seen[s]) <= rowCount
    /\ Answer(s)
    /\ refetch' = refetch \ {s}
    /\ UNCHANGED <<taskVars, apc, crashes>>

CountRows(s) ==
    /\ pc[s] = "countRows"
    /\ \/ /\ Cardinality(seen[s]) < rowCount
          /\ Answer(s)
          /\ refetch' = refetch \ {s}
       \/ /\ Cardinality(seen[s]) >= rowCount
          /\ total' = [total EXCEPT ![s] = rowCount]
          /\ GoTo(s, "readTeam")
          /\ UNCHANGED <<row, seen, team, todo, refetch>>
    /\ UNCHANGED <<taskVars, apc, crashes>>

ReadTeam(s) ==
    /\ pc[s] = "readTeam"
    /\ team' = [team EXCEPT ![s] = assigned]
    /\ todo' = [todo EXCEPT ![s] = assigned]
    /\ GoTo(s, "countTeam")
    /\ UNCHANGED <<taskVars, row, seen, total, apc, refetch, crashes>>

(* Faulty variant: allDone is never cleared. *)
CountMemberIgnored(s) ==
    /\ pc[s] = "countTeam"
    /\ \E e \in todo[s] : todo' = [todo EXCEPT ![s] = @ \ {e}]
    /\ UNCHANGED <<taskVars, pc, row, seen, total, team, apc, refetch, crashes>>

(* One turn of the loop: a member short of the total ends it. *)
CountMember(s) ==
    /\ pc[s] = "countTeam"
    /\ \E e \in todo[s] :
        \/ /\ Cardinality(Finished(e)) < total[s]
           /\ Answer(s)
           /\ refetch' = refetch \ {s}
        \/ /\ Cardinality(Finished(e)) >= total[s]
           /\ todo' = [todo EXCEPT ![s] = @ \ {e}]
           /\ UNCHANGED <<pc, row, seen, total, team, refetch>>
    /\ UNCHANGED <<taskVars, apc, crashes>>

(* The update names the task by id only: whatever the status is now, it is replaced. *)
CompleteTask(s) ==
    /\ pc[s] = "countTeam"
    /\ todo[s] = {}
    /\ status' = "COMPLETED"
    /\ completion' = [done |-> TRUE, rows |-> total[s], team |-> team[s]]
    /\ Answer(s)
    /\ refetch' = refetch \ {s}
    /\ UNCHANGED <<assigned, toAssign, rowCount, item, apc, crashes>>

(* submit reads the task, then looks the row up in its dataset; any row may be named. *)
BeginSubmit(s, r) ==
    /\ pc[s] = "idle"
    /\ status = "ACTIVE"
    /\ Admitted(Owner[s])
    /\ r \in 1..rowCount
    /\ row' = [row EXCEPT ![s] = r]
    /\ GoTo(s, "checkExisting")
    /\ UNCHANGED <<taskVars, seen, total, team, todo, apc, refetch, crashes>>

(* Faulty variant: submit without the 409 on a COMPLETED evaluation. *)
CheckExistingSkipped(s) ==
    /\ pc[s] = "checkExisting"
    /\ GoTo(s, "write")
    /\ UNCHANGED <<taskVars, row, seen, total, team, todo, apc, refetch, crashes>>

CheckExisting(s) ==
    /\ pc[s] = "checkExisting"
    /\ \/ /\ item[Owner[s]][row[s]] = "COMPLETED"
          /\ Answer(s)
       \/ /\ item[Owner[s]][row[s]] # "COMPLETED"
          /\ GoTo(s, "write")
          /\ UNCHANGED <<row, seen, total, team, todo>>
    /\ UNCHANGED <<taskVars, apc, refetch, crashes>>

(* On success the client invalidates next-eval: it will ask for the next item. *)
WriteEvaluation(s) ==
    /\ pc[s] = "write"
    /\ item' = [item EXCEPT ![Owner[s]][row[s]] = "COMPLETED"]
    /\ Answer(s)
    /\ refetch' = refetch \cup {s}
    /\ UNCHANGED <<status, assigned, toAssign, rowCount, completion, apc, crashes>>

(* The API process restarts: requests in flight are lost, the database stays. *)
Crash ==
    /\ crashes < MaxCrashes
    /\ crashes' = crashes + 1
    /\ toAssign' = {}
    /\ pc' = [s \in Requests |-> "idle"]
    /\ row' = [s \in Requests |-> 0]
    /\ seen' = [s \in Requests |-> {}]
    /\ total' = [s \in Requests |-> 0]
    /\ team' = [s \in Requests |-> {}]
    /\ todo' = [s \in Requests |-> {}]
    /\ apc' = [a \in Admins |-> "idle"]
    /\ UNCHANGED <<status, assigned, rowCount, item, completion, refetch>>

-----------------------------------------------------------------------------
(* What the server does for a request it has started. *)
Serve(s) ==
    \/ ListDone(s) \/ FindOpen(s) \/ PickRow(s) \/ OpenRow(s)
    \/ CountRows(s) \/ ReadTeam(s) \/ CountMember(s) \/ CompleteTask(s)
    \/ CheckExisting(s) \/ WriteEvaluation(s)

Next ==
    \/ AssignEvaluators \/ AssignFails \/ AppendRow \/ Crash
    \/ \E a \in Activators : BeginActivate(a) \/ WriteActive(a)
    \/ \E a \in Pausers : BeginPause(a) \/ WritePaused(a)
    \/ \E s \in Requests : BeginNext(s) \/ Serve(s)
    \/ \E s \in Requests, r \in Rows : BeginSubmit(s, r)

Spec == Init /\ [][Next]_vars

(***************************************************************************)
(* A request the server started ends unless the process restarts.  The     *)
(* page that had a submit accepted asks for the next item, and further     *)
(* submits of its user do not hold that request back for ever (SF).        *)
(* Nobody is obliged to score, activate, pause or add rows.                *)
(***************************************************************************)
Fairness ==
    \A s \in Requests :
        /\ WF_vars(Serve(s))
        /\ SF_vars(s \in refetch /\ BeginNext(s))

FairSpec == Spec /\ Fairness

-----------------------------------------------------------------------------
(* Properties.                                                             *)

(* Every evaluator has at most one request of their own in flight. *)
SequentialClients == \A s, t \in Requests : Owner[s] = Owner[t] => s = t

(***************************************************************************)
(* The queue is served in rowIndex order, also while rows are appended and *)
(* items are submitted out of order: before an open item all is final.     *)
(***************************************************************************)
ServedInOrder ==
    \A e \in Evaluators : \A r \in InProgress(e) : 1..(r - 1) \subseteq Finished(e)

(* No write awaits that would replace a final evaluation, by submit or by reopening. *)
NoFinalOverwritten ==
    \A s \in Requests :
        pc[s] \in {"write", "openRow"} => item[Owner[s]][row[s]] # "COMPLETED"

(***************************************************************************)
(* Whenever a task has been completed, every assigned evaluator it counted *)
(* has finished as many rows as the dataset had when they were counted,    *)
(* and so has someone when the task is open to all.  It must survive every *)
(* later step: restarts, appended rows, stale admin writes, reopenings.    *)
(***************************************************************************)
CompletionJustified ==
    completion.done =>
        /\ \A e \in completion.team : Cardinality(Finished(e)) >= completion.rows
        /\ \E e \in Evaluators : Cardinality(Finished(e)) >= completion.rows

(***************************************************************************)
(* A COMPLETED task with no admin request in flight stays so: no request   *)
(* that starts afterwards reopens or pauses it.                            *)
(***************************************************************************)
Settled == status = "COMPLETED" /\ \A a \in Admins : apc[a] = "idle"

SettledStays == [][Settled => Settled']_vars

(***************************************************************************)
(* An evaluator outside a task's assignments, with nothing in flight, gets *)
(* no further into it: no item of theirs is opened or scored again.        *)
(***************************************************************************)
Outside(e) ==
    /\ assigned # {} /\ e \notin assigned
    /\ \A s \in Requests : Owner[s] = e => pc[s] = "idle"

OutsidersShutOut ==
    [][\A e \in Evaluators : Outside(e) => Outside(e)' /\ item'[e] = item[e]]_vars

(* The workflow implements the ledger of EvaluationLedger. *)
Ledger == INSTANCE EvaluationLedger WITH
             Evaluators <- Evaluators, MaxRows <- MaxRows, item <- item, completion <- completion

LedgerSpec == Ledger!LSpec

(* A final evaluation stays final: what getNextItem's comment says of such rows. *)
FinalStaysFinal ==
    [][\A e \in Evaluators : Finished(e) \subseteq Finished(e)']_vars

(***************************************************************************)
(* An assigned task whose evaluators have all finished does not stay       *)
(* ACTIVE: one of the requests that follow their last submits closes it.   *)
(***************************************************************************)
AllFinished ==
    /\ status = "ACTIVE" /\ assigned # {} /\ rowCount > 0
    /\ \A e \in assigned : Finished(e) = 1..rowCount

AutoCompletes == []<>~AllFinished
=============================================================================
