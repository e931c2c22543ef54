------------------------- MODULE ComparisonWorkflow -------------------------
(***************************************************************************)
(* One PAIRWISE or RANKING task: the pages of its evaluators, which show   *)
(* one row with its responses and submit one result for it, while an       *)
(* import of the dataset may replace the responses.  One action is one     *)
(* database call together with the synchronous code that follows it.       *)
(*                                                                         *)
(* A page may fetch the next row while it submits, but has one submit in   *)
(* flight at a time.  An evaluator may have several pages open.            *)
(***************************************************************************)
EXTENDS Naturals

CONSTANTS Evaluators,  (* users with the EVALUATOR role in the organization  *)
          Assigned,    (* the evaluators the task is assigned to             *)
          Clients,     (* pages in the evaluators' browsers                  *)
          Owner,       (* Owner[c]: the evaluator at page c                  *)
          MaxRows,     (* the rows of the dataset are 1..MaxRows             *)
          Responses,   (* Responses[r]: responses an import gives row r      *)
          MaxImports,  (* bound on the sets of responses imported            *)
          MaxCrashes   (* bound on restarts of the API process               *)

Rows == 1..MaxRows

ASSUME OwnerAssumption == Owner \in [Clients -> Evaluators]
ASSUME RowsAssumption == MaxRows \in Nat /\ Responses \in [Rows -> Nat]
ASSUME BoundsAssumption == MaxImports \in Nat \ {0} /\ MaxCrashes \in Nat

VARIABLES
    kind,      (* task.type                                                  *)
    active,    (* task.status is ACTIVE                                      *)
    result,    (* results by evaluator and row: comparisons, or rankings     *)
    linked,    (* those of them that refer to responses                      *)
    import,    (* which import the rows' responses come from                 *)
    present,   (* the responses are there, not deleted to be replaced        *)
    npc,       (* what each page's request for the next row awaits           *)
    seen,      (* its list of rows with a result                             *)
    page,      (* the row each page has, and the import of its responses     *)
    done,      (* the page says that nothing is left                         *)
    spc,       (* what each page's submit awaits                             *)
    sent,      (* the row and the import it was sent for                     *)
    crashes    (* API restarts so far                                        *)

resultVars == <<result, linked>>
responseVars == <<import, present>>
nextVars == <<npc, seen, page, done>>
submitVars == <<spc, sent>>
vars == <<kind, active, result, linked, import, present, npc, seen, page, done,
          spc, sent, crashes>>

Shown == [row : 0..MaxRows, import : 0..MaxImports]
Nothing == [row |-> 0, import |-> 0]

(* The task, its results, the responses, and the pages are well typed. *)
TypeOK ==
    /\ kind \in {"PAIRWISE", "RANKING"}
    /\ active \in BOOLEAN
    /\ result \in [Evaluators -> [Rows -> Nat]]
    /\ linked \in [Evaluators -> [Rows -> Nat]]
    /\ import \in 1..MaxImports
    /\ present \in BOOLEAN
    /\ npc \in [Clients -> {"idle", "list", "find"}]
    /\ seen \in [Clients -> SUBSET Rows]
    /\ page \in [Clients -> Shown]
    /\ done \in [Clients -> BOOLEAN]
    /\ spc \in [Clients -> {"idle", "check", "create", "entries"}]
    /\ sent \in [Clients -> Shown]
    /\ crashes \in 0..MaxCrashes

(* The task is ACTIVE and the dataset READY: nothing is shown or submitted yet. *)
Init ==
    /\ kind \in {"PAIRWISE", "RANKING"}
    /\ active = TRUE
    /\ result = [e \in Evaluators |-> [r \in Rows |-> 0]]
    /\ linked = [e \in Evaluators |-> [r \in Rows |-> 0]]
    /\ import = 1 /\ present = TRUE
    /\ npc = [c \in Clients |-> "idle"]
    /\ seen = [c \in Clients |-> {}]
    /\ page = [c \in Clients |-> Nothing]
    /\ done = [c \in Clients |-> FALSE]
    /\ spc = [c \in Clients |-> "idle"]
    /\ sent = [c \in Clients |-> Nothing]
    /\ crashes = 0

Admitted(e) == Assigned = {} \/ e \in Assigned

HasResult(e) == {r \in Rows : result[e][r] > 0}

(* The responses a row must have to be shown. *)
Needed == IF kind = "PAIRWISE" THEN 2 ELSE 1

-----------------------------------------------------------------------------
(* getNextPair and getNextRanking.                                         *)

BeginNext(c) ==
    /\ npc[c] = "idle"
    /\ active /\ Admitted(Owner[c])
    /\ npc' = [npc EXCEPT ![c] = "list"]
    /\ UNCHANGED <<kind, active, resultVars, responseVars, seen, page, done,
                   submitVars, crashes>>

(* Faulty variant: the list is not restricted to the evaluator. *)
ListDoneOfAll(c) ==
    /\ npc[c] = "list"
    /\ seen' = [seen EXCEPT ![c] = UNION {HasResult(e) : e \in Evaluators}]
    /\ npc' = [npc EXCEPT ![c] = "find"]
    /\ UNCHANGED <<kind, active, resultVars, responseVars, page, done, submitVars, crashes>>

ListDone(c) ==
    /\ npc[c] = "list"
    /\ seen' = [seen EXCEPT ![c] = HasResult(Owner[c])]
    /\ npc' = [npc EXCEPT ![c] = "find"]
    /\ UNCHANGED <<kind, active, resultVars, responseVars, page, done, submitVars, crashes>>

(* Faulty variant: the row after the one that was found. *)
FindRowAfter(c) ==
    /\ npc[c] = "find"
    /\ npc' = [npc EXCEPT ![c] = "idle"]
    /\ seen' = [seen EXCEPT ![c] = {}]
    /\ \E r \in Rows \ seen[c] :
          page' = [page EXCEPT ![c] = [row |-> r + 1, import |-> import]]
    /\ UNCHANGED <<kind, active, resultVars, responseVars, done, submitVars, crashes>>

(* The imports whose responses page c may submit with row r, 0 for none: the *)
(* ones fetched, or, as the ranking page keeps its order while the row is    *)
(* the same, the ones it had; Reset order takes the fetched ones.            *)
Held(c, r) ==
    LET fetched == IF present /\ Responses[r] > 0 THEN import ELSE 0
    IN IF kind = "RANKING" /\ page[c].row = r THEN {fetched, page[c].import} ELSE {fetched}

(* findFirst without orderBy: any row outside the list, one without enough *)
(* responses too, and then the page ends as if there were none.            *)
FindRow(c) ==
    LET left == Rows \ seen[c]
        Servable(r) == present /\ Responses[r] >= Needed IN
    /\ npc[c] = "find"
    /\ npc' = [npc EXCEPT ![c] = "idle"]
    /\ seen' = [seen EXCEPT ![c] = {}]
    /\ \/ \E r \in left : \E i \in Held(c, r) :
            /\ page' = [page EXCEPT ![c] = IF kind = "PAIRWISE" /\ ~Servable(r)
                                          THEN Nothing ELSE [row |-> r, import |-> i]]
            /\ done' = [done EXCEPT ![c] = ~Servable(r)]
       \/ /\ left = {}
          /\ page' = [page EXCEPT ![c] = Nothing]
          /\ done' = [done EXCEPT ![c] = TRUE]
    /\ UNCHANGED <<kind, active, resultVars, responseVars, submitVars, crashes>>

-----------------------------------------------------------------------------
(* submit and submitRanking.                                               *)

(* The request is over: answered, or ended by an exception. *)
EndSubmit(c) ==
    /\ spc' = [spc EXCEPT ![c] = "idle"]
    /\ sent' = [sent EXCEPT ![c] = Nothing]

(* A foreign key to a response of the row as it was shown holds. *)
Refers(c) == present /\ sent[c].import = import

Add(table, e, r) == [table EXCEPT ![e][r] = @ + 1]

BeginSubmit(c) ==
    /\ spc[c] = "idle"
    /\ ~done[c] /\ page[c].row # 0 /\ page[c].import # 0
    /\ active /\ Admitted(Owner[c])
    /\ spc' = [spc EXCEPT ![c] = "check"]
    /\ sent' = [sent EXCEPT ![c] = page[c]]
    /\ UNCHANGED <<kind, active, resultVars, responseVars, nextVars, crashes>>

(* Faulty variant: submit without the 403 on a row that has a result. *)
CheckExistingSkipped(c) ==
    /\ spc[c] = "check"
    /\ spc' = [spc EXCEPT ![c] = "create"]
    /\ UNCHANGED <<kind, active, resultVars, responseVars, nextVars, sent, crashes>>

CheckExisting(c) ==
    /\ spc[c] = "check"
    /\ \/ /\ result[Owner[c]][sent[c].row] > 0
          /\ EndSubmit(c)
       \/ /\ result[Owner[c]][sent[c].row] = 0
          /\ spc' = [spc EXCEPT ![c] = "create"]
          /\ UNCHANGED sent
    /\ UNCHANGED <<kind, active, resultVars, responseVars, nextVars, crashes>>

(* A comparison names its responses: replaced ones make create throw. *)
CreateComparison(c) ==
    /\ spc[c] = "create" /\ kind = "PAIRWISE"
    /\ \/ /\ Refers(c)
          /\ result' = Add(result, Owner[c], sent[c].row)
          /\ linked' = Add(linked, Owner[c], sent[c].row)
       \/ ~Refers(c) /\ UNCHANGED resultVars
    /\ EndSubmit(c)
    /\ UNCHANGED <<kind, active, responseVars, nextVars, crashes>>

(* A ranking result names its row only; the entries follow in a second call. *)
CreateRanking(c) ==
    /\ spc[c] = "create" /\ kind = "RANKING"
    /\ result' = Add(result, Owner[c], sent[c].row)
    /\ spc' = [spc EXCEPT ![c] = "entries"]
    /\ UNCHANGED <<kind, active, linked, responseVars, nextVars, sent, crashes>>

(* Faulty variant: the entries are not inserted while the task is paused. *)
CreateEntriesIfActive(c) ==
    /\ spc[c] = "entries"
    /\ \/ active /\ Refers(c) /\ linked' = Add(linked, Owner[c], sent[c].row)
       \/ ~(active /\ Refers(c)) /\ UNCHANGED linked
    /\ EndSubmit(c)
    /\ UNCHANGED <<kind, active, result, responseVars, nextVars, crashes>>

(* Entries of replaced responses make createMany throw: the result stays. *)
CreateEntries(c) ==
    /\ spc[c] = "entries"
    /\ \/ Refers(c) /\ linked' = Add(linked, Owner[c], sent[c].row)
       \/ ~Refers(c) /\ UNCHANGED linked
    /\ EndSubmit(c)
    /\ UNCHANGED <<kind, active, result, responseVars, nextVars, crashes>>

-----------------------------------------------------------------------------
(* The rest of the system.                                                 *)

(* activate and pause; no PAIRWISE or RANKING task is completed by itself. *)
SetActive ==
    /\ active' = ~active
    /\ UNCHANGED <<kind, resultVars, responseVars, nextVars, submitVars, crashes>>

Referenced == \E e \in Evaluators, r \in Rows : linked[e][r] > 0

(* Faulty variant: the references are deleted with the responses. *)
ClearResponsesCascading ==
    /\ import < MaxImports
    /\ present
    /\ present' = FALSE
    /\ linked' = [e \in Evaluators |-> [r \in Rows |-> 0]]
    /\ UNCHANGED <<kind, active, result, import, nextVars, submitVars, crashes>>

(* An import's deleteMany; a comparison or a ranking entry restricts it. *)
ClearResponses ==
    /\ import < MaxImports
    /\ present /\ ~Referenced
    /\ present' = FALSE
    /\ UNCHANGED <<kind, active, resultVars, import, nextVars, submitVars, crashes>>

CreateResponses ==
    /\ ~present
    /\ present' = TRUE
    /\ import' = import + 1
    /\ UNCHANGED <<kind, active, resultVars, nextVars, submitVars, crashes>>

(* Requests in flight are lost; the pages keep what they show. *)
Crash ==
    /\ crashes < MaxCrashes
    /\ crashes' = crashes + 1
    /\ npc' = [c \in Clients |-> "idle"]
    /\ seen' = [c \in Clients |-> {}]
    /\ spc' = [c \in Clients |-> "idle"]
    /\ sent' = [c \in Clients |-> Nothing]
    /\ UNCHANGED <<kind, active, resultVars, responseVars, page, done>>

-----------------------------------------------------------------------------
Submit(c) ==
    \/ BeginSubmit(c) \/ CheckExisting(c) \/ CreateComparison(c)
    \/ CreateRanking(c) \/ CreateEntries(c)

Next ==
    \/ \E c \in Clients : BeginNext(c) \/ ListDone(c) \/ FindRow(c) \/ Submit(c)
    \/ SetActive \/ ClearResponses \/ CreateResponses \/ Crash

Spec == Init /\ [][Next]_vars

-----------------------------------------------------------------------------
(* Properties.                                                             *)

(* Every evaluator has at most one page of the task open. *)
SequentialClients == \A c, d \in Clients : Owner[c] = Owner[d] => c = d

(***************************************************************************)
(* An evaluator has at most one result per row, though no unique key says  *)
(* so: win rates, rankings and progress counts take a row once.            *)
(***************************************************************************)
OneResultEach == \A e \in Evaluators, r \in Rows : result[e][r] <= 1

(***************************************************************************)
(* The task implements ResultBook: results are entered once and kept, and  *)
(* responses that one of them refers to are never replaced or deleted.     *)
(***************************************************************************)
Book == INSTANCE ResultBook WITH
            Evaluators <- Evaluators, Rows <- Rows,
            result <- result, linked <- linked, import <- import, present <- present

BookSpec == Book!BSpec

(* No import has begun to replace the responses, and no restart happened. *)
Undisturbed == import = 1 /\ present /\ crashes = 0

(***************************************************************************)
(* Without an import or a restart every ranking has its entries, or the    *)
(* submit that made it is about to insert them.                            *)
(***************************************************************************)
RankingsWhole ==
    Undisturbed =>
        \A e \in Evaluators, r \in Rows :
            \/ linked[e][r] = result[e][r]
            \/ \E c \in Clients : Owner[c] = e /\ spc[c] = "entries" /\ sent[c].row = r

(***************************************************************************)
(* Where every row has enough responses and none are being replaced, a     *)
(* page says that nothing is left only to an evaluator who has done all.   *)
(***************************************************************************)
QueueComplete ==
    Undisturbed /\ (\A r \in Rows : Responses[r] >= Needed) =>
        \A c \in Clients : done[c] => HasResult(Owner[c]) = Rows

(***************************************************************************)
(* A page that says the evaluator has compared every pair is right: each   *)
(* row that has a pair has a comparison of theirs.                         *)
(***************************************************************************)
EveryPairCompared ==
    kind = "PAIRWISE" /\ Undisturbed =>
        \A c \in Clients, r \in Rows :
            done[c] /\ Responses[r] >= 2 => result[Owner[c]][r] > 0
=============================================================================
