-------------------------- MODULE ResponseGeneration --------------------------
(***************************************************************************)
(* Response generation, composed with the import of the same dataset:      *)
(* ModelInferenceWorker answers the rows the import writes and moves the   *)
(* status the import worker and the reaper move.  A restart takes all of   *)
(* them down.  One job of each queue runs at a time.                       *)
(***************************************************************************)
EXTENDS DatasetImport

CONSTANTS Requesters,      (* the generateResponses requests made            *)
          GenSlots,        (* bound: places for jobs in the inference queue  *)
          GenAttempts,     (* attempts given to modelInferenceQueue.add      *)
          MaxRow           (* bound: rows of the longest file                *)

ASSUME GenerationAssumption ==
    /\ GenAttempts \in Nat \ {0} /\ MaxRow \in Nat
    /\ \A f \in 1..Files : FileRows[f] <= MaxRow
    /\ ~Comparing

VARIABLES
    answers,   (* answers[r]: model responses of row r                       *)
    gjobs,     (* the model-inference queue                                  *)
    gpc,       (* what its worker awaits next                                *)
    todo,      (* the rows its loop still has to answer                      *)
    failing,   (* onFailed handlers whose write is under way                 *)
    gen        (* what each generateResponses request awaits next            *)

queueGen == <<gjobs, gpc, todo, failing>>
genVars == <<answers, queueGen, gen>>
allVars == <<vars, genVars>>

RowIds == 1..MaxRow
NoGenJob == [state |-> "none", made |-> 0, stalls |-> 0]

(* The rows without a model response. *)
Unanswered == {r \in rows : answers[r] = 0}

GTypeOK ==
    /\ TypeOK /\ rows \subseteq RowIds
    /\ answers \in [RowIds -> Nat]
    /\ gjobs \in [GenSlots -> [state : JobState, made : 0..GenAttempts, stalls : 0..MaxStalls]]
    /\ gpc \in {"idle", "list", "mark", "answer", "ready", "finish", "reject"}
    /\ todo \subseteq rows
    /\ failing \in Nat
    /\ gpc # "idle" <=> \E j \in GenSlots : gjobs[j].state = "active"
    /\ gen \in [Requesters -> {"idle", "count", "add", "done"}]

GInit ==
    /\ Init
    /\ answers = [r \in RowIds |-> 0]
    /\ gjobs = [j \in GenSlots |-> NoGenJob] /\ gpc = "idle" /\ todo = {} /\ failing = 0
    /\ gen = [q \in Requesters |-> "idle"]

(* dataset.update with a status, everything else of the import left alone. *)
WriteStatus(s) ==
    /\ SetStatus(s)
    /\ UNCHANGED <<fileUrl, rowCount, rows, responses, compared, history, files, jobs, late,
                   wpc, inserted, exhausted, rpc, rfile, kpc, kfile, faults, crashes>>

(* Calls of this part that fail: only the fault counter of the import moves. *)
GenFault ==
    /\ Fault
    /\ UNCHANGED <<datasetVars, queueVars, workerVars, requestVars, reaperVars, crashes>>

-----------------------------------------------------------------------------
(* DatasetsService.generateResponses.                                      *)

BeginGenerate(q) ==
    /\ gen[q] = "idle"
    /\ status \in {"READY", "PROCESSING"}
    /\ gen' = [gen EXCEPT ![q] = "count"]
    /\ UNCHANGED <<vars, answers, queueGen>>

(* 400 when every row has a response. *)
CountPending(q) ==
    /\ gen[q] = "count"
    /\ gen' = [gen EXCEPT ![q] = IF Unanswered = {} THEN "done" ELSE "add"]
    /\ UNCHANGED <<vars, answers, queueGen>>

(* An add that fails is only logged. *)
AddGeneration(q) ==
    /\ gen[q] = "add"
    /\ gen' = [gen EXCEPT ![q] = "done"]
    /\ \/ \E j \in GenSlots :
             /\ gjobs[j].state = "none"
             /\ gjobs' = [gjobs EXCEPT ![j].state = "waiting"]
             /\ UNCHANGED vars
       \/ GenFault /\ UNCHANGED gjobs
    /\ UNCHANGED <<answers, gpc, todo, failing>>

-----------------------------------------------------------------------------
(* ModelInferenceWorker.handleGenerateResponses.                           *)

TakeGeneration(j) ==
    /\ gpc = "idle" /\ gjobs[j].state = "waiting"
    /\ gjobs' = [gjobs EXCEPT ![j].state = "active"]
    /\ gpc' = "list"
    /\ UNCHANGED <<vars, answers, todo, failing, gen>>

(* Faulty variant: every row is answered again. *)
ListRowsAll ==
    /\ gpc = "list"
    /\ todo' = rows
    /\ gpc' = (IF todo' = {} THEN "ready" ELSE "mark")
    /\ UNCHANGED <<vars, answers, gjobs, failing, gen>>

(* The rows without a response, read once. *)
ListRows ==
    /\ gpc = "list"
    /\ todo' = Unanswered
    /\ gpc' = (IF todo' = {} THEN "ready" ELSE "mark")
    /\ UNCHANGED <<vars, answers, gjobs, failing, gen>>

MarkGenerating ==
    /\ gpc = "mark"
    /\ WriteStatus("PROCESSING")
    /\ gpc' = "answer"
    /\ UNCHANGED <<answers, gjobs, todo, failing, gen>>

(***************************************************************************)
(* One turn of the loop: the provider answers and the response is stored,  *)
(* or the row is skipped, or job.progress throws after the response.       *)
(***************************************************************************)
AnswerRow ==
    /\ gpc = "answer"
    /\ \E r \in todo :
       /\ \A q \in todo : r <= q
       /\ todo' = todo \ {r}
       /\ \/ /\ answers' = [answers EXCEPT ![r] = @ + 1]
             /\ gpc' = (IF todo' = {} THEN "ready" ELSE "answer")
             /\ UNCHANGED vars
          \/ /\ UNCHANGED answers
             /\ gpc' = (IF todo' = {} THEN "ready" ELSE "answer")
             /\ GenFault
          \/ /\ answers' = [answers EXCEPT ![r] = @ + 1]
             /\ gpc' = "reject"
             /\ GenFault
    /\ UNCHANGED <<gjobs, failing, gen>>

(* READY, whatever the status has become meanwhile. *)
GenerationReady ==
    /\ gpc = "ready"
    /\ WriteStatus("READY")
    /\ gpc' = "finish"
    /\ UNCHANGED <<answers, gjobs, todo, failing, gen>>

FinishGeneration(j) ==
    /\ gpc = "finish" /\ gjobs[j].state = "active"
    /\ gjobs' = [gjobs EXCEPT ![j] = NoGenJob]
    /\ gpc' = "idle" /\ todo' = {}
    /\ UNCHANGED <<vars, answers, failing, gen>>

(* Bull counts the failed attempt; onFailed runs for every one of them. *)
RejectGeneration(j) ==
    /\ gpc = "reject" /\ gjobs[j].state = "active"
    /\ gjobs' = [gjobs EXCEPT ![j] =
                   IF @.made + 1 < GenAttempts
                   THEN [@ EXCEPT !.state = "delayed", !.made = gjobs[j].made + 1]
                   ELSE NoGenJob]
    /\ gpc' = "idle" /\ todo' = {}
    /\ failing' = failing + 1
    /\ UNCHANGED <<vars, answers, gen>>

(* onFailed writes READY over anything. *)
OnGenerationFailed ==
    /\ failing > 0
    /\ failing' = failing - 1
    /\ WriteStatus("READY")
    /\ UNCHANGED <<answers, gjobs, gpc, todo, gen>>

(* Faulty variant: a job that stalls for the first time is dropped. *)
ResumeGenerationStrict(j) ==
    /\ \/ /\ gjobs[j].state = "delayed"
          /\ gjobs' = [gjobs EXCEPT ![j].state = "waiting"]
          /\ UNCHANGED failing
       \/ /\ gjobs[j].state = "stalled"
          /\ gjobs' = [gjobs EXCEPT ![j] = NoGenJob]
          /\ failing' = failing + 1
    /\ UNCHANGED <<vars, answers, gpc, todo, gen>>

(* Bull's own sweeps: a back-off that is over, a job whose process died. *)
ResumeGeneration(j) ==
    /\ \/ /\ gjobs[j].state = "delayed"
          /\ gjobs' = [gjobs EXCEPT ![j].state = "waiting"]
          /\ UNCHANGED failing
       \/ /\ gjobs[j].state = "stalled" /\ gjobs[j].stalls < MaxStalls
          /\ gjobs' = [gjobs EXCEPT ![j].state = "waiting", ![j].stalls = @ + 1]
          /\ UNCHANGED failing
       \/ /\ gjobs[j].state = "stalled" /\ gjobs[j].stalls >= MaxStalls
          /\ gjobs' = [gjobs EXCEPT ![j] = NoGenJob]
          /\ failing' = failing + 1
    /\ UNCHANGED <<vars, answers, gpc, todo, gen>>

-----------------------------------------------------------------------------
(* Faulty variant: a job is given back while its loop goes on. *)
GenerationDiesNot ==
    /\ gjobs' = [j \in GenSlots |->
                   IF gjobs[j].state = "active" THEN [gjobs[j] EXCEPT !.state = "stalled"]
                   ELSE gjobs[j]]
    /\ failing' = 0
    /\ gen' = [q \in Requesters |-> IF gen[q] = "idle" THEN "idle" ELSE "done"]
    /\ UNCHANGED <<answers, gpc, todo>>

(* A restart ends the worker's loop, the requests and the handlers in flight. *)
GenerationDies ==
    /\ gjobs' = [j \in GenSlots |->
                   IF gjobs[j].state = "active" THEN [gjobs[j] EXCEPT !.state = "stalled"]
                   ELSE gjobs[j]]
    /\ gpc' = "idle" /\ todo' = {} /\ failing' = 0
    /\ gen' = [q \in Requesters |-> IF gen[q] = "idle" THEN "idle" ELSE "done"]
    /\ UNCHANGED answers

(* What a step of the import does to the responses of the rows. *)
ImportedAnswers ==
    [r \in RowIds |->
        IF wpc = "clear" /\ wpc' = "respond" THEN 0
        ELSE IF wpc = "respond" /\ wpc' = "ready" /\ r <= inserted THEN answers[r] + 1
        ELSE answers[r]]

Beside == answers' = ImportedAnswers /\ UNCHANGED <<queueGen, gen>>

Import == Run /\ Beside

Restart == Crash /\ GenerationDies

Generate ==
    \/ \E j \in GenSlots : TakeGeneration(j) \/ FinishGeneration(j) \/ RejectGeneration(j)
    \/ ListRows \/ MarkGenerating \/ AnswerRow \/ GenerationReady

GenerationRequest(q) == CountPending(q) \/ AddGeneration(q)

GNext ==
    \/ Import \/ Restart \/ Generate \/ OnGenerationFailed
    \/ \E j \in GenSlots : ResumeGeneration(j)
    \/ \E q \in Requesters : BeginGenerate(q) \/ GenerationRequest(q)

GSpec == GInit /\ [][GNext]_allVars

(***************************************************************************)
(* As for the import: workers, sweeps, handlers and started requests go    *)
(* on.  Nobody has to ask for responses.                                   *)
(***************************************************************************)
GFairness ==
    /\ WF_allVars(Work /\ Beside) /\ WF_allVars(OnFailed /\ Beside)
    /\ \A j \in Slots : WF_allVars((Promote(j) \/ Stalled(j)) /\ Beside)
    /\ \A r \in Senders : WF_allVars(Handle(r) /\ Beside)
    /\ WF_allVars(Age /\ Beside) /\ WF_allVars(Reap /\ Beside)
    /\ WF_allVars(Generate) /\ WF_allVars(OnGenerationFailed)
    /\ \A j \in GenSlots : WF_allVars(ResumeGeneration(j))
    /\ \A q \in Requesters : WF_allVars(GenerationRequest(q))

GFairSpec == GSpec /\ GFairness

-----------------------------------------------------------------------------
(* Properties.                                                             *)

(***************************************************************************)
(* Generation tops up: through retries, restarts, failed rows and several  *)
(* requests no row gets a second response, where no file brings responses. *)
(***************************************************************************)
OneAnswerEach == Responding = {} => \A r \in RowIds : answers[r] <= 1

(***************************************************************************)
(* A generation that ends during an import announces READY too early.  As  *)
(* long as no call fails, the job that brings the missing rows is then     *)
(* still there, through a restart as well.                                 *)
(***************************************************************************)
EarlyReadyHeals == faults = 0 /\ Live = {} => ReadyIsBacked

(***************************************************************************)
(* An admitted generation answers every row that was there when its job    *)
(* was waiting, unless a call fails: no restart and no other writer of the *)
(* dataset makes it forget one.                                            *)
(***************************************************************************)
Wanted(r) == r \in rows /\ \E j \in GenSlots : gjobs[j].state = "waiting"

GapsFilled == \A r \in RowIds : Wanted(r) ~> (answers[r] > 0 \/ faults > 0)
=============================================================================
