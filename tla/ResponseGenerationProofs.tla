------------------------ MODULE ResponseGenerationProofs ------------------------
(***************************************************************************)
(* Theorems about ResponseGeneration, for any requests, slots, files,      *)
(* attempts, stalls, faults and restarts of the import and the generation. *)
(***************************************************************************)
EXTENDS ResponseGeneration, DatasetImportProofs

(* The import worker runs one job, and stays below the end of its file. *)
OneImport ==
    /\ \A j, k \in Slots : Runs(j) /\ Runs(k) => j = k
    /\ wpc = "idle" => \A j \in Slots : ~Runs(j)
    /\ wpc = "download" => inserted = 0
    /\ wpc = "insert" => \A j \in Slots : Runs(j) => inserted < FileRows[jobs[j].file]

(* The inference worker runs one job. *)
OneLoop ==
    /\ \A j, k \in GenSlots : gjobs[j].state = "active" /\ gjobs[k].state = "active" => j = k
    /\ gpc # "idle" <=> \E j \in GenSlots : gjobs[j].state = "active"

(* The rows still to be answered have no answer, where no file brings one. *)
Topping ==
    Responding = {} =>
        /\ wpc \notin {"clear", "respond"}
        /\ \A r \in todo : answers[r] = 0
        /\ OneAnswerEach

GenJob == [state : JobState, made : 0..GenAttempts, stalls : 0..MaxStalls]

GTyped ==
    /\ rows \subseteq RowIds
    /\ answers \in [RowIds -> Nat]
    /\ gjobs \in [GenSlots -> GenJob]
    /\ gpc \in {"idle", "list", "mark", "answer", "ready", "finish", "reject"}
    /\ todo \subseteq rows
    /\ failing \in Nat
    /\ gen \in [Requesters -> {"idle", "count", "add", "done"}]

ImportInv == TypeOK /\ FilesKnown /\ OneImport
GInv == ImportInv /\ GTyped /\ OneLoop /\ Topping

(* The dataset counts the rows of one uploaded file. *)
Counted == \E f \in 1..files : rowCount = FileRows[f]

(* What the worker does once a file is counted. *)
AfterReady == {"createVersion", "setVersion", "finish", "fail", "reject"}

(***************************************************************************)
(* The inductive invariant of EarlyReadyHeals.  A job is dropped without   *)
(* having counted its file only for a fault, for a response that is        *)
(* compared, or for one stall too many, and a stall takes a restart.       *)
(***************************************************************************)
Dropless ==
    /\ LoopInv /\ 1..rowCount \subseteq rows /\ ~compared /\ StallsBounded
    /\ faults = 0 =>
          /\ wpc \in AfterReady => Counted
          /\ rows # {} /\ Live = {} => Counted

(* Nobody generates, or marks READY early, before there are rows. *)
RowsFirst ==
    /\ \/ \E j \in GenSlots : gjobs[j].state # "none"
       \/ failing > 0
       \/ \E q \in Requesters : gen[q] = "add"
       => rows # {}
    /\ faults = 0 /\ status = "READY" => Counted \/ rows # {}

HealInv == Dropless /\ RowsFirst

-----------------------------------------------------------------------------
(* The import's own steps.                                                 *)

(* A job that reaches the queue waits; the others are as they were. *)
LEMMA PushWaits ==
  ASSUME TypeOK, NEW f \in 0..Files, Push(f)
  PROVE  \A j \in Slots : jobs'[j] = jobs[j] \/ jobs'[j].state = "waiting"
  BY DEF TypeOK, Push, Free

(* What a step of the import may do to its jobs, its loop and the rows. *)
LEMMA ImportRuns ==
  ASSUME ImportInv, [Next]_vars
  PROVE  OneImport'
<1> USE DEF datasetVars, queueVars, workerVars, requestVars, reaperVars
<1>0. TypeOK /\ FilesKnown /\ OneImport /\ jobs \in [Slots -> JobType]
  BY DEF ImportInv, TypeOK, JobType
<1>f. /\ \A r \in Senders : rfile[r] \in 0..Files
      /\ \A f \in 1..Files : f \in 0..Files
      /\ kfile \in 0..Files
  BY FilesAssumption, <1>0 DEF TypeOK
<1>1. ASSUME wpc' = wpc, inserted' = inserted,
             \A j \in Slots : jobs'[j] = jobs[j] \/ jobs'[j].state # "active"
      PROVE  OneImport'
  BY <1>0, <1>1 DEF OneImport, Runs
<1>2. CASE \/ \E r \in Uploaders : BeginUpload(r)
           \/ \E r \in Reprocessors : BeginReprocess(r)
           \/ Archive \/ Compare \/ OnFailed \/ Age \/ UNCHANGED vars
  BY <1>1, <1>2 DEF BeginUpload, BeginReprocess, Archive, Compare, OnFailed, Age, vars
<1>3. ASSUME NEW r \in Senders, Handle(r) PROVE OneImport'
  <2>1. CASE Enqueue(r) /\ Push(rfile[r])
    BY <1>0, <1>1, <1>f, <2>1, PushWaits DEF Enqueue
  <2>2. CASE jobs' = jobs
    BY <1>1, <1>3, <2>2 DEF Handle, Store, MarkUploaded, MarkAgain, Enqueue, MarkFailed
  <2> QED
    BY <1>3, <2>1, <2>2 DEF Handle, Store, MarkUploaded, MarkAgain, Enqueue, MarkFailed
<1>4. ASSUME NEW f \in 1..Files, LateAdd(f) PROVE OneImport'
  BY <1>0, <1>1, <1>4, <1>f, PushWaits DEF LateAdd
<1>5. CASE Reap
  <2>1. CASE ReapAdd /\ Push(kfile)
    BY <1>0, <1>1, <1>f, <2>1, PushWaits DEF ReapAdd
  <2>2. CASE jobs' = jobs
    BY <1>1, <1>5, <2>2 DEF Reap, ReapFind, ReapLive, ReapAdd, ReapTouch, ReapFail
  <2> QED
    BY <1>5, <2>1, <2>2 DEF Reap, ReapFind, ReapLive, ReapAdd, ReapTouch, ReapFail
<1>6. ASSUME NEW j \in Slots, Promote(j) \/ Stalled(j) PROVE OneImport'
  BY <1>0, <1>1, <1>6 DEF Promote, Stalled, NoJob, JobType
<1>7. CASE Crash
  <2>1. \A j \in Slots : ~Runs(j)'
    BY <1>0, <1>7 DEF Crash, Runs, JobType
  <2> QED
    BY <1>7, <2>1 DEF Crash, OneImport
<1>8. CASE Work
  <2>1. ASSUME NEW j \in Slots, TakeJob(j) PROVE OneImport'
    BY <1>0, <2>1 DEF TakeJob, OneImport, Runs, JobType
  <2>2. ASSUME NEW j \in Slots, Download(j) PROVE OneImport'
    <3>1. FileRows[jobs[j].file] \in Nat
      BY <1>0, <2>2, FilesAssumption DEF Download, Runs, FilesKnown, TypeOK
    <3>2. \A k \in Slots : Runs(k)' => k = j /\ jobs'[k] = jobs[k]
      BY <1>0, <2>2 DEF Download, OneImport, Runs
    <3>3. wpc' \in {"ready", "fail", "insert"} /\ inserted' = 0
          /\ (wpc' = "insert" => FileRows[jobs[j].file] # 0)
      BY <1>0, <2>2 DEF Download, OneImport
    <3> QED
      BY <3>1, <3>2, <3>3 DEF OneImport
  <2>3. ASSUME NEW j \in Slots, InsertBatch(j) PROVE OneImport'
    <3>1. FileRows[jobs[j].file] \in Nat /\ inserted \in Nat /\ inserted < FileRows[jobs[j].file]
      BY <1>0, <2>3, FilesAssumption DEF InsertBatch, Runs, FilesKnown, TypeOK, OneImport
    <3>2. \A k \in Slots : Runs(k)' => k = j /\ jobs'[k] = jobs[k]
      BY <1>0, <2>3 DEF InsertBatch, OneImport, Runs
    <3>3. inserted' = inserted + 1 /\ wpc' \in {"clear", "ready", "insert"}
          /\ (wpc' = "insert" => inserted + 1 # FileRows[jobs[j].file])
      BY <2>3 DEF InsertBatch, AfterRows
    <3> QED
      BY <3>1, <3>2, <3>3 DEF OneImport
  <2>4. ASSUME NEW j \in Slots, FinishJob(j) \/ RejectJob(j) PROVE OneImport'
    <3>1. wpc' = "idle" /\ jobs'[j].state # "active" /\ \A k \in Slots : k # j => jobs'[k] = jobs[k]
      BY <1>0, <2>4 DEF FinishJob, RejectJob, NoJob, JobType
    <3>2. \A k \in Slots : ~Runs(k)'
      BY <1>0, <2>4, <3>1 DEF FinishJob, RejectJob, OneImport, Runs
    <3> QED
      BY <3>1, <3>2 DEF OneImport
  <2>5. CASE \/ ClearResponses \/ CreateResponses \/ MarkReady
           \/ CreateVersion \/ SetVersion \/ FailImport
    BY <1>0, <2>5 DEF ClearResponses, CreateResponses, MarkReady, CreateVersion, SetVersion,
       FailImport, OneImport, Runs
  <2> QED
    BY <1>8, <2>1, <2>2, <2>3, <2>4, <2>5 DEF Work
<1> QED
  BY <1>2, <1>3, <1>4, <1>5, <1>6, <1>7, <1>8 DEF Next, Run, Bull

(* Rows are added only, below the length of some file. *)
LEMMA ImportRows ==
  ASSUME ImportInv, [Next]_vars, rows \subseteq RowIds
  PROVE  rows \subseteq rows' /\ rows' \subseteq RowIds
<1> USE DEF datasetVars, queueVars, workerVars, requestVars, reaperVars
<1>1. ASSUME NEW j \in Slots, InsertBatch(j) PROVE inserted + 1 \in RowIds
  <2>1. jobs[j].file \in 1..Files
    BY <1>1, FilesAssumption DEF ImportInv, TypeOK, FilesKnown, InsertBatch, Runs
  <2>2. FileRows[jobs[j].file] \in Nat /\ FileRows[jobs[j].file] <= MaxRow /\ MaxRow \in Nat
    BY <2>1, FilesAssumption, GenerationAssumption
  <2>3. inserted \in Nat /\ inserted < FileRows[jobs[j].file]
    BY <1>1 DEF ImportInv, TypeOK, OneImport, InsertBatch
  <2> QED
    BY <2>2, <2>3 DEF RowIds
<1>2. \/ rows' = rows
      \/ \E j \in Slots : InsertBatch(j) /\ rows' = rows \cup {inserted + 1}
  <2>1. CASE Work
    BY <2>1 DEF Work, TakeJob, Download, InsertBatch, ClearResponses, CreateResponses,
       MarkReady, CreateVersion, SetVersion, FinishJob, FailImport, RejectJob
  <2>2. CASE \/ \E r \in Uploaders : BeginUpload(r)
             \/ \E r \in Reprocessors : BeginReprocess(r)
             \/ \E r \in Senders : Handle(r)
    BY <2>2 DEF BeginUpload, BeginReprocess, Handle, Store, MarkUploaded, MarkAgain,
       Enqueue, MarkFailed
  <2>3. CASE \/ Archive \/ Compare \/ OnFailed \/ Bull \/ (\E f \in 1..Files : LateAdd(f))
             \/ Age \/ Reap \/ Crash \/ UNCHANGED vars
    BY <2>3 DEF Archive, Compare, OnFailed, Bull, Promote, Stalled, LateAdd, Age, Reap,
       ReapFind, ReapLive, ReapAdd, ReapTouch, ReapFail, Crash, vars
  <2> QED
    BY <2>1, <2>2, <2>3 DEF Next, Run
<1> QED
  BY <1>1, <1>2

(* Without response columns an import never gets to responses. *)
LEMMA ImportBringsNone ==
  ASSUME Responding = {}, wpc \notin {"clear", "respond"}, [Next]_vars
  PROVE  wpc' \notin {"clear", "respond"}
<1> USE DEF datasetVars, queueVars, workerVars, requestVars, reaperVars
<1>1. CASE Work
  BY <1>1 DEF Work, TakeJob, Download, InsertBatch, AfterRows, ClearResponses, CreateResponses,
     MarkReady, CreateVersion, SetVersion, FinishJob, FailImport, RejectJob
<1>2. CASE \/ \E r \in Uploaders : BeginUpload(r)
           \/ \E r \in Reprocessors : BeginReprocess(r)
           \/ \E r \in Senders : Handle(r)
  BY <1>2 DEF BeginUpload, BeginReprocess, Handle, Store, MarkUploaded, MarkAgain,
       Enqueue, MarkFailed
<1>3. CASE \/ Archive \/ Compare \/ OnFailed \/ Bull \/ (\E f \in 1..Files : LateAdd(f))
           \/ Age \/ Reap \/ Crash \/ UNCHANGED vars
  BY <1>3 DEF Archive, Compare, OnFailed, Bull, Promote, Stalled, LateAdd, Age, Reap,
     ReapFind, ReapLive, ReapAdd, ReapTouch, ReapFail, Crash, vars
<1> QED
  BY <1>1, <1>2, <1>3 DEF Next, Run

-----------------------------------------------------------------------------
(* The composition.                                                        *)

(* A step of the import keeps the invariant of the two together. *)
LEMMA ImportStep ==
  ASSUME GInv, Import
  PROVE  GInv'
<1>0. /\ ImportInv /\ GTyped /\ OneLoop /\ Topping
      /\ Next /\ answers' = ImportedAnswers
      /\ UNCHANGED <<gjobs, gpc, todo, failing, gen>>
  BY DEF GInv, Import, Beside, Next, queueGen
<1>1. ImportInv'
  BY <1>0, TypeStep, FilesKnownStep, ImportRuns DEF ImportInv
<1>2. GTyped'
  <2>1. rows \subseteq rows' /\ rows' \subseteq RowIds
    BY <1>0, ImportRows DEF GTyped
  <2>2. answers' \in [RowIds -> Nat]
    <3>1. \A r \in RowIds : answers[r] \in Nat /\ answers[r] + 1 \in Nat
      BY <1>0 DEF GTyped
    <3> QED
      BY <1>0, <3>1 DEF ImportedAnswers
  <2> QED
    BY <1>0, <2>1, <2>2 DEF GTyped
<1>3. OneLoop'
  BY <1>0 DEF OneLoop
<1>4. ASSUME Responding = {} PROVE answers' = answers /\ wpc' \notin {"clear", "respond"}
  <2>1. wpc \notin {"clear", "respond"}
    BY <1>0, <1>4 DEF Topping
  <2>2. wpc' \notin {"clear", "respond"}
    BY <1>0, <1>4, <2>1, ImportBringsNone
  <2>3. answers' = [r \in RowIds |-> answers[r]]
    BY <1>0, <2>1, <2>2 DEF ImportedAnswers
  <2> QED
    BY <1>0, <2>2, <2>3 DEF GTyped
<1>5. Topping'
  BY <1>0, <1>4 DEF Topping, OneAnswerEach
<1> QED
  BY <1>1, <1>2, <1>3, <1>5 DEF GInv

(* What generation does to the import's state. *)
LEMMA OthersSteps ==
  ASSUME ImportInv,
         UNCHANGED vars \/ GenFault \/ WriteStatus("READY") \/ WriteStatus("PROCESSING")
  PROVE  ImportInv' /\ rows' = rows /\ wpc' = wpc
<1> USE DEF ImportInv, FilesKnown, OneImport, Runs
<1>1. CASE UNCHANGED vars
  BY <1>1 DEF vars, TypeOK
<1>2. CASE GenFault
  <2>1. faults' \in 0..MaxFaults
    BY <1>2, BoundsAssumption DEF GenFault, Fault, TypeOK
  <2> QED
    BY <1>2, <2>1 DEF GenFault, TypeOK, datasetVars, queueVars, workerVars, requestVars, reaperVars
<1>3. CASE WriteStatus("READY") \/ WriteStatus("PROCESSING")
  <2>1. /\ status' \in DatasetStatus /\ old' = FALSE
        /\ UNCHANGED <<fileUrl, rowCount, rows, responses, compared, history, files, jobs, late,
                       wpc, inserted, exhausted, rpc, rfile, kpc, kfile, faults, crashes>>
    BY <1>3 DEF WriteStatus, SetStatus, DatasetStatus
  <2>2. TypeOK'
    BY <2>1 DEF TypeOK
  <2> QED
    BY <2>1, <2>2
<1> QED
  BY <1>1, <1>2, <1>3

(* The generation's own part of the invariant. *)
GenInv == GTyped /\ OneLoop /\ Topping

(* The worker's loop: it lists, answers and ends a job. *)
LEMMA GenerateStep ==
  ASSUME GInv, Generate
  PROVE  GInv'
<1>0. /\ ImportInv /\ GTyped /\ OneLoop /\ Topping
      /\ gjobs \in [GenSlots -> GenJob]
      /\ \A j \in GenSlots : gjobs[j] \in GenJob
  BY DEF GInv, GTyped
<1>1. ImportInv' /\ rows' = rows /\ wpc' = wpc
  <2>1. UNCHANGED vars \/ GenFault \/ WriteStatus("READY") \/ WriteStatus("PROCESSING")
    BY DEF Generate, TakeGeneration, FinishGeneration, RejectGeneration, ListRows,
       MarkGenerating, AnswerRow, GenerationReady
  <2> QED
    BY <1>0, <2>1, OthersSteps
<1>l. ASSUME gjobs' = gjobs, gpc # "idle", gpc' # "idle" PROVE OneLoop'
  BY <1>0, <1>l DEF OneLoop
<1>2. ASSUME NEW j \in GenSlots, TakeGeneration(j) PROVE GenInv'
  <2>1. gjobs' \in [GenSlots -> GenJob]
    BY <1>0, <1>2 DEF TakeGeneration, GenJob, JobState
  <2>2. OneLoop'
    BY <1>0, <1>2 DEF TakeGeneration, OneLoop, GenJob
  <2> QED
    BY <1>0, <1>1, <1>2, <2>1, <2>2 DEF TakeGeneration, GenInv, GTyped, Topping, OneAnswerEach
<1>3. ASSUME NEW j \in GenSlots, FinishGeneration(j) \/ RejectGeneration(j) PROVE GenInv'
  <2>1. gjobs' \in [GenSlots -> GenJob] /\ gjobs'[j].state # "active"
        /\ \A k \in GenSlots : k # j => gjobs'[k] = gjobs[k]
    <3>1. NoGenJob \in GenJob /\ NoGenJob.state = "none"
      BY BoundsAssumption, GenerationAssumption DEF NoGenJob, GenJob, JobState
    <3>2. CASE FinishGeneration(j)
      BY <1>0, <3>1, <3>2 DEF FinishGeneration
    <3>3. CASE RejectGeneration(j)
      <4>1. CASE gjobs[j].made + 1 < GenAttempts
        <5>1. [gjobs[j] EXCEPT !.state = "delayed", !.made = gjobs[j].made + 1] \in GenJob
          <6>1. gjobs[j].made + 1 \in 0..GenAttempts
            BY <1>0, <4>1, GenerationAssumption DEF GenJob
          <6> QED
            BY <1>0, <6>1 DEF GenJob, JobState
        <5>2. [gjobs[j] EXCEPT !.state = "delayed", !.made = gjobs[j].made + 1].state = "delayed"
          BY <1>0 DEF GenJob
        <5>3. gjobs' = [gjobs EXCEPT ![j] =
                         [gjobs[j] EXCEPT !.state = "delayed", !.made = gjobs[j].made + 1]]
          BY <1>0, <3>3, <4>1 DEF RejectGeneration
        <5> QED
          BY <1>0, <5>1, <5>2, <5>3
      <4>2. CASE ~(gjobs[j].made + 1 < GenAttempts)
        BY <1>0, <3>1, <3>3, <4>2 DEF RejectGeneration
      <4> QED
        BY <4>1, <4>2
    <3> QED
      BY <1>3, <3>2, <3>3
  <2>2. gjobs[j].state = "active" /\ gpc' = "idle" /\ todo' = {} /\ answers' = answers
        /\ failing' \in Nat /\ gen' = gen
    BY <1>0, <1>3 DEF FinishGeneration, RejectGeneration, GTyped
  <2>3. OneLoop'
    BY <1>0, <2>1, <2>2 DEF OneLoop
  <2>4. GTyped'
    BY <1>0, <1>1, <2>1, <2>2 DEF GTyped
  <2> QED
    BY <1>0, <1>1, <2>2, <2>3, <2>4 DEF GenInv, Topping, OneAnswerEach
<1>4. CASE ListRows
  <2>1. todo' \subseteq rows /\ \A r \in todo' : answers[r] = 0
    BY <1>4 DEF ListRows, Unanswered
  <2> QED
    <3>1. /\ UNCHANGED <<answers, gjobs, failing, gen>>
          /\ gpc # "idle" /\ gpc' \in {"ready", "mark"}
      BY <1>4 DEF ListRows
    <3>2. OneLoop'
      BY <1>l, <3>1
    <3>3. GTyped'
      BY <1>0, <1>1, <2>1, <3>1 DEF GTyped
    <3>4. Topping'
      BY <1>0, <1>1, <2>1, <3>1 DEF Topping, OneAnswerEach
    <3> QED
      BY <1>1, <3>2, <3>3, <3>4 DEF GInv
<1>5. CASE MarkGenerating \/ GenerationReady
  <2>1. /\ UNCHANGED <<answers, gjobs, todo, failing, gen>>
        /\ gpc # "idle" /\ gpc' \in {"answer", "finish"}
    BY <1>5 DEF MarkGenerating, GenerationReady
  <2>2. OneLoop'
    BY <1>l, <2>1
  <2>3. GTyped'
    BY <1>0, <1>1, <2>1 DEF GTyped
  <2>4. Topping'
    BY <1>0, <1>1, <2>1 DEF Topping, OneAnswerEach
  <2> QED
    BY <1>1, <2>2, <2>3, <2>4 DEF GInv
<1>6. CASE AnswerRow
  <2>1. PICK r \in todo :
           /\ todo' = todo \ {r}
           /\ answers' = answers \/ answers' = [answers EXCEPT ![r] = @ + 1]
    BY <1>6 DEF AnswerRow
  <2>2. gpc = "answer" /\ gpc' \in {"ready", "answer", "reject"}
        /\ UNCHANGED <<gjobs, failing, gen>>
    BY <1>6 DEF AnswerRow
  <2>3. r \in RowIds /\ answers \in [RowIds -> Nat]
    BY <1>0, <2>1 DEF GTyped
  <2>4. answers' \in [RowIds -> Nat]
        /\ \A x \in RowIds : x # r => answers'[x] = answers[x]
        /\ (answers[r] = 0 => answers'[r] <= 1)
    BY <2>1, <2>3
  <2>5. todo' \subseteq RowIds
    BY <1>0, <2>1 DEF GTyped
  <2>6. Topping'
    <3> SUFFICES ASSUME Responding = {}
                 PROVE  /\ wpc' \notin {"clear", "respond"}
                        /\ \A x \in todo' : answers'[x] = 0
                        /\ \A x \in RowIds : answers'[x] <= 1
      BY DEF Topping, OneAnswerEach
    <3>1. answers[r] = 0 /\ \A x \in RowIds : answers[x] <= 1
      BY <1>0, <2>1 DEF Topping, OneAnswerEach
    <3>2. \A x \in todo' : answers'[x] = 0
      BY <1>0, <2>1, <2>4, <2>5 DEF Topping
    <3>3. \A x \in RowIds : answers'[x] <= 1
      BY <2>1, <2>3, <3>1
    <3> QED
      BY <1>0, <1>1, <3>2, <3>3 DEF Topping
  <2> QED
    <3>1. OneLoop'
      BY <1>l, <2>2
    <3>2. todo' \subseteq rows'
      BY <1>0, <1>1, <2>1 DEF GTyped
    <3>3. GTyped'
      BY <1>0, <1>1, <2>2, <2>4, <3>2 DEF GTyped
    <3> QED
      BY <1>1, <2>6, <3>1, <3>3 DEF GInv
<1> QED
  BY <1>1, <1>2, <1>3, <1>4, <1>5, <1>6 DEF Generate, GInv, GenInv

(* Requests, the failure handler and Bull's sweeps. *)
LEMMA AsideStep ==
  ASSUME GInv,
         \/ OnGenerationFailed
         \/ \E j \in GenSlots : ResumeGeneration(j)
         \/ \E q \in Requesters : BeginGenerate(q) \/ GenerationRequest(q)
  PROVE  GInv'
<1>0. /\ ImportInv /\ GTyped /\ OneLoop /\ Topping
      /\ gjobs \in [GenSlots -> GenJob]
      /\ \A j \in GenSlots : gjobs[j] \in GenJob
      /\ NoGenJob \in GenJob /\ NoGenJob.state = "none"
  BY BoundsAssumption, GenerationAssumption DEF GInv, GTyped, NoGenJob, GenJob, JobState
<1>1. ImportInv' /\ rows' = rows /\ wpc' = wpc
  <2>1. UNCHANGED vars \/ GenFault \/ WriteStatus("READY")
    BY DEF OnGenerationFailed, ResumeGeneration, BeginGenerate, GenerationRequest,
       CountPending, AddGeneration
  <2> QED
    BY <1>0, <2>1, OthersSteps
<1>2. UNCHANGED <<answers, gpc, todo>>
  BY DEF OnGenerationFailed, ResumeGeneration, BeginGenerate, GenerationRequest,
     CountPending, AddGeneration, queueGen
<1>3. Topping'
  BY <1>0, <1>1, <1>2 DEF Topping, OneAnswerEach
<1>4. ASSUME gjobs' \in [GenSlots -> GenJob], failing' \in Nat,
             gen' \in [Requesters -> {"idle", "count", "add", "done"}],
             \A k \in GenSlots : gjobs'[k].state = "active" <=> gjobs[k].state = "active"
      PROVE  GInv'
  BY <1>0, <1>1, <1>2, <1>3, <1>4 DEF GInv, GTyped, OneLoop
<1>5. CASE OnGenerationFailed
  BY <1>0, <1>4, <1>5 DEF OnGenerationFailed, GTyped
<1>6. ASSUME NEW j \in GenSlots, ResumeGeneration(j) PROVE GInv'
  <2>1. gen' = gen /\ failing' \in Nat
    BY <1>0, <1>6 DEF ResumeGeneration, GTyped
  <2>2. \E g \in GenJob : /\ gjobs' = [gjobs EXCEPT ![j] = g]
                         /\ g.state # "active" /\ gjobs[j].state # "active"
    <3>1. CASE gjobs[j].state = "delayed" /\ gjobs' = [gjobs EXCEPT ![j].state = "waiting"]
      <4>1. [gjobs[j] EXCEPT !.state = "waiting"] \in GenJob
        BY <1>0 DEF GenJob, JobState
      <4>2. [gjobs[j] EXCEPT !.state = "waiting"].state = "waiting"
        BY <1>0 DEF GenJob
      <4>3. gjobs' = [gjobs EXCEPT ![j] = [gjobs[j] EXCEPT !.state = "waiting"]]
        BY <3>1
      <4> QED
        BY <3>1, <4>1, <4>2, <4>3
    <3>2. CASE /\ gjobs[j].state = "stalled" /\ gjobs[j].stalls < MaxStalls
               /\ gjobs' = [gjobs EXCEPT ![j].state = "waiting", ![j].stalls = @ + 1]
      <4> DEFINE g == [gjobs[j] EXCEPT !.state = "waiting", !.stalls = @ + 1]
      <4>1. g \in GenJob
        BY <1>0, <3>2, BoundsAssumption DEF GenJob, JobState
      <4>2. g.state = "waiting"
        BY <1>0 DEF GenJob
      <4>3. gjobs' = [gjobs EXCEPT ![j] = g]
        BY <1>0, <3>2 DEF GenJob
      <4> QED
        BY <3>2, <4>1, <4>2, <4>3
    <3>3. CASE gjobs[j].state = "stalled" /\ gjobs' = [gjobs EXCEPT ![j] = NoGenJob]
      BY <1>0, <3>3
    <3> QED
      BY <1>6, <3>1, <3>2, <3>3 DEF ResumeGeneration
  <2>3. PICK g \in GenJob : /\ gjobs' = [gjobs EXCEPT ![j] = g]
                            /\ g.state # "active" /\ gjobs[j].state # "active"
    BY <2>2
  <2>4. gjobs' \in [GenSlots -> GenJob]
    BY <1>0, <2>3
  <2>5. \A k \in GenSlots : gjobs'[k].state = "active" <=> gjobs[k].state = "active"
    BY <1>0, <2>3
  <2>6. gen' \in [Requesters -> {"idle", "count", "add", "done"}]
    BY <1>0, <2>1 DEF GTyped
  <2> QED
    BY <1>4, <2>1, <2>4, <2>5, <2>6
<1>7. ASSUME NEW q \in Requesters, BeginGenerate(q) \/ CountPending(q) PROVE GInv'
  BY <1>0, <1>4, <1>7 DEF BeginGenerate, CountPending, queueGen, GTyped
<1>8. ASSUME NEW q \in Requesters, AddGeneration(q) PROVE GInv'
  <2>1. failing' \in Nat /\ gen' \in [Requesters -> {"idle", "count", "add", "done"}]
    BY <1>0, <1>8 DEF AddGeneration, GTyped
  <2>2. CASE gjobs' = gjobs
    BY <1>0, <1>4, <2>1, <2>2
  <2>3. ASSUME NEW j \in GenSlots, gjobs[j].state = "none",
               gjobs' = [gjobs EXCEPT ![j].state = "waiting"]
        PROVE  GInv'
    <3>1. [gjobs[j] EXCEPT !.state = "waiting"] \in GenJob
      BY <1>0 DEF GenJob, JobState
    <3>2. [gjobs[j] EXCEPT !.state = "waiting"].state = "waiting"
      BY <1>0 DEF GenJob
    <3> QED
      BY <1>0, <1>4, <2>1, <2>3, <3>1, <3>2
  <2> QED
    BY <1>8, <2>2, <2>3 DEF AddGeneration
<1> QED
  BY <1>5, <1>6, <1>7, <1>8 DEF GenerationRequest

(* A restart leaves no job active and nothing in flight. *)
LEMMA RestartStep ==
  ASSUME GInv, Restart
  PROVE  GInv'
<1>0. ImportInv /\ GTyped /\ OneLoop /\ Topping /\ Crash /\ GenerationDies /\ Next
  BY DEF GInv, Restart, Next
<1>1. ImportInv'
  BY <1>0, TypeStep, FilesKnownStep, ImportRuns DEF ImportInv
<1>2. rows' = rows /\ wpc' = "idle"
  BY <1>0 DEF Crash, datasetVars
<1>3. gjobs' \in [GenSlots -> GenJob] /\ \A j \in GenSlots : gjobs'[j].state # "active"
  BY <1>0 DEF GenerationDies, GTyped, GenJob, JobState
<1>4. gpc' = "idle" /\ todo' = {} /\ failing' = 0 /\ answers' = answers
      /\ gen' \in [Requesters -> {"idle", "count", "add", "done"}]
  BY <1>0 DEF GenerationDies
<1>5. GTyped'
  BY <1>0, <1>2, <1>3, <1>4 DEF GTyped
<1>6. OneLoop'
  BY <1>3, <1>4 DEF OneLoop
<1>7. Topping'
  BY <1>0, <1>2, <1>4 DEF Topping, OneAnswerEach
<1> QED
  BY <1>1, <1>5, <1>6, <1>7 DEF GInv

(* Nothing has been asked for, nothing is answered. *)
LEMMA GenerationInit == GInit => GInv
<1> SUFFICES ASSUME GInit PROVE GInv
  OBVIOUS
<1>1. ImportInv
  BY TypeInit, FilesAssumption DEF GInit, Init, ImportInv, FilesKnown, OneImport, Runs, NoJob
<1>2. NoGenJob \in GenJob /\ NoGenJob.state = "none"
  BY BoundsAssumption, GenerationAssumption DEF NoGenJob, GenJob, JobState
<1>3. GTyped
  BY <1>2 DEF GInit, Init, GTyped
<1>4. OneLoop /\ Topping
  BY <1>2 DEF GInit, Init, OneLoop, Topping, OneAnswerEach
<1> QED
  BY <1>1, <1>3, <1>4 DEF GInv

LEMMA GenerationStep == GInv /\ [GNext]_allVars => GInv'
<1> SUFFICES ASSUME GInv, [GNext]_allVars
             PROVE  GInv'
  OBVIOUS
<1>1. CASE UNCHANGED allVars
  <2>1. ImportInv' /\ wpc' = wpc
    BY <1>1, OthersSteps DEF GInv, allVars
  <2> QED
    BY <1>1, <2>1 DEF GInv, GTyped, OneLoop, Topping, OneAnswerEach, allVars, vars, genVars,
       queueGen
<1> QED
  BY <1>1, ImportStep, RestartStep, GenerateStep, AsideStep DEF GNext

(***************************************************************************)
(* The inference queue, its worker's loop and the requests keep their      *)
(* types beside the import, the worker runs exactly one active job, and    *)
(* the rows it still has to answer are rows of the dataset.                *)
(***************************************************************************)
THEOREM GenerationTypes == GSpec => []GTypeOK
<1>1. GInv => GTypeOK
  BY DEF GInv, ImportInv, GTyped, OneLoop, GTypeOK, GenJob
<1> QED
  BY <1>1, GenerationInit, GenerationStep, PTL DEF GSpec

(***************************************************************************)
(* handleGenerateResponses tops up: however often its job is retried,      *)
(* restarted or asked for again while imports add rows, no row gets a      *)
(* second response, as long as no file brings responses of its own.        *)
(***************************************************************************)
THEOREM NoRowTwice == GSpec => []OneAnswerEach
<1>1. GInv => OneAnswerEach
  BY DEF GInv, Topping, OneAnswerEach
<1> QED
  BY <1>1, GenerationInit, GenerationStep, PTL DEF GSpec

-----------------------------------------------------------------------------
(* An early READY heals.                                                   *)

(* With no failing call so far this step has none either. *)
LEMMA FaultsGrow ==
  ASSUME TypeOK, [Next]_vars
  PROVE  faults' = 0 => faults = 0
<1> USE DEF datasetVars, queueVars, workerVars, requestVars, reaperVars, Fault
<1>0. faults \in Nat
  BY BoundsAssumption DEF TypeOK
<1>1. faults' \in {faults, faults + 1}
  <2>1. ASSUME NEW j \in Slots,
               TakeJob(j) \/ Download(j) \/ InsertBatch(j) \/ FinishJob(j) \/ RejectJob(j)
        PROVE  faults' \in {faults, faults + 1}
    BY <2>1 DEF TakeJob, Download, InsertBatch, FinishJob, RejectJob
  <2>2. CASE ClearResponses \/ CreateResponses \/ CreateVersion \/ SetVersion \/ FailImport \/ MarkReady
    BY <2>2 DEF ClearResponses, CreateResponses, CreateVersion, SetVersion, FailImport, MarkReady
  <2>3. CASE \/ \E r \in Uploaders : BeginUpload(r)
             \/ \E r \in Reprocessors : BeginReprocess(r)
             \/ \E r \in Senders : Handle(r)
    BY <2>3 DEF BeginUpload, BeginReprocess, Handle, Store, MarkUploaded, MarkAgain, Enqueue,
       MarkFailed
  <2>4. CASE \/ Archive \/ Compare \/ OnFailed \/ Bull \/ (\E f \in 1..Files : LateAdd(f))
             \/ Age \/ Reap
    BY <2>4 DEF Archive, Compare, OnFailed, Bull, Promote, Stalled, LateAdd, Age, Reap, ReapFind,
       ReapLive, ReapAdd, ReapTouch, ReapFail
  <2>5. CASE Crash \/ UNCHANGED vars
    BY <2>5 DEF Crash, vars
  <2> QED
    BY <2>1, <2>2, <2>3, <2>4, <2>5 DEF Next, Run, Work
<1> QED
  BY <1>0, <1>1

(* Without a failing call and without comparisons an import reaches its end *)
(* only by counting its file.                                               *)
LEMMA AfterReadyStep ==
  ASSUME TypeOK, ~compared, [Next]_vars, faults' = 0, wpc' \in AfterReady
  PROVE  wpc \in AfterReady \/ MarkReady
<1> USE DEF datasetVars, queueVars, workerVars, requestVars, reaperVars, Fault, AfterReady
<1>0. faults \in Nat
  BY BoundsAssumption DEF TypeOK
<1>1. ASSUME NEW j \in Slots, TakeJob(j) \/ InsertBatch(j) \/ FinishJob(j) \/ RejectJob(j)
      PROVE  FALSE
  BY <1>1 DEF TakeJob, InsertBatch, AfterRows, FinishJob, RejectJob
<1>2. ASSUME NEW j \in Slots, Download(j)
      PROVE  FALSE
  BY <1>0, <1>2 DEF Download
<1>3. CASE ClearResponses \/ CreateResponses \/ CreateVersion \/ SetVersion \/ FailImport
  BY <1>3 DEF ClearResponses, CreateResponses, CreateVersion, SetVersion, FailImport
<1>4. CASE \/ \E r \in Uploaders : BeginUpload(r)
           \/ \E r \in Reprocessors : BeginReprocess(r)
           \/ \E r \in Senders : Handle(r)
  BY <1>4 DEF BeginUpload, BeginReprocess, Handle, Store, MarkUploaded, MarkAgain, Enqueue,
     MarkFailed
<1>5. CASE \/ Archive \/ Compare \/ OnFailed \/ Bull \/ (\E f \in 1..Files : LateAdd(f))
           \/ Age \/ Reap
  BY <1>5 DEF Archive, Compare, OnFailed, Bull, Promote, Stalled, LateAdd, Age, Reap, ReapFind,
     ReapLive, ReapAdd, ReapTouch, ReapFail
<1>6. CASE Crash \/ UNCHANGED vars
  BY <1>6 DEF Crash, vars
<1> QED
  BY <1>1, <1>2, <1>3, <1>4, <1>5, <1>6 DEF Next, Run, Work

(* Rows come from a job only, and comparisons are off. *)
LEMMA RowsStep ==
  ASSUME [Next]_vars
  PROVE  /\ rows' = rows \/ (Live # {} /\ rows' # {})
         /\ compared' = compared
<1> USE DEF datasetVars, queueVars, workerVars, requestVars, reaperVars
<1>1. ASSUME NEW j \in Slots, TakeJob(j) \/ Download(j) \/ FinishJob(j) \/ RejectJob(j)
      PROVE  rows' = rows /\ compared' = compared
  BY <1>1 DEF TakeJob, Download, FinishJob, RejectJob
<1>2. ASSUME NEW j \in Slots, InsertBatch(j)
      PROVE  Live # {} /\ rows' # {} /\ compared' = compared
  BY <1>2 DEF InsertBatch, Runs, Live
<1>3. CASE ClearResponses \/ CreateResponses \/ CreateVersion \/ SetVersion \/ FailImport \/ MarkReady
  BY <1>3 DEF ClearResponses, CreateResponses, CreateVersion, SetVersion, FailImport, MarkReady
<1>4. CASE \/ \E r \in Uploaders : BeginUpload(r)
           \/ \E r \in Reprocessors : BeginReprocess(r)
           \/ \E r \in Senders : Handle(r)
  BY <1>4 DEF BeginUpload, BeginReprocess, Handle, Store, MarkUploaded, MarkAgain, Enqueue,
     MarkFailed
<1>5. CASE \/ Archive \/ Compare \/ OnFailed \/ Bull \/ (\E f \in 1..Files : LateAdd(f))
           \/ Age \/ Reap
  BY <1>5, GenerationAssumption DEF Archive, Compare, OnFailed, Bull, Promote, Stalled, LateAdd,
     Age, Reap, ReapFind, ReapLive, ReapAdd, ReapTouch, ReapFail
<1>6. CASE Crash \/ UNCHANGED vars
  BY <1>6 DEF Crash, vars
<1> QED
  BY <1>1, <1>2, <1>3, <1>4, <1>5, <1>6 DEF Next, Run, Work

(* The import keeps its own part. *)
LEMMA DroplessStep ==
  ASSUME TypeOK, FilesKnown, Dropless, MaxCrashes <= MaxStalls, [Next]_vars
  PROVE  /\ Dropless'
         /\ faults' = 0 => (Counted => Counted') /\ (MarkReady => Counted')
<1>1. /\ LoopInv /\ 1..rowCount \subseteq rows /\ ~compared /\ StallsBounded
      /\ faults = 0 => (wpc \in AfterReady => Counted) /\ (rows # {} /\ Live = {} => Counted)
  BY DEF Dropless
<1>2. LoopInv' /\ 1..rowCount' \subseteq rows' /\ StallsBounded' /\ ~compared'
  BY <1>1, LoopStep, StallsStep, RowsStep
<1>3. 1..files \subseteq 1..files'
  BY FilesGrow
<1>4. MarkReady => Counted'
  BY <1>1, <1>3 DEF MarkReady, LoopInv, Counted
<1>5. Counted => Counted'
  <2>1. CASE MarkReady
    BY <1>4, <2>1
  <2>2. CASE rowCount' = rowCount
    BY <1>3, <2>2 DEF Counted
  <2> QED
    BY <2>1, <2>2, CountStep
<1>6. ASSUME faults' = 0, wpc' \in AfterReady
      PROVE  Counted'
  BY <1>1, <1>4, <1>5, <1>6, FaultsGrow, AfterReadyStep
<1>7. ASSUME faults' = 0, rows' # {}, Live' = {}
      PROVE  Counted'
  <2>1. CASE Live = {}
    BY <1>1, <1>5, <1>7, <2>1, FaultsGrow, RowsStep
  <2>2. CASE Live # {}
    BY <1>1, <1>5, <1>7, <2>2, FaultsGrow, LiveStep DEF FinishJob, RejectJob, AfterReady
  <2> QED
    BY <2>1, <2>2
<1> QED
  BY <1>2, <1>4, <1>5, <1>6, <1>7 DEF Dropless

(* What generation does leaves the import's part alone. *)
LEMMA OthersDropless ==
  ASSUME TypeOK, Dropless,
         UNCHANGED vars \/ GenFault \/ WriteStatus("READY") \/ WriteStatus("PROCESSING")
  PROVE  /\ Dropless' /\ rows' = rows
         /\ Counted => Counted'
         /\ faults' = 0 => faults = 0
         /\ status' = "READY" => status = "READY" \/ WriteStatus("READY")
<1> USE DEF Dropless, LoopInv, StallsBounded, Counted, Live
<1>1. CASE UNCHANGED vars
  BY <1>1 DEF vars
<1>2. CASE GenFault
  <2>1. /\ faults' # 0
        /\ UNCHANGED <<status, rowCount, rows, compared, jobs, wpc, inserted, files, crashes>>
    BY <1>2, BoundsAssumption DEF GenFault, Fault, TypeOK, datasetVars, queueVars, workerVars,
       requestVars
  <2> QED
    BY <2>1
<1>3. CASE WriteStatus("READY") \/ WriteStatus("PROCESSING")
  <2>1. /\ status' = "READY" => WriteStatus("READY")
        /\ UNCHANGED <<faults, rowCount, rows, compared, jobs, wpc, inserted, files, crashes>>
    BY <1>3 DEF WriteStatus, SetStatus
  <2> QED
    BY <2>1
<1> QED
  BY <1>1, <1>2, <1>3

(* Somebody generates, or is about to. *)
Generating ==
    \/ \E j \in GenSlots : gjobs[j].state # "none"
    \/ failing > 0
    \/ \E q \in Requesters : gen[q] = "add"

(* A generation is asked for only when there are rows. *)
LEMMA GeneratingStep ==
  ASSUME GInv, RowsFirst, [GNext]_allVars
  PROVE  Generating' => rows # {}
<1>0. /\ Generating => rows # {}
      /\ gjobs \in [GenSlots -> GenJob]
      /\ \A j \in GenSlots : gjobs[j] \in GenJob
      /\ failing \in Nat /\ gen \in [Requesters -> {"idle", "count", "add", "done"}]
  BY DEF GInv, GTyped, RowsFirst, Generating
<1>1. ASSUME gjobs' = gjobs, failing' = failing, gen' = gen
      PROVE  Generating' => rows # {}
  BY <1>0, <1>1 DEF Generating
<1>2. ASSUME NEW j \in GenSlots, gjobs[j].state # "none"
      PROVE  rows # {}
  BY <1>0, <1>2 DEF Generating
<1>3. CASE Import \/ UNCHANGED allVars
  BY <1>1, <1>3 DEF Import, Beside, queueGen, allVars, genVars
<1>4. CASE Restart
  <2>1. /\ failing' = 0 /\ \A q \in Requesters : gen'[q] # "add"
        /\ \A j \in GenSlots : gjobs'[j].state # "none" => gjobs[j].state # "none"
    BY <1>0, <1>4 DEF Restart, GenerationDies
  <2> QED
    BY <1>2, <2>1 DEF Generating
<1>5. ASSUME NEW j \in GenSlots, TakeGeneration(j) \/ FinishGeneration(j) \/ RejectGeneration(j)
      PROVE  rows # {}
  BY <1>2, <1>5 DEF TakeGeneration, FinishGeneration, RejectGeneration
<1>6. CASE ListRows \/ MarkGenerating \/ AnswerRow \/ GenerationReady
  BY <1>1, <1>6 DEF ListRows, MarkGenerating, AnswerRow, GenerationReady
<1>7. CASE OnGenerationFailed
  BY <1>0, <1>7 DEF OnGenerationFailed, Generating
<1>8. ASSUME NEW j \in GenSlots, ResumeGeneration(j)
      PROVE  rows # {}
  BY <1>2, <1>8 DEF ResumeGeneration
<1>9. ASSUME NEW q \in Requesters, BeginGenerate(q) \/ CountPending(q) \/ AddGeneration(q)
      PROVE  Generating' => rows # {}
  <2>1. CASE BeginGenerate(q)
    BY <1>0, <2>1 DEF BeginGenerate, queueGen, Generating
  <2>2. CASE CountPending(q)
    BY <1>0, <2>2 DEF CountPending, Unanswered, queueGen, Generating
  <2>3. CASE AddGeneration(q)
    BY <1>0, <2>3 DEF AddGeneration, Generating
  <2> QED
    BY <1>9, <2>1, <2>2, <2>3
<1> QED
  BY <1>3, <1>4, <1>5, <1>6, <1>7, <1>8, <1>9 DEF GNext, Generate, GenerationRequest

(* READY is written early only by a generation, so only over some rows. *)
LEMMA HealStep ==
  ASSUME GInv, HealInv, MaxCrashes <= MaxStalls, [GNext]_allVars
  PROVE  HealInv'
<1>0. /\ TypeOK /\ FilesKnown /\ Dropless /\ RowsFirst /\ OneLoop /\ GTyped
      /\ rows \subseteq RowIds
      /\ faults = 0 /\ status = "READY" => Counted \/ rows # {}
      /\ Generating => rows # {}
  BY DEF GInv, ImportInv, GTyped, HealInv, RowsFirst, Generating
<1>1. Generating' => rows # {}
  BY <1>0, GeneratingStep
<1>2. CASE Import \/ Restart
  <2>1. Next
    BY <1>2 DEF Import, Restart, Next
  <2>2. rows \subseteq rows'
    BY <1>0, <2>1, ImportRows DEF GInv
  <2>3. Dropless' /\ (faults' = 0 => (Counted => Counted') /\ (MarkReady => Counted'))
    BY <1>0, <2>1, DroplessStep
  <2>4. faults' = 0 /\ status' = "READY" => Counted' \/ rows' # {}
    BY <1>0, <2>1, <2>2, <2>3, CountStep, FaultsGrow
  <2> QED
    BY <1>1, <2>2, <2>3, <2>4 DEF HealInv, RowsFirst, Generating
<1>3. CASE \/ Generate \/ OnGenerationFailed \/ UNCHANGED allVars
           \/ \E j \in GenSlots : ResumeGeneration(j)
           \/ \E q \in Requesters : BeginGenerate(q) \/ GenerationRequest(q)
  <2>1. UNCHANGED vars \/ GenFault \/ WriteStatus("READY") \/ WriteStatus("PROCESSING")
    BY <1>3 DEF Generate, TakeGeneration, FinishGeneration, RejectGeneration, ListRows,
       MarkGenerating, AnswerRow, GenerationReady, OnGenerationFailed, ResumeGeneration,
       BeginGenerate, GenerationRequest, CountPending, AddGeneration, allVars
  <2>2. WriteStatus("READY") => rows # {} \/ status = "READY"
    <3> SUFFICES ASSUME WriteStatus("READY"), status # "READY"
                 PROVE  rows # {}
      OBVIOUS
    <3>1. status' # status
      BY DEF WriteStatus, SetStatus
    <3>2. CASE OnGenerationFailed
      BY <1>0, <3>2 DEF OnGenerationFailed, Generating
    <3>3. CASE GenerationReady
      <4>1. PICK j \in GenSlots : gjobs[j].state = "active"
        BY <1>0, <3>3 DEF GenerationReady, OneLoop
      <4> QED
        BY <1>0, <4>1 DEF Generating
    <3>4. CASE ListRows \/ AnswerRow \/ (\E j \in GenSlots :
                  TakeGeneration(j) \/ FinishGeneration(j) \/ RejectGeneration(j))
      BY <3>1, <3>4 DEF ListRows, AnswerRow, TakeGeneration, FinishGeneration, RejectGeneration,
         vars, GenFault, datasetVars
    <3>5. CASE MarkGenerating
      BY <3>5 DEF MarkGenerating, WriteStatus, SetStatus
    <3>6. CASE \/ \E j \in GenSlots : ResumeGeneration(j)
               \/ \E q \in Requesters : BeginGenerate(q) \/ GenerationRequest(q)
               \/ UNCHANGED allVars
      BY <3>1, <3>6 DEF ResumeGeneration, BeginGenerate, GenerationRequest, CountPending,
         AddGeneration, vars, GenFault, datasetVars, allVars
    <3> QED
      BY <1>3, <3>2, <3>3, <3>4, <3>5, <3>6 DEF Generate
  <2>3. /\ Dropless' /\ rows' = rows
        /\ Counted => Counted'
        /\ faults' = 0 => faults = 0
        /\ status' = "READY" => status = "READY" \/ WriteStatus("READY")
    BY <1>0, <2>1, OthersDropless
  <2> QED
    BY <1>0, <1>1, <2>2, <2>3 DEF HealInv, RowsFirst, Generating
<1> QED
  BY <1>2, <1>3 DEF GNext

(***************************************************************************)
(* A generation that ends during an import writes READY over rows that are *)
(* missing.  As long as no call fails and restarts do not outnumber the    *)
(* stalls Bull allows a job, a dataset without jobs that says READY has    *)
(* all the rows it counts: the early READY is never the last word.         *)
(***************************************************************************)
THEOREM EarlyReadyNotFinal ==
  ASSUME MaxCrashes <= MaxStalls
  PROVE  GSpec => []EarlyReadyHeals
<1>1. GInit => HealInv
  BY BoundsAssumption DEF GInit, Init, HealInv, Dropless, RowsFirst, StallsBounded, LoopInv, NoJob,
     NoGenJob, AfterReady
<1>2. GInv /\ HealInv /\ [GNext]_allVars => HealInv'
  BY HealStep
<1>3. HealInv => EarlyReadyHeals
  BY DEF HealInv, Dropless, RowsFirst, EarlyReadyHeals, ReadyIsBacked, Counted
<1> QED
  BY <1>1, <1>2, <1>3, GenerationInit, GenerationStep, PTL DEF GSpec
=============================================================================
