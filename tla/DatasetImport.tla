---------------------------- MODULE DatasetImport ----------------------------
(***************************************************************************)
(* One dataset and the import of its files: the upload and reprocess       *)
(* requests, the Bull queue, the worker that runs one job at a time, the   *)
(* reaper that looks for lost jobs, and restarts of the API process that   *)
(* hosts all of them.  One action is one call to the database, the storage *)
(* or Redis with the synchronous code that follows it.                     *)
(***************************************************************************)
EXTENDS Naturals, FiniteSets

CONSTANTS Uploaders,     (* request slots for uploadFile                     *)
          Reprocessors,  (* request slots for reprocess                      *)
          Slots,         (* bound: numbered places for the jobs in Redis     *)
          Files,         (* bound on uploads: files are 1..Files             *)
          FileRows,      (* FileRows[f]: rows the parser finds in file f     *)
          Responding,    (* the files that have a response column            *)
          Attempts,      (* attempts given to Queue.add                      *)
          MaxStalls,     (* Bull's maxStalledCount                           *)
          MaxFaults,     (* bound on calls the storage or Redis fails        *)
          MaxCrashes,    (* bound on restarts of the API process             *)
          Comparing      (* whether evaluators may compare the responses     *)

ASSUME FilesAssumption ==
    Files \in Nat /\ FileRows \in [1..Files -> Nat] /\ Responding \subseteq 1..Files
ASSUME BoundsAssumption ==
    /\ Attempts \in Nat \ {0} /\ MaxStalls \in Nat
    /\ MaxFaults \in Nat /\ MaxCrashes \in Nat /\ Comparing \in BOOLEAN

Senders == Uploaders \cup Reprocessors

VARIABLES
    status,     (* dataset.status                                            *)
    fileUrl,    (* dataset.fileUrl, 0: null                                  *)
    rowCount,   (* dataset.rowCount                                          *)
    old,        (* dataset.updatedAt lies more than 30 minutes back          *)
    rows,       (* rowIndex (from 1) of the dataset's rows                   *)
    responses,  (* rows have model responses                                 *)
    compared,   (* a comparison or ranking refers to one of them             *)
    history,    (* datasetVersion against dataset.version: none recorded,    *)
                (* up to it ("current"), or one past it ("ahead")            *)
    files,      (* uploads stored so far                                     *)
    jobs,       (* the dataset-processing queue                              *)
    late,       (* adds that timed out and may still reach Redis             *)
    wpc,        (* what the worker awaits next                               *)
    inserted,   (* processDataset's inserted                                 *)
    exhausted,  (* an onFailed handler of a job out of attempts is running   *)
    rpc,        (* what each upload or reprocess request awaits next         *)
    rfile,      (* the file it is about                                      *)
    kpc,        (* what the reaper awaits next                               *)
    kfile,      (* the fileUrl it read                                       *)
    faults,     (* calls the storage or Redis has failed so far              *)
    crashes     (* API restarts so far                                       *)

datasetVars == <<status, fileUrl, rowCount, old, rows, responses, compared, history>>
queueVars == <<jobs, late>>
workerVars == <<wpc, inserted, exhausted>>
requestVars == <<rpc, rfile, files>>
reaperVars == <<kpc, kfile>>
vars == <<status, fileUrl, rowCount, old, rows, responses, compared, history, files,
          jobs, late, wpc, inserted, exhausted, rpc, rfile, kpc, kfile, faults, crashes>>

DatasetStatus == {"PENDING", "PROCESSING", "READY", "FAILED", "ARCHIVED"}
JobState == {"none", "waiting", "delayed", "active", "stalled"}
WorkerSteps == {"idle", "download", "insert", "clear", "respond", "ready",
                "createVersion", "setVersion", "finish", "fail", "reject"}
NoJob == [state |-> "none", file |-> 0, made |-> 0, stalls |-> 0]

Live == {j \in Slots : jobs[j].state # "none"}
Free == Slots \ Live

(* The dataset, its jobs and everything in flight are well typed. *)
TypeOK ==
    /\ status \in DatasetStatus
    /\ fileUrl \in 0..Files
    /\ rowCount \in Nat
    /\ old \in BOOLEAN /\ responses \in BOOLEAN /\ compared \in BOOLEAN
    /\ rows \in SUBSET (Nat \ {0})
    /\ history \in {"none", "current", "ahead"}
    /\ files \in 0..Files
    /\ jobs \in [Slots -> [state : JobState, file : 0..Files,
                           made : 0..Attempts, stalls : 0..MaxStalls]]
    /\ late \in SUBSET (0..Files)
    /\ wpc \in WorkerSteps
    /\ inserted \in Nat
    /\ exhausted \in BOOLEAN
    /\ rpc \in [Senders -> {"idle", "store", "mark", "markAgain", "enqueue", "markFailed"}]
    /\ rfile \in [Senders -> 0..Files]
    /\ kpc \in {"idle", "live", "add", "touch", "markFailed"}
    /\ kfile \in 0..Files
    /\ faults \in 0..MaxFaults
    /\ crashes \in 0..MaxCrashes

(* create() has made the dataset: PENDING, no file, no rows. *)
Init ==
    /\ status = "PENDING" /\ fileUrl = 0 /\ rowCount = 0 /\ old = FALSE
    /\ rows = {} /\ responses = FALSE /\ compared = FALSE /\ history = "none"
    /\ files = 0
    /\ jobs = [j \in Slots |-> NoJob] /\ late = {}
    /\ wpc = "idle" /\ inserted = 0 /\ exhausted = FALSE
    /\ rpc = [r \in Senders |-> "idle"] /\ rfile = [r \in Senders |-> 0]
    /\ kpc = "idle" /\ kfile = 0
    /\ faults = 0 /\ crashes = 0

(* prisma.dataset.update with a status: @updatedAt starts again. *)
SetStatus(s) == status' = s /\ old' = FALSE

(* A call to the storage or to Redis fails, or is not answered in time. *)
Fault == faults < MaxFaults /\ faults' = faults + 1

(* Queue.add has reached Redis: the job waits in the first free slot. *)
Push(f) ==
    \E j \in Free :
        /\ \A k \in Free : j <= k
        /\ jobs' = [jobs EXCEPT ![j] =
                      [state |-> "waiting", file |-> f, made |-> 0, stalls |-> 0]]

-----------------------------------------------------------------------------
(* The requests: DatasetsService.uploadFile, reprocess, archive.           *)

(* uploadFile reads the dataset: 400 while it is PROCESSING. *)
BeginUpload(r) ==
    /\ rpc[r] = "idle"
    /\ status # "PROCESSING"
    /\ rpc' = [rpc EXCEPT ![r] = "store"]
    /\ UNCHANGED <<datasetVars, queueVars, workerVars, rfile, files, reaperVars, faults, crashes>>

(* storage.upload under a key of its own; when it throws the request is over. *)
Store(r) ==
    /\ rpc[r] = "store"
    /\ \/ /\ files < Files
          /\ files' = files + 1
          /\ rfile' = [rfile EXCEPT ![r] = files + 1]
          /\ rpc' = [rpc EXCEPT ![r] = "mark"]
          /\ UNCHANGED faults
       \/ /\ rpc' = [rpc EXCEPT ![r] = "idle"]
          /\ Fault
          /\ UNCHANGED <<files, rfile>>
    /\ UNCHANGED <<datasetVars, queueVars, workerVars, reaperVars, crashes>>

(* The dataset points to the new file and is PROCESSING before any job exists. *)
MarkUploaded(r) ==
    /\ rpc[r] = "mark"
    /\ fileUrl' = rfile[r]
    /\ SetStatus("PROCESSING")
    /\ rpc' = [rpc EXCEPT ![r] = "enqueue"]
    /\ UNCHANGED <<rowCount, rows, responses, compared, history, queueVars, workerVars,
                   rfile, files, reaperVars, faults, crashes>>

(* reprocess reads the dataset: 400 without a file; its status is not asked. *)
BeginReprocess(r) ==
    /\ rpc[r] = "idle"
    /\ fileUrl # 0
    /\ rfile' = [rfile EXCEPT ![r] = fileUrl]
    /\ rpc' = [rpc EXCEPT ![r] = "markAgain"]
    /\ UNCHANGED <<datasetVars, queueVars, workerVars, files, reaperVars, faults, crashes>>

MarkAgain(r) ==
    /\ rpc[r] = "markAgain"
    /\ SetStatus("PROCESSING")
    /\ rpc' = [rpc EXCEPT ![r] = "enqueue"]
    /\ UNCHANGED <<fileUrl, rowCount, rows, responses, compared, history, queueVars,
                   workerVars, rfile, files, reaperVars, faults, crashes>>

(* enqueueProcessing: added in time, or timed out with the add perhaps still pending. *)
Enqueue(r) ==
    /\ rpc[r] = "enqueue"
    /\ \/ /\ Push(rfile[r])
          /\ rpc' = [rpc EXCEPT ![r] = "idle"]
          /\ rfile' = [rfile EXCEPT ![r] = 0]
          /\ UNCHANGED <<late, faults>>
       \/ /\ late' \in {late, late \cup {rfile[r]}}
          /\ rpc' = [rpc EXCEPT ![r] = "markFailed"]
          /\ Fault
          /\ UNCHANGED <<jobs, rfile>>
    /\ UNCHANGED <<datasetVars, workerVars, files, reaperVars, crashes>>

(* The dataset is marked FAILED and the caller gets a 503. *)
MarkFailed(r) ==
    /\ rpc[r] = "markFailed"
    /\ SetStatus("FAILED")
    /\ rpc' = [rpc EXCEPT ![r] = "idle"]
    /\ rfile' = [rfile EXCEPT ![r] = 0]
    /\ UNCHANGED <<fileUrl, rowCount, rows, responses, compared, history, queueVars,
                   workerVars, files, reaperVars, faults, crashes>>

Archive ==
    /\ SetStatus("ARCHIVED")
    /\ UNCHANGED <<fileUrl, rowCount, rows, responses, compared, history, queueVars,
                   workerVars, requestVars, reaperVars, faults, crashes>>

(* An evaluator's comparison or ranking refers to responses of the dataset. *)
Compare ==
    /\ Comparing /\ responses
    /\ compared' = TRUE
    /\ UNCHANGED <<status, fileUrl, rowCount, old, rows, responses, history, queueVars,
                   workerVars, requestVars, reaperVars, faults, crashes>>

-----------------------------------------------------------------------------
(* The worker: DatasetProcessingWorker and DatasetProcessorService.        *)

(* Bull hands a waiting job to the process's only handler of this queue. *)
TakeJob(j) ==
    /\ wpc = "idle"
    /\ jobs[j].state = "waiting"
    /\ jobs' = [jobs EXCEPT ![j].state = "active"]
    /\ inserted' = 0
    /\ wpc' = "download"
    /\ UNCHANGED <<datasetVars, late, exhausted, requestVars, reaperVars, faults, crashes>>

(* The job the worker runs. *)
Runs(j) == jobs[j].state = "active"

(* What follows the last batch of f: its responses, if it has any. *)
AfterRows(f) == IF f \in Responding THEN "clear" ELSE "ready"

(* storage.download and the parser; an empty file goes straight to READY. *)
Download(j) ==
    /\ Runs(j)
    /\ wpc = "download"
    /\ \/ wpc' = (IF FileRows[jobs[j].file] = 0 THEN "ready" ELSE "insert") /\ UNCHANGED faults
       \/ wpc' = "fail" /\ Fault
    /\ UNCHANGED <<datasetVars, queueVars, inserted, exhausted, requestVars,
                   reaperVars, crashes>>

(* Faulty variant: the loop ends one batch early. *)
InsertBatchShort(j) ==
    /\ Runs(j)
    /\ wpc = "insert"
    /\ rows' = rows \cup {inserted + 1}
    /\ inserted' = inserted + 1
    /\ wpc' = (IF inserted + 2 >= FileRows[jobs[j].file] THEN "ready" ELSE "insert")
    /\ UNCHANGED <<status, fileUrl, rowCount, old, responses, compared, history, queueVars,
                   exhausted, requestVars, reaperVars, faults, crashes>>

(* One createMany with skipDuplicates (a batch is one row here). *)
InsertBatch(j) ==
    /\ Runs(j)
    /\ wpc = "insert"
    /\ rows' = rows \cup {inserted + 1}
    /\ inserted' = inserted + 1
    /\ wpc' = (IF inserted + 1 = FileRows[jobs[j].file] THEN AfterRows(jobs[j].file) ELSE "insert")
    /\ UNCHANGED <<status, fileUrl, rowCount, old, responses, compared, history, queueVars,
                   exhausted, requestVars, reaperVars, faults, crashes>>

(* deleteMany of every response of the dataset: comparisons restrict it. *)
ClearResponses ==
    /\ wpc = "clear"
    /\ \/ compared /\ wpc' = "fail" /\ UNCHANGED responses
       \/ ~compared /\ wpc' = "respond" /\ responses' = FALSE
    /\ UNCHANGED <<status, fileUrl, rowCount, old, rows, compared, history, queueVars,
                   inserted, exhausted, requestVars, reaperVars, faults, crashes>>

CreateResponses ==
    /\ wpc = "respond"
    /\ responses' = TRUE
    /\ wpc' = "ready"
    /\ UNCHANGED <<status, fileUrl, rowCount, old, rows, compared, history, queueVars,
                   inserted, exhausted, requestVars, reaperVars, faults, crashes>>

MarkReady ==
    /\ wpc = "ready"
    /\ SetStatus("READY")
    /\ rowCount' = inserted
    /\ wpc' = "createVersion"
    /\ UNCHANGED <<fileUrl, rows, responses, compared, history, queueVars,
                   inserted, exhausted, requestVars, reaperVars, faults, crashes>>

(* Faulty variant: dataset.version is not brought up to the record. *)
SetVersionSkipped ==
    /\ wpc = "setVersion"
    /\ wpc' = "finish"
    /\ UNCHANGED <<datasetVars, queueVars, inserted, exhausted, requestVars, reaperVars,
                   faults, crashes>>

(***************************************************************************)
(* recordVersion's create: the first record takes dataset.version, a later *)
(* one the number after it, which an earlier attempt may already have      *)
(* recorded; (datasetId, version) is unique, so create then throws.        *)
(***************************************************************************)
CreateVersion ==
    /\ wpc = "createVersion"
    /\ \/ history = "none" /\ history' = "current" /\ wpc' = "setVersion"
       \/ history = "current" /\ history' = "ahead" /\ wpc' = "setVersion"
       \/ history = "ahead" /\ wpc' = "fail" /\ UNCHANGED history
    /\ UNCHANGED <<status, fileUrl, rowCount, old, rows, responses, compared, queueVars,
                   inserted, exhausted, requestVars, reaperVars, faults, crashes>>

SetVersion ==
    /\ wpc = "setVersion"
    /\ history' = "current"
    /\ old' = FALSE
    /\ wpc' = "finish"
    /\ UNCHANGED <<status, fileUrl, rowCount, rows, responses, compared, queueVars,
                   inserted, exhausted, requestVars, reaperVars, faults, crashes>>

(* The handler's promise resolved: Bull drops the job. *)
FinishJob(j) ==
    /\ Runs(j)
    /\ wpc = "finish"
    /\ jobs' = [jobs EXCEPT ![j] = NoJob]
    /\ wpc' = "idle"
    /\ inserted' = 0
    /\ UNCHANGED <<datasetVars, late, exhausted, requestVars, reaperVars, faults, crashes>>

(* Faulty variant: as in onFailed, only a dataset that is PROCESSING is marked. *)
FailImportQuietly ==
    /\ wpc = "fail"
    /\ \/ status = "PROCESSING" /\ SetStatus("FAILED")
       \/ status # "PROCESSING" /\ UNCHANGED <<status, old>>
    /\ wpc' = "reject"
    /\ UNCHANGED <<fileUrl, rowCount, rows, responses, compared, history, queueVars,
                   inserted, exhausted, requestVars, reaperVars, faults, crashes>>

(* processDataset's catch marks the dataset FAILED on every attempt, then rethrows. *)
FailImport ==
    /\ wpc = "fail"
    /\ SetStatus("FAILED")
    /\ wpc' = "reject"
    /\ UNCHANGED <<fileUrl, rowCount, rows, responses, compared, history, queueVars,
                   inserted, exhausted, requestVars, reaperVars, faults, crashes>>

(* Faulty variant: the attempts are never exhausted. *)
RejectJobForever(j) ==
    /\ Runs(j)
    /\ wpc = "reject"
    /\ wpc' = "idle"
    /\ inserted' = 0
    /\ jobs' = [jobs EXCEPT ![j].state = "delayed", ![j].made = @ + 1]
    /\ UNCHANGED <<datasetVars, late, exhausted, requestVars, reaperVars, faults, crashes>>

(* Bull counts the attempt: the job backs off, or is out of attempts and onFailed acts. *)
RejectJob(j) ==
    /\ Runs(j)
    /\ wpc = "reject"
    /\ wpc' = "idle"
    /\ inserted' = 0
    /\ \/ /\ jobs[j].made + 1 < Attempts
          /\ jobs' = [jobs EXCEPT ![j].state = "delayed", ![j].made = @ + 1]
          /\ UNCHANGED exhausted
       \/ /\ jobs[j].made + 1 >= Attempts
          /\ jobs' = [jobs EXCEPT ![j] = NoJob]
          /\ exhausted' = TRUE
    /\ UNCHANGED <<datasetVars, late, requestVars, reaperVars, faults, crashes>>

(* onFailed's updateMany: only a dataset that is still PROCESSING. *)
OnFailed ==
    /\ exhausted
    /\ exhausted' = FALSE
    /\ \/ status = "PROCESSING" /\ SetStatus("FAILED")
       \/ status # "PROCESSING" /\ UNCHANGED <<status, old>>
    /\ UNCHANGED <<fileUrl, rowCount, rows, responses, compared, history, queueVars,
                   wpc, inserted, requestVars, reaperVars, faults, crashes>>

-----------------------------------------------------------------------------
(* Bull in Redis, as the code relies on it.                                *)

(* The back-off of a failed attempt is over. *)
Promote(j) ==
    /\ jobs[j].state = "delayed"
    /\ jobs' = [jobs EXCEPT ![j].state = "waiting"]
    /\ UNCHANGED <<datasetVars, late, workerVars, requestVars, reaperVars, faults, crashes>>

(* A job whose process died waits again; past maxStalledCount it is dropped, *)
(* and onFailed returns early for it because attempts are left.              *)
Stalled(j) ==
    /\ jobs[j].state = "stalled"
    /\ \/ /\ jobs[j].stalls < MaxStalls
          /\ jobs' = [jobs EXCEPT ![j].state = "waiting", ![j].stalls = @ + 1]
       \/ /\ jobs[j].stalls >= MaxStalls
          /\ jobs' = [jobs EXCEPT ![j] = NoJob]
    /\ UNCHANGED <<datasetVars, late, workerVars, requestVars, reaperVars, faults, crashes>>

(* An add its caller gave up on reaches Redis after all. *)
LateAdd(f) ==
    /\ f \in late
    /\ Push(f)
    /\ late' = late \ {f}
    /\ UNCHANGED <<datasetVars, workerVars, requestVars, reaperVars, faults, crashes>>

-----------------------------------------------------------------------------
(* DatasetProcessingReaper.                                                *)

(* Thirty minutes go by without a write to the dataset. *)
Age ==
    /\ status = "PROCESSING" /\ ~old
    /\ old' = TRUE
    /\ UNCHANGED <<status, fileUrl, rowCount, rows, responses, compared, history, queueVars,
                   workerVars, requestVars, reaperVars, faults, crashes>>

(* Faulty variant: only FAILED datasets are looked for. *)
ReapFindFailed ==
    /\ kpc = "idle"
    /\ status = "FAILED" /\ old
    /\ kfile' = fileUrl
    /\ kpc' = "live"
    /\ UNCHANGED <<datasetVars, queueVars, workerVars, requestVars, faults, crashes>>

(* The cron pass lists datasets stuck at PROCESSING. *)
ReapFind ==
    /\ kpc = "idle"
    /\ status = "PROCESSING" /\ old
    /\ kfile' = fileUrl
    /\ kpc' = "live"
    /\ UNCHANGED <<datasetVars, queueVars, workerVars, requestVars, faults, crashes>>

(* liveDatasetIds: a live job spares the dataset; an unreadable queue counts as empty. *)
ReapLive ==
    /\ kpc = "live"
    /\ \/ /\ Live # {}
          /\ kpc' = "idle" /\ kfile' = 0
          /\ UNCHANGED faults
       \/ /\ \/ Live = {} /\ UNCHANGED faults
             \/ Fault
          /\ kpc' = (IF kfile = 0 THEN "markFailed" ELSE "add")
          /\ UNCHANGED kfile
    /\ UNCHANGED <<datasetVars, queueVars, workerVars, requestVars, crashes>>

ReapAdd ==
    /\ kpc = "add"
    /\ \/ /\ Push(kfile)
          /\ kpc' = "touch"
          /\ UNCHANGED <<late, faults>>
       \/ /\ late' \in {late, late \cup {kfile}}
          /\ kpc' = "markFailed"
          /\ Fault
          /\ UNCHANGED jobs
    /\ UNCHANGED <<datasetVars, workerVars, requestVars, kfile, crashes>>

(* Meant to refresh updatedAt; it writes PROCESSING whatever has happened since. *)
ReapTouch ==
    /\ kpc = "touch"
    /\ SetStatus("PROCESSING")
    /\ kpc' = "idle" /\ kfile' = 0
    /\ UNCHANGED <<fileUrl, rowCount, rows, responses, compared, history, queueVars,
                   workerVars, requestVars, faults, crashes>>

ReapFail ==
    /\ kpc = "markFailed"
    /\ SetStatus("FAILED")
    /\ kpc' = "idle" /\ kfile' = 0
    /\ UNCHANGED <<fileUrl, rowCount, rows, responses, compared, history, queueVars,
                   workerVars, requestVars, faults, crashes>>

(* The process restarts: the active job is left to the stalled-job sweep. *)
Crash ==
    /\ crashes < MaxCrashes
    /\ crashes' = crashes + 1
    /\ jobs' = [j \in Slots |->
                  IF jobs[j].state = "active" THEN [jobs[j] EXCEPT !.state = "stalled"]
                  ELSE jobs[j]]
    /\ late' = {}
    /\ wpc' = "idle" /\ inserted' = 0 /\ exhausted' = FALSE
    /\ rpc' = [r \in Senders |-> "idle"] /\ rfile' = [r \in Senders |-> 0]
    /\ kpc' = "idle" /\ kfile' = 0
    /\ UNCHANGED <<datasetVars, files, faults>>

-----------------------------------------------------------------------------
Work ==
    \/ \E j \in Slots :
          TakeJob(j) \/ Download(j) \/ InsertBatch(j) \/ FinishJob(j) \/ RejectJob(j)
    \/ ClearResponses \/ CreateResponses \/ MarkReady
    \/ CreateVersion \/ SetVersion \/ FailImport

Bull == \E j \in Slots : Promote(j) \/ Stalled(j)

Handle(r) == Store(r) \/ MarkUploaded(r) \/ MarkAgain(r) \/ Enqueue(r) \/ MarkFailed(r)

Reap == ReapFind \/ ReapLive \/ ReapAdd \/ ReapTouch \/ ReapFail

Run ==
    \/ \E r \in Uploaders : BeginUpload(r)
    \/ \E r \in Reprocessors : BeginReprocess(r)
    \/ \E r \in Senders : Handle(r)
    \/ Archive \/ Compare \/ Work \/ OnFailed \/ Bull
    \/ \E f \in 1..Files : LateAdd(f)
    \/ Age \/ Reap

Next == Run \/ Crash

Spec == Init /\ [][Next]_vars

(***************************************************************************)
(* The worker, Bull's own sweeps, started requests and cron passes go on,  *)
(* and time passes.  No user is obliged to act and no late add to arrive.  *)
(***************************************************************************)
Fairness ==
    /\ WF_vars(Work) /\ WF_vars(OnFailed)
    /\ \A j \in Slots : WF_vars(Promote(j)) /\ WF_vars(Stalled(j))
    /\ \A r \in Senders : WF_vars(Handle(r))
    /\ WF_vars(Age) /\ WF_vars(Reap)

FairSpec == Spec /\ Fairness

-----------------------------------------------------------------------------
(* Properties.                                                             *)

(***************************************************************************)
(* A READY dataset counts exactly the rows of one uploaded file, and has   *)
(* them all: through retries, re-imports, restarts and late jobs.          *)
(***************************************************************************)
ReadyIsBacked ==
    status = "READY" =>
        /\ \E f \in 1..files : rowCount = FileRows[f]
        /\ 1..rowCount \subseteq rows

(***************************************************************************)
(* deleteMany and createMany replace the responses in two calls: a READY   *)
(* dataset that counts a file with responses has responses, or an import   *)
(* that will bring them back is still in the queue.                        *)
(***************************************************************************)
Answered ==
    \E f \in 1..files :
        /\ rowCount = FileRows[f]
        /\ f \in Responding /\ FileRows[f] > 0 => responses

ReadyHasResponses == status = "READY" => Answered \/ Live # {}

(***************************************************************************)
(* With a storage and a Redis that answer, no restart and no comparison on *)
(* the dataset, no interleaving of uploads, reprocess requests, jobs and   *)
(* reaper passes ends in FAILED.                                           *)
(***************************************************************************)
FaultlessNeverFails == faults = 0 /\ crashes = 0 /\ ~compared => status # "FAILED"

(* A dataset does not stay PROCESSING: what the reaper is there for. *)
Settles == []<>(status # "PROCESSING")

(***************************************************************************)
(* An import whose storage and Redis answer does not fail, however often   *)
(* it was done before: what reprocess's comment calls safe to repeat.      *)
(***************************************************************************)
SafeToRepeat == faults = 0 => wpc # "fail"
=============================================================================
