-------------------------- MODULE DatasetImportProofs --------------------------
(***************************************************************************)
(* Proofs about DatasetImport, for any number of request slots, files,     *)
(* rows, attempts, stalls, faults and restarts.                            *)
(***************************************************************************)
EXTENDS DatasetImport, TLAPS

(* The jobs' slots are numbers: Push takes the first free one. *)
JobType == [state : JobState, file : 0..Files, made : 0..Attempts, stalls : 0..MaxStalls]

(* A pushed job is a well-typed one. *)
LEMMA PushTypes ==
  ASSUME jobs \in [Slots -> JobType], NEW f \in 0..Files, Push(f)
  PROVE  jobs' \in [Slots -> JobType]
<1>1. [state |-> "waiting", file |-> f, made |-> 0, stalls |-> 0] \in JobType
  BY BoundsAssumption DEF JobType, JobState
<1> QED
  BY <1>1 DEF Push, Free

(* The steps of the requests keep the state well typed. *)
LEMMA RequestTypes ==
  ASSUME TypeOK,
         \/ \E r \in Uploaders : BeginUpload(r)
         \/ \E r \in Reprocessors : BeginReprocess(r)
         \/ \E r \in Senders : Handle(r)
         \/ Archive \/ Compare
  PROVE  TypeOK'
<1> USE DEF TypeOK, datasetVars, queueVars, workerVars, requestVars, reaperVars, DatasetStatus
<1>1. ASSUME NEW r \in Uploaders, BeginUpload(r) PROVE TypeOK'
  BY <1>1 DEF BeginUpload, Senders
<1>2. ASSUME NEW r \in Reprocessors, BeginReprocess(r) PROVE TypeOK'
  BY <1>2 DEF BeginReprocess, Senders
<1>3. ASSUME NEW r \in Senders, Store(r) PROVE TypeOK'
  <2>1. faults' \in 0..MaxFaults
    BY <1>3, BoundsAssumption DEF Store, Fault
  <2>2. files' \in 0..Files /\ rfile' \in [Senders -> 0..Files]
    BY <1>3, FilesAssumption DEF Store
  <2>3. rpc' \in [Senders -> {"idle", "store", "mark", "markAgain", "enqueue", "markFailed"}]
    BY <1>3 DEF Store
  <2> QED
    BY <1>3, <2>1, <2>2, <2>3 DEF Store
<1>4. ASSUME NEW r \in Senders, MarkUploaded(r) \/ MarkAgain(r) \/ MarkFailed(r) PROVE TypeOK'
  <2>1. fileUrl' \in 0..Files
    BY <1>4 DEF MarkUploaded, MarkAgain, MarkFailed
  <2>2. rfile' \in [Senders -> 0..Files]
    BY <1>4, FilesAssumption DEF MarkUploaded, MarkAgain, MarkFailed
  <2>3. rpc' \in [Senders -> {"idle", "store", "mark", "markAgain", "enqueue", "markFailed"}]
    BY <1>4 DEF MarkUploaded, MarkAgain, MarkFailed
  <2>4. status' \in DatasetStatus /\ old' = FALSE
    BY <1>4 DEF MarkUploaded, MarkAgain, MarkFailed, SetStatus
  <2> QED
    BY <1>4, <2>1, <2>2, <2>3, <2>4 DEF MarkUploaded, MarkAgain, MarkFailed
<1>5. ASSUME NEW r \in Senders, Enqueue(r) PROVE TypeOK'
  <2>1. rfile[r] \in 0..Files
    OBVIOUS
  <2>2. jobs' \in [Slots -> JobType]
    BY <1>5, <2>1, PushTypes DEF Enqueue, JobType
  <2>3. faults' \in 0..MaxFaults
    BY <1>5, BoundsAssumption DEF Enqueue, Fault
  <2>4. rpc' \in [Senders -> {"idle", "store", "mark", "markAgain", "enqueue", "markFailed"}]
    BY <1>5 DEF Enqueue
  <2>5. rfile' \in [Senders -> 0..Files]
    BY <1>5, FilesAssumption DEF Enqueue
  <2>6. late' \in SUBSET (0..Files)
    BY <1>5, <2>1 DEF Enqueue
  <2> QED
    BY <1>5, <2>2, <2>3, <2>4, <2>5, <2>6 DEF Enqueue, JobType
<1>6. CASE Archive \/ Compare
  BY <1>6 DEF Archive, Compare, SetStatus
<1> QED
  BY <1>1, <1>2, <1>3, <1>4, <1>5, <1>6 DEF Handle

(* The worker's steps keep the state well typed. *)
LEMMA WorkTypes ==
  ASSUME TypeOK, Work \/ OnFailed
  PROVE  TypeOK'
<1> USE DEF TypeOK, datasetVars, queueVars, workerVars, requestVars, reaperVars, DatasetStatus
<1>0. \A f \in 1..Files : FileRows[f] \in Nat
  BY FilesAssumption
<1>1. ASSUME NEW j \in Slots, TakeJob(j) PROVE TypeOK'
  <2>1. jobs' \in [Slots -> JobType]
    BY <1>1 DEF TakeJob, JobType, JobState
  <2> QED
    BY <1>1, <2>1 DEF TakeJob, JobType, WorkerSteps
<1>2. ASSUME NEW j \in Slots, Download(j) PROVE TypeOK'
  <2>1. faults' \in 0..MaxFaults
    BY <1>2, BoundsAssumption DEF Download, Fault
  <2>2. wpc' \in WorkerSteps
    BY <1>2 DEF Download, WorkerSteps
  <2> QED
    BY <1>2, <2>1, <2>2 DEF Download
<1>10. ASSUME NEW j \in Slots, InsertBatch(j) PROVE TypeOK'
  <2>1. wpc' \in WorkerSteps
    BY <1>10 DEF InsertBatch, WorkerSteps, AfterRows
  <2>2. inserted + 1 \in Nat \ {0}
    OBVIOUS
  <2>3. rows' \in SUBSET (Nat \ {0}) /\ inserted' \in Nat
    BY <1>10, <2>2 DEF InsertBatch
  <2> QED
    BY <1>10, <2>1, <2>3 DEF InsertBatch
<1>3. ASSUME NEW j \in Slots, FinishJob(j) PROVE TypeOK'
  <2>1. NoJob \in JobType
    BY FilesAssumption, BoundsAssumption DEF NoJob, JobType, JobState
  <2>2. jobs' \in [Slots -> JobType]
    BY <1>3, <2>1 DEF FinishJob, JobType
  <2> QED
    BY <1>3, <2>2 DEF FinishJob, JobType, WorkerSteps
<1>4. ASSUME NEW j \in Slots, RejectJob(j) PROVE TypeOK'
  <2>1. NoJob \in JobType
    BY FilesAssumption, BoundsAssumption DEF NoJob, JobType, JobState
  <2>2. jobs' \in [Slots -> JobType]
    <3>1. CASE jobs' = [jobs EXCEPT ![j] = NoJob]
      BY <2>1, <3>1 DEF JobType
    <3>2. CASE /\ jobs[j].made + 1 < Attempts
               /\ jobs' = [jobs EXCEPT ![j].state = "delayed", ![j].made = @ + 1]
      <4>1. jobs[j].made + 1 \in 0..Attempts
        BY <3>2, BoundsAssumption
      <4> QED
        BY <3>2, <4>1 DEF JobType, JobState
    <3> QED
      BY <1>4, <3>1, <3>2 DEF RejectJob
  <2> QED
    BY <1>4, <2>2 DEF RejectJob, JobType, WorkerSteps
<1>5. CASE ClearResponses \/ CreateResponses
  BY <1>5 DEF ClearResponses, CreateResponses, WorkerSteps
<1>8. CASE MarkReady
  BY <1>8 DEF MarkReady, SetStatus, WorkerSteps
<1>6. CASE CreateVersion \/ SetVersion
  BY <1>6 DEF CreateVersion, SetVersion, WorkerSteps
<1>9. CASE FailImport
  BY <1>9 DEF FailImport, SetStatus, WorkerSteps
<1>7. CASE OnFailed
  BY <1>7 DEF OnFailed, SetStatus
<1> QED
  BY <1>1, <1>2, <1>3, <1>4, <1>5, <1>6, <1>7, <1>8, <1>9, <1>10 DEF Work

(* Bull's, the reaper's and the process's own steps keep the state well typed. *)
LEMMA SystemTypes ==
  ASSUME TypeOK,
         Bull \/ (\E f \in 1..Files : LateAdd(f)) \/ Age \/ Reap \/ Crash
  PROVE  TypeOK'
<1> USE DEF TypeOK, datasetVars, queueVars, workerVars, requestVars, reaperVars, DatasetStatus
<1>0. NoJob \in JobType
  BY FilesAssumption, BoundsAssumption DEF NoJob, JobType, JobState
<1>1. ASSUME NEW j \in Slots, Promote(j) PROVE TypeOK'
  <2>1. jobs' \in [Slots -> JobType]
    BY <1>1 DEF Promote, JobType, JobState
  <2> QED
    BY <1>1, <2>1 DEF Promote, JobType
<1>2. ASSUME NEW j \in Slots, Stalled(j) PROVE TypeOK'
  <2>1. CASE jobs' = [jobs EXCEPT ![j] = NoJob]
    <3>1. jobs' \in [Slots -> JobType]
      BY <1>0, <2>1 DEF JobType
    <3> QED
      BY <1>2, <3>1 DEF Stalled, JobType
  <2>2. CASE /\ jobs[j].stalls < MaxStalls
             /\ jobs' = [jobs EXCEPT ![j].state = "waiting", ![j].stalls = @ + 1]
    <3>1. jobs[j].stalls + 1 \in 0..MaxStalls
      BY <2>2, BoundsAssumption
    <3>2. jobs' \in [Slots -> JobType]
      BY <2>2, <3>1 DEF JobType, JobState
    <3> QED
      BY <1>2, <3>2 DEF Stalled, JobType
  <2> QED
    BY <1>2, <2>1, <2>2 DEF Stalled
<1>3. ASSUME NEW f \in 1..Files, LateAdd(f) PROVE TypeOK'
  <2>1. f \in 0..Files
    BY FilesAssumption
  <2>2. jobs' \in [Slots -> JobType]
    BY <1>3, <2>1, PushTypes DEF LateAdd, JobType
  <2> QED
    BY <1>3, <2>2 DEF LateAdd, JobType
<1>4. CASE Age \/ ReapFind
  BY <1>4 DEF Age, ReapFind
<1>5. CASE ReapLive
  <2>1. faults' \in 0..MaxFaults
    BY <1>5, BoundsAssumption DEF ReapLive, Fault
  <2>2. kfile' \in 0..Files
    BY <1>5, FilesAssumption DEF ReapLive
  <2> QED
    BY <1>5, <2>1, <2>2 DEF ReapLive
<1>6. CASE ReapAdd
  <2>1. faults' \in 0..MaxFaults
    BY <1>6, BoundsAssumption DEF ReapAdd, Fault
  <2>2. jobs' \in [Slots -> JobType]
    BY <1>6, PushTypes DEF ReapAdd, JobType
  <2> QED
    BY <1>6, <2>1, <2>2 DEF ReapAdd, JobType
<1>7. CASE ReapTouch \/ ReapFail
  <2>1. kfile' \in 0..Files
    BY <1>7, FilesAssumption DEF ReapTouch, ReapFail
  <2>2. status' \in DatasetStatus /\ old' \in BOOLEAN
    BY <1>7 DEF ReapTouch, ReapFail, SetStatus
  <2> QED
    BY <1>7, <2>1, <2>2 DEF ReapTouch, ReapFail
<1>8. CASE Crash
  <2>1. jobs' \in [Slots -> JobType]
    BY <1>8 DEF Crash, JobType, JobState
  <2>2. crashes' \in 0..MaxCrashes
    BY <1>8, BoundsAssumption DEF Crash
  <2>3. 0 \in 0..Files /\ "idle" \in WorkerSteps
    BY FilesAssumption DEF WorkerSteps
  <2>4. /\ rfile' \in [Senders -> 0..Files] /\ kfile' \in 0..Files
        /\ rpc' \in [Senders -> {"idle", "store", "mark", "markAgain", "enqueue", "markFailed"}]
    BY <1>8, <2>3 DEF Crash
  <2>5. wpc' \in WorkerSteps /\ inserted' \in Nat /\ late' \in SUBSET (0..Files)
    BY <1>8, <2>3 DEF Crash
  <2> QED
    BY <1>8, <2>1, <2>2, <2>4, <2>5 DEF Crash, JobType
<1> QED
  BY <1>1, <1>2, <1>3, <1>4, <1>5, <1>6, <1>7, <1>8 DEF Bull, Reap

(* The initial state is well typed. *)
LEMMA TypeInit == Init => TypeOK
<1> SUFFICES ASSUME Init PROVE TypeOK
  OBVIOUS
<1>1. /\ 0 \in 0..Files /\ 0 \in 0..MaxFaults /\ 0 \in 0..MaxCrashes
      /\ NoJob \in JobType
  BY FilesAssumption, BoundsAssumption DEF NoJob, JobType, JobState
<1>2. jobs \in [Slots -> JobType] /\ late \in SUBSET (0..Files)
  BY <1>1 DEF Init
<1>3. /\ rpc \in [Senders -> {"idle", "store", "mark", "markAgain", "enqueue", "markFailed"}]
      /\ rfile \in [Senders -> 0..Files]
  BY <1>1 DEF Init
<1> QED
  BY <1>1, <1>2, <1>3 DEF Init, TypeOK, JobType, DatasetStatus, WorkerSteps

(* Every step keeps the state well typed. *)
LEMMA TypeStep == TypeOK /\ [Next]_vars => TypeOK'
<1> SUFFICES ASSUME TypeOK, [Next]_vars
             PROVE  TypeOK'
  OBVIOUS
<1>1. CASE UNCHANGED vars
  BY <1>1 DEF TypeOK, vars
<1> QED
  BY <1>1, RequestTypes, WorkTypes, SystemTypes DEF Next, Run

(***************************************************************************)
(* The dataset, its jobs and all that is in flight keep their types.       *)
(***************************************************************************)
THEOREM TypeCorrect == Spec => []TypeOK
BY TypeInit, TypeStep, PTL DEF Spec

-----------------------------------------------------------------------------
(* Whatever names a file names an uploaded one. *)
FilesKnown ==
    /\ \A j \in Slots : jobs[j].state # "none" => jobs[j].file \in 1..files
    /\ late \subseteq 1..files
    /\ fileUrl \in 0..files /\ kfile \in 0..files
    /\ \A r \in Senders :
          rpc[r] \in {"mark", "markAgain", "enqueue", "markFailed"} => rfile[r] \in 1..files
    /\ kpc \in {"add", "touch"} => kfile # 0

(* The worker has inserted what it counts, and all of a file when its loop is over. *)
LoopInv ==
    /\ wpc = "download" => inserted = 0
    /\ 1..inserted \subseteq rows
    /\ wpc \in {"clear", "respond", "ready"} => \E f \in 1..files : inserted = FileRows[f]

(***************************************************************************)
(* The inductive invariant of ReadyIsBacked: MarkReady copies the worker's *)
(* count, so the count must be that of a known file and backed by rows;    *)
(* rows are never removed, so it stays backed under any later status.      *)
(***************************************************************************)
BackedInv ==
    /\ FilesKnown
    /\ LoopInv
    /\ 1..rowCount \subseteq rows
    /\ ReadyIsBacked

(* A dataset that is PROCESSING, or about to be, has a file. *)
FileSet ==
    /\ kfile # 0 => fileUrl # 0
    /\ \A r \in Senders : rpc[r] = "markAgain" => fileUrl # 0
    /\ status = "PROCESSING" => fileUrl # 0

(***************************************************************************)
(* The inductive invariant of FaultlessNeverFails: with no fault, restart  *)
(* or comparison nothing is on its way to FAILED; the version record is    *)
(* ahead only between the worker's own two writes.                         *)
(***************************************************************************)
Clean == faults = 0 /\ crashes = 0 /\ ~compared

CleanInv ==
    Clean =>
        /\ status # "FAILED"
        /\ wpc \notin {"fail", "reject"} /\ ~exhausted
        /\ \A r \in Senders : rpc[r] # "markFailed"
        /\ kpc # "markFailed" /\ (kpc = "live" => kfile # 0)
        /\ history = "ahead" => wpc = "setVersion"

(* The jobs in the queue are about uploaded files. *)
JobsKnown == \A j \in Slots : jobs[j].state # "none" => jobs[j].file \in 1..files

LEMMA PushKnown ==
  ASSUME jobs \in [Slots -> JobType], JobsKnown, NEW f \in 1..files, Push(f), files' = files
  PROVE  JobsKnown'
BY DEF JobsKnown, Push, Free, JobType

(* Uploads, jobs and reaper passes only ever carry uploaded files along. *)
LEMMA FilesKnownStep == TypeOK /\ FilesKnown /\ [Next]_vars => FilesKnown'
<1> SUFFICES ASSUME TypeOK, FilesKnown, [Next]_vars
             PROVE  FilesKnown'
  OBVIOUS
<1> USE DEF datasetVars, queueVars, workerVars, requestVars, reaperVars
<1>0. /\ jobs \in [Slots -> JobType] /\ files \in Nat
      /\ rpc \in [Senders -> {"idle", "store", "mark", "markAgain", "enqueue", "markFailed"}]
      /\ rfile \in [Senders -> 0..Files]
  BY FilesAssumption DEF TypeOK, JobType
<1>j. JobsKnown
  BY DEF FilesKnown, JobsKnown
<1>k. JobsKnown' => \A j \in Slots : jobs'[j].state # "none" => jobs'[j].file \in 1..files'
  BY DEF JobsKnown
<1>1. ASSUME NEW r \in Uploaders, BeginUpload(r) PROVE FilesKnown'
  BY <1>1, <1>0 DEF BeginUpload, FilesKnown, Senders
<1>2. ASSUME NEW r \in Reprocessors, BeginReprocess(r) PROVE FilesKnown'
  BY <1>2, <1>0 DEF BeginReprocess, FilesKnown, Senders
<1>3. ASSUME NEW r \in Senders, Store(r) PROVE FilesKnown'
  <2>1. files' \in {files, files + 1}
    BY <1>3 DEF Store
  <2>2. 1..files \subseteq 1..files' /\ 0..files \subseteq 0..files'
    BY <2>1, <1>0
  <2>3. \A t \in Senders : rpc'[t] \in {"mark", "markAgain", "enqueue", "markFailed"}
                              => rfile'[t] \in 1..files'
    <3>1. CASE /\ files' = files + 1
               /\ rfile' = [rfile EXCEPT ![r] = files + 1]
               /\ rpc' = [rpc EXCEPT ![r] = "mark"]
      BY <3>1, <2>2, <1>0 DEF FilesKnown
    <3>2. CASE rpc' = [rpc EXCEPT ![r] = "idle"] /\ UNCHANGED <<files, rfile>>
      BY <3>2, <1>0 DEF FilesKnown
    <3> QED
      BY <1>3, <3>1, <3>2 DEF Store
  <2> QED
    BY <1>3, <2>2, <2>3 DEF Store, FilesKnown
<1>4. ASSUME NEW r \in Senders, MarkUploaded(r) \/ MarkAgain(r) \/ MarkFailed(r) PROVE FilesKnown'
  <2>1. rfile[r] \in 1..files /\ UNCHANGED <<files, jobs, late, kfile, kpc>>
    BY <1>4 DEF MarkUploaded, MarkAgain, MarkFailed, FilesKnown
  <2>2. fileUrl' \in {fileUrl, rfile[r]}
    BY <1>4 DEF MarkUploaded, MarkAgain, MarkFailed
  <2>3. fileUrl' \in 0..files'
    BY <1>0, <2>1, <2>2 DEF FilesKnown
  <2>4. \A t \in Senders : rpc'[t] \in {"mark", "markAgain", "enqueue", "markFailed"}
                              => rfile'[t] \in 1..files
    BY <1>4, <1>0, <2>1 DEF MarkUploaded, MarkAgain, MarkFailed, FilesKnown
  <2> QED
    BY <2>1, <2>3, <2>4 DEF FilesKnown
<1>5. ASSUME NEW r \in Senders, Enqueue(r) PROVE FilesKnown'
  <2>1. rfile[r] \in 1..files /\ files' = files
    BY <1>5 DEF Enqueue, FilesKnown
  <2>2. JobsKnown'
    BY <1>5, <1>0, <1>j, <2>1, PushKnown DEF Enqueue, JobsKnown
  <2> QED
    BY <1>5, <1>0, <1>k, <2>1, <2>2 DEF Enqueue, FilesKnown
<1>6. CASE Archive \/ Compare \/ OnFailed \/ Age \/ UNCHANGED vars
  BY <1>6 DEF Archive, Compare, OnFailed, Age, FilesKnown, vars
<1>7. ASSUME NEW j \in Slots,
             TakeJob(j) \/ FinishJob(j) \/ RejectJob(j) \/ Promote(j) \/ Stalled(j)
      PROVE  FilesKnown'
  <2>1. JobsKnown'
    BY <1>7, <1>0, <1>j DEF TakeJob, FinishJob, RejectJob, Promote, Stalled, JobsKnown, Runs,
       NoJob, JobType
  <2> QED
    BY <1>7, <1>k, <2>1 DEF TakeJob, FinishJob, RejectJob, Promote, Stalled, FilesKnown
<1>8. ASSUME NEW j \in Slots, Download(j) \/ InsertBatch(j) PROVE FilesKnown'
  BY <1>8 DEF Download, InsertBatch, FilesKnown
<1>9. CASE \/ ClearResponses \/ CreateResponses \/ MarkReady
           \/ CreateVersion \/ SetVersion \/ FailImport
  BY <1>9 DEF ClearResponses, CreateResponses, MarkReady, CreateVersion, SetVersion,
     FailImport, FilesKnown
<1>10. ASSUME NEW f \in 1..Files, LateAdd(f) PROVE FilesKnown'
  <2>1. f \in 1..files /\ files' = files
    BY <1>10 DEF LateAdd, FilesKnown
  <2>2. JobsKnown'
    BY <1>10, <1>0, <1>j, <2>1, PushKnown DEF LateAdd
  <2> QED
    BY <1>10, <1>k, <2>1, <2>2 DEF LateAdd, FilesKnown
<1>11. CASE ReapFind \/ ReapLive \/ ReapTouch \/ ReapFail
  <2>1. UNCHANGED <<files, jobs, late, fileUrl, rpc, rfile>>
    BY <1>11 DEF ReapFind, ReapLive, ReapTouch, ReapFail
  <2>2. kfile' \in {kfile, fileUrl, 0}
    BY <1>11 DEF ReapFind, ReapLive, ReapTouch, ReapFail
  <2>3. kfile' \in 0..files'
    BY <1>0, <2>1, <2>2 DEF FilesKnown
  <2>4. kpc' \in {"add", "touch"} => kfile' # 0
    BY <1>11 DEF ReapFind, ReapLive, ReapTouch, ReapFail
  <2> QED
    BY <2>1, <2>3, <2>4 DEF FilesKnown
<1>12. CASE ReapAdd
  <2>1. kfile \in 1..files /\ files' = files
    BY <1>12, <1>0 DEF ReapAdd, FilesKnown
  <2>2. JobsKnown'
    BY <1>12, <1>0, <1>j, <2>1, PushKnown DEF ReapAdd, JobsKnown
  <2> QED
    BY <1>12, <1>k, <2>1, <2>2 DEF ReapAdd, FilesKnown
<1>13. CASE Crash
  <2>1. JobsKnown'
    BY <1>13, <1>0, <1>j DEF Crash, JobsKnown, JobType
  <2> QED
    BY <1>13, <1>0, <1>k, <2>1 DEF Crash, FilesKnown
<1> QED
  BY <1>1, <1>2, <1>3, <1>4, <1>5, <1>6, <1>7, <1>8, <1>9, <1>10, <1>11, <1>12, <1>13
     DEF Next, Run, Handle, Work, Bull, Reap

(* Only Store adds a file, and none is taken back. *)
LEMMA FilesGrow ==
  ASSUME TypeOK, [Next]_vars
  PROVE  1..files \subseteq 1..files'
<1> USE DEF requestVars
<1>1. files' \in {files, files + 1}
  <2>1. CASE \/ \E r \in Uploaders : BeginUpload(r)
             \/ \E r \in Reprocessors : BeginReprocess(r)
             \/ \E r \in Senders : Handle(r)
    BY <2>1 DEF BeginUpload, BeginReprocess, Handle, Store, MarkUploaded, MarkAgain, Enqueue,
       MarkFailed
  <2>2. CASE Work
    BY <2>2 DEF Work, TakeJob, Download, InsertBatch, ClearResponses, CreateResponses,
       MarkReady, CreateVersion, SetVersion, FinishJob, FailImport, RejectJob
  <2>3. CASE \/ Archive \/ Compare \/ OnFailed \/ Bull \/ (\E f \in 1..Files : LateAdd(f))
             \/ Age \/ Reap \/ Crash \/ UNCHANGED vars
    BY <2>3 DEF Archive, Compare, OnFailed, Bull, Promote, Stalled, LateAdd, Age, Reap,
       ReapFind, ReapLive, ReapAdd, ReapTouch, ReapFail, Crash, vars
  <2> QED
    BY <2>1, <2>2, <2>3 DEF Next, Run
<1>2. files \in Nat
  BY FilesAssumption DEF TypeOK
<1> QED
  BY <1>1, <1>2

(***************************************************************************)
(* The worker's count is backed by rows, and is copied to rowCount only    *)
(* when the loop over a file is over.                                      *)
(***************************************************************************)
LEMMA LoopStep ==
  ASSUME TypeOK, FilesKnown, LoopInv, 1..rowCount \subseteq rows, [Next]_vars
  PROVE  LoopInv' /\ 1..rowCount' \subseteq rows'
<1> USE DEF datasetVars, queueVars, workerVars, requestVars, reaperVars, SetStatus
<1>0. 1..files \subseteq 1..files'
  BY FilesGrow
(* A step that touches none of the worker's variables. *)
<1>a. ASSUME UNCHANGED <<wpc, inserted, rows, rowCount>>
      PROVE  LoopInv' /\ 1..rowCount' \subseteq rows'
  BY <1>0, <1>a DEF LoopInv
<1>1. CASE \/ \E r \in Uploaders : BeginUpload(r)
           \/ \E r \in Reprocessors : BeginReprocess(r)
           \/ \E r \in Senders : Handle(r)
           \/ Archive \/ Compare
  <2>1. UNCHANGED <<wpc, inserted, rows, rowCount>>
    BY <1>1 DEF BeginUpload, BeginReprocess, Handle, Store, MarkUploaded, MarkAgain, Enqueue,
       MarkFailed, Archive, Compare
  <2> QED
    BY <1>a, <2>1
<1>2. CASE OnFailed \/ Bull \/ (\E f \in 1..Files : LateAdd(f)) \/ Age \/ Reap \/ UNCHANGED vars
  <2>1. UNCHANGED <<wpc, inserted, rows, rowCount>>
    BY <1>2 DEF OnFailed, Bull, Promote, Stalled, LateAdd, Age, Reap, ReapFind, ReapLive,
       ReapAdd, ReapTouch, ReapFail, vars
  <2> QED
    BY <1>a, <2>1
<1>3. CASE Crash
  BY <1>0, <1>3 DEF Crash, LoopInv
<1>4. ASSUME NEW j \in Slots, TakeJob(j) \/ FinishJob(j) \/ RejectJob(j)
      PROVE  LoopInv' /\ 1..rowCount' \subseteq rows'
  BY <1>0, <1>4 DEF TakeJob, FinishJob, RejectJob, LoopInv
<1>5. ASSUME NEW j \in Slots, Download(j)
      PROVE  LoopInv' /\ 1..rowCount' \subseteq rows'
  <2>1. jobs[j].file \in 1..files /\ inserted = 0
    BY <1>0, <1>5 DEF Download, Runs, FilesKnown, LoopInv
  <2>2. wpc' \in {"clear", "respond", "ready"} => FileRows[jobs[j].file] = 0
    BY <1>5 DEF Download
  <2>3. LoopInv'
    BY <1>0, <1>5, <2>1, <2>2 DEF Download, LoopInv
  <2> QED
    BY <1>0, <1>5, <2>3 DEF Download
<1>6. ASSUME NEW j \in Slots, InsertBatch(j)
      PROVE  LoopInv' /\ 1..rowCount' \subseteq rows'
  <2>1. jobs[j].file \in 1..files
    BY <1>0, <1>6 DEF InsertBatch, Runs, FilesKnown
  <2>2. inserted \in Nat /\ inserted' = inserted + 1 /\ rows' = rows \cup {inserted + 1}
        /\ files' = files
    BY <1>6 DEF InsertBatch, TypeOK
  <2>3. 1..inserted' \subseteq rows'
    BY <1>0, <2>2 DEF LoopInv
  <2>4. wpc' \in {"clear", "respond", "ready"} => inserted' = FileRows[jobs[j].file]
    BY <1>6, <2>2 DEF InsertBatch
  <2>5. LoopInv'
    BY <1>6, <2>1, <2>2, <2>3, <2>4 DEF InsertBatch, AfterRows, LoopInv
  <2> QED
    BY <1>0, <1>6, <2>2, <2>5 DEF InsertBatch
<1>7. CASE ClearResponses \/ CreateResponses \/ CreateVersion \/ SetVersion \/ FailImport
  BY <1>0, <1>7 DEF ClearResponses, CreateResponses, CreateVersion, SetVersion, FailImport,
     LoopInv
<1>8. CASE MarkReady
  BY <1>0, <1>8 DEF MarkReady, LoopInv
<1> QED
  BY <1>1, <1>2, <1>3, <1>4, <1>5, <1>6, <1>7, <1>8 DEF Next, Run, Work

(* Only MarkReady counts, and only MarkReady writes READY. *)
LEMMA CountStep ==
  ASSUME [Next]_vars
  PROVE  MarkReady \/ (rowCount' = rowCount /\ (status' = "READY" => status = "READY"))
<1> USE DEF datasetVars, queueVars, workerVars, requestVars, reaperVars, SetStatus
<1>1. CASE Work
  <2>1. ASSUME NEW j \in Slots,
               TakeJob(j) \/ Download(j) \/ InsertBatch(j) \/ FinishJob(j) \/ RejectJob(j)
        PROVE  UNCHANGED <<rowCount, status>>
    BY <2>1 DEF TakeJob, Download, InsertBatch, FinishJob, RejectJob
  <2>2. CASE ClearResponses \/ CreateResponses \/ CreateVersion \/ SetVersion \/ FailImport
    BY <2>2 DEF ClearResponses, CreateResponses, CreateVersion, SetVersion, FailImport
  <2>3. CASE MarkReady
    BY <2>3
  <2> QED
    BY <1>1, <2>1, <2>2, <2>3 DEF Work
<1>2. CASE \/ \E r \in Uploaders : BeginUpload(r)
           \/ \E r \in Reprocessors : BeginReprocess(r)
           \/ \E r \in Senders : Handle(r)
  BY <1>2 DEF BeginUpload, BeginReprocess, Handle, Store, MarkUploaded, MarkAgain, Enqueue,
     MarkFailed
<1>3. CASE \/ Archive \/ Compare \/ OnFailed \/ Bull \/ (\E f \in 1..Files : LateAdd(f))
           \/ Age \/ Reap
  BY <1>3 DEF Archive, Compare, OnFailed, Bull, Promote, Stalled, LateAdd, Age, Reap, ReapFind,
     ReapLive, ReapAdd, ReapTouch, ReapFail
<1>4. CASE Crash \/ UNCHANGED vars
  BY <1>4 DEF Crash, vars
<1> QED
  BY <1>1, <1>2, <1>3, <1>4 DEF Next, Run

(***************************************************************************)
(* READY is only written with the count of a file whose rows are all in.   *)
(***************************************************************************)
LEMMA BackedStep == TypeOK /\ BackedInv /\ [Next]_vars => BackedInv'
<1> SUFFICES ASSUME TypeOK, BackedInv, [Next]_vars
             PROVE  BackedInv'
  OBVIOUS
<1>1. FilesKnown' /\ LoopInv' /\ 1..rowCount' \subseteq rows'
  BY FilesKnownStep, LoopStep DEF BackedInv
<1>2. 1..files \subseteq 1..files'
  BY FilesGrow
<1>3. ReadyIsBacked'
  <2>1. CASE MarkReady
    BY <1>1, <1>2, <2>1 DEF MarkReady, BackedInv, LoopInv, ReadyIsBacked
  <2>2. CASE rowCount' = rowCount /\ (status' = "READY" => status = "READY")
    BY <1>1, <1>2, <2>2 DEF BackedInv, ReadyIsBacked
  <2> QED
    BY <2>1, <2>2, CountStep
<1> QED
  BY <1>1, <1>3 DEF BackedInv

(***************************************************************************)
(* A READY dataset has all the rows it counts, those of an uploaded file.  *)
(***************************************************************************)
THEOREM ReadyBacked == Spec => []ReadyIsBacked
<1>1. Init => BackedInv
  BY FilesAssumption DEF Init, BackedInv, FilesKnown, LoopInv, ReadyIsBacked, NoJob
<1>2. BackedInv => ReadyIsBacked
  BY DEF BackedInv
<1> QED
  BY <1>1, <1>2, BackedStep, TypeCorrect, PTL DEF Spec

-----------------------------------------------------------------------------
(* Files are never taken away from a dataset. *)
LEMMA FileSetStep == TypeOK /\ FilesKnown /\ FileSet /\ [Next]_vars => FileSet'
<1> SUFFICES ASSUME TypeOK, FilesKnown, FileSet, [Next]_vars
             PROVE  FileSet'
  OBVIOUS
<1> USE DEF datasetVars, queueVars, workerVars, requestVars, reaperVars, SetStatus
<1>0. rpc \in [Senders -> {"idle", "store", "mark", "markAgain", "enqueue", "markFailed"}]
  BY DEF TypeOK
<1>1. ASSUME NEW r \in Senders, MarkUploaded(r) PROVE FileSet'
  <2>1. rfile[r] # 0
    BY <1>1 DEF MarkUploaded, FilesKnown
  <2> QED
    BY <1>0, <1>1, <2>1 DEF MarkUploaded, FileSet
<1>2. ASSUME NEW r \in Uploaders, BeginUpload(r) PROVE FileSet'
  BY <1>0, <1>2 DEF BeginUpload, FileSet, Senders
<1>3. ASSUME NEW r \in Reprocessors, BeginReprocess(r) PROVE FileSet'
  BY <1>0, <1>3 DEF BeginReprocess, FileSet, Senders
<1>4. ASSUME NEW r \in Senders, Store(r) \/ MarkAgain(r) \/ Enqueue(r) \/ MarkFailed(r)
      PROVE  FileSet'
  BY <1>0, <1>4 DEF Store, MarkAgain, Enqueue, MarkFailed, FileSet
<1>5. CASE Work
  BY <1>5 DEF Work, TakeJob, Download, InsertBatch, ClearResponses, CreateResponses,
     MarkReady, CreateVersion, SetVersion, FinishJob, FailImport, RejectJob, FileSet
<1>6. CASE \/ Archive \/ Compare \/ OnFailed \/ Bull \/ (\E f \in 1..Files : LateAdd(f))
           \/ Age \/ Crash \/ UNCHANGED vars
  BY <1>6 DEF Archive, Compare, OnFailed, Bull, Promote, Stalled, LateAdd, Age, Crash, vars,
     FileSet
<1>7. CASE Reap
  BY <1>7 DEF Reap, ReapFind, ReapLive, ReapAdd, ReapTouch, ReapFail, FileSet, FilesKnown
<1> QED
  BY <1>1, <1>2, <1>3, <1>4, <1>5, <1>6, <1>7 DEF Next, Run, Handle

(* While nothing has gone wrong outside, nothing is on its way to FAILED. *)
LEMMA CleanStep == TypeOK /\ FilesKnown /\ FileSet /\ CleanInv /\ [Next]_vars => CleanInv'
<1> SUFFICES ASSUME TypeOK, FilesKnown, FileSet, CleanInv, [Next]_vars, Clean'
             PROVE  CleanInv'
  BY DEF CleanInv
<1> USE DEF datasetVars, queueVars, workerVars, requestVars, reaperVars, SetStatus
<1>0. /\ rpc \in [Senders -> {"idle", "store", "mark", "markAgain", "enqueue", "markFailed"}]
      /\ faults \in Nat /\ crashes \in Nat
  BY BoundsAssumption DEF TypeOK
<1>1. Fault => FALSE
  BY <1>0 DEF Fault, Clean
<1>2. Crash => FALSE
  BY <1>0 DEF Crash, Clean
<1>3. ASSUME NEW r \in Uploaders, BeginUpload(r) PROVE CleanInv'
  BY <1>0, <1>3 DEF BeginUpload, CleanInv, Clean, Senders
<1>4. ASSUME NEW r \in Reprocessors, BeginReprocess(r) PROVE CleanInv'
  BY <1>0, <1>4 DEF BeginReprocess, CleanInv, Clean, Senders
<1>5. ASSUME NEW r \in Senders, Handle(r) PROVE CleanInv'
  BY <1>0, <1>1, <1>5 DEF Handle, Store, MarkUploaded, MarkAgain, Enqueue, MarkFailed,
     CleanInv, Clean
<1>6. CASE Work
  BY <1>1, <1>6 DEF Work, TakeJob, Download, InsertBatch, AfterRows, ClearResponses,
     CreateResponses, MarkReady, CreateVersion, SetVersion, FinishJob, FailImport, RejectJob,
     CleanInv, Clean
<1>7. CASE \/ Archive \/ Compare \/ OnFailed \/ Bull \/ (\E f \in 1..Files : LateAdd(f))
           \/ Age \/ UNCHANGED vars
  BY <1>7 DEF Archive, Compare, OnFailed, Bull, Promote, Stalled, LateAdd, Age, vars,
     CleanInv, Clean
<1>8. CASE Reap
  BY <1>1, <1>8 DEF Reap, ReapFind, ReapLive, ReapAdd, ReapTouch, ReapFail, CleanInv, Clean,
     FileSet, FilesKnown
<1> QED
  BY <1>2, <1>3, <1>4, <1>5, <1>6, <1>7, <1>8 DEF Next, Run

(***************************************************************************)
(* Uploads, repeated reprocess requests and reaper passes alone never end  *)
(* in FAILED: that takes a fault, a restart or a comparison.               *)
(***************************************************************************)
THEOREM CleanNeverFails == Spec => []FaultlessNeverFails
<1>1. Init => FilesKnown /\ FileSet /\ CleanInv
  BY FilesAssumption DEF Init, FilesKnown, FileSet, CleanInv, NoJob
<1>2. CleanInv => FaultlessNeverFails
  BY DEF CleanInv, Clean, FaultlessNeverFails
<1> QED
  BY <1>1, <1>2, FilesKnownStep, FileSetStep, CleanStep, TypeCorrect, PTL DEF Spec

-----------------------------------------------------------------------------
(* A READY dataset has its responses.                                      *)

(* A job has stalled no more often than there were restarts. *)
StallsBounded ==
    \A j \in Slots :
        /\ jobs[j].stalls <= crashes
        /\ jobs[j].state = "stalled" => jobs[j].stalls < crashes

(***************************************************************************)
(* The inductive invariant of ReadyHasResponses.  Only ClearResponses      *)
(* takes responses away, so the dataset may then say READY of an earlier   *)
(* import; its job stays in the queue until the worker has them again and  *)
(* has marked READY anew, or has marked the dataset FAILED.                *)
(***************************************************************************)
Replacing ==
    /\ wpc # "idle" => \E j \in Slots : Runs(j)
    /\ wpc = "ready" =>
          \E f \in 1..files :
              /\ inserted = FileRows[f]
              /\ f \in Responding /\ FileRows[f] > 0 => responses
    /\ wpc \in {"createVersion", "setVersion", "finish"} /\ status = "READY" => Answered
    /\ wpc = "reject" => status # "READY"
    /\ ReadyHasResponses

(* A job that is added has not stalled, and none is taken away. *)
LEMMA PushFresh ==
  ASSUME TypeOK, NEW f \in 0..Files, Push(f)
  PROVE  /\ \E j \in Slots : jobs'[j].state # "none"
         /\ \A j \in Slots :
               \/ jobs'[j] = jobs[j]
               \/ jobs'[j].state = "waiting" /\ jobs'[j].stalls = 0
         /\ \A j \in Slots : jobs[j].state # "none" => jobs'[j].state # "none"
BY DEF TypeOK, Push, Free, Live

(* What a step of the import does to the jobs and to the loop that runs one. *)
LEMMA JobSteps ==
  ASSUME TypeOK, FilesKnown, [Next]_vars
  PROVE  \/ /\ jobs' = jobs
            /\ crashes' = crashes
         \/ /\ \E f \in 0..Files : Push(f)
            /\ UNCHANGED <<crashes, wpc>>
         \/ \E j \in Slots : TakeJob(j) \/ FinishJob(j) \/ RejectJob(j) \/ Promote(j) \/ Stalled(j)
         \/ Crash
<1> USE DEF datasetVars, queueVars, workerVars, requestVars, reaperVars
<1>f. /\ \A r \in Senders : rfile[r] \in 0..Files
      /\ \A f \in 1..Files : f \in 0..Files
      /\ kfile \in 0..Files
  BY FilesAssumption DEF TypeOK
<1>1. CASE \/ \E r \in Uploaders : BeginUpload(r)
           \/ \E r \in Reprocessors : BeginReprocess(r)
           \/ Archive \/ Compare \/ OnFailed \/ Age \/ UNCHANGED vars
  BY <1>1 DEF BeginUpload, BeginReprocess, Archive, Compare, OnFailed, Age, vars
<1>2. CASE \E r \in Senders : Handle(r)
  BY <1>2, <1>f DEF Handle, Store, MarkUploaded, MarkAgain, Enqueue, MarkFailed
<1>3. CASE \E f \in 1..Files : LateAdd(f)
  BY <1>3, <1>f DEF LateAdd
<1>4. CASE Reap
  BY <1>4, <1>f DEF Reap, ReapFind, ReapLive, ReapAdd, ReapTouch, ReapFail
<1>5. ASSUME NEW j \in Slots, Download(j) \/ InsertBatch(j)
      PROVE  jobs' = jobs /\ crashes' = crashes
  BY <1>5 DEF Download, InsertBatch
<1>6. CASE ClearResponses \/ CreateResponses \/ MarkReady \/ CreateVersion \/ SetVersion \/ FailImport
  BY <1>6 DEF ClearResponses, CreateResponses, MarkReady, CreateVersion, SetVersion, FailImport
<1>7. CASE Work
  BY <1>5, <1>6, <1>7 DEF Work
<1> QED
  BY <1>1, <1>2, <1>3, <1>4, <1>7 DEF Next, Run, Bull

(* Every stall of a job takes a restart of its own. *)
LEMMA StallsStep ==
  ASSUME TypeOK, FilesKnown, StallsBounded, [Next]_vars
  PROVE  StallsBounded'
<1> USE DEF datasetVars, queueVars, workerVars, requestVars, reaperVars
<1>0. /\ jobs \in [Slots -> JobType] /\ crashes \in Nat
      /\ \A j \in Slots : jobs[j] \in JobType /\ jobs[j].stalls \in Nat
  BY BoundsAssumption DEF TypeOK, JobType
<1>1. CASE jobs' = jobs /\ crashes' = crashes
  BY <1>1 DEF StallsBounded
<1>2. CASE (\E f \in 0..Files : Push(f)) /\ UNCHANGED <<crashes, wpc>>
  <2>1. \A j \in Slots :
           \/ jobs'[j] = jobs[j]
           \/ jobs'[j].state = "waiting" /\ jobs'[j].stalls = 0
    BY <1>2, PushFresh
  <2> QED
    BY <1>0, <1>2, <2>1 DEF StallsBounded
<1>3. ASSUME NEW j \in Slots,
             TakeJob(j) \/ FinishJob(j) \/ RejectJob(j) \/ Promote(j) \/ Stalled(j)
      PROVE  StallsBounded'
  <2>1. crashes' = crashes /\ \A k \in Slots : k # j => jobs'[k] = jobs[k]
    BY <1>0, <1>3 DEF TakeJob, FinishJob, RejectJob, Promote, Stalled
  <2>2. jobs'[j].state # "stalled"
    BY <1>0, <1>3 DEF TakeJob, FinishJob, RejectJob, Promote, Stalled, NoJob, JobType
  <2>3. CASE TakeJob(j) \/ FinishJob(j) \/ RejectJob(j) \/ Promote(j)
    <3>1. jobs'[j].stalls \in {0, jobs[j].stalls}
      BY <1>0, <2>3 DEF TakeJob, FinishJob, RejectJob, Promote, NoJob, JobType
    <3> QED
      BY <1>0, <2>1, <2>2, <3>1 DEF StallsBounded
  <2>4. CASE Stalled(j)
    <3>1. jobs[j].state = "stalled" /\ jobs'[j].stalls \in {0, jobs[j].stalls + 1}
      BY <1>0, <2>4 DEF Stalled, NoJob, JobType
    <3> QED
      BY <1>0, <2>1, <2>2, <3>1 DEF StallsBounded
  <2> QED
    BY <1>3, <2>3, <2>4
<1>4. CASE Crash
  <2>1. crashes' = crashes + 1 /\ \A j \in Slots : jobs'[j].stalls = jobs[j].stalls
    BY <1>0, <1>4 DEF Crash, JobType
  <2> QED
    BY <1>0, <2>1 DEF StallsBounded
<1> QED
  BY <1>1, <1>2, <1>3, <1>4, JobSteps

(* A job leaves the queue when its import is over, or it stalled too often. *)
LEMMA LiveStep ==
  ASSUME TypeOK, FilesKnown, StallsBounded, MaxCrashes <= MaxStalls, [Next]_vars,
         Live # {}, Live' = {}
  PROVE  \E k \in Slots : FinishJob(k) \/ RejectJob(k)
<1>0. /\ jobs \in [Slots -> JobType] /\ crashes \in Nat /\ crashes <= MaxCrashes
      /\ MaxCrashes \in Nat /\ MaxStalls \in Nat
      /\ \A j \in Slots : jobs[j] \in JobType /\ jobs[j].stalls \in Nat
  BY BoundsAssumption DEF TypeOK, JobType
<1>1. PICK j \in Slots : jobs[j].state # "none"
  BY DEF Live
<1>2. \A k \in Slots : jobs'[k].state = "none"
  BY DEF Live
<1>3. CASE jobs' = jobs /\ crashes' = crashes
  BY <1>1, <1>2, <1>3
<1>4. CASE (\E f \in 0..Files : Push(f)) /\ UNCHANGED <<crashes, wpc>>
  BY <1>2, <1>4, PushFresh
<1>5. ASSUME NEW k \in Slots, TakeJob(k) \/ Promote(k)
      PROVE  FALSE
  BY <1>0, <1>2, <1>5 DEF TakeJob, Promote, JobType
<1>6. CASE \E k \in Slots : FinishJob(k) \/ RejectJob(k)
  BY <1>6
<1>7. ASSUME NEW k \in Slots, Stalled(k)
      PROVE  FALSE
  <2>1. jobs[k].stalls < crashes
    BY <1>7 DEF Stalled, StallsBounded
  <2>2. jobs[k].stalls < MaxStalls
    BY <1>0, <2>1
  <2>3. jobs'[k].state = "waiting"
    BY <1>0, <1>7, <2>2 DEF Stalled, JobType
  <2> QED
    BY <1>2, <2>3
<1>8. CASE Crash
  BY <1>0, <1>1, <1>2, <1>8 DEF Crash, JobType
<1> QED
  BY <1>3, <1>4, <1>5, <1>6, <1>7, <1>8, JobSteps

(* Everybody but the worker leaves its loop, the count and the responses alone. *)
LEMMA AsideOrWork ==
  ASSUME [Next]_vars
  PROVE  \/ /\ UNCHANGED <<wpc, inserted, rowCount, responses>>
            /\ status' = "READY" => status = "READY"
         \/ Work
         \/ Crash
<1> USE DEF datasetVars, queueVars, workerVars, requestVars, reaperVars, SetStatus
<1>1. CASE \/ \E r \in Uploaders : BeginUpload(r)
           \/ \E r \in Reprocessors : BeginReprocess(r)
           \/ \E r \in Senders : Handle(r)
  BY <1>1 DEF BeginUpload, BeginReprocess, Handle, Store, MarkUploaded, MarkAgain, Enqueue,
     MarkFailed
<1>2. CASE \/ Archive \/ Compare \/ OnFailed \/ Bull \/ (\E f \in 1..Files : LateAdd(f))
           \/ Age \/ Reap \/ UNCHANGED vars
  BY <1>2 DEF Archive, Compare, OnFailed, Bull, Promote, Stalled, LateAdd, Age, Reap, ReapFind,
     ReapLive, ReapAdd, ReapTouch, ReapFail, vars
<1> QED
  BY <1>1, <1>2 DEF Next, Run

(* The job the worker runs stays active until the worker lets go of it. *)
LEMMA RunsOn ==
  ASSUME TypeOK, FilesKnown, [Next]_vars, NEW j \in Slots, Runs(j)
  PROVE  jobs'[j].state = "active" \/ wpc' = "idle"
<1>0. jobs \in [Slots -> JobType] /\ jobs[j].state = "active"
  BY DEF TypeOK, JobType, Runs
<1>1. CASE jobs' = jobs
  BY <1>0, <1>1
<1>2. CASE \E f \in 0..Files : Push(f)
  BY <1>0, <1>2 DEF Push, Free, Live
<1>3. ASSUME NEW k \in Slots, TakeJob(k) \/ Promote(k) \/ Stalled(k)
      PROVE  jobs'[j].state = "active"
  <2>1. k # j
    BY <1>0, <1>3 DEF TakeJob, Promote, Stalled
  <2> QED
    BY <1>0, <1>3, <2>1 DEF TakeJob, Promote, Stalled
<1>4. ASSUME NEW k \in Slots, FinishJob(k) \/ RejectJob(k)
      PROVE  wpc' = "idle"
  BY <1>4 DEF FinishJob, RejectJob
<1>5. CASE Crash
  BY <1>5 DEF Crash
<1> QED
  BY <1>1, <1>2, <1>3, <1>4, <1>5, JobSteps

(* A dataset READY without a job was so before, or its last job has just ended. *)
LEMMA ReadyStep ==
  ASSUME TypeOK, FilesKnown, StallsBounded, MaxCrashes <= MaxStalls, Replacing, [Next]_vars
  PROVE  ReadyHasResponses'
<1> SUFFICES ASSUME status' = "READY", Live' = {}
             PROVE  Answered'
  BY DEF ReadyHasResponses
<1>0. 1..files \subseteq 1..files'
  BY FilesGrow
<1>1. CASE Live # {}
  <2>1. PICK k \in Slots : FinishJob(k) \/ RejectJob(k)
    BY <1>1, LiveStep
  <2>2. UNCHANGED <<status, rowCount, responses, files>>
    BY <2>1 DEF FinishJob, RejectJob, datasetVars, requestVars
  <2>3. wpc = "finish"
    BY <2>1, <2>2 DEF FinishJob, RejectJob, Replacing
  <2> QED
    BY <2>2, <2>3 DEF Replacing, Answered
<1>2. CASE Live = {}
  <2>1. wpc = "idle"
    BY <1>2 DEF Replacing, Runs, Live
  <2>2. ~Work
    BY <1>2, <2>1 DEF Work, TakeJob, Download, InsertBatch, ClearResponses, CreateResponses,
       MarkReady, CreateVersion, SetVersion, FinishJob, FailImport, RejectJob, Live
  <2>3. UNCHANGED <<rowCount, responses>> /\ status = "READY"
    BY <2>2, AsideOrWork DEF Crash, datasetVars
  <2>4. Answered
    BY <1>2, <2>3 DEF Replacing, ReadyHasResponses
  <2> QED
    BY <1>0, <2>3, <2>4 DEF Answered
<1> QED
  BY <1>1, <1>2

(* What the worker counts and replaces when it reaches READY. *)
LEMMA ReplacingStep ==
  ASSUME TypeOK, FilesKnown, LoopInv, StallsBounded, MaxCrashes <= MaxStalls, Replacing,
         [Next]_vars
  PROVE  Replacing'
<1> USE DEF datasetVars, queueVars, workerVars, requestVars, reaperVars, SetStatus
<1>0. 1..files \subseteq 1..files'
  BY FilesGrow
<1>r. ReadyHasResponses'
  BY ReadyStep
<1>k. wpc # "idle" => (wpc' # "idle" => \E j \in Slots : Runs(j)')
  BY RunsOn DEF Replacing, Runs
<1>1. CASE /\ UNCHANGED <<wpc, inserted, rowCount, responses>>
           /\ status' = "READY" => status = "READY"
  BY <1>0, <1>1, <1>k, <1>r DEF Replacing, Answered
<1>2. CASE Crash
  BY <1>2, <1>r DEF Crash, Replacing
<1>3. ASSUME NEW j \in Slots, TakeJob(j)
      PROVE  Replacing'
  <2>1. Runs(j)' /\ wpc' = "download"
    BY <1>3 DEF TakeJob, Runs, TypeOK
  <2> QED
    BY <2>1, <1>r DEF Replacing
<1>4. ASSUME NEW j \in Slots, Download(j)
      PROVE  Replacing'
  <2>1. jobs[j].file \in 1..files' /\ inserted' = inserted /\ inserted = 0
    BY <1>0, <1>4 DEF Download, Runs, FilesKnown, LoopInv
  <2>2. wpc' = "ready" => FileRows[jobs[j].file] = 0
    BY <1>4 DEF Download
  <2>3. wpc' \in {"ready", "insert", "fail"} /\ wpc # "idle"
    BY <1>4 DEF Download
  <2> QED
    BY <1>k, <1>r, <2>1, <2>2, <2>3 DEF Replacing
<1>5. ASSUME NEW j \in Slots, InsertBatch(j)
      PROVE  Replacing'
  <2>1. jobs[j].file \in 1..files'
    BY <1>0, <1>5 DEF InsertBatch, Runs, FilesKnown
  <2>2. wpc' = "ready" => inserted' = FileRows[jobs[j].file] /\ jobs[j].file \notin Responding
    BY <1>5 DEF InsertBatch, AfterRows
  <2>3. wpc' \in {"clear", "ready", "insert"} /\ wpc # "idle"
    BY <1>5 DEF InsertBatch, AfterRows
  <2> QED
    BY <1>k, <1>r, <2>1, <2>2, <2>3 DEF Replacing
<1>6. CASE ClearResponses
  BY <1>6, <1>k, <1>r DEF ClearResponses, Replacing
<1>7. CASE CreateResponses
  <2>1. PICK f \in 1..files : inserted = FileRows[f]
    BY <1>7 DEF CreateResponses, LoopInv
  <2> QED
    BY <1>0, <1>7, <1>k, <1>r, <2>1 DEF CreateResponses, Replacing
<1>8. CASE MarkReady
  <2>1. Answered'
    BY <1>0, <1>8 DEF MarkReady, Replacing, Answered
  <2> QED
    BY <1>8, <1>k, <1>r, <2>1 DEF MarkReady, Replacing
<1>9. CASE CreateVersion \/ SetVersion \/ FailImport
  BY <1>9, <1>k, <1>r DEF CreateVersion, SetVersion, FailImport, Replacing, Answered
<1>10. ASSUME NEW j \in Slots, FinishJob(j) \/ RejectJob(j)
       PROVE  Replacing'
  BY <1>10, <1>r DEF FinishJob, RejectJob, Replacing
<1>11. CASE Work
  BY <1>11, <1>3, <1>4, <1>5, <1>6, <1>7, <1>8, <1>9, <1>10 DEF Work
<1> QED
  BY <1>1, <1>2, <1>11, AsideOrWork

(***************************************************************************)
(* Where Bull lets a job stall as often as the process restarts, a READY   *)
(* dataset whose responses are being replaced gets them back, through      *)
(* concurrent imports, failures and restarts: processRows' two calls do    *)
(* not leave it without them for good.                                     *)
(***************************************************************************)
THEOREM ReadyResponses ==
  ASSUME MaxCrashes <= MaxStalls
  PROVE  Spec => []ReadyHasResponses
<1> DEFINE RespInv == /\ FilesKnown /\ LoopInv /\ 1..rowCount \subseteq rows
                      /\ StallsBounded /\ Replacing
<1>1. Init => RespInv
  BY FilesAssumption DEF Init, FilesKnown, LoopInv, StallsBounded, Replacing,
     ReadyHasResponses, NoJob
<1>2. TypeOK /\ RespInv /\ [Next]_vars => RespInv'
  BY FilesKnownStep, LoopStep, StallsStep, ReplacingStep
<1>3. RespInv => ReadyHasResponses
  BY DEF Replacing
<1> QED
  BY <1>1, <1>2, <1>3, TypeCorrect, PTL DEF Spec
=============================================================================
