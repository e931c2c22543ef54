---------------------------- MODULE ExportLifecycle ----------------------------
(***************************************************************************)
(* The exports of one task: the request that records and queues one, the   *)
(* worker that collects the results, stores the file and moves the record, *)
(* the downloads, Bull's attempts, and restarts of the process that hosts  *)
(* it all.  Nothing looks for exports whose job was lost.                  *)
(*                                                                         *)
(* The n-th edition is what the query of the export returns after n        *)
(* changes: submissions, completed evaluations that are reopened, results  *)
(* that leave the date range.  A file is known by the edition in it.       *)
(***************************************************************************)
EXTENDS Naturals, FiniteSets

CONSTANTS Exports,      (* the exports requested, each once                  *)
          Changes,      (* bound on the changes of the task's results        *)
          Downloads,    (* places for downloads of each export               *)
          ExportTries,  (* attempts given to exportQueue.add                 *)
          ExportStalls, (* Bull's maxStalledCount                            *)
          ExportFaults, (* bound on calls that fail                          *)
          Restarts      (* bound on restarts of the process                  *)

ASSUME ExportAssumption ==
    /\ Changes \in Nat /\ ExportTries \in Nat \ {0} /\ ExportStalls \in Nat
    /\ ExportFaults \in Nat /\ Restarts \in Nat

VARIABLES
    edition,    (* changes of the results so far                             *)
    record,     (* record[x]: status, fileUrl set, and the edition rowCount  *)
                (* and fileSize are of                                       *)
    stored,     (* stored[x]: the edition in the file under x's key          *)
    xjobs,      (* the export-generation queue: state, attempts, stalls      *)
    request,    (* what the request for x awaits next                        *)
    step,       (* step[x]: what generateExport of x awaits next             *)
    collected,  (* the edition of its rows                                   *)
    download,   (* download[x][d]: what getExportFile of x awaits, the       *)
                (* edition the record had, whether the file was left alone   *)
                (* since, and the edition got                                *)
    failed,     (* calls that failed so far                                  *)
    restarts    (* restarts so far                                           *)

exportVars ==
    <<edition, record, stored, xjobs, request, step, collected, download, failed, restarts>>

(* No whole file: none at all, or a part of one. *)
None == Changes + 1

XStatus == {"NONE", "PENDING", "PROCESSING", "READY", "FAILED"}
XSteps == {"idle", "start", "collect", "upload", "write", "ready", "catch",
           "rejected", "resolved"}

Busy == \E x \in Exports : step[x] # "idle"

ExportRecord == [status : XStatus, url : BOOLEAN, of : 0..Changes]
ExportJob == [state : {"none", "waiting", "delayed", "active", "stalled"},
              made : 0..ExportTries, stalls : 0..ExportStalls]
Download == [pc : {"idle", "read", "got"}, checked : 0..Changes, steady : BOOLEAN, got : 0..None]

XTyped ==
    /\ edition \in 0..Changes
    /\ record \in [Exports -> ExportRecord]
    /\ stored \in [Exports -> 0..None]
    /\ xjobs \in [Exports -> ExportJob]
    /\ request \in [Exports -> {"idle", "add", "answered"}]
    /\ step \in [Exports -> XSteps]
    /\ collected \in [Exports -> 0..Changes]
    /\ download \in [Exports -> [Downloads -> Download]]
    /\ failed \in 0..ExportFaults /\ restarts \in 0..Restarts

(* A request queues one job, which is active while its generation runs, one at a time. *)
OneGeneration ==
    /\ \A x \in Exports : request[x] # "answered" => xjobs[x].state = "none"
    /\ \A x \in Exports : step[x] # "idle" <=> xjobs[x].state = "active"
    /\ \A x, y \in Exports : step[x] # "idle" /\ step[y] # "idle" => x = y

XTypeOK == XTyped /\ OneGeneration

NoExportJob == [state |-> "none", made |-> 0, stalls |-> 0]
NoDownload == [pc |-> "idle", checked |-> 0, steady |-> TRUE, got |-> None]

XInit ==
    /\ edition = 0
    /\ record = [x \in Exports |-> [status |-> "NONE", url |-> FALSE, of |-> 0]]
    /\ stored = [x \in Exports |-> None]
    /\ xjobs = [x \in Exports |-> NoExportJob]
    /\ request = [x \in Exports |-> "idle"]
    /\ step = [x \in Exports |-> "idle"]
    /\ collected = [x \in Exports |-> 0]
    /\ download = [x \in Exports |-> [d \in Downloads |-> NoDownload]]
    /\ failed = 0 /\ restarts = 0

Fails == failed < ExportFaults /\ failed' = failed + 1

Goes(x, s) == step' = [step EXCEPT ![x] = s]

ChangeResults ==
    /\ edition < Changes
    /\ edition' = edition + 1
    /\ UNCHANGED <<record, stored, xjobs, request, step, collected, download, failed, restarts>>

(* requestExport: the record first, then the job. *)
RequestExport(x) ==
    /\ request[x] = "idle"
    /\ request' = [request EXCEPT ![x] = "add"]
    /\ record' = [record EXCEPT ![x].status = "PENDING"]
    /\ UNCHANGED <<edition, stored, xjobs, step, collected, download, failed, restarts>>

(* An add that fails is only logged: the caller gets the PENDING record. *)
AddExport(x) ==
    /\ request[x] = "add"
    /\ request' = [request EXCEPT ![x] = "answered"]
    /\ \/ xjobs' = [xjobs EXCEPT ![x].state = "waiting"] /\ UNCHANGED failed
       \/ Fails /\ UNCHANGED xjobs
    /\ UNCHANGED <<edition, record, stored, step, collected, download, restarts>>

-----------------------------------------------------------------------------
(* ExportGenerationWorker and generateExport, one export at a time.        *)

TakeExport(x) ==
    /\ ~Busy /\ xjobs[x].state = "waiting"
    /\ xjobs' = [xjobs EXCEPT ![x].state = "active"]
    /\ Goes(x, "start")
    /\ UNCHANGED <<edition, record, stored, request, collected, download, failed, restarts>>

(* Faulty variant: an export that is made again stays READY meanwhile. *)
MarkExportingUnlessReady(x) ==
    /\ step[x] = "start"
    /\ record' = IF record[x].status = "READY" THEN record
                 ELSE [record EXCEPT ![x].status = "PROCESSING"]
    /\ Goes(x, "collect")
    /\ UNCHANGED <<edition, stored, xjobs, request, collected, download, failed, restarts>>

(* setStatus PROCESSING stands before the try: if it throws, nothing marks FAILED. *)
MarkExporting(x) ==
    /\ step[x] = "start"
    /\ \/ /\ record' = [record EXCEPT ![x].status = "PROCESSING"]
          /\ Goes(x, "collect")
          /\ UNCHANGED failed
       \/ Fails /\ Goes(x, "rejected") /\ UNCHANGED record
    /\ UNCHANGED <<edition, stored, xjobs, request, collected, download, restarts>>

CollectRows(x) ==
    /\ step[x] = "collect"
    /\ \/ /\ collected' = [collected EXCEPT ![x] = edition]
          /\ Goes(x, "upload")
          /\ UNCHANGED failed
       \/ Fails /\ Goes(x, "catch") /\ UNCHANGED collected
    /\ UNCHANGED <<edition, record, stored, xjobs, request, download, restarts>>

(* The file of x changes under the downloads that are reading it. *)
Disturb(x) ==
    download' = [download EXCEPT ![x] =
                   [d \in Downloads |-> [download[x][d] EXCEPT !.steady = FALSE]]]

(* The key is the export's own: a later attempt overwrites the file.  The  *)
(* bucket takes a file as a whole, the local disk empties it first.        *)
UploadFile(x) ==
    /\ step[x] = "upload"
    /\ \/ /\ \/ stored' = [stored EXCEPT ![x] = collected[x]] /\ Goes(x, "ready")
             \/ stored' = [stored EXCEPT ![x] = None] /\ Goes(x, "write")
          /\ Disturb(x)
          /\ UNCHANGED failed
       \/ Fails /\ Goes(x, "catch") /\ UNCHANGED <<stored, download>>
    /\ UNCHANGED <<edition, record, xjobs, request, collected, restarts>>

WriteFile(x) ==
    /\ step[x] = "write"
    /\ \/ /\ stored' = [stored EXCEPT ![x] = collected[x]]
          /\ Goes(x, "ready")
          /\ UNCHANGED failed
       \/ Fails /\ Goes(x, "catch") /\ UNCHANGED stored
    /\ UNCHANGED <<edition, record, xjobs, request, collected, download, restarts>>

MarkExportReady(x) ==
    /\ step[x] = "ready"
    /\ \/ /\ record' = [record EXCEPT ![x] =
                          [status |-> "READY", url |-> TRUE, of |-> collected[x]]]
          /\ Goes(x, "resolved")
          /\ UNCHANGED failed
       \/ Fails /\ Goes(x, "catch") /\ UNCHANGED record
    /\ UNCHANGED <<edition, stored, xjobs, request, collected, download, restarts>>

(* The catch marks the export FAILED on every attempt and rethrows. *)
MarkExportFailed(x) ==
    /\ step[x] = "catch"
    /\ Goes(x, "rejected")
    /\ \/ record' = [record EXCEPT ![x].status = "FAILED"] /\ UNCHANGED failed
       \/ Fails /\ UNCHANGED record
    /\ UNCHANGED <<edition, stored, xjobs, request, collected, download, restarts>>

(* Faulty variant: one attempt too few. *)
EndExportEarly(x) ==
    /\ step[x] \in {"resolved", "rejected"}
    /\ xjobs' = [xjobs EXCEPT ![x] =
                   IF step[x] = "rejected" /\ @.made + 2 < ExportTries
                   THEN [@ EXCEPT !.state = "delayed", !.made = xjobs[x].made + 1]
                   ELSE NoExportJob]
    /\ Goes(x, "idle")
    /\ collected' = [collected EXCEPT ![x] = 0]
    /\ UNCHANGED <<edition, record, stored, request, download, failed, restarts>>

(* Bull drops a resolved job, and a rejected one that is out of attempts. *)
EndExport(x) ==
    /\ step[x] \in {"resolved", "rejected"}
    /\ xjobs' = [xjobs EXCEPT ![x] =
                   IF step[x] = "rejected" /\ @.made + 1 < ExportTries
                   THEN [@ EXCEPT !.state = "delayed", !.made = xjobs[x].made + 1]
                   ELSE NoExportJob]
    /\ Goes(x, "idle")
    /\ collected' = [collected EXCEPT ![x] = 0]
    /\ UNCHANGED <<edition, record, stored, request, download, failed, restarts>>

(* A back-off that is over, and a job whose process died, wait again. *)
ResumeExport(x) ==
    /\ xjobs' = [xjobs EXCEPT ![x] =
                   IF @.state = "delayed" THEN [@ EXCEPT !.state = "waiting"]
                   ELSE IF @.stalls < ExportStalls
                        THEN [@ EXCEPT !.state = "waiting", !.stalls = xjobs[x].stalls + 1]
                        ELSE NoExportJob]
    /\ xjobs[x].state \in {"delayed", "stalled"}
    /\ UNCHANGED <<edition, record, stored, request, step, collected, download, failed, restarts>>

(* Faulty variant: a job is given back while its generation goes on. *)
RestartExportsNot ==
    /\ restarts < Restarts
    /\ restarts' = restarts + 1
    /\ xjobs' = [x \in Exports |->
                   IF xjobs[x].state = "active" THEN [xjobs[x] EXCEPT !.state = "stalled"]
                   ELSE xjobs[x]]
    /\ UNCHANGED <<edition, record, stored, request, step, collected, download, failed>>

(* A request whose add is under way is lost with the process. *)
RestartExports ==
    /\ restarts < Restarts
    /\ restarts' = restarts + 1
    /\ xjobs' = [x \in Exports |->
                   IF xjobs[x].state = "active" THEN [xjobs[x] EXCEPT !.state = "stalled"]
                   ELSE xjobs[x]]
    /\ request' = [x \in Exports |-> IF request[x] = "add" THEN "answered" ELSE request[x]]
    /\ step' = [x \in Exports |-> "idle"]
    /\ collected' = [x \in Exports |-> 0]
    /\ download' = [x \in Exports |-> [d \in Downloads |-> NoDownload]]
    /\ UNCHANGED <<edition, record, stored, failed>>

-----------------------------------------------------------------------------
(* getExportFile: the record, then the file under its key.                 *)

Downloadable(x) == record[x].status = "READY" /\ record[x].url

OpenRecord(x, d) ==
    /\ Downloadable(x)
    /\ download' = [download EXCEPT ![x][d] =
                      [pc |-> "read", checked |-> record[x].of, steady |-> TRUE, got |-> None]]
    /\ UNCHANGED <<edition, record, stored, xjobs, request, step, collected, failed, restarts>>

(* The file of this moment, parts of two when it changes meanwhile, or a 500. *)
ReadFile(x, d) ==
    /\ download[x][d].pc = "read"
    /\ \/ \E n \in {stored[x], None} :
             /\ download[x][d].steady => n = stored[x]
             /\ download' = [download EXCEPT ![x][d].pc = "got", ![x][d].got = n]
       \/ download' = [download EXCEPT ![x][d] = NoDownload]
    /\ UNCHANGED <<edition, record, stored, xjobs, request, step, collected, failed, restarts>>

-----------------------------------------------------------------------------
Generation(x) ==
    \/ TakeExport(x) \/ MarkExporting(x) \/ CollectRows(x) \/ UploadFile(x)
    \/ WriteFile(x) \/ MarkExportReady(x) \/ MarkExportFailed(x) \/ EndExport(x)

XNext ==
    \/ ChangeResults \/ RestartExports
    \/ \E x \in Exports :
          \/ RequestExport(x) \/ AddExport(x) \/ Generation(x) \/ ResumeExport(x)
          \/ \E d \in Downloads : OpenRecord(x, d) \/ ReadFile(x, d)

XSpec == XInit /\ [][XNext]_exportVars

(***************************************************************************)
(* Bull hands out every waiting job in turn (SF: another export may be in  *)
(* the worker) and the worker goes on; nobody has to request or download.  *)
(***************************************************************************)
XFairness ==
    \A x \in Exports :
        /\ WF_exportVars(AddExport(x)) /\ WF_exportVars(ResumeExport(x))
        /\ WF_exportVars(Generation(x)) /\ SF_exportVars(TakeExport(x))

XFairSpec == XSpec /\ XFairness

-----------------------------------------------------------------------------
(* Properties.                                                             *)

(***************************************************************************)
(* The requester gets what ExportOffer promises, through retries that      *)
(* overwrite the file, a disk that empties it first, failed writes of the  *)
(* record and restarts: a download of the file the record described, or,   *)
(* when the file was made again after the record was read, of a newer one  *)
(* or of none that is whole.                                               *)
(***************************************************************************)
Offer == INSTANCE ExportOffer WITH
            offered <- [x \in Exports |-> IF Downloadable(x) THEN stored[x] ELSE None],
            described <- [x \in Exports |-> record[x].of]

OfferSpec == Offer!ESpec

(* The rowCount of a READY export is that of its file, which is whole; OfferSpec implies it. *)
ReadyIsWhole == \A x \in Exports : Downloadable(x) => stored[x] = record[x].of

(***************************************************************************)
(* Three attempts outlast two failing calls, and one restart is one stall: *)
(* an export whose job reached the queue becomes READY, and stays so.      *)
(***************************************************************************)
QueuedGetsReady ==
    \A x \in Exports : xjobs[x].state = "waiting" ~> [](record[x].status = "READY")

(***************************************************************************)
(* "User can retry or it will be picked up when Redis recovers": a PENDING *)
(* export does not stay PENDING once calls have stopped failing.           *)
(***************************************************************************)
PendingPickedUp ==
    \A x \in Exports : record[x].status = "PENDING" ~> record[x].status # "PENDING"
=============================================================================
