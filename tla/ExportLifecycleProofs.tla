------------------------- MODULE ExportLifecycleProofs -------------------------
(***************************************************************************)
(* Theorems about ExportLifecycle, for any exports, changes of the         *)
(* results, downloads, attempts, stalls, failing calls and restarts.       *)
(***************************************************************************)
EXTENDS ExportLifecycle, TLAPS

(***************************************************************************)
(* What the generation of an export knows: nothing can be downloaded while *)
(* the file is made, the file about to be announced is the one collected,  *)
(* and neither is older than what the record said before.  What a download *)
(* knows while it reads: the record it saw is no newer than the record     *)
(* now, and describes the file as long as that was left alone.             *)
(***************************************************************************)
Making(x) == step[x] \in {"collect", "upload", "write", "ready"}

Withdrawn == \A x \in Exports : Making(x) => ~Downloadable(x)

Collected ==
    \A x \in Exports :
        /\ step[x] = "ready" => stored[x] = collected[x]
        /\ step[x] = "write" => stored[x] = None
        /\ step[x] \in {"upload", "write", "ready"} => record[x].of <= collected[x]
        /\ stored[x] # None => record[x].of <= stored[x] /\ stored[x] <= edition
        /\ record[x].of <= edition /\ collected[x] <= edition

Described ==
    \A x \in Exports, d \in Downloads : download[x][d].pc = "read" =>
        /\ download[x][d].checked <= record[x].of
        /\ download[x][d].steady => stored[x] = download[x][d].checked

XInv == XTypeOK /\ ReadyIsWhole /\ Withdrawn /\ Collected /\ Described

-----------------------------------------------------------------------------
(* The type invariant of exports: one generation at a time, and a job is   *)
(* active exactly while its generation runs.                               *)
LEMMA TypeInit == ASSUME ExportAssumption PROVE XInit => XTypeOK
  BY DEF XInit, XTypeOK, XTyped, OneGeneration, ExportAssumption, ExportRecord, ExportJob,
         XStatus, XSteps, NoExportJob, None, NoDownload, Download

LEMMA RecordMoves ==
  ASSUME NEW d \in ExportRecord
  PROVE  /\ \A s \in XStatus : [d EXCEPT !.status = s] \in ExportRecord
         /\ \A n \in 0..Changes :
               [status |-> "READY", url |-> TRUE, of |-> n] \in ExportRecord
  BY DEF ExportRecord, XStatus

LEMMA JobMoves ==
  ASSUME ExportAssumption, NEW j \in ExportJob
  PROVE  /\ NoExportJob \in ExportJob
         /\ [j EXCEPT !.state = "waiting"] \in ExportJob
         /\ [j EXCEPT !.state = "active"] \in ExportJob
         /\ [j EXCEPT !.state = "stalled"] \in ExportJob
         /\ j.made + 1 < ExportTries =>
               [j EXCEPT !.state = "delayed", !.made = @ + 1] \in ExportJob
         /\ j.stalls < ExportStalls =>
               [j EXCEPT !.state = "waiting", !.stalls = @ + 1] \in ExportJob
<1>1. j.made \in 0..ExportTries /\ j.stalls \in 0..ExportStalls
  BY DEF ExportJob
<1>2. j.made + 1 < ExportTries => j.made + 1 \in 0..ExportTries
  BY <1>1 DEF ExportAssumption
<1>3. j.stalls < ExportStalls => j.stalls + 1 \in 0..ExportStalls
  BY <1>1 DEF ExportAssumption
<1>4. NoExportJob \in ExportJob
  BY DEF NoExportJob, ExportJob, ExportAssumption
<1> QED
  BY <1>2, <1>3, <1>4 DEF ExportJob

(* The states of the jobs, which is all OneGeneration speaks of. *)
LEMMA JobStates ==
  ASSUME NEW j \in ExportJob
  PROVE  /\ NoExportJob.state = "none"
         /\ [j EXCEPT !.state = "delayed", !.made = @ + 1].state = "delayed"
         /\ [j EXCEPT !.state = "waiting", !.stalls = @ + 1].state = "waiting"
         /\ \A s : [j EXCEPT !.state = s].state = s
  BY DEF NoExportJob, ExportJob

LEMMA DownloadMoves ==
  ASSUME ExportAssumption, NEW e \in Download
  PROVE  /\ NoDownload \in Download
         /\ [e EXCEPT !.steady = FALSE] \in Download
         /\ \A n \in 0..None : [e EXCEPT !.pc = "got", !.got = n] \in Download
         /\ \A n \in 0..Changes :
               [pc |-> "read", checked |-> n, steady |-> TRUE, got |-> None] \in Download
<1>1. None \in 0..None /\ 0 \in 0..Changes
  BY DEF None, ExportAssumption
<1> QED
  BY <1>1 DEF Download, NoDownload

(* One download is replaced, the others stay. *)
LEMMA PutDownload ==
  ASSUME XTyped, NEW x \in Exports, NEW d \in Downloads, NEW e \in Download,
         download' = [download EXCEPT ![x][d] = e]
  PROVE  /\ download' \in [Exports -> [Downloads -> Download]]
         /\ download'[x][d] = e
         /\ \A y \in Exports, c \in Downloads : <<y, c>> # <<x, d>> => download'[y][c] = download[y][c]
  BY DEF XTyped

(* A download that is let in, gets what it reads, or breaks off. *)
LEMMA DownloadStep ==
  ASSUME ExportAssumption, XTyped, NEW x \in Exports, NEW d \in Downloads,
         OpenRecord(x, d) \/ ReadFile(x, d)
  PROVE  \E e \in Download :
            /\ download' = [download EXCEPT ![x][d] = e]
            /\ \/ e = NoDownload
               \/ /\ Downloadable(x)
                  /\ e = [pc |-> "read", checked |-> record[x].of, steady |-> TRUE, got |-> None]
               \/ e.pc = "got"
<1>1. download[x][d] \in Download /\ record[x].of \in 0..Changes /\ stored[x] \in 0..None /\ None \in 0..None
  BY DEF XTyped, ExportRecord, None, ExportAssumption
<1>2. \A n \in 0..None : [download[x][d] EXCEPT !.pc = "got", !.got = n].pc = "got"
  BY <1>1 DEF Download
<1>3. CASE OpenRecord(x, d)
  BY <1>1, <1>3, DownloadMoves DEF OpenRecord
<1>4. CASE download' = [download EXCEPT ![x][d] = NoDownload]
  BY <1>1, <1>4, DownloadMoves
<1>5. ASSUME NEW n \in {stored[x], None},
             download' = [download EXCEPT ![x][d].pc = "got", ![x][d].got = n]
      PROVE  /\ [download[x][d] EXCEPT !.pc = "got", !.got = n] \in Download
             /\ download' = [download EXCEPT ![x][d] = [download[x][d] EXCEPT !.pc = "got", !.got = n]]
  BY <1>1, <1>5, DownloadMoves DEF XTyped
<1> QED
  BY <1>2, <1>1, <1>3, <1>4, <1>5 DEF ReadFile

LEMMA FaultCounted ==
  ASSUME ExportAssumption, failed \in 0..ExportFaults, Fails \/ UNCHANGED failed
  PROVE  failed' \in 0..ExportFaults
  BY DEF Fails, ExportAssumption

(* The generation of x goes on, with its job active as before. *)
LEMMA GoesOn ==
  ASSUME XTyped, OneGeneration, NEW x \in Exports, UNCHANGED <<xjobs, request>>, step[x] # "idle",
         NEW s \in XSteps \ {"idle"}, step' = [step EXCEPT ![x] = s]
  PROVE  OneGeneration'
<1>1. step \in [Exports -> XSteps]
  BY DEF XTyped
<1>2. \A y \in Exports : step'[y] # "idle" <=> step[y] # "idle"
  BY <1>1
<1> QED
  BY <1>2 DEF OneGeneration

LEMMA TypeStep ==
  ASSUME ExportAssumption, XTypeOK, [XNext]_exportVars
  PROVE  XTypeOK'
<1>1. XTyped /\ OneGeneration
  BY DEF XTypeOK
<1>2. CASE ChangeResults
  BY <1>1, <1>2 DEF ChangeResults, XTypeOK, XTyped, OneGeneration, ExportAssumption
<1>3. CASE UNCHANGED exportVars
  BY <1>1, <1>3 DEF exportVars, XTypeOK, XTyped, OneGeneration
<1>4. CASE RestartExports
  <2>1. xjobs' \in [Exports -> ExportJob]
    BY <1>1, <1>4, JobMoves DEF RestartExports, XTyped
  <2>2. XTyped'
    BY <1>1, <1>4, <2>1 DEF RestartExports, XTyped, XSteps, ExportAssumption, NoDownload, Download, None
  <2>3. OneGeneration'
    BY <1>1, <1>4, JobStates DEF RestartExports, OneGeneration, XTyped
  <2> QED
    BY <2>2, <2>3 DEF XTypeOK
<1>5. ASSUME NEW x \in Exports, RequestExport(x) PROVE XTypeOK'
  <2>1. request' \in [Exports -> {"idle", "add", "answered"}]
    BY <1>1, <1>5 DEF RequestExport, XTyped
  <2>2. record' \in [Exports -> ExportRecord]
    BY <1>1, <1>5, RecordMoves DEF RequestExport, XTyped, XStatus
  <2>3. XTyped'
    BY <1>1, <1>5, <2>1, <2>2 DEF RequestExport, XTyped
  <2>4. OneGeneration'
    BY <1>1, <1>5, JobStates DEF RequestExport, OneGeneration, XTyped, XSteps
  <2> QED
    BY <2>3, <2>4 DEF XTypeOK
<1>6. ASSUME NEW x \in Exports, AddExport(x) PROVE XTypeOK'
  <2>1. failed' \in 0..ExportFaults
    BY <1>1, <1>6, FaultCounted DEF AddExport, XTyped
  <2>2. request' \in [Exports -> {"idle", "add", "answered"}]
    BY <1>1, <1>6 DEF AddExport, XTyped
  <2>3. xjobs' \in [Exports -> ExportJob]
    <3>1. xjobs' = [xjobs EXCEPT ![x].state = "waiting"] \/ xjobs' = xjobs
      BY <1>6 DEF AddExport
    <3>2. xjobs[x] \in ExportJob
      BY <1>1 DEF XTyped
    <3>3. /\ NoExportJob \in ExportJob
          /\ [xjobs[x] EXCEPT !.state = "waiting"] \in ExportJob
          /\ xjobs[x].made + 1 < ExportTries =>
                [xjobs[x] EXCEPT !.state = "delayed", !.made = @ + 1] \in ExportJob
          /\ xjobs[x].stalls < ExportStalls =>
                [xjobs[x] EXCEPT !.state = "waiting", !.stalls = @ + 1] \in ExportJob
      BY <3>2, JobMoves
    <3> QED
      BY <1>1, <3>1, <3>3 DEF XTyped
  <2>4. XTyped'
    BY <1>1, <1>6, <2>1, <2>2, <2>3 DEF AddExport, XTyped
  <2>5. OneGeneration'
    <3>1. xjobs' = [xjobs EXCEPT ![x].state = "waiting"] \/ xjobs' = xjobs
      BY <1>6 DEF AddExport
    <3>2. step' = step /\ request[x] = "add" /\ request' = [request EXCEPT ![x] = "answered"]
      BY <1>6 DEF AddExport
    <3>3. [xjobs[x] EXCEPT !.state = "waiting"].state = "waiting" /\ xjobs[x].state = "none"
      BY <1>1, <3>2, JobStates DEF XTyped, OneGeneration
    <3>4. \A y \in Exports : \/ xjobs'[y].state = xjobs[y].state
                             \/ y = x /\ xjobs'[y].state = "waiting"
      BY <1>1, <3>1, <3>3 DEF XTyped
    <3>5. request'[x] = "answered" /\ \A y \in Exports \ {x} : request'[y] = request[y]
      BY <1>1, <3>2 DEF XTyped
    <3> QED
      BY <1>1, <3>2, <3>3, <3>4, <3>5 DEF OneGeneration
  <2> QED
    BY <2>4, <2>5 DEF XTypeOK
<1>7. ASSUME NEW x \in Exports, TakeExport(x) PROVE XTypeOK'
  <2>1. step' \in [Exports -> XSteps]
    BY <1>1, <1>7 DEF TakeExport, Goes, XTyped, XSteps
  <2>2. xjobs' \in [Exports -> ExportJob]
    BY <1>1, <1>7, JobMoves DEF TakeExport, XTyped
  <2>3. XTyped'
    BY <1>1, <1>7, <2>1, <2>2 DEF TakeExport, XTyped
  <2>4. OneGeneration'
    BY <1>1, <1>7, JobStates DEF TakeExport, Goes, Busy, OneGeneration, XTyped, XSteps
  <2> QED
    BY <2>3, <2>4 DEF XTypeOK
<1>8. ASSUME NEW x \in Exports, MarkExporting(x) PROVE XTypeOK'
  <2>1. failed' \in 0..ExportFaults
    BY <1>1, <1>8, FaultCounted DEF MarkExporting, XTyped
  <2>2. step' \in [Exports -> XSteps]
    BY <1>1, <1>8 DEF MarkExporting, Goes, XTyped, XSteps
  <2>3. record' \in [Exports -> ExportRecord]
    <3>1. record' = [record EXCEPT ![x].status = "PROCESSING"] \/ record' = record
      BY <1>8 DEF MarkExporting
    <3>2. record[x] \in ExportRecord /\ collected[x] \in 0..Changes
      BY <1>1 DEF XTyped
    <3>3. /\ [record[x] EXCEPT !.status = "PROCESSING"] \in ExportRecord
          /\ [record[x] EXCEPT !.status = "FAILED"] \in ExportRecord
          /\ [status |-> "READY", url |-> TRUE, of |-> collected[x]] \in ExportRecord
      BY <3>2, RecordMoves DEF XStatus
    <3> QED
      BY <1>1, <3>1, <3>3 DEF XTyped
  <2>4. XTyped'
    BY <1>1, <1>8, <2>1, <2>2, <2>3 DEF MarkExporting, XTyped
  <2>5. OneGeneration'
    <3>1. UNCHANGED <<xjobs, request>> /\ step[x] # "idle"
      BY <1>8 DEF MarkExporting
    <3>2. \E s \in {"collect", "rejected"} : step' = [step EXCEPT ![x] = s]
      BY <1>8 DEF MarkExporting, Goes
    <3>3. {"collect", "rejected"} \in SUBSET (XSteps \ {"idle"})
      BY DEF XSteps
    <3> QED
      BY <1>1, <3>1, <3>2, <3>3, GoesOn
  <2> QED
    BY <2>4, <2>5 DEF XTypeOK
<1>9. ASSUME NEW x \in Exports, CollectRows(x) PROVE XTypeOK'
  <2>1. failed' \in 0..ExportFaults
    BY <1>1, <1>9, FaultCounted DEF CollectRows, XTyped
  <2>2. step' \in [Exports -> XSteps]
    BY <1>1, <1>9 DEF CollectRows, Goes, XTyped, XSteps
  <2>3. collected' \in [Exports -> 0..Changes]
    BY <1>1, <1>9 DEF CollectRows, XTyped, ExportAssumption
  <2>4. XTyped'
    BY <1>1, <1>9, <2>1, <2>2, <2>3 DEF CollectRows, XTyped
  <2>5. OneGeneration'
    <3>1. UNCHANGED <<xjobs, request>> /\ step[x] # "idle"
      BY <1>9 DEF CollectRows
    <3>2. \E s \in {"upload", "catch"} : step' = [step EXCEPT ![x] = s]
      BY <1>9 DEF CollectRows, Goes
    <3>3. {"upload", "catch"} \in SUBSET (XSteps \ {"idle"})
      BY DEF XSteps
    <3> QED
      BY <1>1, <3>1, <3>2, <3>3, GoesOn
  <2> QED
    BY <2>4, <2>5 DEF XTypeOK
<1>10. ASSUME NEW x \in Exports, UploadFile(x) PROVE XTypeOK'
  <2>1. failed' \in 0..ExportFaults
    BY <1>1, <1>10, FaultCounted DEF UploadFile, XTyped
  <2>2. step' \in [Exports -> XSteps]
    BY <1>1, <1>10 DEF UploadFile, Goes, XTyped, XSteps
  <2>3. stored' \in [Exports -> 0..None]
    <3>1. collected[x] \in 0..None /\ None \in 0..None
      BY <1>1 DEF XTyped, None, ExportAssumption
    <3> QED
      BY <1>1, <1>10, <3>1 DEF UploadFile, XTyped
  <2>4. download' \in [Exports -> [Downloads -> Download]]
    <3>1. \A d \in Downloads : [download[x][d] EXCEPT !.steady = FALSE] \in Download
      BY <1>1, DownloadMoves DEF XTyped
    <3>2. Disturb(x) \/ UNCHANGED download
      BY <1>10 DEF UploadFile
    <3>3. download \in [Exports -> [Downloads -> Download]]
      BY <1>1 DEF XTyped
    <3>4. [d \in Downloads |-> [download[x][d] EXCEPT !.steady = FALSE]] \in [Downloads -> Download]
      BY <3>1
    <3> QED
      BY <3>2, <3>3, <3>4 DEF Disturb
  <2>5. XTyped'
    BY <1>1, <1>10, <2>1, <2>2, <2>3, <2>4 DEF UploadFile, XTyped
  <2>6. OneGeneration'
    <3>1. UNCHANGED <<xjobs, request>> /\ step[x] # "idle"
      BY <1>10 DEF UploadFile
    <3>2. \E s \in {"ready", "write", "catch"} : step' = [step EXCEPT ![x] = s]
      BY <1>10 DEF UploadFile, Goes
    <3>3. {"ready", "write", "catch"} \in SUBSET (XSteps \ {"idle"})
      BY DEF XSteps
    <3> QED
      BY <1>1, <3>1, <3>2, <3>3, GoesOn
  <2> QED
    BY <2>5, <2>6 DEF XTypeOK
<1>15. ASSUME NEW x \in Exports, WriteFile(x) PROVE XTypeOK'
  <2>1. failed' \in 0..ExportFaults
    BY <1>1, <1>15, FaultCounted DEF WriteFile, XTyped
  <2>2. step' \in [Exports -> XSteps]
    BY <1>1, <1>15 DEF WriteFile, Goes, XTyped, XSteps
  <2>3. stored' \in [Exports -> 0..None]
    BY <1>1, <1>15 DEF WriteFile, XTyped, None, ExportAssumption
  <2>4. XTyped'
    BY <1>1, <1>15, <2>1, <2>2, <2>3 DEF WriteFile, XTyped
  <2>5. OneGeneration'
    <3>1. UNCHANGED <<xjobs, request>> /\ step[x] # "idle"
      BY <1>15 DEF WriteFile
    <3>2. \E s \in {"ready", "catch"} : step' = [step EXCEPT ![x] = s]
      BY <1>15 DEF WriteFile, Goes
    <3>3. {"ready", "catch"} \in SUBSET (XSteps \ {"idle"})
      BY DEF XSteps
    <3> QED
      BY <1>1, <3>1, <3>2, <3>3, GoesOn
  <2> QED
    BY <2>4, <2>5 DEF XTypeOK
<1>16. ASSUME NEW x \in Exports, NEW d \in Downloads, OpenRecord(x, d) \/ ReadFile(x, d)
       PROVE  XTypeOK'
  <2>1. download' \in [Exports -> [Downloads -> Download]]
    BY <1>1, <1>16, DownloadStep, PutDownload
  <2>2. UNCHANGED <<edition, record, stored, xjobs, request, step, collected, failed, restarts>>
    BY <1>16 DEF OpenRecord, ReadFile
  <2> QED
    BY <1>1, <2>1, <2>2 DEF XTypeOK, XTyped, OneGeneration
<1>11. ASSUME NEW x \in Exports, MarkExportReady(x) PROVE XTypeOK'
  <2>1. failed' \in 0..ExportFaults
    BY <1>1, <1>11, FaultCounted DEF MarkExportReady, XTyped
  <2>2. step' \in [Exports -> XSteps]
    BY <1>1, <1>11 DEF MarkExportReady, Goes, XTyped, XSteps
  <2>3. record' \in [Exports -> ExportRecord]
    <3>1. \/ record' = [record EXCEPT ![x] =
                         [status |-> "READY", url |-> TRUE, of |-> collected[x]]]
          \/ record' = record
      BY <1>11 DEF MarkExportReady
    <3>2. record[x] \in ExportRecord /\ collected[x] \in 0..Changes
      BY <1>1 DEF XTyped
    <3>3. /\ [record[x] EXCEPT !.status = "PROCESSING"] \in ExportRecord
          /\ [record[x] EXCEPT !.status = "FAILED"] \in ExportRecord
          /\ [status |-> "READY", url |-> TRUE, of |-> collected[x]] \in ExportRecord
      BY <3>2, RecordMoves DEF XStatus
    <3> QED
      BY <1>1, <3>1, <3>3 DEF XTyped
  <2>4. XTyped'
    BY <1>1, <1>11, <2>1, <2>2, <2>3 DEF MarkExportReady, XTyped
  <2>5. OneGeneration'
    <3>1. UNCHANGED <<xjobs, request>> /\ step[x] # "idle"
      BY <1>11 DEF MarkExportReady
    <3>2. \E s \in {"resolved", "catch"} : step' = [step EXCEPT ![x] = s]
      BY <1>11 DEF MarkExportReady, Goes
    <3>3. {"resolved", "catch"} \in SUBSET (XSteps \ {"idle"})
      BY DEF XSteps
    <3> QED
      BY <1>1, <3>1, <3>2, <3>3, GoesOn
  <2> QED
    BY <2>4, <2>5 DEF XTypeOK
<1>12. ASSUME NEW x \in Exports, MarkExportFailed(x) PROVE XTypeOK'
  <2>1. failed' \in 0..ExportFaults
    BY <1>1, <1>12, FaultCounted DEF MarkExportFailed, XTyped
  <2>2. step' \in [Exports -> XSteps]
    BY <1>1, <1>12 DEF MarkExportFailed, Goes, XTyped, XSteps
  <2>3. record' \in [Exports -> ExportRecord]
    <3>1. record' = [record EXCEPT ![x].status = "FAILED"] \/ record' = record
      BY <1>12 DEF MarkExportFailed
    <3>2. record[x] \in ExportRecord /\ collected[x] \in 0..Changes
      BY <1>1 DEF XTyped
    <3>3. /\ [record[x] EXCEPT !.status = "PROCESSING"] \in ExportRecord
          /\ [record[x] EXCEPT !.status = "FAILED"] \in ExportRecord
          /\ [status |-> "READY", url |-> TRUE, of |-> collected[x]] \in ExportRecord
      BY <3>2, RecordMoves DEF XStatus
    <3> QED
      BY <1>1, <3>1, <3>3 DEF XTyped
  <2>4. XTyped'
    BY <1>1, <1>12, <2>1, <2>2, <2>3 DEF MarkExportFailed, XTyped
  <2>5. OneGeneration'
    <3>1. UNCHANGED <<xjobs, request>> /\ step[x] # "idle"
      BY <1>12 DEF MarkExportFailed
    <3>2. \E s \in {"rejected"} : step' = [step EXCEPT ![x] = s]
      BY <1>12 DEF MarkExportFailed, Goes
    <3>3. {"rejected"} \in SUBSET (XSteps \ {"idle"})
      BY DEF XSteps
    <3> QED
      BY <1>1, <3>1, <3>2, <3>3, GoesOn
  <2> QED
    BY <2>4, <2>5 DEF XTypeOK
<1>13. ASSUME NEW x \in Exports, EndExport(x) PROVE XTypeOK'
  <2>1. step' \in [Exports -> XSteps]
    BY <1>1, <1>13 DEF EndExport, Goes, XTyped, XSteps
  <2>2. xjobs' \in [Exports -> ExportJob]
    <3>1. \/ /\ xjobs[x].made + 1 < ExportTries
             /\ xjobs' = [xjobs EXCEPT ![x] = [xjobs[x] EXCEPT !.state = "delayed", !.made = @ + 1]]
          \/ xjobs' = [xjobs EXCEPT ![x] = NoExportJob]
      <4>1. CASE step[x] = "rejected" /\ xjobs[x].made + 1 < ExportTries
        BY <1>1, <1>13, <4>1 DEF EndExport, XTyped, ExportJob
      <4>2. CASE ~(step[x] = "rejected" /\ xjobs[x].made + 1 < ExportTries)
        BY <1>13, <4>2 DEF EndExport
      <4> QED
        BY <4>1, <4>2
    <3>2. xjobs[x] \in ExportJob
      BY <1>1 DEF XTyped
    <3>3. /\ NoExportJob \in ExportJob
          /\ [xjobs[x] EXCEPT !.state = "waiting"] \in ExportJob
          /\ xjobs[x].made + 1 < ExportTries =>
                [xjobs[x] EXCEPT !.state = "delayed", !.made = @ + 1] \in ExportJob
          /\ xjobs[x].stalls < ExportStalls =>
                [xjobs[x] EXCEPT !.state = "waiting", !.stalls = @ + 1] \in ExportJob
      BY <3>2, JobMoves
    <3> QED
      BY <1>1, <3>1, <3>3 DEF XTyped
  <2>3. collected' \in [Exports -> 0..Changes]
    BY <1>1, <1>13 DEF EndExport, XTyped, ExportAssumption
  <2>4. XTyped'
    BY <1>1, <1>13, <2>1, <2>2, <2>3 DEF EndExport, XTyped
  <2>5. OneGeneration'
    BY <1>1, <1>13, JobStates DEF EndExport, Goes, OneGeneration, XTyped, XSteps
  <2> QED
    BY <2>4, <2>5 DEF XTypeOK
<1>14. ASSUME NEW x \in Exports, ResumeExport(x) PROVE XTypeOK'
  <2>1. xjobs' \in [Exports -> ExportJob]
    <3>1. \/ xjobs' = [xjobs EXCEPT ![x] = [xjobs[x] EXCEPT !.state = "waiting"]]
          \/ /\ xjobs[x].stalls < ExportStalls
             /\ xjobs' = [xjobs EXCEPT ![x] = [xjobs[x] EXCEPT !.state = "waiting", !.stalls = @ + 1]]
          \/ xjobs' = [xjobs EXCEPT ![x] = NoExportJob]
      <4>1. CASE xjobs[x].state = "delayed"
        BY <1>14, <4>1 DEF ResumeExport
      <4>2. CASE xjobs[x].state # "delayed" /\ xjobs[x].stalls < ExportStalls
        BY <1>1, <1>14, <4>2 DEF ResumeExport, XTyped, ExportJob
      <4>3. CASE xjobs[x].state # "delayed" /\ ~(xjobs[x].stalls < ExportStalls)
        BY <1>14, <4>3 DEF ResumeExport
      <4> QED
        BY <4>1, <4>2, <4>3
    <3>2. xjobs[x] \in ExportJob
      BY <1>1 DEF XTyped
    <3>3. /\ NoExportJob \in ExportJob
          /\ [xjobs[x] EXCEPT !.state = "waiting"] \in ExportJob
          /\ xjobs[x].made + 1 < ExportTries =>
                [xjobs[x] EXCEPT !.state = "delayed", !.made = @ + 1] \in ExportJob
          /\ xjobs[x].stalls < ExportStalls =>
                [xjobs[x] EXCEPT !.state = "waiting", !.stalls = @ + 1] \in ExportJob
      BY <3>2, JobMoves
    <3> QED
      BY <1>1, <3>1, <3>3 DEF XTyped
  <2>2. XTyped'
    BY <1>1, <1>14, <2>1 DEF ResumeExport, XTyped
  <2>3. OneGeneration'
    BY <1>1, <1>14, JobStates DEF ResumeExport, OneGeneration, XTyped, XSteps
  <2> QED
    BY <2>2, <2>3 DEF XTypeOK
<1> QED
  BY <1>2, <1>3, <1>4, <1>5, <1>6, <1>7, <1>8, <1>9, <1>10, <1>11, <1>12, <1>13, <1>14,
     <1>15, <1>16
     DEF XNext, Generation

(* Type correctness of the exports. *)
THEOREM ExportTypes == ASSUME ExportAssumption PROVE XSpec => []XTypeOK
  BY TypeInit, TypeStep, PTL DEF XSpec

-----------------------------------------------------------------------------
LEMMA ExportInit == ASSUME ExportAssumption PROVE XInit => XInv
  BY TypeInit DEF XInit, XInv, ReadyIsWhole, Downloadable, Withdrawn, Making, Collected, Described,
                  NoDownload

(* The steps that leave the record, the file and the collected rows alone. *)
LEMMA QuietStep ==
  ASSUME XInv, UNCHANGED <<record, stored, collected, download>>,
         edition' \in Nat, edition <= edition',
         \A x \in Exports : step'[x] # step[x] => step'[x] \notin {"collect", "upload", "write", "ready"}
  PROVE  (ReadyIsWhole /\ Withdrawn /\ Collected /\ Described)'
<1>1. ReadyIsWhole'
  BY DEF XInv, ReadyIsWhole, Downloadable
<1>2. Withdrawn'
  BY DEF XInv, Withdrawn, Making, Downloadable
<1>3. Collected'
  <2> SUFFICES ASSUME NEW x \in Exports
               PROVE  /\ step'[x] = "ready" => stored[x] = collected[x]
                      /\ step'[x] = "write" => stored[x] = None
                      /\ step'[x] \in {"upload", "write", "ready"} => record[x].of <= collected[x]
                      /\ stored[x] # None => record[x].of <= stored[x] /\ stored[x] <= edition'
                      /\ record[x].of <= edition' /\ collected[x] <= edition'
    BY DEF Collected, None
  <2>1. record[x].of \in Nat /\ collected[x] \in Nat /\ edition \in Nat /\ stored[x] \in Nat
    BY DEF XInv, XTypeOK, XTyped, ExportRecord
  <2>2. /\ step[x] = "ready" => stored[x] = collected[x]
        /\ step[x] = "write" => stored[x] = None
        /\ step[x] \in {"upload", "write", "ready"} => record[x].of <= collected[x]
        /\ stored[x] # None => record[x].of <= stored[x] /\ stored[x] <= edition
        /\ record[x].of <= edition /\ collected[x] <= edition
    BY DEF XInv, Collected
  <2> QED
    BY <2>1, <2>2
<1>4. Described'
  BY DEF XInv, Described
<1> QED
  BY <1>1, <1>2, <1>3, <1>4

(* The file of x is replaced: whoever reads it is disturbed. *)
LEMMA UploadKeeps ==
  ASSUME ExportAssumption, XInv, XTypeOK', NEW x \in Exports, UploadFile(x)
  PROVE  XInv'
<1>1. XTypeOK
  BY DEF XInv
<1>2. step[x] = "upload" /\ UNCHANGED <<edition, record, collected>>
  BY DEF UploadFile
<1>3. \/ /\ stored' = [stored EXCEPT ![x] = collected[x]]
         /\ step' = [step EXCEPT ![x] = "ready"] /\ Disturb(x)
      \/ /\ stored' = [stored EXCEPT ![x] = None]
         /\ step' = [step EXCEPT ![x] = "write"] /\ Disturb(x)
      \/ step' = [step EXCEPT ![x] = "catch"] /\ UNCHANGED <<stored, download>>
  BY DEF UploadFile, Goes
<1>4. ReadyIsWhole' /\ Withdrawn'
  BY <1>1, <1>2, <1>3
     DEF XInv, XTypeOK, XTyped, ReadyIsWhole, Downloadable, Withdrawn, Making
<1>5. Collected'
  BY <1>1, <1>2, <1>3 DEF XInv, XTypeOK, XTyped, ExportRecord, Collected, None
<1>6. Described'
  <2> SUFFICES ASSUME NEW y \in Exports, NEW d \in Downloads, download'[y][d].pc = "read"
               PROVE  /\ download'[y][d].checked <= record[y].of
                      /\ download'[y][d].steady => stored'[y] = download'[y][d].checked
    BY <1>2 DEF Described
  <2>1. download[y][d] \in Download
    BY <1>1 DEF XTypeOK, XTyped
  <2>2. \/ download'[y][d] = download[y][d] /\ stored'[y] = stored[y]
        \/ download'[y][d] = [download[y][d] EXCEPT !.steady = FALSE]
    <3>1. CASE UNCHANGED <<stored, download>>
      BY <3>1
    <3>2. CASE Disturb(x) /\ \E n : stored' = [stored EXCEPT ![x] = n]
      <4>1. download' = [download EXCEPT ![x] =
                           [c \in Downloads |-> [download[x][c] EXCEPT !.steady = FALSE]]]
        BY <3>2 DEF Disturb
      <4>2. download \in [Exports -> [Downloads -> Download]] /\ stored \in [Exports -> 0..None]
        BY <1>1 DEF XTypeOK, XTyped
      <4>3. CASE y = x
        BY <4>1, <4>2, <4>3
      <4>4. CASE y # x
        BY <3>2, <4>1, <4>2, <4>4
      <4> QED
        BY <4>3, <4>4
    <3> QED
      BY <1>3, <3>1, <3>2
  <2>3. CASE download'[y][d] = download[y][d] /\ stored'[y] = stored[y]
    BY <2>3 DEF XInv, Described
  <2>4. CASE download'[y][d] = [download[y][d] EXCEPT !.steady = FALSE]
    <3>1. /\ download'[y][d].pc = download[y][d].pc /\ ~download'[y][d].steady
          /\ download'[y][d].checked = download[y][d].checked
      BY <2>1, <2>4 DEF Download
    <3> QED
      BY <3>1 DEF XInv, Described
  <2> QED
    BY <2>2, <2>3, <2>4
<1> QED
  BY <1>4, <1>5, <1>6 DEF XInv

(* Nobody who reads takes the file that is being written for an old one. *)
LEMMA WriteKeeps ==
  ASSUME ExportAssumption, XInv, XTypeOK', NEW x \in Exports, WriteFile(x)
  PROVE  XInv'
<1>1. XTypeOK
  BY DEF XInv
<1>2. step[x] = "write" /\ UNCHANGED <<edition, record, collected, download>>
  BY DEF WriteFile
<1>3. \/ /\ stored' = [stored EXCEPT ![x] = collected[x]]
         /\ step' = [step EXCEPT ![x] = "ready"]
      \/ step' = [step EXCEPT ![x] = "catch"] /\ UNCHANGED stored
  BY DEF WriteFile, Goes
<1>4. ReadyIsWhole' /\ Withdrawn'
  BY <1>1, <1>2, <1>3
     DEF XInv, XTypeOK, XTyped, ReadyIsWhole, Downloadable, Withdrawn, Making
<1>5. Collected'
  BY <1>1, <1>2, <1>3 DEF XInv, XTypeOK, XTyped, ExportRecord, Collected, None
<1>6. Described'
  <2>1. stored[x] = None /\ Changes \in Nat
    BY <1>2 DEF XInv, Collected, ExportAssumption
  <2>2. \A d \in Downloads : download[x][d].checked # None
    BY <1>1, <2>1 DEF XTypeOK, XTyped, Download, None
  <2>3. \A y \in Exports \ {x} : stored'[y] = stored[y]
    BY <1>1, <1>3 DEF XTypeOK, XTyped
  <2> QED
    BY <1>2, <2>1, <2>2, <2>3 DEF XInv, Described
<1> QED
  BY <1>4, <1>5, <1>6 DEF XInv

(* A download sees the record and its file together only at its start. *)
LEMMA DownloadKeeps ==
  ASSUME ExportAssumption, XInv, XTypeOK', NEW x \in Exports, NEW d \in Downloads,
         OpenRecord(x, d) \/ ReadFile(x, d)
  PROVE  XInv'
<1>1. UNCHANGED <<edition, record, stored, step, collected>>
  BY DEF OpenRecord, ReadFile
<1>2. ReadyIsWhole' /\ Withdrawn' /\ Collected'
  BY <1>1 DEF XInv, ReadyIsWhole, Downloadable, Withdrawn, Making, Collected
<1>3. PICK e \in Download :
        /\ download' = [download EXCEPT ![x][d] = e]
        /\ \/ e = NoDownload
           \/ /\ Downloadable(x)
              /\ e = [pc |-> "read", checked |-> record[x].of, steady |-> TRUE, got |-> None]
           \/ e.pc = "got"
  BY DownloadStep DEF XInv, XTypeOK
<1>4. /\ download'[x][d] = e
      /\ \A y \in Exports, c \in Downloads : <<y, c>> # <<x, d>> => download'[y][c] = download[y][c]
  <2>1. XTyped
    BY DEF XInv, XTypeOK
  <2>2. download' = [download EXCEPT ![x][d] = e]
    BY <1>3
  <2>3. /\ download' \in [Exports -> [Downloads -> Download]]
        /\ download'[x][d] = e
        /\ \A y \in Exports, c \in Downloads : <<y, c>> # <<x, d>> => download'[y][c] = download[y][c]
    BY <2>1, <2>2, PutDownload
  <2> QED
    BY <2>3
<1>5. e.pc = "read" => e.checked <= record[x].of /\ (e.steady => stored[x] = e.checked)
  <2>1. record[x].of \in Nat
    BY DEF XInv, XTypeOK, XTyped, ExportRecord
  <2>2. Downloadable(x) => stored[x] = record[x].of
    BY DEF XInv, ReadyIsWhole
  <2> QED
    BY <1>3, <2>1, <2>2 DEF NoDownload
<1>6. Described'
  BY <1>1, <1>4, <1>5 DEF XInv, Described
<1> QED
  BY <1>2, <1>6 DEF XInv

(* A status that takes the export away, before or after its generation. *)
LEMMA MarkKeeps ==
  ASSUME ExportAssumption, XInv, XTypeOK', NEW x \in Exports, UNCHANGED <<stored, collected, download, edition>>,
         \/ /\ record' = [record EXCEPT ![x].status = "PROCESSING"]
            /\ step' = [step EXCEPT ![x] = "collect"]
         \/ /\ record' = [record EXCEPT ![x].status = "FAILED"] \/ record' = record
            /\ step' = [step EXCEPT ![x] = "rejected"]
  PROVE  XInv'
<1>1. record \in [Exports -> ExportRecord] /\ step \in [Exports -> XSteps]
  BY DEF XInv, XTypeOK, XTyped
<1>2. \A y \in Exports : /\ record'[y].of = record[y].of /\ record'[y].url = record[y].url
                         /\ record'[y].status = "READY" => record[y] = record'[y]
  BY <1>1 DEF ExportRecord
<1>3. \A y \in Exports :
         \/ step'[y] = step[y]
         \/ y = x /\ step'[y] = "rejected"
         \/ y = x /\ step'[y] = "collect" /\ record'[y].status = "PROCESSING"
  BY <1>1 DEF ExportRecord
<1>4. ReadyIsWhole'
  BY <1>2 DEF XInv, ReadyIsWhole, Downloadable
<1>5. Withdrawn'
  BY <1>2, <1>3 DEF XInv, Withdrawn, Making, Downloadable
<1>6. Collected'
  BY <1>2, <1>3 DEF XInv, Collected, None
<1>7. Described'
  BY <1>2 DEF XInv, Described
<1> QED
  BY <1>4, <1>5, <1>6, <1>7 DEF XInv

LEMMA ExportStep ==
  ASSUME ExportAssumption, XInv, [XNext]_exportVars
  PROVE  XInv'
<1>1. XTypeOK' /\ XTypeOK
  BY TypeStep DEF XInv
<1>2. CASE ChangeResults
  BY <1>1, <1>2, QuietStep DEF ChangeResults, XTypeOK, XTyped, ExportRecord, XInv
<1>3. CASE RestartExports
  <2>1. ReadyIsWhole' /\ Withdrawn'
    BY <1>3 DEF RestartExports, XInv, ReadyIsWhole, Downloadable, Withdrawn, Making
  <2>2. Collected'
    BY <1>1, <1>3 DEF RestartExports, XInv, XTypeOK, XTyped, ExportRecord, Collected, None
  <2>3. Described'
    BY <1>3 DEF RestartExports, Described, NoDownload
  <2> QED
    BY <1>1, <2>1, <2>2, <2>3 DEF XInv
<1>4. ASSUME NEW x \in Exports, RequestExport(x) PROVE XInv'
  <2>1. ReadyIsWhole' /\ Withdrawn'
    BY <1>1, <1>4
       DEF RequestExport, Goes, XInv, XTypeOK, XTyped, ExportRecord, ReadyIsWhole, Downloadable, Withdrawn,
           Making
  <2>2. Collected'
    BY <1>1, <1>4 DEF RequestExport, Goes, XInv, XTypeOK, XTyped, ExportRecord, Collected
  <2>3. Described'
    BY <1>1, <1>4 DEF RequestExport, XInv, XTypeOK, XTyped, ExportRecord, Described
  <2> QED
    BY <1>1, <2>1, <2>2, <2>3 DEF XInv
<1>5. ASSUME NEW x \in Exports, AddExport(x) \/ ResumeExport(x) \/ TakeExport(x) PROVE XInv'
  <2>1. UNCHANGED <<record, stored, collected, download, edition>>
    BY <1>5 DEF AddExport, ResumeExport, TakeExport
  <2>2. \A y \in Exports : step'[y] # step[y] => step'[y] = "start"
    BY <1>1, <1>5 DEF AddExport, ResumeExport, TakeExport, Goes, XTypeOK, XTyped, ExportRecord
  <2> QED
    BY <1>1, <2>1, <2>2, QuietStep DEF XTypeOK, XTyped, ExportRecord, XInv
<1>6. ASSUME NEW x \in Exports, MarkExporting(x) PROVE XInv'
  <2>1. UNCHANGED <<stored, collected, download, edition>>
    BY <1>6 DEF MarkExporting
  <2>2. \/ /\ record' = [record EXCEPT ![x].status = "PROCESSING"]
           /\ step' = [step EXCEPT ![x] = "collect"]
        \/ record' = record /\ step' = [step EXCEPT ![x] = "rejected"]
    BY <1>6 DEF MarkExporting, Goes
  <2> QED
    BY <1>1, <2>1, <2>2, MarkKeeps
<1>7. ASSUME NEW x \in Exports, CollectRows(x) PROVE XInv'
  <2>1. UNCHANGED <<record, stored, download, edition>> /\ step[x] = "collect"
    BY <1>7 DEF CollectRows
  <2>2. \/ collected' = [collected EXCEPT ![x] = edition] /\ step' = [step EXCEPT ![x] = "upload"]
        \/ collected' = collected /\ step' = [step EXCEPT ![x] = "catch"]
    BY <1>7 DEF CollectRows, Goes
  <2>3. ReadyIsWhole' /\ Withdrawn'
    BY <1>1, <2>1, <2>2 DEF XInv, XTypeOK, XTyped, ReadyIsWhole, Downloadable, Withdrawn, Making
  <2>4. Collected'
    <3>1. edition \in Nat /\ step \in [Exports -> XSteps] /\ collected \in [Exports -> 0..Changes]
      BY <1>1 DEF XTypeOK, XTyped
    <3>2. \A y \in Exports : \/ step'[y] = step[y] /\ collected'[y] = collected[y]
                             \/ step'[y] = "catch" /\ collected'[y] = collected[y]
                             \/ step'[y] = "upload" /\ collected'[y] = edition
      BY <2>2, <3>1
    <3> QED
      BY <2>1, <3>1, <3>2 DEF XInv, Collected, None
  <2>5. Described'
    BY <2>1 DEF XInv, Described
  <2> QED
    BY <1>1, <2>3, <2>4, <2>5 DEF XInv
<1>8. ASSUME NEW x \in Exports, UploadFile(x) PROVE XInv'
  BY <1>1, <1>8, UploadKeeps
<1>9. ASSUME NEW x \in Exports, MarkExportReady(x) PROVE XInv'
  <2>1. ReadyIsWhole' /\ Withdrawn'
    BY <1>1, <1>9
       DEF MarkExportReady, Goes, XInv, XTypeOK, XTyped, ExportRecord, ReadyIsWhole, Downloadable, Withdrawn,
           Making, Collected
  <2>2. Collected'
    BY <1>1, <1>9 DEF MarkExportReady, Goes, XInv, XTypeOK, XTyped, ExportRecord, Collected
  <2>3. Described'
    <3>1. UNCHANGED <<stored, download>> /\ step[x] = "ready"
      BY <1>9 DEF MarkExportReady
    <3>2. \A y \in Exports : record'[y].of = record[y].of \/ (y = x /\ record'[y].of = collected[x])
      <4>1. \/ record' = record
            \/ record' = [record EXCEPT ![x] = [status |-> "READY", url |-> TRUE, of |-> collected[x]]]
        BY <1>9 DEF MarkExportReady
      <4>2. record \in [Exports -> ExportRecord]
        BY <1>1 DEF XTypeOK, XTyped
      <4>3. [status |-> "READY", url |-> TRUE, of |-> collected[x]].of = collected[x]
        OBVIOUS
      <4>4. CASE record' = record
        BY <4>4
      <4>5. CASE record' = [record EXCEPT ![x] = [status |-> "READY", url |-> TRUE, of |-> collected[x]]]
        BY <4>2, <4>3, <4>5
      <4> QED
        BY <4>1, <4>4, <4>5
    <3>3. /\ \A y \in Exports : record[y].of \in Nat /\ collected[y] \in Nat
          /\ \A y \in Exports, d \in Downloads : download[y][d].checked \in Nat
      BY <1>1 DEF XTypeOK, XTyped, ExportRecord, Download
    <3>4. record[x].of <= collected[x]
      BY <3>1 DEF XInv, Collected
    <3>5. \A y \in Exports : record[y].of <= record'[y].of /\ record'[y].of \in Nat
      BY <3>2, <3>3, <3>4
    <3> QED
      BY <3>1, <3>3, <3>5 DEF XInv, Described
  <2> QED
    BY <1>1, <2>1, <2>2, <2>3 DEF XInv
<1>10. ASSUME NEW x \in Exports, MarkExportFailed(x) PROVE XInv'
  <2>1. UNCHANGED <<stored, collected, download, edition>>
    BY <1>10 DEF MarkExportFailed
  <2>2. /\ record' = [record EXCEPT ![x].status = "FAILED"] \/ record' = record
        /\ step' = [step EXCEPT ![x] = "rejected"]
    BY <1>10 DEF MarkExportFailed, Goes
  <2> QED
    BY <1>1, <2>1, <2>2, MarkKeeps
<1>11. ASSUME NEW x \in Exports, EndExport(x) PROVE XInv'
  <2>1. ReadyIsWhole' /\ Withdrawn'
    BY <1>1, <1>11
       DEF EndExport, Goes, XInv, XTypeOK, XTyped, ExportRecord, ReadyIsWhole, Downloadable, Withdrawn,
           Making
  <2>2. Collected'
    BY <1>1, <1>11 DEF EndExport, Goes, XInv, XTypeOK, XTyped, ExportRecord, Collected
  <2>3. Described'
    BY <1>1, <1>11 DEF EndExport, XInv, XTypeOK, XTyped, ExportRecord, Described
  <2> QED
    BY <1>1, <2>1, <2>2, <2>3 DEF XInv
<1>12. CASE UNCHANGED exportVars
  BY <1>1, <1>12, QuietStep DEF exportVars, XTypeOK, XTyped, ExportRecord, XInv
<1>13. ASSUME NEW x \in Exports, WriteFile(x) PROVE XInv'
  BY <1>1, <1>13, WriteKeeps
<1>14. ASSUME NEW x \in Exports, NEW d \in Downloads, OpenRecord(x, d) \/ ReadFile(x, d)
       PROVE  XInv'
  BY <1>1, <1>14, DownloadKeeps
<1> QED
  BY <1>2, <1>3, <1>4, <1>5, <1>6, <1>7, <1>8, <1>9, <1>10, <1>11, <1>12, <1>13, <1>14
     DEF XNext, Generation

(* The inductive invariant of the exports. *)
THEOREM ExportInvariance == ASSUME ExportAssumption PROVE XSpec => []XInv
  BY ExportInit, ExportStep, PTL DEF XSpec

(* The rowCount of a READY export is that of its file, which is whole. *)
THEOREM WholeWhenReady == ASSUME ExportAssumption PROVE XSpec => []ReadyIsWhole
  BY ExportInvariance, PTL DEF XInv

-----------------------------------------------------------------------------
Offered == [x \in Exports |-> IF Downloadable(x) THEN stored[x] ELSE None]
OfRecord == [x \in Exports |-> record[x].of]
offerVars == <<edition, Offered, OfRecord, download>>

(* Only the announcement of x can make another file available. *)
LEMMA AnnouncePublishes ==
  ASSUME XInv, NEW x \in Exports, MarkExportReady(x), record' # record
  PROVE  Offer!Publish(x)
<1> DEFINE n == collected[x]
<1>1. record' = [record EXCEPT ![x] = [status |-> "READY", url |-> TRUE, of |-> n]]
  BY DEF MarkExportReady
<1>2. UNCHANGED <<stored, edition, download>> /\ step[x] = "ready"
  BY DEF MarkExportReady
<1>3. stored[x] = n /\ n \in record[x].of..edition
  BY <1>2 DEF XInv, XTypeOK, XTyped, ExportRecord, Collected
<1>4. Offered' = [Offered EXCEPT ![x] = n]
  BY <1>1, <1>2, <1>3 DEF XInv, XTypeOK, XTyped, ExportRecord, Offered, Downloadable, None
<1>5. OfRecord' = [OfRecord EXCEPT ![x] = n]
  BY <1>1 DEF XInv, XTypeOK, XTyped, ExportRecord, OfRecord
<1>6. OfRecord[x] = record[x].of
  BY DEF OfRecord
<1> QED
  BY <1>2, <1>3, <1>4, <1>5, <1>6 DEF Offer!Publish, Offered, OfRecord

(* The other steps that write the record of x take its file away. *)
LEMMA OthersWithdraw ==
  ASSUME XInv, NEW x \in Exports, UNCHANGED <<edition, stored, download>>,
         \A y \in Exports \ {x} : record'[y] = record[y],
         record'[x].of = record[x].of,
         ~Downloadable(x)' \/ record'[x] = record[x]
  PROVE  Offer!Withdraw(x) \/ UNCHANGED offerVars
<1>1. OfRecord' = OfRecord
  BY DEF OfRecord
<1>2. CASE ~Downloadable(x)'
  <2>1. Offered' = [Offered EXCEPT ![x] = None]
    BY <1>2 DEF Offered, Downloadable, None
  <2> QED
    BY <1>1, <2>1 DEF Offer!Withdraw, Offer!None, Offered, OfRecord, None
<1>3. CASE record'[x] = record[x]
  BY <1>1, <1>3 DEF Offered, Downloadable, None, offerVars
<1> QED
  BY <1>2, <1>3

(* The file of x changes only while nothing is offered. *)
LEMMA FileMadeAgain ==
  ASSUME XInv, NEW x \in Exports, UploadFile(x) \/ WriteFile(x)
  PROVE  Offer!MakeAgain(x) \/ UNCHANGED offerVars
<1>1. ~Downloadable(x) /\ UNCHANGED <<edition, record>>
  BY DEF UploadFile, WriteFile, XInv, Withdrawn, Making
<1>2. \A y \in Exports \ {x} : stored'[y] = stored[y]
  BY DEF UploadFile, WriteFile, XInv, XTypeOK, XTyped
<1>3. Offered' = Offered /\ OfRecord' = OfRecord
  BY <1>1, <1>2 DEF Offered, OfRecord, Downloadable, None
<1>4. Disturb(x) \/ UNCHANGED download
  BY DEF UploadFile, WriteFile
<1>5. Offered[x] = None
  BY <1>1 DEF Offered
<1> QED
  BY <1>1, <1>3, <1>4, <1>5 DEF Offer!MakeAgain, Offer!None, Disturb, Offered, OfRecord, None, offerVars

(* A download is let in to the file the record describes. *)
LEMMA OpenLetsIn ==
  ASSUME ExportAssumption, XInv, NEW x \in Exports, NEW d \in Downloads, OpenRecord(x, d)
  PROVE  Offer!LetIn(x, d)
<1>1. Downloadable(x) /\ UNCHANGED <<edition, record, stored>>
  BY DEF OpenRecord
<1>2. Offered[x] = record[x].of /\ record[x].of # None
  BY <1>1 DEF XInv, ReadyIsWhole, Offered, XTypeOK, XTyped, ExportRecord, None, ExportAssumption
<1>3. Offered' = Offered /\ OfRecord' = OfRecord
  BY <1>1 DEF Offered, OfRecord, Downloadable
<1>4. download' = [download EXCEPT ![x][d] =
                     [pc |-> "read", checked |-> Offered[x], steady |-> TRUE, got |-> None]]
  BY <1>2 DEF OpenRecord
<1> QED
  BY <1>1, <1>2, <1>3, <1>4 DEF Offer!LetIn, Offer!None, Offered, OfRecord, None

(* What a download gets is no older than the record it saw, or not whole. *)
LEMMA ReadDelivers ==
  ASSUME ExportAssumption, XInv, NEW x \in Exports, NEW d \in Downloads, ReadFile(x, d)
  PROVE  Offer!Deliver(x, d) \/ Offer!BreakOff
<1>1. download[x][d].pc = "read" /\ UNCHANGED <<edition, record, stored>>
  BY DEF ReadFile
<1>2. Offered' = Offered /\ OfRecord' = OfRecord
  BY <1>1 DEF Offered, OfRecord, Downloadable
<1>3. ASSUME NEW n \in {stored[x], None}, download[x][d].steady => n = stored[x],
             download' = [download EXCEPT ![x][d].pc = "got", ![x][d].got = n]
      PROVE  Offer!Deliver(x, d)
  <2> DEFINE c == download[x][d].checked
  <2>1. c \in Nat /\ record[x].of \in Nat /\ stored[x] \in Nat /\ edition \in Nat
    BY DEF XInv, XTypeOK, XTyped, Download, ExportRecord
  <2>2. c <= record[x].of /\ (download[x][d].steady => stored[x] = c)
    BY <1>1 DEF XInv, Described
  <2>3. stored[x] # None => record[x].of <= stored[x] /\ stored[x] <= edition
    BY DEF XInv, Collected
  <2>4. n \in c..edition \cup {None}
    BY <1>3, <2>1, <2>2, <2>3
  <2>5. download[x][d].steady => n = c
    BY <1>3, <2>2
  <2> QED
    BY <1>1, <1>2, <1>3, <2>4, <2>5 DEF Offer!Deliver, Offer!None, Offered, OfRecord, None
<1>4. CASE download' = [download EXCEPT ![x][d] = NoDownload]
  <2>1. download' = [y \in Exports |-> [e \in Downloads |->
                       IF <<y, e>> \in {<<x, d>>} THEN NoDownload ELSE download[y][e]]]
    BY <1>4 DEF XInv, XTypeOK, XTyped
  <2>2. {<<x, d>>} \in SUBSET (Exports \X Downloads)
    OBVIOUS
  <2> QED
    BY <1>1, <1>2, <2>1, <2>2
       DEF Offer!BreakOff, Offer!NoDownload, Offer!None, NoDownload, None, Offered, OfRecord
<1> QED
  BY <1>3, <1>4 DEF ReadFile

(* The steps of the code, seen by the requester, are those of ExportOffer. *)
THEOREM ImplementsOffer == ASSUME ExportAssumption PROVE XSpec => OfferSpec
<1>1. XInit => Offer!EInit
  BY DEF XInit, Offer!EInit, Offer!None, Offer!NoDownload, NoDownload, Downloadable, None
<1>2. XInv /\ [XNext]_exportVars => [Offer!ENext]_offerVars
  <2> SUFFICES ASSUME ExportAssumption, XInv, [XNext]_exportVars
               PROVE  Offer!ENext \/ UNCHANGED offerVars
    OBVIOUS
  <2> USE DEF XInv
  <2>1. CASE ChangeResults
    BY <2>1 DEF ChangeResults, Offer!ENext, Offer!Change, Downloadable
  <2>2. CASE RestartExports
    <3>1. download' = [x \in Exports |-> [d \in Downloads |->
                         IF <<x, d>> \in Exports \X Downloads THEN NoDownload ELSE download[x][d]]]
      BY <2>2 DEF RestartExports
    <3>2. UNCHANGED <<edition, record, stored>>
      BY <2>2 DEF RestartExports
    <3> QED
      BY <3>1, <3>2 DEF Offer!ENext, Offer!BreakOff, Offer!NoDownload, Offer!None, NoDownload, None, Downloadable
  <2>3. ASSUME NEW x \in Exports,
               RequestExport(x) \/ MarkExporting(x) \/ MarkExportFailed(x)
        PROVE  Offer!ENext \/ UNCHANGED offerVars
    <3>1. UNCHANGED <<edition, stored, download>>
      BY <2>3 DEF RequestExport, MarkExporting, MarkExportFailed
    <3>2. \/ record' = record
          \/ \E s \in {"PENDING", "PROCESSING", "FAILED"} : record' = [record EXCEPT ![x].status = s]
      BY <2>3 DEF RequestExport, MarkExporting, MarkExportFailed
    <3>3. /\ \A y \in Exports \ {x} : record'[y] = record[y]
          /\ record'[x].of = record[x].of
          /\ ~Downloadable(x)' \/ record'[x] = record[x]
      BY <3>2 DEF XTypeOK, XTyped, ExportRecord, Downloadable
    <3> QED
      BY <3>1, <3>3, OthersWithdraw DEF Offer!ENext
  <2>4. ASSUME NEW x \in Exports, UploadFile(x) \/ WriteFile(x)
        PROVE  Offer!ENext \/ UNCHANGED offerVars
    BY <2>4, FileMadeAgain DEF Offer!ENext
  <2>5. ASSUME NEW x \in Exports, MarkExportReady(x)
        PROVE  Offer!ENext \/ UNCHANGED offerVars
    <3>1. CASE record' = record
      BY <2>5, <3>1 DEF MarkExportReady, Offered, OfRecord, Downloadable, offerVars
    <3>2. CASE record' # record
      BY <2>5, <3>2, AnnouncePublishes DEF Offer!ENext
    <3> QED
      BY <3>1, <3>2
  <2>6. ASSUME NEW x \in Exports, NEW d \in Downloads, OpenRecord(x, d) \/ ReadFile(x, d)
        PROVE  Offer!ENext
    BY <2>6, OpenLetsIn, ReadDelivers DEF Offer!ENext
  <2>7. ASSUME NEW x \in Exports,
               AddExport(x) \/ TakeExport(x) \/ CollectRows(x) \/ EndExport(x) \/ ResumeExport(x)
        PROVE  UNCHANGED offerVars
    BY <2>7 DEF AddExport, TakeExport, CollectRows, EndExport, ResumeExport,
                Offered, OfRecord, Downloadable, offerVars
  <2>8. CASE UNCHANGED exportVars
    BY <2>8 DEF exportVars, Offered, OfRecord, Downloadable, offerVars
  <2> QED
    BY <2>1, <2>2, <2>3, <2>4, <2>5, <2>6, <2>7, <2>8 DEF XNext, Generation
<1>3. [Offer!ENext]_offerVars =>
        [Offer!ENext]_<<edition, [x \in Exports |-> IF Downloadable(x) THEN stored[x] ELSE None],
                        [x \in Exports |-> record[x].of], download>>
  BY DEF Offered, OfRecord, offerVars
<1> QED
  BY <1>1, <1>2, <1>3, ExportInvariance, PTL DEF XSpec, OfferSpec, Offer!ESpec
=============================================================================
