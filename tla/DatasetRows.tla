------------------------------ MODULE DatasetRows ------------------------------
(***************************************************************************)
(* What the rows of a dataset say.  Imports insert the rows of a file in   *)
(* batches and skip the indexes that are taken, createPrompt appends a row *)
(* after the last one it saw, and clone copies the rows page by page.      *)
(* How an import is queued, retried and reaped is DatasetImport's subject: *)
(* here an import that fails is only taken up again, or not.               *)
(***************************************************************************)
EXTENDS Integers, FiniteSets

CONSTANTS Lengths,      (* Lengths[f]: rows of the f-th file uploaded        *)
          Prompters,    (* createPrompt requests, each once                  *)
          Cloners,      (* clone requests, each once                         *)
          BatchSize,    (* BATCH_SIZE of the import and of the clone         *)
          MaxIndexes,   (* bound on row indexes                              *)
          Nothing       (* no row                                            *)

Uploads == DOMAIN Lengths
Indexes == 0..(MaxIndexes - 1)

ASSUME RowsAssumption ==
    /\ MaxIndexes \in Nat /\ BatchSize \in Nat \ {0}
    /\ \A f \in Uploads : Lengths[f] \in 1..MaxIndexes
    /\ Nothing \notin Uploads /\ Nothing \notin Prompters

VARIABLES
    content,   (* content[i]: the file or request that wrote row i, Nothing  *)
    stated,    (* dataset.rowCount                                           *)
    phase,     (* dataset.status, as far as uploads look at it               *)
    latest,    (* the file uploaded last, 0 before the first                 *)
    pending,   (* files whose import job waits or is retried                 *)
    import,    (* the import in progress: its file, and where it is          *)
    prompt,    (* what each createPrompt awaits next, and the index it saw   *)
    clone,     (* what each clone awaits next, its offset and page           *)
    copied,    (* copied[c]: the rows written to the clone                   *)
    due        (* due[c]: the rows there were when the clone was requested   *)

sourceVars == <<content, stated, phase, latest, pending, import>>
rowVars == <<sourceVars, prompt, clone, copied, due>>

Sources == Uploads \cup Prompters \cup {Nothing}
NoImport == [file |-> 0, at |-> 0]
NoRows == [i \in Indexes |-> Nothing]
NoClone == [pc |-> "idle", offset |-> 0, page |-> NoRows]

Present == {i \in Indexes : content[i] # Nothing}

(* findFirst by descending rowIndex; -1 when there is no row. *)
IsLast(n) ==
    /\ n \in Present \/ (n = -1 /\ Present = {})
    /\ \A i \in Present : i <= n

RTypeOK ==
    /\ content \in [Indexes -> Sources]
    /\ stated \in Int
    /\ phase \in {"PENDING", "PROCESSING", "READY", "FAILED"}
    /\ latest \in Uploads \cup {0} /\ pending \subseteq Uploads
    /\ import \in [file : Uploads \cup {0}, at : Nat]
    /\ import # NoImport => import.file \in Uploads
    /\ prompt \in [Prompters -> [pc : {"idle", "insert", "count", "done"}, seen : Indexes \cup {-1}]]
    /\ clone \in [Cloners -> [pc : {"idle", "read", "write", "ready", "done", "torn"},
                              offset : Nat, page : [Indexes -> Sources]]]
    /\ copied \in [Cloners -> [Indexes -> Sources]]
    /\ due \in [Cloners -> SUBSET Indexes]

RInit ==
    /\ content = NoRows
    /\ stated = 0 /\ phase = "PENDING" /\ latest = 0
    /\ pending = {} /\ import = NoImport
    /\ prompt = [p \in Prompters |-> [pc |-> "idle", seen |-> -1]]
    /\ clone = [c \in Cloners |-> NoClone]
    /\ copied = [c \in Cloners |-> NoRows]
    /\ due = [c \in Cloners |-> {}]

OthersOfImport == UNCHANGED <<prompt, clone, copied, due>>

-----------------------------------------------------------------------------
(* Imports.                                                                *)

(* uploadFile, of the next file, unless PROCESSING; reprocess, of the last one. *)
Queue(f) ==
    /\ f = latest \/ (f = latest + 1 /\ phase # "PROCESSING")
    /\ phase' = "PROCESSING"
    /\ latest' = f
    /\ pending' = pending \cup {f}
    /\ UNCHANGED <<content, stated, import>> /\ OthersOfImport

TakeImport(f) ==
    /\ import = NoImport /\ f \in pending
    /\ import' = [file |-> f, at |-> 0]
    /\ pending' = pending \ {f}
    /\ UNCHANGED <<content, stated, phase, latest>> /\ OthersOfImport

(* createMany with skipDuplicates: a row that is there stays as it is. *)
InsertBatch ==
    /\ import # NoImport /\ import.at < Lengths[import.file]
    /\ content' = [i \in Indexes |->
                     IF /\ content[i] = Nothing /\ i >= import.at
                        /\ i < import.at + BatchSize /\ i < Lengths[import.file]
                     THEN import.file ELSE content[i]]
    /\ import' = [import EXCEPT !.at = @ + BatchSize]
    /\ UNCHANGED <<stated, phase, latest, pending>> /\ OthersOfImport

(* READY with the number of rows of the file, whatever was inserted. *)
FinishImport ==
    /\ import # NoImport /\ import.at >= Lengths[import.file]
    /\ stated' = Lengths[import.file]
    /\ phase' = "READY"
    /\ import' = NoImport
    /\ UNCHANGED <<content, latest, pending>> /\ OthersOfImport

(* FAILED; the job is retried from the first batch or has no attempts left. *)
FailImport ==
    /\ import # NoImport
    /\ phase' = "FAILED"
    /\ pending' \in {pending, pending \cup {import.file}}
    /\ import' = NoImport
    /\ UNCHANGED <<content, stated, latest>> /\ OthersOfImport

-----------------------------------------------------------------------------
(* createPrompt: the last row, the insertion after it, the count.          *)

OthersOfPrompt == UNCHANGED <<phase, latest, pending, import, clone, copied, due>>

PromptGoes(p, pc) == prompt' = [prompt EXCEPT ![p] = [pc |-> pc, seen |-> -1]]

(* Faulty variant: rowCount is taken for the number of rows. *)
FindLastByCount(p) ==
    /\ prompt[p].pc = "idle" /\ stated < MaxIndexes
    /\ prompt' = [prompt EXCEPT ![p] = [pc |-> "insert", seen |-> stated - 1]]
    /\ UNCHANGED <<content, stated>> /\ OthersOfPrompt

FindLast(p) ==
    /\ prompt[p].pc = "idle"
    /\ \E n \in -1..(MaxIndexes - 2) :
          /\ IsLast(n)
          /\ prompt' = [prompt EXCEPT ![p] = [pc |-> "insert", seen |-> n]]
    /\ UNCHANGED <<content, stated>> /\ OthersOfPrompt

(* The unique key (datasetId, rowIndex) refuses an index taken meanwhile. *)
InsertPrompt(p) ==
    /\ prompt[p].pc = "insert"
    /\ LET i == prompt[p].seen + 1
       IN IF content[i] = Nothing
          THEN /\ content' = [content EXCEPT ![i] = p]
               /\ PromptGoes(p, "count")
          ELSE /\ PromptGoes(p, "done")
               /\ UNCHANGED content
    /\ UNCHANGED stated /\ OthersOfPrompt

CountPrompt(p) ==
    /\ prompt[p].pc = "count"
    /\ stated' = stated + 1
    /\ PromptGoes(p, "done")
    /\ UNCHANGED content /\ OthersOfPrompt

-----------------------------------------------------------------------------
(* clone: a new dataset, and pages of rows until one is empty.             *)

CloneGoes(c, pc) == clone' = [clone EXCEPT ![c] = [NoClone EXCEPT !.pc = pc]]

BeginClone(c) ==
    /\ clone[c].pc = "idle"
    /\ CloneGoes(c, "read")
    /\ due' = [due EXCEPT ![c] = Present]
    /\ UNCHANGED <<sourceVars, prompt, copied>>

(* The rows of a page; READY when there are none. *)
Takes(c, page) ==
    clone' = [clone EXCEPT ![c].pc = IF page = {} THEN "ready" ELSE "write",
                           ![c].page = [i \in Indexes |-> IF i \in page THEN content[i] ELSE Nothing]]

(* Faulty variant: the pages are cut from rows in no particular order. *)
ReadPageUnordered(c) ==
    /\ clone[c].pc = "read"
    /\ \E page \in SUBSET Present :
          /\ Cardinality(page) <= BatchSize
          /\ page = {} <=> clone[c].offset >= Cardinality(Present)
          /\ Takes(c, page)
    /\ UNCHANGED <<sourceVars, prompt, copied, due>>

(* The rows after the first offset ones, at most a batch, by rowIndex. *)
Page(offset) ==
    {i \in Present : Cardinality({j \in Present : j < i}) \in offset..(offset + BatchSize - 1)}

ReadPage(c) ==
    /\ clone[c].pc = "read"
    /\ Takes(c, Page(clone[c].offset))
    /\ UNCHANGED <<sourceVars, prompt, copied, due>>

WritePage(c) ==
    /\ clone[c].pc = "write"
    /\ copied' = [copied EXCEPT ![c] = [i \in Indexes |->
                     IF clone[c].page[i] # Nothing THEN clone[c].page[i] ELSE copied[c][i]]]
    /\ clone' = [clone EXCEPT ![c] = [pc |-> "read", offset |-> clone[c].offset + BatchSize,
                                      page |-> NoRows]]
    /\ UNCHANGED <<sourceVars, prompt, due>>

(* The clone is READY. *)
FinishClone(c) ==
    /\ clone[c].pc = "ready"
    /\ CloneGoes(c, "done")
    /\ UNCHANGED <<sourceVars, prompt, copied, due>>

(* A call throws or the process dies: the clone stays PENDING with what it has, *)
(* which nothing looks at here any more.                                   *)
TearClone(c) ==
    /\ clone[c].pc \in {"read", "write", "ready"}
    /\ CloneGoes(c, "torn")
    /\ copied' = [copied EXCEPT ![c] = NoRows]
    /\ due' = [due EXCEPT ![c] = {}]
    /\ UNCHANGED <<sourceVars, prompt>>

RNext ==
    \/ InsertBatch \/ FinishImport \/ FailImport
    \/ \E f \in Uploads : Queue(f) \/ TakeImport(f)
    \/ \E p \in Prompters : FindLast(p) \/ InsertPrompt(p) \/ CountPrompt(p)
    \/ \E c \in Cloners :
          BeginClone(c) \/ ReadPage(c) \/ WritePage(c) \/ FinishClone(c) \/ TearClone(c)

RSpec == RInit /\ [][RNext]_rowVars

-----------------------------------------------------------------------------
(* Properties.                                                             *)

(***************************************************************************)
(* Row indexes have no gap, which the queues of evaluators and the offsets *)
(* of a clone rest on: whatever imports insert, retry and skip while       *)
(* prompts are appended after a last row that is no longer the last.       *)
(***************************************************************************)
RowsContiguous == \A i \in Present : \A j \in Indexes : j < i => j \in Present

(***************************************************************************)
(* A clone that is READY has every row the dataset had when it was asked   *)
(* for, as it is there now, although the pages are read while imports and  *)
(* prompts add rows.                                                       *)
(***************************************************************************)
CloneComplete ==
    \A c \in Cloners : clone[c].pc = "done" => \A i \in due[c] : copied[c][i] = content[i]

(***************************************************************************)
(* "If you upload a new file to an existing dataset, the items are         *)
(* replaced": once the last upload is imported no row of an earlier file   *)
(* is left.                                                                *)
(***************************************************************************)
ItemsReplaced ==
    phase = "READY" /\ pending = {} /\ import = NoImport =>
        \A i \in Indexes : content[i] \in Uploads => content[i] = latest
=============================================================================
