# Verification of scorra

scorra is a platform on which the members of an organization score, compare and
rank the answers of language models. A NestJS API (`apps/api`) keeps everything
in PostgreSQL through Prisma, runs background jobs on Bull queues in Redis, and
is used by a Next.js client (`apps/web`). One process hosts the HTTP handlers,
the queue workers and the cron jobs (`render.yaml`).

Nothing in the API takes a lock, and only a few writes share a transaction: a
handler is an `async` function that reads, decides, and writes in a later
database call. What can go wrong is therefore what happens *between two awaits*.
The models are built around that: **one action is one database, storage or Redis
call with the synchronous code after it, and a request, a job or a cron pass is
a small state machine that carries what it has read.**

## 1. Inventory

Paths are below `apps/api/src/modules/` unless they start with `apps/`.

| Component | State | Operations | Hard behaviour | What makes it correct |
| --- | --- | --- | --- | --- |
| Evaluation tasks and scoring (`evaluations/`) | task status, assignments, one evaluation per task, row and evaluator | create, activate, pause; getNextItem (opens an item, completes the task), submit | stale lists and checks, completion counted over several reads, admin and evaluator writes by id only, rows appended meanwhile | rows served in order; a final score is never lost; a task is completed only when its evaluators have finished, and then it is; only assigned evaluators work on it |
| Dataset import (`datasets/`, `queue/workers/dataset-processing.worker.ts`) | dataset status, file, row count, version; rows; responses; jobs | upload, reprocess, archive, createPrompt, clone; the import job; the reaper | lost, late and duplicate jobs, retries, restarts, two writers of one status column, rows inserted, appended and copied page by page at once | READY means the rows are there; PROCESSING ends; an import can be repeated; row indexes have no gap; a clone is complete |
| Response generation (`queue/workers/model-inference.worker.ts`) | the same dataset status, responses | generate, the job and its onFailed | third writer of the status, invisible to the reaper; retries in the middle of a loop | no row is answered twice or forgotten; a READY it writes too early becomes true |
| Pairwise and ranking (`comparisons/`) | comparisons, ranking results and entries | next pair or ranking, submit | no unique key behind the duplicate check, two-step write, no completion | one result per evaluator and row, every row offered |
| Exports (`exports/`) | export status, file | request, generate, download | lost add, retries after FAILED, restart while PROCESSING, no reaper; the file read an await after the check | a download gives the file the record describes, unless that is made again meanwhile; a queued export becomes READY |
| Sessions (`auth/`, `apps/web/src/lib/api.ts`, `apps/web/src/store/`) | refresh tokens; the pair, user and refresh promise of each tab; the storage tabs share | login, refresh, switch, logout, revoke all; send, replay, load | check and revoke in two calls, calls that expire together, answers after the session changed | a page does not lose its session to its own rotation |
| Organizations (`organizations/`, `users/`) | members with roles, invitations | invite, revoke, accept, change role, remove | two admins at once, revoke against accept, writes by an id found earlier | an organization keeps an admin; an invitation is used once; a role reaches the membership it was meant for |
| Analytics (`analytics/`, the disputes in `evaluations/` and `exports/`) | cache keys; none of its own in the database | queries, event-driven refresh, precompute job; kappa and agreement formulas | a value computed before an invalidation is stored after it; one idea computed in three places | what is shown catches up; the measures agree with each other and with their definitions |
| AI judge (`ai/`) | none | score a response, by a provider or by heuristics | roundings and thresholds that several figures share | a better response is not scored lower; labels do not contradict the risk |
| Job queues (Bull on Redis) | jobs, attempts, stalls | add, take, retry, stalled sweep | adds that fail, time out or arrive late; a process that dies with a job | modelled inside each of its users |
| Database schema, storage, web client | – | – | unique keys and restricting foreign keys; uploads that throw; what a page does after an answer | modelled where a component above depends on them |
| Dataset parser, e-mail, HTTP shell | none that another step depends on | conversion, rendering, plumbing | – | not modelled |

Interaction: handlers enqueue jobs (import, generation, exports, e-mail,
analytics); workers and handlers share the tables; `evaluations` appends to what
`datasets` imports (rows are read while they are inserted); comparisons and
rankings hold foreign keys to responses, which an import wants to replace;
response generation and the import write one status column;
`evaluation.submitted` and `task.completed` invalidate the analytics cache.

`PROJECT.json` lists every hazard found, with its line and the property that
would catch it, or why none does.

## 2. Modules

| Module | Role |
| --- | --- |
| `EvaluationWorkflow` | one SINGLE task: admins, evaluators' requests, restarts |
| `EvaluationLedger` | what scoring promises, without requests: Open, Score, Close |
| `DatasetImport` | one dataset: requests, queue, worker, reaper, restarts |
| `ResponseGeneration` | the generation of responses, composed with `DatasetImport` |
| `DatasetRows` | what the rows of a dataset hold under imports, prompts and clones |
| `ComparisonWorkflow` | one PAIRWISE or RANKING task: the evaluators' pages, their requests, an import that replaces responses |
| `ResultBook` | what comparing promises, without pages: results entered once, responses kept once referred to |
| `ExportLifecycle` | the exports of one task: requests, queue, worker, downloads, restarts |
| `ExportOffer` | what an export promises: nothing, or a file that never gets older, and what a download then brings |
| `Sessions` | the tabs of one user and the server that issues and rotates tokens |
| `Organization` | members and invitations of one organization |
| `AnalyticsCache` | the read-through cache of one task's metrics |
| `Agreement` | agreement rates, kappas and disputes over a table of marks |
| `Judge` | the heuristic judgement of a response |
| `MC...` | instances for TLC; `MCServices` holds the seven modules that share no state |
| `...Proofs` | theorems about the module of that name; `AccountsProofs` is about `Sessions` and `Organization`, `ServicesProofs` about `Agreement`, `Judge`, `AnalyticsCache` and their composition in `MCServices` (eight modules) |

Refinements are stated with `INSTANCE ... WITH`: `EvaluationWorkflow` implements
`EvaluationLedger`, `ComparisonWorkflow` implements `ResultBook`, and
`ExportLifecycle` implements `ExportOffer`.
`ResponseGeneration` EXTENDS `DatasetImport` and takes each of its steps together
with what that step does to the responses.

### EvaluationWorkflow

`status`, `assigned`, `rowCount` and `item` are the tables. `toAssign` is what
`create` has still to insert. `pc`, `row`, `seen`, `total`, `team`, `todo` are
the local variables of an evaluator's request (`evaluatedIds`, `totalRows`,
`assignments` and the loop over them); `apc` the same for an admin's. `completion`
is a history variable: what the last write of COMPLETED was based on. `refetch`
holds the clients whose page, after an accepted submit, asks for the next item
(`use-evaluation.ts`).

| Code | Actions, one per await |
| --- | --- |
| `create` | `Init`, `AssignEvaluators`, `AssignFails` |
| `activate`, `pause` | `BeginActivate`, `WriteActive`; `BeginPause`, `WritePaused` |
| `getNextItem` | `BeginNext`, `ListDone`, `FindOpen`, `PickRow`, `OpenRow` |
| `maybeCompleteTask` | `CountRows`, `ReadTeam`, `CountMember`, `CompleteTask` |
| `submit` | `BeginSubmit`, `CheckExisting`, `WriteEvaluation` |
| a prompt or an import batch | `AppendRow` |
| a restart of the API | `Crash` |

A request slot belongs to one evaluator. `SequentialClients` says that every
evaluator has one slot: the page shows one item and one submit button. The
exception is the evaluate page's poll for AI suggestions, which refetches the
next item every three seconds while the user may be submitting: the run
`eval_reopen` gives an evaluator two slots.

Not in the model: SKIPPED, FLAGGED and PENDING evaluations and ARCHIVED tasks,
which no code writes; the task's texts, criteria and scores; removal of a row,
a task or an assignment (no operation deletes a row or an assignment of its own,
`DatasetsService.delete` removes the whole task); database calls that fail.

### DatasetImport

`status`, `fileUrl`, `rowCount`, `old` (of `updatedAt`), `rows`, `responses`,
`compared` and `history` are the dataset. `history` compares the highest
version record with `dataset.version`: none, equal, or one ahead, which is all
that `recordVersion` and the unique key `(datasetId, version)` distinguish.
`jobs` is the queue, `late` the adds a caller gave up on, `wpc`, `inserted` and
`exhausted` the worker, `rpc` and `rfile` the requests, `kpc` and `kfile` the
reaper.

| Code | Actions |
| --- | --- |
| `uploadFile` | `BeginUpload`, `Store`, `MarkUploaded`, `Enqueue`, `MarkFailed` |
| `reprocess` | `BeginReprocess`, `MarkAgain`, `Enqueue`, `MarkFailed` |
| `archive` | `Archive` |
| `processDataset` | `Download`, `InsertBatch`, `ClearResponses`, `CreateResponses`, `MarkReady`, `CreateVersion`, `SetVersion`, `FailImport` |
| the worker's handlers | `TakeJob`, `FinishJob`, `OnFailed` |
| Bull (external) | `Push`, `RejectJob`, `Promote`, `Stalled`, `LateAdd` |
| the reaper | `Age`, `ReapFind`, `ReapLive`, `ReapAdd`, `ReapTouch`, `ReapFail` |
| a submitted comparison or ranking | `Compare` |
| a restart of the API | `Crash` |

Choices: one API process, hence one running import; waiting jobs are taken in any
order, a superset of Bull's first-in first-out that also covers its retries; a
batch is one row instead of 500; a file is its number of rows (`FileRows`) and
whether it has responses (`Responding`); the contents of rows are not kept;
`recordVersion`'s two reads and its create are one step, since only the one worker
writes versions. Response generation is composed with this module in `ResponseGeneration`;
`createPrompt`, `clone` and what the rows hold are in `DatasetRows`. Not in the
model: database calls that fail, a running job whose lock is lost while its
process lives, a failing `job.progress`, `delete` (a cascade that ends the
dataset) and `createVersion` (which nothing calls).

An add that a caller gave up on is kept once per file in `late`: several late
adds of one file count as one.

### ComparisonWorkflow

One module for both task types, since `getNextPair` and `getNextRanking`, and
`submit` and `submitRanking`, differ in three places only: how many responses a
row must have to be shown (`Needed`), whether the page keeps its order while the
row is the same, unless its user resets it (`Held`), and whether the responses are named by the result
itself (`CreateComparison`) or by entries inserted after it (`CreateRanking`,
`CreateEntries`). `result` counts the comparisons or rankings of an evaluator for
a row, `linked` those that refer to responses: a ranking without entries is in
`result` only. `import` tells which import's responses are in the table, and
`page` and `sent` which ones a page shows and submits. `npc`, `seen` and `spc`
are where a page's two requests are and the list one of them has read.

| Code | Actions |
| --- | --- |
| `getNextPair`, `getNextRanking` | `BeginNext`, `ListDone`, `FindRow` |
| `submit` | `BeginSubmit`, `CheckExisting`, `CreateComparison` |
| `submitRanking` | `BeginSubmit`, `CheckExisting`, `CreateRanking`, `CreateEntries` |
| `activate`, `pause` | `SetActive` |
| an import's `createModelResponses` | `ClearResponses`, `CreateResponses` |
| a restart of the API | `Crash` |

`FindRow` takes any row outside the list, as `findFirst` without `orderBy` may.
Choices: a page has one submit in flight (its button is disabled until then), so
a user who opens the task twice, or a client that gives up on a request and
sends it again, is a second page; a page is not closed; the rows of the dataset
stay, an import replaces their responses; no other task refers to them. The
verdict, the ranks and the texts are left out, and so are the queries of
results, which change nothing.

### ResponseGeneration

`answers` counts the responses of a row; `gjobs`, `gpc`, `todo` and `failing` are
the inference queue, where its worker is, the rows its loop still has to answer,
and the `onFailed` handlers under way; `gen` is where each request is. The
variables of `DatasetImport` are the import's, and `dataset.status` is the one
both write.

| Code | Actions |
| --- | --- |
| `generateResponses` | `BeginGenerate`, `CountPending`, `AddGeneration` |
| `handleGenerateResponses` | `ListRows`, `MarkGenerating`, `AnswerRow`, `GenerationReady` |
| the worker's handlers, Bull | `TakeGeneration`, `FinishGeneration`, `RejectGeneration`, `OnGenerationFailed`, `ResumeGeneration` |
| an import step | `Import` (the step of `DatasetImport` with `Beside`) |
| a restart of the API | `Restart` (both workers and all requests at once) |

A row that a provider does not answer is skipped, as in the code: a `faults`
step. `GenerationAssumption` excludes comparisons, whose effect on imports is
shown without generation.

### DatasetRows

`content[i]` is who wrote row `i`, `stated` is `rowCount`. How imports are queued
and reaped is abstracted: a queued file is taken, an import may fail at any
point and be retried or not. In exchange it has what `DatasetImport` leaves out:
a second file over the first one's rows, prompts, clones.

| Code | Actions |
| --- | --- |
| `uploadFile`, `reprocess` | `Queue` |
| `processDataset` | `TakeImport`, `InsertBatch`, `FinishImport`, `FailImport` |
| `createPrompt` | `FindLast`, `InsertPrompt`, `CountPrompt` |
| `clone` | `BeginClone`, `ReadPage`, `WritePage`, `FinishClone`, `TearClone` |

### ExportLifecycle

`record`, `stored` and `xjobs` are the export's row, its file and its job;
`request`, `step` and `collected` are the request and the generation in progress.
The results of the task change with every submission, with a completed
evaluation that is reopened (`eval_reopen`), or when one leaves the date range,
and so may grow or shrink; `edition` counts the changes, and a file, a `rowCount`
and a `fileSize` are known by the edition they were made of. `download[x][d]` is a
call of `getExportFile` between its two awaits, with the edition the record
described and, as a history variable, whether the file was left alone since
(`steady`). An upload replaces the file as a whole (the bucket) or empties it and
writes it (the local disk, `WriteFile`, which a restart may cut short): the model
allows either.

| Code | Actions |
| --- | --- |
| `requestExport` | `RequestExport`, `AddExport` |
| `generateExport` | `MarkExporting`, `CollectRows`, `UploadFile`, `WriteFile`, `MarkExportReady`, `MarkExportFailed` |
| the worker and Bull | `TakeExport`, `EndExport`, `ResumeExport` |
| a change of what the export's query returns | `ChangeResults` |
| a restart of the API | `RestartExports` |
| `getExportFile` | `OpenRecord` (the record, checked by `Downloadable`), `ReadFile` |

Left out: the deletion of an export, filters other than `disagreementsOnly`
(`Agreement` has that one), the formats.

### Sessions

`pairs[n]` is the n-th refresh token with the organization of the access token
issued next to it; `session[t]` is what tab `t` keeps in memory, `kept` what the
tabs share in `localStorage`; `calls[t][c]` is a call from its sending to its
end, `refresh[t]` the shared promise of `refreshAccessToken` and where the
server is with it. A 401 without a token in memory (a wrong password, say)
leaves a promise that is resolved with null in place, because the `finally` of the
refresh runs before the promise is assigned: `NullRefresh`. From then on a 401 of
that page load neither refreshes nor clears the session.

| Code | Actions |
| --- | --- |
| `login` | `Login` |
| `request` in `lib/api.ts` | `Send`, `TakeAnswer`, `Take401`, `TakeSecond401` |
| `refreshAccessToken` | `Take401` (start, join, or end with null), `TakeTokens`, `TakeRefusal` |
| `refreshTokens` | `FindToken`, `RevokeToken`, `CreateToken` |
| `switchOrg`, `logout`, any other route | `Serve` |
| a page load | `Load` |
| change or reset of the password | `RevokeAll` |
| the age of access tokens (external) | `ExpireAccess` |

Who revoked a token is kept as the tab and the page load, which the database
does not know: that is what tells a page's own rotation from another's. A page
is loaded when the server's part of its refresh is over; access tokens expire in
the order they were issued.

### Organization

`member`, `created` and `inv` are the tables, `req` and `acc` the requests of
admins and the accepts in flight. `excused` is a history variable: a demotion,
or two removals at once, have happened.

| Code | Actions |
| --- | --- |
| `create` | `OInit` |
| `changeMemberRole`, `removeMember`, `invite`, `revokeInvitation` | `AskRole`, `AskRemove`, `AskInvite`, `AskRevoke` (the admin check), `Find`, `WriteRole`, `WriteRemove`, `WriteInvite`, `WriteRevoke` |
| `acceptInvitation` | `OpenLink`, `FindMembership`, `Join` |

### AnalyticsCache, Agreement, Judge

`AnalyticsCache` abstracts a metric to the number of submissions it was computed
from. `Commit` is a submission with its event; `DeleteKeys` and `AddPrecompute`
are `refreshForTask`; `Get`, `Compute` and `Fill` are `withCache` with the awaits
between look-up, computation and store; `TakePrecompute` and `Warm` are the
precompute job; `Expire` is the time to live.

`Agreement` translates the formulas over a table of marks in half points:
`computeTaskAgreement` (`Agreed`), `pairwiseAgreement` (`PairAgreed`), the
evaluator metrics (`NearOthers`), `analyzeDisagreement` (`Disputed`), the
export's `disagreementsOnly` (`Exported`), `CohensKappa` and `FleissKappa`. A
fraction is a pair of integers; roundings for display are left out. The table is
filled by submissions, so that every partial table occurs.

`Judge` translates the heuristics on features of a response: whether there is an
expected output, its key tokens and how many were found, the length, unsafe
words. What a provider returns is its own: `EvaluateResponse` answers with
either.

## 3. Runs

Deadlock is not checked in any of them: a finished task, or a dataset whose
users have stopped, is a legitimate end.

| Run | Instance | Result |
| --- | --- | --- |
| `eval_workflow` | 2 evaluators with one slot each, 1 activate and 1 pause slot, up to 2 rows, 1 restart; 713,877 states | seven properties hold |
| `eval_liveness` | the same without pause; 74,325 states | `AutoCompletes` holds |
| `eval_reopen` | 1 evaluator, 2 slots, 1 row | **violated:** `FinalStaysFinal` |
| `dataset_import` | 1 uploader, 1 reprocessing admin, 2 files (two rows with responses; empty), 2 jobs, 2 attempts, 1 fault, comparisons; 2,237,526 states | `TypeOK`, `FaultlessNeverFails` hold |
| `dataset_settles` | 1 uploader, 1 file, 2 faults, 1 restart, 1 stall; 177,905 states | `ReadyIsBacked`, `ReadyHasResponses`, `Settles` hold |
| `dataset_repeat` | a comparison, then a reprocess; no fault | **violated:** `SafeToRepeat` |
| `comparison_workflow` | 2 evaluators with one page each, 2 rows with pairs, 2 imports, 1 restart, both task types; 2,218,224 states | `TypeOK`, `OneResultEach`, `RankingsWhole`, `QueueComplete`, `BookSpec` hold |
| `comparison_queue` | the same without the second import, the first row with one response | **violated:** `EveryPairCompared` |
| `generation` | 1 upload of 2 rows, 1 generation with 2 attempts, 1 fault, 1 restart, 1 stall; 279,611 states | `GTypeOK`, `OneAnswerEach`, `EarlyReadyHeals`, `GapsFilled` hold |
| `services` | the seven service modules, one per behaviour; 273,145 states | seventeen properties hold |
| `export_lost` | 2 exports, 1 failing call | **violated:** `PendingPickedUp` |
| `items_replaced` | 2 files of two rows, one after the other | **violated:** `ItemsReplaced` |

What the properties say:

- `ServedInOrder`: when an evaluator has an item open, all rows before it are
  final for them, though rows are submitted out of order and appended.
- `NoFinalOverwritten`: no pending write of `submit` or `getNextItem` is about to
  replace a COMPLETED evaluation. It holds for sequential clients.
- `CompletionJustified`: what a completion counted is still true at any later
  time. It needs finished evaluations never to be lost *and* the stale
  `finishedRowIds` to be harmless.
- `SettledStays`, `OutsidersShutOut`: action properties about requests that
  start later.
- `LedgerSpec`: refinement of `EvaluationLedger`.
- `AutoCompletes`: a task all of whose evaluators have finished does not stay
  ACTIVE.
- `ReadyIsBacked`: READY counts the rows of one stored file and all of them are
  in the table.
- `FaultlessNeverFails`: without faults, restarts and comparisons nothing fails;
  in particular version numbers never collide.
- `ReadyHasResponses`: an import replaces the responses in two calls,
  `deleteMany` and `createMany`. Where the dataset says READY of an earlier import
  meanwhile and the process dies or the attempt fails between the two, the
  READY is followed by an import that brings the responses back, or turned into
  FAILED.
- `Settles`: PROCESSING always ends.
- `OneAnswerEach`: retries, restarts, a re-import by the reaper under the
  generator, and repeated requests give no row a second response.
- `EarlyReadyHeals`: a generation that ends during an import writes READY over
  it, with rows missing. While no call fails, the job that brings them is still
  in the queue, through a restart as well.
- `GapsFilled`: a waiting generation answers every row that is there, unless a
  call fails.
- `RowsContiguous`: imports that skip, fail and are retried, and prompts appended
  after a last row that is no longer the last, leave no gap below any row: the
  unique key turns a collision into an error, and both writers go up from what
  is there.
- `CloneComplete`: a READY clone has every row its source had when it was asked
  for, although its pages are cut by offset in later calls.
- `OneResultEach`: an evaluator has one comparison or ranking for a row. No
  unique key says so, only a check several awaits before the insertion.
- `RankingsWhole`: a ranking has its entries, or its submit is about to insert
  them, until an import touches the responses or the process restarts. After
  that a ranking may stay empty for good.
- `QueueComplete`: a page that says nothing is left is right, where every row has
  enough responses. `EveryPairCompared` says it without that condition.
- `BookSpec`: refinement of `ResultBook`: a result is entered once and stays, its
  references come with it or once later and only to responses that are there,
  and responses something refers to are neither replaced nor deleted.
- `OfferSpec`: refinement of `ExportOffer`: an export offers nothing or the whole
  file its record describes, and never one of an older edition, through retries
  that overwrite the file of a READY export; and a download that was let in
  brings the file described then, or, only when the export was withdrawn and
  its file made again between the check and the read, one of a newer edition or
  a partial one, never an older one. `ReadyIsWhole` says that the record
  describes the file there is, as an invariant, and is a theorem.
- `QueuedGetsReady`: three attempts outlast two failing calls and one restart is
  one stall, so an export whose job reached the queue becomes READY and stays so.
- `OwnRotationKept`: the server refuses a page no token which that page load has
  rotated itself. Calls that expire together would do that without the shared
  promise; a refresh that starts when its session has changed meanwhile must
  not either.
- `RevokedGivesNone`, `UsedOnce`: a revoked invitation makes no member although
  its accept was past all checks; an invitation lets its user in once, with one
  accept at a time.
- `RoleMeantForIt`: a role change whose membership has ended does not reach the
  user's next one.
- `AdminRemains`: removals one at a time leave an admin. A demotion may leave
  none, and so may two admins who remove each other at once: the code has no
  guard against either, and `excused` records them.
- `CatchesUp`: what a dashboard shows is in the end, and for good, what was
  submitted, although a value computed before a deletion may be stored after it
  and the precompute takes it for a fresh one. It is the time to live that
  repairs this.
- `RatesCohere`, `DisputesMatch`: three agreement rates and two lists of disputed
  rows, each computed in a place of its own, agree where they speak of the same.
- `CohenIsKappa`, `FleissOfEvenRows`: the code's formulas against the textbook
  ones, stated as observed over expected disagreement.
- `MoreCoverageNeverWorse`, `HighRiskNeverGood`: the heuristics are monotonic
  through their roundings, and a response flagged HIGH is at most FAIR.

The five violations are disagreements between the code and its own comments or
pages; `findings` in `PROJECT.json` quotes them. In short: a refetch that
overlaps a submit reopens a final evaluation; an import is not safe to repeat
once a response was compared; one row without a pair ends a pairwise queue that
still has pairs; an export whose job was lost is not picked up by anything; and
a second upload replaces no row of the first.

**Bounds.** `MaxRows`, `MaxCrashes`, `Slots`, `Files`, `Attempts`, `MaxStalls`,
`MaxFaults`, `MaxImports`, and in the services `Changes`, `ExportFaults`,
`Restarts`, `MaxSubmitted`, `CacheFaults`, `MaxIndexes`, `MaxPairs`, `MaxLoads`,
`NetFaults` and `MaxMembers` are guards, not state constraints, so that liveness
is checked on the real graph. Two evaluators are enough for every race on
completion (each counts the other), two rows for order and for a row appended
between two reads. Two job slots give a duplicate or late job beside the
regular one; with both full an add waits. Two attempts tell a retry from the
last attempt. Two rows and two pages give a queue an order to get wrong and a
result of another evaluator to mistake for one's own; a second import is what
makes a page's responses stale. `eval_workflow` and `comparison_workflow` identify
states that differ only by exchanging the two evaluators together with their
slots or pages (`Symmetries`): nothing tells them apart, and neither run checks
liveness.

`generation` gives an import one attempt, so that one fault or restart is enough
to make it fail beside the generator. `services` takes one part at a time
because the parts share no variable. There, one export has three attempts
against two faults and a restart, two changes of its results and one download at
a time (two exports are in `export_lost`); a tab has
two calls, which share a refresh, one page load and five pairs, and a call
starts only while there are pairs left for a refresh and a switch each (`Room`),
so that the bound never blocks a server that has begun to answer; the rows are
one file of one row, imported again and again, two prompts, and a clone with
pages of one row; the organization has two admin slots, of which one only
removes; the marks of three rows lie on both sides of each threshold. The
theorems remove these bounds for everything but liveness.

**Fairness.** `EvaluationWorkflow`: weak fairness of the steps of a request the
server has started (the event loop runs them), and strong fairness of the
refetch a page owes, which other submits of its user may delay but not prevent.
Nobody is obliged to score, pause or activate, and a restart may take any
request. The property assumes that the answer of an accepted submit reaches the
page; when it is lost, the task waits until someone opens it. `DatasetImport`
and `ResponseGeneration`: weak fairness of the workers, of Bull's promotion and
stalled sweeps, of started requests, of the cron passes and of time. Users are
not fair, late adds need not arrive, faults and restarts are bounded.
`ExportLifecycle`: the same, with strong fairness of `TakeExport`, because
another export may occupy the worker each time Bull looks. `AnalyticsCache`:
started computations end and entries expire; nothing obliges the event handler
or the precompute. `Sessions` has no liveness property and no fairness: the fetch of
a refresh has no timeout, so nothing bounds how long the calls that share it
wait.

## 4. Proofs

The theorems of the eight `...Proofs` modules hold for all values of the
constants that satisfy the named assumptions of their modules: any sets of
evaluators, admins, tabs or exports, any slots, any bounds. Every safety
invariant and every safety action property that a passing run checks is a
theorem; each was model-checked first, with the invariant it rests on.

**EvaluationWorkflow.** `TypeCorrect`, `CompletedSettles` and `OutsidersStayOut`
hold for every client. The others assume `SequentialClients`, and `eval_reopen`
shows why they must. None of the safety properties is inductive: a request acts
on what it read several steps ago. The invariant `IInv` says, for every request
and every step it may be at, what is still true of those reads:

- `KnowsFinished`: `seen` is exactly the evaluator's final rows (nobody else can
  change them while the request runs);
- `NothingOpen`: from `PickRow` on the evaluator has no open item;
- `PickedFirst`: the row about to be opened is not final, all rows before it are;
- `SubmitsOpenRow`: the row about to be scored is not final;
- `CountedSelf`, `CountedTeam`: the caller, and the members already counted, have
  finished at least `total` rows.

With `TypeOK`, `ServedInOrder` and `CompletionJustified` this is inductive
(`Invariance`). The proof of a step looks at the requests of the acting
evaluator, and at the others through one monotonicity fact: rows of other
evaluators do not change, so their counts do not fall (`CountGrows`,
`OthersKept`). `QueueServedInOrder`, `FinalsNotOverwritten` and
`CompletionsJustified` follow, and `ImplementsLedger` maps each step to Open,
Score, Close or a stutter.

**DatasetImport.** `ReadyBacked` rests on `FilesKnown` (every job, late add,
request and reaper pass is about a stored file) and `BackedInv` (the rows up to
`inserted` are in the table while the loop runs; a READY dataset has its rows,
because no step deletes one). What holds of the worker's loop (`LoopInv`:
the rows up to `inserted` are there, and after the loop they are those of one
file) has lemmas of its own (`LoopStep`, `CountStep`), since generation needs
it as well.
`CleanNeverFails` adds `FileSet` (PROCESSING
without a file cannot be) and `CleanInv` (no step is on the way to FAILED, and a
version record is ahead only between the two writes of the running job).
`ReadyResponses` assumes `MaxCrashes <= MaxStalls`, so that no job is dropped for
stalling (`StallsBounded`: a job has stalled no more often than there were
restarts). Its invariant `Replacing` says that the worker runs a job whenever it
is not idle, that it reaches `MarkReady` only with the responses of the file it
counts, and that a rejected attempt leaves no READY behind; so the last job to
leave the queue (`LiveStep`) leaves a READY dataset with its responses. With
`MaxStalls = 0` TLC finds a READY dataset that has lost them for good.

**ComparisonWorkflow.** `TypeCorrect` rests on `SentRow` (a submit in flight has a
row) and `Replacing` (responses are deleted only while another import is to
come). `OneResult` assumes one page per evaluator, since nothing else keeps a
second submit out between `CheckExisting` and the insertion; its invariant is
`Fresh` (a submit past the check has no result for its row yet, or exactly one
without entries) and `Linked` (no more references than results). `WholeRankings`
adds `Current`, that pages and submits name imports that have happened: without
a second import their responses are then the ones in the table. `CompleteQueue`
needs no assumption on the pages: what a request has listed stays done, because
results only grow (`ResultsGrow`). `ImplementsBook` maps the steps by `OneResult`'s
invariant: where `Fresh` says that a row has no result, adding one enters it in
`ResultBook`; where it says one without references, `CreateEntries` adds them. The
deletion of the responses is `Withdraw`, whose guard is the foreign key.

**ExportLifecycle.** `ExportTypes` needs that a request queues one job and that a
generation runs exactly while its job is active. `WholeWhenReady` and
`ImplementsOffer` rest on what a generation knows: nothing can be downloaded
while the file is made (`Withdrawn`), the file about to be announced is the one
collected, and neither is older than what the record said before (`Collected`);
and on what a download knows (`Described`): as long as the file was left alone it
is still the one described when the download was let in, and the record never
describes an older one afterwards. A step then changes the results, publishes,
withdraws, makes the file again, lets in, delivers, breaks off or stutters in
`ExportOffer`.

**ResponseGeneration.** Its proofs extend those of the import. `GInv` joins
`FilesKnown` and `OneImport` (one active import, below the end of its file, so
that the rows it adds are rows the generation can know) with `OneLoop` (the
inference worker runs exactly the active job) and `Topping` (the rows still to be
answered have no response yet). `GenerationTypes` needs the first two, `NoRowTwice`
the last: `OneAnswerEach` alone does not say that the row answered next has no
response.

`EarlyReadyNotFinal` assumes `MaxCrashes <= MaxStalls`: a restart stalls the active
job, and Bull drops a job that has stalled more often than it is allowed. With
more restarts than that the import is dropped, nothing writes FAILED, and the
READY of a generation stays over missing rows. The code leaves Bull's default of
one stall, so the theorem is about imports that are interrupted once. The invariant `HealInv` says
while no call has failed: the last job of the queue ends only when the rows of its
file are counted (`Dropless`, by `StallsBounded`, no job has stalled more often
than there were restarts), and nobody generates before there are rows, so READY
is never written over a dataset whose import has not begun (`RowsFirst`).

**DatasetRows.** `NoGaps` is inductive together with `ImportBehind` and
`PromptBehind`: all rows below where an import has got to, and below where a
prompt is about to go, are there. Given that, the number of rows before a row is
its index (lemma `PageByIndex`), so the offsets of a clone mean what the code
takes them for, and `CloneBehind` says what a clone has at each step
(`ClonesAreComplete`).

**Organization.** The invariant `OInv` says that a membership id belongs to one
user, that a request about to write a membership has found one (`FoundOne`), and
that an accept is of an invitation that was created (`OfCreated`).
`RevokedMakesNone` and `RolesMeantForIt` follow as step properties.
`AnAdminRemains` adds that a removal under way was asked for by an admin other
than its victim who is still one, and `InvitationUsedOnce` that an
invitation's use goes with its ACCEPTED mark.

**Sessions.** `RotationKept` rests on four facts: every pair a page holds or is
about to be given was issued (`Bounded`); tokens name only page loads there have
been (`PastLoads`); until its revocation a refresh, the session and what
switches brought are tokens the page did not rotate (`NotOwn`); and a pair that
an unread switch brings is nowhere else in its page (`Separate`), without which
its answer could put a rotated pair back into the session. The theorem is for
any number of tabs over one storage.

**Agreement and Judge.** The figures are sums over sets of raters, rows or
criteria, and the theorems are for all finite sets of them. The library's induction
theorems take an operator as a parameter, which no installed prover can
instantiate; so `ServicesProofs` takes, of the subsets that violate a fact, one
with the fewest members (`NatMin`, from the well-foundedness of `<`), and gets
`SubsetInduction` for a set of sets. `SumsTo` relates a set to its partial sums;
`SumsExist` and `SumsUnique` make the community modules' `SumFunction` such a sum
(`SumIsSum`), and with it `SumRemove`, `SumMonotone`, `SumLinear` (a linear relation
between terms holds of the sums) and `SumBounds`.

- `DisputesAreExported`, `RatesSpeakOfTheSame`: the extremes of the marks of a row
  are marks of the row (`Extremes`, `SpreadIs`), so a spread is within a tolerance
  exactly when every two marks are.
- `CohenAgreement`: the shared rows fall into four parts by who passes them
  (`FourParts`). `KappaArithmetic` is then about four naturals; the lower bound of
  the figure is a square that is not negative.
- `FleissAgreement`: of rows with the same number of raters, each row's squares and
  its pairs that disagree are in one linear relation (`RowSquares`), which
  `SumLinear` carries to the totals (`FleissArithmetic`).
- `CoverageNeverHurts`: rounding is monotone (`RoundMonotone`), so each criterion is
  (`ScoreMonotone`), the sum of them, and its rounding.
- `RiskIsNeverGood`: what makes the risk HIGH bounds the criteria (`LowScores`) and
  the mean with them (`LowOverall`), below what the label GOOD takes.

**The services together.** `ServicesArePart` says that a behaviour of `MCServices`
is one of each of its seven modules, so what is proved of a module holds of the
composition, and the run of the composition is a run of each; `ServicesTypes`
is its type invariant.

**Only model-checked:** the liveness properties `AutoCompletes`, `Settles`,
`GapsFilled`, `QueuedGetsReady` and `CatchesUp` (liveness under fairness, and
ENABLED, are outside what the prover handles), and the five violations, which
are counterexamples. No module declares a RECURSIVE operator.

## 5. Not modelled

- **Dataset parser, e-mail, HTTP shell, web pages.** Conversion, rendering and
  plumbing, which keep no state another step depends on. What a page does to the
  server's state (refetch, poll, keep an order, refresh a session) is in the
  models.
- **Provider calls** of the AI service: an answer or none. The parsing of what
  they return is left out, and so are AI suggestions, a column only pages read.
- **Dashboards:** score summaries, medians, consistency, trends and counts are
  sums and averages of completed evaluations.
- **Datasets:** `delete`, which removes the dataset and everything it refers to;
  `createVersion`, which nothing calls; the comparison of versions.
- **Accounts:** registration, the reset mails and their tokens, suspended users.
- **Invitations:** resending and expiry decide only whether a link opens.
- **Failing database calls** in the evaluation, import and comparison workflows.
  The export, the clone and generation have them where the code has a catch.

## 6. Observations

Behaviour met while modelling that contradicts no statement of the repository,
and so is no finding:

- A refresh issues the new pair for the organization joined last, not for the
  one the page had switched to, and keeps the old user beside it
  (`CreateToken`, `TakeTokens`).
- A restart between the two writes of `recordVersion` makes every later import
  of the dataset fail on the unique key (`CreateVersion`, `SetVersion`).
- A dataset is FAILED between two attempts of its import, and uploads are
  accepted in that moment.
- A clone that throws or dies stays PENDING with the rows it has (`TearClone`).
- `fleissKappa` takes its number of raters from the first row: for rows with
  different numbers the figure depends on the order of an unordered query.
- A response with unsafe words and full coverage may still be EXCELLENT overall.
- The filter `flaggedOnly` of exports looks for a tag `flagged`, the evaluate page
  sends `Flagged`.
- A 401 without a token in memory, such as a wrong password at login, leaves
  `refreshPromise` resolved with null. After a login on the same page load an expired
  access token is then not refreshed: each call fails with Unauthorized until
  the page is loaded again (`Take401`).
- The refresh has no timeout, unlike the calls that wait for it.
- A rerun of a READY export after a restart may put another file under the key
  between `getExportFile`'s check and its read; with the local driver the download
  may be a partial file.
- Where restarts outnumber the stalls Bull allows, a job may be dropped between
  `deleteMany` and `createMany`, and a dataset stay READY without its responses.
- A task between its creation and its assignments is open to every evaluator of
  the organization.

## 7. What is left

1. What `EarlyReadyHeals` and `ReadyHasResponses` become when restarts outnumber the
   stalls of a job.
2. An abstract dataset that `DatasetImport` implements.
3. `delete` of a dataset against its running import, and failing database calls
   in the import.
4. Reset links and registration next to `Sessions`, resent and expired links next
   to `Organization`.
5. The composition of `AnalyticsCache` with `EvaluationWorkflow`, whose events it
   takes as given.
