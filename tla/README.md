# Verification of the data flywheel's back end

This directory holds TLA+ models of the Python service under `src/backend`: the
state it keeps on disk and in SQLite, the background jobs that change it, and the
phone collector and people it works with. TLC checks the models on small
instances; TLAPS proves the results listed under *Proofs* for every value of the
constants. File and line references are to the repository.

## 1. The system

The service collects GUI trajectories with phones, annotates them, builds trees of
equivalent steps, judges their quality with rubrics, lets people correct them, adds
reasoning (COT), freezes a release and summarises it. All of it is one process
(`api.py`) with an HTTP interface, background threads, one single-worker executor
for model jobs (`api.py:190`) and one subprocess per quality job. State lives in
files under `batches/`, `system/`, `tmp/` and in one SQLite registry of JSON
records (`data_store/registry.py`); a file lock per batch (`data_store/locking.py`)
orders the threads and processes that use a batch. Nothing survives a restart but
files and records, so every multi-step operation has a recovery.

| Component (source) | State it keeps | Operations | Works with |
|---|---|---|---|
| Artifact store (`data_store/`) | one directory and one record per batch and stage, journals of transactions | `publish_many`, `_recover`, `resolve_file`, `read_file`, `get` | everything that reads or writes a stage |
| Batch results (`batch_results.py`, `stage_artifacts.py`, `batch_lifecycle.py`) | 02_annotation, 04_tree, 05_quality, quality records, the outbox of invalidations | merges, invalidation, drain, recovery, gate of a release | store, jobs, correction sessions |
| Quality execution (`quality_execution.py`, `quality_jobs.py`, `quality_process.py`, `DevelopRubrics/quality_job_runner.py`) | job record, lease, worker process, checkpoint files | start, register, GO, progress, commit, revoke, kill, interrupt | batch results, operating system |
| Pipeline (`pipelines.py`, `pipeline_release.py`, `pipeline_access.py`) | pipeline record: status, steps, attempts, intents | tick, fence, pause, resume, retry, confirm, terminate | every job manager, runs, resume, release |
| Collection runs (`collection_runs.py`, `phone_factory_runtime.py`) | run record: status, dispatch error, receipt | create, dispatch, dispatched, dispatch_failed, complete, cancel | collector, transfer |
| Collection transfer (`collection_transfer.py`, `collection_artifact_transfer.py`, `collection_receipts.py`, `collection_receipt_storage.py`, `remote_sync.py`) | journal and receipts of a run, back-off | sync, finish, recover, pause on a full disk | collector, runs |
| Collection resume (`collection_resume*.py`) | operations, executions, the head snapshot | preview, submit, send, register, commit snapshot | collector, pipeline (fence) |
| Device control, storage cleaning (`collection_phone_control.py`, `collector_storage.py`) | durable intents | intend, send, observe | collector |
| Collector service (`collector_service/`) | its runs, fences, launch records, process numbers and completions, worker processes | submit, execute, freeze, delete a phone, restart | transfer (as an archive), phones, operating system |
| Preprocessing, tree jobs (`preprocessing_jobs.py`, `tree_build_jobs.py`) | job records, checkpoints | submit, reuse, run, interrupt, retry | batch results |
| Correction sessions and COT (`trajectory_correction/`) | drafts with revisions, groups, review copies, exports | create, patch, review, reconcile, export, COT save | batch results, releases |
| Releases (`data_publishing/service.py`) | release record and frozen files, the batch's life cycle | create, publish | store, results, overview |
| Upload and import jobs (`data_publishing/`) | job records, staged archives | submit, run, recover | releases |
| Training overview (`training_data_overview/`) | catalog, conversions | submit, run, publish | releases, pipeline |
| Task generation (`task_generation/`) | jobs, checkpoints, versioned trees | generate, augment, commit | collection |
| Rollout imports (`rollout_imports.py`) | imported batches and their journal | upload, commit, recover | store |
| Evaluation (`offline_evaluation_dispatch.py`, `model_iteration.py`, `evaluation_*previews.py`) | evaluation runs and pages | dispatch, sync, preview | collector |
| Command-line operations (`batch_operations.py`) | reservation of a batch with a process identity | reserve, release, recover | jobs |

Start-up order matters to several properties: the job managers are constructed at
import and mark what was running as interrupted (killing recorded workers), then
the lifespan runs `recover_operations`, `recover_pending_batch_results`, and
starts the imports, the overview, the phone runtime and the pipeline poll, which
ticks every second (`pipelines.py:844-854`).

### What is hard, and what makes each component correct

* **Store.** A publication of several stages is several renames and one SQLite
  transaction. Whatever step a crash cuts, the directories must again be those the
  registry names, before anybody reads; a version read before the lock must not
  overwrite a newer one.
* **Results.** A publication and the invalidation of what was derived from it are
  separate transactions, so the second is announced in an outbox and replayed. After
  the replay nothing derived may be older than its source, a task's results must
  survive updates of other tasks, and a release must freeze what belongs together.
* **Quality.** A worker outlives its supervisor and its deadline. At most one worker
  may be past its gate, a revoked one must publish nothing, and the status of a job
  must agree with what was committed.
* **Pipeline.** Intents are saved before calls, answers may be lost, jobs end beside
  the tick, the input may be replaced by a resumed collection. Attempts are bounded
  and used, a pause holds, the release is of the newest input, a rejected dispatch
  never runs, everything comes to rest.
* **Correction sessions.** What a person wrote is stored by row number and a new tree
  renumbers rows; pages and jobs act on numbers they read earlier. Nothing a person
  wrote may be lost, and nothing may end at another step or action.
* **Transfer.** Artifacts arrive one by one or in one archive, any call or write may
  fail, the disk may fill up. What is received twice counts once, a closed run is
  complete, phones do not stay paused.
* **Collector service.** Workers outlive it and may be slow to appear. A phone has one
  process, a start is not repeated, and a run stopped by the deletion of its phone never
  drives one again.
* **Resume.** Requests are repeated under one identity, executions and corrections
  arrive in any order. Results are handed out when all of what was accepted is in them,
  and consumers are not blocked for ever.
* **Releases, uploads, imports, overview.** Files are written first and records after;
  a crash leaves files nobody names, and may not leave a record without its files. The
  same data is released once, a file is uploaded once, every release is converted.
* **Task generation.** Seeds are checkpointed by a pool while rows and job are other
  files. No generated row and no edit is lost, and no job stays running.
* **Tree.** Two policies that leave out interruptions know nothing of each other.
  Sibling branches differ, a step left out is followed by the recovery that justified
  it, and a trajectory seen before adds nothing.

`PROJECT.json` lists every hazard with its line and the properties that cover it.

## 2. Modules

| Module | Models | Role |
|---|---|---|
| `CurrentArtifacts` | what a publication promises: one atomic change of the stages' artifacts and versions | abstract specification |
| `ArtifactStore` | `publish_many`, `_recover`, readers, lock, crashes and exceptions | implements `CurrentArtifacts` |
| `BatchResults` | jobs, merges, outbox and drain, drafts, exports, release | component |
| `BatchResultsProofs` | what is behind is announced, a release is current | theorems |
| `QualityExecution` | job, supervisor, worker, lease, restart | component |
| `Pipeline` | tick, fence, controls, dispatch, jobs, collector, release, conversion | composition at the grain of the tick |
| `PipelineProofs` | attempts, pauses, termination, what is published | theorems |
| `CorrectionDraft` | edits, reviews, reconciliation, boxes and COT that are saved late | component |
| `StoreDraftProofs` | the latest write stays, at its step, over `CorrectionDraft`; crash atomicity, refinement, over `ArtifactStore` | theorems |
| `CollectionReceipts` | artifacts of a streamed run, phones paused on a full disk | component |
| `ArchiveTransfer` | a run received in one archive | component |
| `CollectorService` | runs, their threads, worker processes, deletions and restarts of the repository's collector | component |
| `CollectionTransfer` | the policy that synchronises runs of either protocol; the service | composes the three above |
| `CollectionTransferProofs` | one process per phone, stops that last; evidence, completeness of a closed run | theorems |
| `CollectionResume` | requests, executions, corrections and the snapshot of a continued run | component, collector external |
| `CollectionResumeProofs` | what is handed out is final, what a stop may end | theorems |
| `TaskGeneration` | a generation job, its seeds, its rows and the batch frozen from them | component |
| `TaskGenerationProofs` | rows and edits are kept | theorems |
| `TrajectoryTree` | the prefix tree, step by step | algorithm as a state machine |
| `TreeQualityProofs` | what the tree keeps and leaves out; leases: one worker, fencing, over `TrajectoryTree` and `QualityExecution` | theorems |
| `ReleaseImport` | imports of external data and their publication | component |
| `ReleaseUpload` | upload of a release's tables, receipts, repair at a start | component |
| `TrainingCatalog` | conversions of releases into one catalog | component |
| `Publishing` | imports, releases, uploads and conversions in one service that crashes and starts | composes the three above |
| `PublishingProofs` | the invariants of imports and uploads, over `Publishing` | theorems |

An `MC` module (`MCArtifactStore`, `MCBatchResults`, `MCPipeline`, `MCCorrectionDraft`,
`MCCollectionTransfer`, `MCCollectionResume`, `MCTaskGeneration`, `MCTrajectoryTree`,
`MCPublishing`) only defines the constants and symmetry of its component's runs.
Operators announced as mutants are the plausible bugs with which each property was seen
to fail; nothing in `Next` uses them. `TypeOK` stays as documentation of a state's shape
in modules without proofs; where there is a proof, the type invariant is part of it.

### ArtifactStore

One batch. `final` is `batches/<batch>/<stage>`, `dirs`, `journal`, `changes`,
`hadPrev`, `prepared`, `previous` are the transaction directories, `reg` the registered
manifests, `commitOp` the record `artifact_commits`. A call holds the batch lock
(`holder`); `pc` and `todo` say where in the loops of `publish_many` or `_recover` it
is, so that `Crash` and `Fault` may strike between any two file operations and the
registry commit. `Publish` stands for a release (`data_publishing/service.py`), which
marks the batch published under the same lock; afterwards `publish_many` refuses.
Abstractions: a directory's content is the manifest it was made for, a checksum
comparison is the comparison of manifests; the removal of a directory is one step per
stage, in any order; a partly removed *prepared* or *previous* directory needs no state
of its own because nothing reads it once removal began; the renames of two stages may
interleave as the loop's order is not fixed. `replace_legacy` is left out.

### BatchResults

`ann`, `tree`, `qual`, `qrec` are 02_annotation, 04_tree, 05_quality and the
`quality_current` records per task, `draft` and `exported` the correction session and
the remembered export, `dataset` what a release froze, `event` the outbox record, `job`
what each running job froze when it was submitted. A drain (`pc`, `branch`, `affected`)
is one action per transaction of `drain_batch_invalidations`, so jobs, sessions,
exports and releases come in between, and `Crash` or `Raise` cut it. Abstractions: a
tree result is the annotation and the build it was made from, two judgements of one
tree are one value, `06` and `07` are invalidated alike; `batch_task_states`,
`replace_legacy` and the review copy of edited groups are left out.

A publication of annotations may drop, change and bring back any task
(`preprocessing_jobs.py:329`); `Tasks` are those of the batch's collection plan, each of
which a release expects. `NothingBehind` says of an empty outbox that nothing derived is
older than its source, with one exception. A drain that is replayed decides again from
current state which tasks changed (`batch_results.py:377-378`), and misses a task that was
dropped when the drain that was cut short had withdrawn its tree already: what was derived
from that tree stays (*Observations*). `LeftBehind` names these tasks, by the history
variable `withdrawn`: they lost their tree and no drain has yet gone through to the exports
for them. Without a fault there are none, as `NothingBehind` also says.

### QualityExecution

One batch and its jobs, one after another as the executor runs them. `job` is the job
record, `lease` the execution record with its revision, `sup` the thread that supervises
and its step, `worker` the subprocess of each job (spawned, past its gate, writing,
exited), `go` who was let through the gate, `seen` the revision a commit is made against,
`result` and `wrote` what was committed and who wrote the checkpoints last. `Stop` may
fail to confirm a death (`quality_process.py:24-39`), at most `MaxStuck` times. A crash
loses the supervisor, never the worker; `boot` and `phase` follow the restart through
`mark_interrupted_jobs`. Assumptions: the supervisor's own calls to the store do not
raise, each job is run once, a publication without a batch is left out, a job whose
process could not be cleaned up stays so.

### Pipeline

`p` is the stored record. A tick holds the pipeline's lock from its read to its last save, and
so do controls; a tick is cut where it saves an intent and calls a service, `pc` naming the
call. Beside it move the child jobs (`jobs`, `have`), the run and the collector (`run`,
`remote`), the resume head (`head`, `data`, `clean`), the release (`release`, `intent`) and the
conversion (`conv`). Three ways in which the code leaves a run whose end nobody will report are
named: `Stranded` (registered, not sent, then a restart), `Withheld` (its dispatches failed and
it never arrived) and `Revived` (closed, then set running by a late recognition); the liveness
properties promise an end for every other run. Epochs stand for the digests of collection
snapshots. `made` counts the attempts that really reached a service and is history only. `plan`
is the frozen configuration together with the bounds of the run. Details kept because properties
hang on them: `paused` after a publication whose answer was lost is not written (`Rests`), a
release intent keeps the hash of its selection (`intent`), a request that was sent and not
answered keeps the batch owned (`Busy`). Left out: several resume heads, checks at creation,
cancellation of a collection from its own page, missing records. Lines 717-720 are unreachable
and have no action.

### CorrectionDraft

`src` is the current tree of each task with its judgement, `due` the changes the draft was not
told of yet (a crash or an exception delays the drain); `snap`, `stale`, `edits`, `cot`,
`pending` are the draft: groups, tasks behind their source, edits and generated texts by row
number, what an invalidation or reconciliation set aside by step. `page` is what each workbench
shows and whether its revision is still current, `job` what the job froze when it was submitted
and must find again in a draft that moved on. `want`, `last` and `boxed` are history only: what
a person last chose for each step, which field was written last, if the row had its number
alone, and the steps where a job saved a box into an otherwise empty row beside a copy for
review. Such a row counts as edited when it is set aside again and replaces the copy, which may
hold a person's last write (*Observations*); `LatestWriteKept` is of all other steps.
Abstractions: one step per trajectory, one target per job, one row per page; the workbook,
overlays and wording are left out, exports are in `BatchResults`.

### CollectionReceipts, ArchiveTransfer, CollectorService, CollectionTransfer

A behaviour of `CollectionTransfer` is the life of one run of either protocol, or that of the
collector service by itself, chosen at the start. In `CollectionReceipts`, `list` is what the
collector will publish, `row`, `claim`, `dir`, `temp`, `run`, `store` what the platform has on
disk, `mem`, `sync`, `work` its memory; ingestion runs in threads beside the sync. `full` is the
disk: while it is, any write may fail. In `ArchiveTransfer`, `step` walks through download,
extraction, journal, rename and completion, and a crash or failure leaves what there is to the
next sync. `policy` is `RemoteSyncPolicy`: active (with any back-off), paused for a person,
complete. The collector and the network are external. Left out: the cleaning of artifacts by the
collector, publication of a batch in mid-transfer, protocol 1 streaming, inline manifests,
paging, the limit of two threads (any number may work).

In `CollectorService`, `record` is the table of runs, `frozen`, `fence`, `launch`, `marker`,
`barred`, `completion` the files of a run and of each of its phones; `worker` is the process
of a phone of a run, which has left its number (`marked`) before it asks whether it may go on;
`thread`, `task`, `got`, `cancel` are the service's memory, lost by `RestartService`; `op` is
the submission or deletion that holds the lock `mutations`. `LaunchLockFree` is
`_launch_lock`, which a phone's thread keeps from its first look to its number's record.
Rows are read and saved in two steps, since a `SELECT` opens no transaction. `launches` and
`stopped` are history only. Abstractions: a run is submitted once with given phones, and a
submission that is refused changes nothing; results are "empty" or "whole"; `partial` is
`succeeded`; a process identity is never mistaken. Left out: rows and directories of phones,
reports, what a worker does with its phone, writes that fail.

### CollectionResume

`rev`, `execs`, `known`, `corrs` are the collector: it takes a request once, for its
current revision and when nothing runs, and only its answers get lost. `ops` are the
durable requests, `head` blocks consumers, `intent` is a stop; `registered`, `rows`,
`closed`, `cursor`, `stored` are executions, receipts, corrections and the snapshot.
`worker` is the thread that refreshes a run, with what it read before (`index`, `read`),
so corrections, stops and further requests come in between. Previews are not stored, so
a request may be for any earlier revision. Left out: the projection of a snapshot to
tasks, diagnostics; an execution's receipts arrive as a whole.

### TaskGeneration

`disk` is what survives: job, seeds, rows, the folder that was renamed and the registered
artifact; `queue`, `worker`, `pool`, `answer` die with the process. An operation of
several writes holds two locks, so its intermediate disks are seen by a restart or by the
handler of an exception only: `cuts` is the set of disks an operation may leave. Exceptions
strike where the code lets them: before a call's `try`, in it, and in the handler
(`Handled`, `Fail`). The first and the last leave the job queued or running with nothing at
work on it (`Stranded`). One job,
one row per seed of an augmentation, one task with an optional preparatory one per unit of
an initial generation; the store of task trees (`tree_store.py`) is left out.

### TrajectoryTree

`nodes` is the tree, `at` the node the last trajectory stands on, `decided` per trajectory
what became of each step. One action per way a step is decided: reuse of a sibling that
matches, a branch, the end, a short run that is skipped, a gap that is left out because
two later steps rejoin the tree. The classifier's and the reviewer's answers are free
choices. A box is a set of points, so that boxes may overlap and match without being equal,
and matching is not transitive, as in the code. Names, statistics, images and texts are
left out (a flag stands for a summary that speaks of a launch). An argument "none" is a missing one: a
swipe without a direction matches nothing, itself included.

### ReleaseImport, ReleaseUpload, TrainingCatalog, Publishing

`Publishing` is one service with four phases after a crash: uploads, imports, overview,
up (`api.py`, lifespan). `imp`, `releases`, `byFile`, `byContent`, `answers` are the
records of imports and releases; `upload`, `staging`, `final` their directories, whole or
torn, as `rmtree` and copies take a while; `call` is the one call that holds the lock.
`jobs` and `summary` are the two records a save of an upload writes one after the other,
`saving` the save in between; `sender` is the thread's copy of its job, `sent` history.
`conversions`, `rows`, `exported` are the catalog; `told` the releases whose page has yet to
ask for a conversion. `faults` counts crashes and exceptions together. Abstractions: the
release of an import has the import's name, one preview per import, what is left of
interrupted conversions is not counted, `StartConversions` is one step, time stamps of jobs
agree with their order of creation.

## 3. Runs

| Run | Question | Bounds |
|---|---|---|
| `store_safety` | crash atomicity, lost updates, refinement | 2 threads, 2 stages, 2 payloads, 3 transactions, 2 faults |
| `results_invalidation` | is anything derived behind its source? do other tasks survive? | 2 tasks, 2 jobs, 2 annotation versions, 2 faults or removals |
| `results_release` | does a release freeze what belongs together? is the outbox drained? | 1 task, 2 builds, 4 versions with removals, 2 faults, fairness |
| `quality_fencing` | one worker, no revoked result, status agrees, every job ends | 2 jobs, 3 lives of the service, 2 unconfirmed kills, fairness |
| `pipeline_histories` | retries used, pauses, termination, publication, dispatch | four plans, 2 attempts, 1 restart, 1 manual retry, 1 resume |
| `pipeline_ends` | does everything come to rest? | three plans (over existing data; a dispatch that may go wrong in every way, with a resumed collection and a manual retry, or with a restart), fairness |
| `correction_drafts` | does a person's last word stay, at its step? | 2 tasks, 2 trajectories, 2 prints, 2 pages, 1 job, 4 publications, writes and failed drains together |
| `collection_transfer` | is evidence kept, a closed run complete, every run received? has a phone one process, is a stopped run stopped? | both protocols, 2 artifacts, up to 2 faults and one full disk, 4 mishaps of an archive, limits 2 (3 and 8 in the code); the service with 2 runs that want one phone, 1 restart, 1 deletion; fairness |
| `collection_resume` | are results final when handed out? is every block lifted? | 2 requests, 2 instances, 1 correction, 1 stop, 1 fault, fairness |
| `task_generation` | are rows and edits kept, do jobs settle? | 2 seeds, 2 crashes, 2 exceptions, 1 edit, fairness |
| `tree_building` | do siblings differ, do skips recover, are repeats absorbed? | six actions; up to four trajectories, one of five steps; at most 2 steps skipped |
| `publishing` | are releases whole and single, receipts kept, releases converted? | 4 imports, 1 release of the platform, 2 requests, 2 tables, 3 jobs, 2 faults, fairness |

All pass. Why these bounds are enough to be interesting: two faults let a crash hit the recovery
of a crash; three transaction identifiers let a leftover meet two later publications; two
threads suffice since the lock admits one and the other can only hold a stale version; two tasks
and two jobs are the least with which one task's update can harm the other's; four annotation
versions let a task be dropped and come back; three lives let a worker of the first survive into
the third; two attempts distinguish "first", "last" and "given back" as three would. Four
publications, writes and failed drains move a row away and back, rename what a job froze and
what a page read, and reach the overwritten copy that `LatestWriteKept` excludes; of the
requests to a job the fullest is run, whose steps hold those of the others. One exception can
end a call's `try`, two its handler. Three upload jobs let the third inherit receipts over two
interruptions. The four imports are the cases of `_duplicate`: equal file, equal content, equal
file with other metadata, a file of the platform. Five steps hold a gap, its two confirmations
and a step to either side. Each mutant listed in `PROJECT.json` is a plausible bug that these
bounds expose.

`CHECK_DEADLOCK FALSE` is set where the bounds, or a batch, run or job that is done, really
stop the model.

### Fairness

* `BatchResults`: a drain that began goes on, a service that died is restarted. Nothing
  forces a job to end or a person to act. After an *exception* nothing retries by
  itself (the event waits for the batch's next publication or a restart, which nobody
  promises), so `EventSettles` is checked for crashes; `NothingBehind` is for both.
* `QualityExecution`: the supervisor and the restart go on, the executor takes a queued
  job, and a worker that was killed or has nothing left to do exits. A worker that works
  need not finish, which is what deadline and kill are for.
* `Pipeline`: the poll loop ticks, job threads end, the collector ends its runs, the
  transfer, the resume service and the conversion go on. Controls, crashes, changes
  of configuration and late requests are never forced.
* `CollectionTransfer`: the poller comes back to a run that is active, a sync and its
  threads go on, the collector publishes and ends, a full disk is emptied at last. A row
  that waits for its next attempt is due some time, also if it is not due at each sync:
  strong fairness of `Select({})`. Nobody asks for a paused run. The
  service's threads and workers go on, as every wait of theirs has a deadline, and so does
  a request; nobody has to submit, delete or restart.
* `CollectionResume`: the worker and the collector go on, executions are received.
* `TaskGeneration`: the executor and its pool work, a restart completes; people need not
  confirm, so `JobsSettle` counts a job that waits for a person as settled. A restart is
  not forced either while the service is up: it settles a stranded job if it comes.
* `Publishing`: each phase of a start goes on, the two worker threads go on. Nobody has to
  publish, upload or ask for a conversion.

## 4. Proofs

All theorems are of the specification of their model (`Spec`, or `DraftSpec`, `TreeSpec`,
`ServiceSpec`), for any constants that satisfy the named assumptions.

* **StoreDraftProofs**, of the store (from `ConstantsAssumption`). `Invariance` proves `[]IInv`,
  whose parts are: at most one transaction directory, its identifier fresh
  (`TransactionsInv`); what a pending journal promises for each stage, and where the
  registered content of a stage is if it is not in place (`UndoInv`); where a call
  stands (`CallInv`); what has been prepared and swapped (`PublishInv`, `SwapInv`); what
  a recovery has undone (`RecoverInv`). Crash atomicity alone is not inductive: a crash
  in the middle of a swap preserves it only because the journal still tells, per stage,
  whether the old directory is in `previous/` or still in place. `CrashAtomicity`,
  `ReadersCorrect` and `NoUpdateLost` follow. `Refinement` maps every step to one step of
  `CurrentArtifacts` (the registry commit, a release) or to a stutter.
* **StoreDraftProofs**, of the drafts (from `DraftAssumption`: a task's judged sources are of
  that task). `DraftInvariance` proves `[]DraftInv`. Rows whose task is not stale have a number
  of their own; a reconciliation numbers stale rows below zero, where two may share one
  (`SnapInv`). A page whose revision is current shows the row as it is (`PageInv`), and nothing
  is stored under a number without a row (`EmptyInv`). `LatestWriteKept` is not inductive: the
  latest write may be in the review copy, which the row's own edit replaces when the row is set
  aside again. `RowInv` says that a row that is edited at all has the latest write itself, so
  that nothing is lost then, unless a job alone has edited it (`boxed`). A number that rows
  share keeps no latest write (`SharedInv`), since of its rows an invalidation sets aside the
  first one met. `LatestKept` and `Placed` follow, for any number of tasks.
* **TreeQualityProofs**, of the leases (from `ConstantsAssumption`). `Invariance` proves
  `[]IInv`: `SupInv` (what the supervisor's place says of lease and process), `LeaseInv` and
  `CommitInv` (every lease update takes a new revision, so a worker whose remembered revision is
  still current sees an active lease), `EndInv` (a job that ended has no active lease). One
  worker at a time needs the rest because the gate is opened by a supervisor that may die before
  anyone hears of the worker: a new execution starts only if no lease is active and every
  recorded process has exited, and "exited" is recorded only of a dead process or one that never
  passed its gate. `AtMostOneWorker`, `StatusIsCommit`, `Fencing` follow.
* **TreeQualityProofs**, of the tree (from the assumptions on actions, points and feeds).
  `TreeInvariance` proves what each decision says of its step (`KeptGood`, `LeftGood`,
  `KindGood`, `GapGood`), where the trajectory stands (`CursorInv`), which gaps have been
  announced and not yet rejoined (`RejoinInv`) and that a trajectory that repeats an earlier
  one follows it (`RepeatInv`). The key is that nothing laid changes and new nodes are
  younger, so a sibling that matched first still does. `Paths`, `Siblings`, `Recovery`,
  `Absorbed` follow.
* **BatchResultsProofs** (from `ConstantsAssumption`). `ResultsInvariance`: outside a drain,
  what is behind its source is announced, at the stage that will find it (`OutboxInv`); a drain
  is in one branch at one step, and nothing is announced once the batch is published
  (`PlaceInv`); what each branch has brought into line so far, the affected tasks first and
  then, step by step, all there is of them (`DrainInv`: `AnnotationInv`, `TreeInv`, `LastInv`). A
  branch may leave only what a later one will do, and an event that is replayed finds the rest
  where it was left. A release finds the outbox empty (`batch_lifecycle.py:84`), so
  `ReleaseIsCurrent` follows, and `Behind`, for every annotation that is dropped and every
  fault. `OthersSafe` is of steps.
* **PipelineProofs** (from `PipelineAssumption`: `MaxAttempts` at least 2, three in the code
  (`pipelines.py:29`), and plans that are subsequences of `STEPS`). `PipelineInvariance` proves
  `[]IInv`. The walk stands at one step, what comes before is closed, and only the current step
  waits or has failed (`WalkInv`). A call is under way only in a pipeline that runs and is not
  held, as a control finds the lock taken (`HeadInv`, `CallInv`); since nothing is sent, submitted
  or published outside a call, `PausesHold` follows, and `PublishedCurrent` with what
  the publication checks. The run's record says what may be at the collector: a dispatch that is
  given up as rejected was never sent, or was refused (`RunInv`); `NothingLeft` follows.
  `AttemptsUsed` is the long part (`TriesInv`, `MadeInv`): the counter exceeds the attempts that were
  made by the one under way, and a restart between the save of an intent and the answer leaves
  a job no step is bound to (`U`), which the next attempt adopts instead of submitting one.
  `PipelineTyped` is the type invariant.
* **CollectionTransferProofs**, of the service (from `ServiceAssumption`). `ServiceInvariance`
  relates the thread of a run on a phone, its launch record, the fence, the process and the row.
  A process exists only behind a start that was recorded, and works only once its number is
  written (`LaunchInv`); a fence is set under the lock of the launch, so that a process that
  appears after it gives up (`FenceInv`); what a run left when it ended may not begin to work
  (`DoneInv`); a run is accepted under the service's lock when no other has the phone
  (`PhoneInv`). `OneProcess` and `Stopped` follow. Without the fence a process started before a
  crash, and slow to appear, would meet the next run's on its phone.
* **CollectionTransferProofs**, of the transfer (also from `ReceiptAssumption`,
  `ArchiveAssumption`, `TransferAssumption`). `TransferInvariance` joins the invariants of
  the two protocols, the policy and the service. Streamed: an entry is registered only with its
  claim, bytes are checked before they are moved, a directory is filled once (`ClaimInv`); what a
  sync has read is registered, all of it when the list was closed (`ListInv`); a run is closed
  with nothing pending and no sync starts after (`CloseInv`). Archived: the archive is in one of
  its two places from its verification on (`ArchiveInv`). The number of failures stays below the
  limit while a sync runs (`PolicyInv`). `Evidence`, `Completeness`,
  `ServiceInside` follow.
* **CollectionResumeProofs** (from `ResumeAssumption`). `ResumeInvariance`: what the collector
  knows was put on record first and is counted in its revision (`KnownInv`); an answer on record
  is of a request it knows (`RecordInv`); a stop is asked for at a revision that whatever was
  submitted later has passed once the collector takes it (`StopInv`: one that is not blind), so it
  is refused when it comes too late, which is `Scope`. The worker reads the index between the
  requests and the receipts and applies corrections before: the index it holds counts every
  request known since and lacks no correction applied since, and while the head's revision is the
  one it read the requests are as it read them (`WorkerInv`), for every submission and every
  correction moves it. What is handed out therefore covers what is known, then and as long as
  the head stays (`SettledInv`), and `Final` follows. The argument does not use the
  guard on the snapshot's revision (`collection_resume.py:499-504`): with an index that is read
  whole it is redundant.
* **TaskGenerationProofs** (from `BoundsAssumption`). `GenerationInvariance`: the disk is
  sound (`Backed`: a seed shown as generated has a row; `Untouched`: nothing has rows before
  they were asked for), the executor holds one call at most and its thread is where the job's
  status says (`WorkInv`), and while a generation runs each row there is belongs to a seed that
  is done and is among its answers (`AnswerInv`), which is why the write that replaces all rows
  at the end loses none. Soundness is proved of every disk an operation may be cut at, so that a
  crash needs no argument of its own. `Backing` follows, and `NothingLost` from the same steps:
  edits need rows, and no call that would replace rows is queued or running where a person may
  edit.
* **PublishingProofs** (over `Publishing`). Imports (from `ImportAssumption`): what is renamed
  or registered is whole (`FilesInv`); what the indexes name is registered and of that data
  (`IndexInv`); what is registered is in both indexes (`OwnInv`); answers name releases
  of the data that was asked for (`AnswerInv`). `Whole` needs them since a publication that
  raised after its commit stands at the same place as one that raised before. `Once` is
  `OwnInv`. Uploads (from `UploadAssumption`, `PlansAssumption`), `ChainInv`: later jobs
  of a release have the receipts of earlier ones, none has more than the one that is shown, so
  attempts never decrease and "before" is "created before" (`BeforeIsOlder`). `QueueInv`,
  `SenderInv`: what waits or runs is the last job of its release and the one shown, and no
  other of that release waits. `SavingInv`: what a save that is cut in two is about.
  `StartInv`, `RepairInv`: what a start has looked at is shown, or something later is. `Shows` and
  `Never` follow.

Only model-checked: every liveness property. Out of the prover's reach: liveness under fairness
and `ENABLED`; induction over data, hence what a recursive definition computes for every input.
No module uses RECURSIVE operators. Every inductive invariant was first checked by TLC on its
component's run, or a smaller instance of it.

## 5. Observations

What the models do because the code does, against what one might expect of it.

Store and results
* `commit.json` is written in place (`artifacts.py:294`): a crash leaves a torn journal, on
  which every later recovery raises (`artifacts.py:148`) until somebody removes it
  (`JournalOpen`, `ScanTorn`).
* A drain decides again from current state (`batch_results.py:377`): a task whose annotation was
  dropped while an earlier drain stopped behind 04_tree keeps its judgement, record, draft and
  export (`LeftBehind`; `DATA_STORAGE.md:63`, `:73` say otherwise), and a change that was put
  back is missed.
* A revoked quality execution can still write a checkpoint (`quality_execution.py:168`); its
  result cannot be published.

Pipeline and collection
* A resumed collection drops the retry policy (`pipelines.py:657`). A restart may leave a job that
  no step is bound to, and a later attempt adopts it, though a person's retry granted new attempts in
  between (`pipelines.py:590-596`, `:443-447`): with two restarts an attempt can be counted that was
  never made. `RetriesKept` is what holds.
* A restart between registration and dispatch strands the pipeline (`pipelines.py:743`): the run
  is taken for sent. `Stranded` in `Settles` and `TerminationEnds`.
* A pipeline terminated after a dispatch that was attempted and failed keeps its batch when the run
  never arrived (`pipelines.py:333`), as nobody fetches the status it waits for. `Withheld`.
* A run closed as failed before its dispatch is retried is set running again
  (`collection_runs.py:315`), and nobody closes it a second time. `Revived`.
* A release intent keeps the hash of its selection over a failed publication and a resumed
  collection (`pipeline_release.py:383`).
* `_extract` turns a full disk into a `CollectionRunError` (`collection_transfer.py:255-256`), so
  the archive's transfer does not pause as `collection_artifact_transfer.py:276-277` has it; a
  crash between `complete_received` and the last update leaves the transfer shown as waiting.
* Collector service: a run's row is read and saved in two steps (`core.py:436-439`, `:248-252`),
  so an interruption can be overwritten by `running`, or an end by an interruption; the run then
  stays active without a thread until a restart, which is why `TransferEnds` leaves out runs
  that a deletion has stopped. A thread that takes over a process which just exited reports an
  interruption though its results are there (`adapters.py:215-219`). A deletion that fails at
  its second run leaves the first one active until a restart.
* A pause whose acknowledgement was not recorded is not lifted when the phones had been paused
  before (`collection_receipt_storage.py:91`).
* A streamed run never reports an observation to the policy, which therefore never pauses it.
* A snapshot that was stored before is kept while the head takes a new digest, which
  `current_input` then refuses (`collection_resume.py:588`). A stop may be sent without a known
  execution (`:644`, out of `StopScope`); one right after a submission is refused as the head
  lags.

People's work
* A second invalidation overwrites the review copy of the first
  (`trajectory_correction/service.py:396`); the docstring of `session_state.py:1` says lossless.
  A person's last write is lost that way when a job saved a box for the step beside the copy
  (`cot_jobs.py:327`), against `DATA_STORAGE.md:70`: an empty edit does not replace the copy, a
  generated box alone does. `boxed` in `LatestWriteKept`.
* A COT request finds an earlier job that succeeded although its text was discarded since.
* A reconciliation numbers a stale row `-abs(old)` (`session_state.py:50-53`), also one that it
  numbered before, so with three tasks two stale rows may share a number. A patch of the one is
  then an edit of both (`service.py:98`), though rows are to be told apart by their step
  (`DATA_STORAGE.md:69`). `NothingMisplaced` is of rows that have their number alone, and a write to
  a shared number is no one's last.

Tasks and trees
* The first write of a call's status, and the log behind it, stand outside its `try`
  (`task_generation/jobs.py:426`, `:462`, `:517`), as does the submission of an initial job (`:318`):
  an exception there, or in `_fail_augmentation` (`:412`), leaves the job queued or running until
  the next start. An exception after a job's last write, for example of the log (`:478`), turns
  "succeeded" into "failed". `Stranded` in `JobsSettle`.
* A stop between seeds and job (`task_generation/jobs.py:145-161`) lets the next start take an
  interrupted classification for a complete one. The directory is renamed before 00_collection is
  published (`:645`): a crash in between leaves it unregistered for good.
* The two skip policies together leave out more than two steps in a row (`tree_builder.py:811`,
  docstring `:4`), and a resynchronisation may leave out an "open" that one of them would not.
* A click without a box does not match itself, so a repeated trajectory with one opens a second
  branch; `SiblingsDiffer` and `RepeatsAreAbsorbed` are about steps that match themselves.

Releases
* A conversion's exception handler removes the files even when its commit arrived
  (`training_data_overview/service.py:275`): the catalog names missing files until the next
  conversion (`CommitCatalogUnheard`). Interrupted conversions leave directories nobody cleans.
* A save that raises twice leaves an upload "uploading" until the next start (`Reported`). A
  submission that fails after its record leaves a job without a summary, which a later job
  equals in its attempt; their order is then that of their time stamps.
* A release whose page was cut off is converted only at the next start.
* `_recover_record` has a branch for a release that is registered while its import still is
  "publishing" (`external_imports.py`), which one transaction makes unreachable.

## 6. Not modelled

`PROJECT.json` gives the reason per component. The largest parts of the code are sequential
computations without state that outlives them: the rubric library and its example scripts
(`DevelopRubrics/`), image processing and bounding boxes, workbooks and exporters, prompts,
statistics, read-only pages and HTTP routing, migrations that run while the service is down.
They, and long validation of manifests and records, are why the map covers about a seventh of
the lines. Durable intents of device control, rollout imports, the dispatch of evaluations and
the reservation by command-line operations repeat shapes that `CollectionResume`,
`ReleaseImport` and `CollectionTransfer` model, and were left out for that reason. The store of
task trees is versioned JSON under one lock. What is left out of a modelled component is named
in its section above.
