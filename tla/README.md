# Prep My Avatar: a TLA+ model of the backend

Prep My Avatar prepares image datasets of one person, trains a LoRA on them and
tests the result. Its Flask backend (`backend/app`) is one server process with
an SQLite database. What makes it hard is everything that happens beside the
requests: an image queue with a worker thread, a GPU that generation, vision
and training share by a lease, a trainer process that outlives the server, a
persisted training queue, test runs of many jobs, uploads that must not be
done twice, rented machines that cost money until they are given back, image
rows that requests, model passes and late answers write without one lock, and
an update that replaces the running program. State lives in rows, threads commit one row at a time, and the
process can die between any two commits. The modules here model those parts;
paths below are relative to `backend/app` unless they say otherwise.

## 1. Inventory

| Component | Source | State it keeps | Operations | Model |
|---|---|---|---|---|
| Image job queue | `job_queue.py`, `models.py` | `ImageGenerationQueue` rows (status, prompt id, result, `completion_pending`) | add, claim, submit to ComfyUI, publish prompt id, poll, terminal commit, deliver, acknowledge, cancel, start-up recovery | `JobQueue`, `Outbox` |
| GPU lease and flags | `job_queue.py`, `gpu_window.py` | `SystemState` rows `gpu_workload_lease`, `vision_in_progress`, `training_in_progress`; the token in memory | acquire, renew, release, open and close a vision window, start-up clean-up | `GpuLease` |
| Test Studio | `services/studio_lifecycle.py`, `studio_storage.py`, `lora_test_studio.py` | `LoraTestImage` rows: one cell of a grid each | create, resume, cancel a run; link a finished job to its cell | `StudioRuns` (over `JobQueue`) |
| Local training | `services/lora_training*.py` | `SystemState` rows: queue, launch id, launch record, flag, PID, remembered lease; the trainer process | enqueue, dequeue, scheduler tick, launch in phases, adoption, roll-back, stop | `TrainQueue` |
| Background job ledger | `services/background_jobs.py` | `BackgroundJob` rows | create_or_get, touch, recover_interrupted | `BackgroundJobs` |
| Hugging Face publication | `services/hf_publish.py` | ledger row, `_jobs` in memory, the repository on the Hub | start, create repository, mark, upload, remove, unmark, report, end | `Publish` (over `BackgroundJobs`) |
| Cloud training | `services/cloud_training.py` and its clients | `CloudTrainingRun` rows, rented machines, the job on the machine; stop events in memory | admit, provision, seed, submit, monitor, stop, sweep, recover | `CloudRun` (refines `Rental`) |
| Dataset images and Trash | `services/face_dataset_service.py`, `trash.py` | `FaceDatasetImage` rows, picture files, Trash entries with manifests | generate, regenerate, link an answer, delete, restore, swap back, empty | `ImageStore` |
| Curation history and passes | `services/curation_history.py`, `caption_origin.py`, `face_dataset_service.py` | image columns, batches of recorded edits | decide, caption, replace, crop, dismiss, undo; captioning and watermark passes | `Curation` |
| Pairs of a photo and its versions | `services/face_dataset_service.py` (reconstruction, rescue) | the status of a photo and of the candidates made from it, their jobs | improve, rescue, resolve, status requests and undo, link an answer, stop, normalise at start | `Pairs` |
| Updater | `services/updater.py`, `backend/update_recovery.py`, `source_launcher.py`, `run.py` | checkout, Python environment, database, journal, pre-migration image | apply, roll back, restart, recover, boot, acknowledge | `Update` |
| Training snapshot | `services/training_snapshot.py`, `checkpoint_registry.py`, edits in `face_dataset_service.py` | the copy under way; rows, files and revision of the dataset it copies | list, copy, compare, publish; decide, caption, crop, trim, inpaint, delete meanwhile | `Snapshot`, `CloudLaunch`; provenance and reuse are not modelled (section 7) |
| Rest of the dataset service | `services/face_dataset_service.py` | dataset rows | import, create, backup, coverage, analysis | not modelled |
| Everything else | engines, scraping, analysis, exports, routes, frontend, CLI, packaging | none that interleaves, or none at all | | not modelled (section 8) |

How they interact:

- **Studio -> queue.** `create_run` inserts a cell row, then a job row carrying
  the same job id, in two commits. The worker calls back
  `link_completed_test_image(job_id, …)` when the job ends; `cancel_run` calls
  `cancel_job`.
- **Queue, vision, training -> GPU lease.** Each checks the flags and then
  inserts the lease row; the expiry is wall-clock time, renewal is a thread
  (vision), a heartbeat (generation) or the scheduler (training).
- **Training queue -> launch.** The scheduler tick and the watcher thread call
  `_advance_training_queue` under `_queue_lock`; it and the web route call
  `_launch_training` under `_TRAIN_LAUNCH_LOCK`; stop takes neither.
- **Publication -> ledger.** A request creates a ledger row and a thread; the
  thread writes its progress and its end to that row, its result to memory.
- **Cloud runs -> provider.** Each run has a monitor thread; sweep, stop
  requests and recovery work on the same rows and machines. A lock
  (`_RECONCILE_LOCK`) covers the sweep and the registration of a new machine, nothing else.
- **Launch -> snapshot -> dataset.** A launch of a cloud run copies the dataset between the admission of the run and the start
  of its monitor, without a lock: edits go on meanwhile, under the curation lock, the trash lock or none, and the copy
  notices them by a revision that triggers count, by time stamps and by reading the settings again.
- **Pairs.** A resolver decides both rows in one transaction; undo and status requests hold the curation
  lock, the improve request the generation lock, callback and Stop none.
- **Image rows.** A picture is swapped under the trash lock, a recorded edit is
  made under the curation lock, decisions, passes and failing answers take neither. They meet in the ORM,
  which writes the attributes a session changed from what it had read.
- **Image tiles -> queue or provider.** A tile waits for a job of the image
  queue, whose outcome the outbox owes, or for a thread that calls a provider and dies with the server.
- **Updater -> next process.** The process that applies an update and the one that
  recovers, boots and acknowledges it share only the journal and the files.
- **Start of the server.** The start clears the vision rows, closes the rows of the
  ledger and replays the outbox before the worker and the scheduler start.

What is hard in each, and what correctness means there:

| Component | Hard behaviour | Correct means |
|---|---|---|
| Queue | a crash or failing commit at each of six commits; a cancel that writes what it read earlier | no prompt twice, no outcome lost, an ended row does not revive, everything ends |
| Lease | expiry under a slow holder, a renewal in flight when its window closes, a restart | exclusion up to a lapse or a release by a roll-back or stop, dead rows block nobody for ever |
| Studio | launch, cancel, resume and callback interleave row by row | no cell waits for nothing; a shown image is a committed one, of the right job |
| Training | a trainer survives its server; two launch paths; a stop without lock; stale copies of rows | one trainer, always behind the flag; a queued item is tried, once |
| Ledger | duplicate launches, late workers, ghosts of a dead process | one active row per key, ended rows final, no ghosts |
| Cloud runs | monitor, stop, sweep and recovery act on one machine; calls fail or their answer is lost | one machine per run, metered while it is up, given back; one job on it, seeded; the run ends |
| Snapshot | rows and files are read one after the other while they are edited; an edit writes its file and commits its row in two steps | what is published is the dataset at one moment |
| Images and Trash | files move before the commit and move back after a failure; answers arrive for rows deleted or swapped since | no shown picture is lost but by Empty Trash; rows and files agree; tiles settle |
| Curation | undo out of order; a pass writes a row the user edited while the model ran | the row shows the newest edit that stands; no written caption is replaced |
| Pairs | resolvers, undo, callbacks and Stop decide over rows they read earlier; old data with several candidates | of a photo and its versions one is admitted; a decision stands |
| Updater | four things change revision one after the other; the user edits meanwhile | one whole revision is served; what was acknowledged stays; local work survives |
| Publication | effects outside the database; resuming after a crash | done means uploaded; what is not ours is untouched; it ends |

`PROJECT.json` lists the hazards at their lines and which property covers each.

## 2. Modules

| Module | Stands for | Uses |
|---|---|---|
| `Outbox` | abstract: what the queue promises of a job | |
| `JobQueue` | the queue, its worker and its recovery | refines `Outbox` |
| `StudioRuns` | one owner of the queue's jobs | extends `JobQueue`, refines it |
| `GpuLease` | lease, flags, renewal | |
| `TrainQueue` | training queue, launch, trainer, stop | |
| `BackgroundJobs` | the ledger | |
| `Publish` | two users of the ledger: publication, with the Hub, and the setup installer | extends `BackgroundJobs` |
| `Rental` | abstract: a machine that is rented once and metered | |
| `CloudRun` | cloud runs, their monitors, sweep and recovery | refines `Rental` |
| `Snapshot` | the copy of a dataset and the edits that go on meanwhile | |
| `CloudLaunch` | the launch of a cloud run over the copy of its dataset | extends `CloudRun` and `Snapshot` |
| `ImageStore` | one image, its versions on disk and in the Trash, its generations | |
| `Curation` | the edits of image rows, their history and the passes | |
| `Pairs` | a photo with its reconstruction or rescue, and who decides between them | |
| `Update` | the in-app update over checkout, environment, database and journal | |
| `StudioProofs`, `GpuLeaseProofs`, `TrainQueueProofs`, `PublishProofs`, `CloudRunProofs`, `DatasetProofs`, `PairProofs`, `UpdateProofs` | the machine-checked proofs | each extends its modules (`DatasetProofs`: `Curation` and `ImageStore`); what is proved of `JobQueue`, `BackgroundJobs` and `Snapshot` stands in the module of the one that extends it |
| `MC*` | constants for TLC | |

One rule fixes the granularity everywhere: **an action ends at a database
commit or at a call of another process**, so that two rows written one after the
other are two actions. What a thread does between two of these is invisible to
everyone else; reads that follow each other are one step. The exceptions are rows
nothing in the model tells apart (the log path or target step of a training,
written along with its flag). What a thread read before its commit and
uses after it is kept in a variable of the thread (`worker`, `cancels`,
`launcher`, `canceller`, `linking`, `adv`, `call`, `touching`): those are the stale copies
most hazards are about. A crash resets those variables and nothing else.

**JobQueue.** `status`, `pending`, `prompt`, `result` are the columns of a row;
`worker` is the program counter and the locals of `process_one`; `remote` is
what ComfyUI knows; `sent` and `heard` are history. `Pick`, `Claim`, `Submit`,
`Publish`, `Poll`, `Reread`, `Settle`, `DeliverSettled`, `CallbackEnds` and
`Ack` follow `process_one`, `_execute`, `_poll_outputs`, `_mark_terminal`,
`_dispatch_completion` and `_deliver_pending_completion` in order.
`CancelRead`/`CancelWrite` are the two halves of `cancel_job`, which writes
by primary key. `RecoverOutbox`, `RecoverProcessing` and `RecoveryDone` are
`_recover_stuck_jobs`. Each commit may fail (`Fault`), with what the code does
then: the publication is retried once (`republish`), a failed terminal commit
leaves the row as it is, a failed acknowledgement leaves the outcome owed and,
during recovery, stops the start. ComfyUI may accept a prompt and lose its answer (the second
disjunct of `Submit`). The GPU is one flag, `gpuBusy`, that others change
whenever the worker holds no lease.

**StudioRuns** replaces the queue's callback by the steps of
`link_completed_test_image`: read the cell, copy, commit, or fail and let the
worker mark the cell failed. `Launch`, `LaunchRow`, `Enqueue`, `EnqueueFails`
are `create_run` and `resume_run`; `CancelRun`, `CancelCell`, `CancelCellJob`,
`CancelRow` are `cancel_run`. That the property `QueueSpec` holds of it means
that the composed system does to the queue only what `JobQueue` allows, so the
results about `JobQueue` carry over.

**GpuLease.** A hold is one use of the GPU and its own token. `Ask` is the
check of the flags, with the delete of a lapsed one (`Wipe`),
`Compare`/`Purge`/`Insert` are `_acquire_gpu_lease` with the
commit of the purge in between, `Begin` raises the flag, `RenewLease` and
`RenewFlag` are the two commits of the renewal thread, `Join` the timed join
before a window closes, `ReadFlag`/`LowerFlag` the check and the delete of its flag,
`Release`/`Forget` the row and the token in memory. A training is admitted by the same steps, then
`Remember`, `Raise` and `Spawn` are the rows its launch writes and the process it starts; it never looks
again whether the lease is still its own. Its lease is given back by others: `Clears`, `FailLaunch` and `HandsBack`
are the stop or roll-back, the failed launch and the tick that finds a training over, each of which reads the
stored token and then goes through `ClearRow` … `ClearStored`. The model lets a stop or roll-back begin
at any time, which includes the ones that find no PID while the trainer is about to be spawned or
runs (`lora_training_queue.py:340`, `lora_training_process.py:611-623`); whether they do is decided by launch
record and PID, which are in `TrainQueue`. So is the lease a tick claims for a live trainer whose token
was cleared (`AdvanceRenews`); here such a trainer stays without one. Time is not counted: a row may lapse whenever it is
not renewed.

**TrainQueue.** A run is an attempt to launch; its number stands for launch
token, lease token, PID and process. `adv` holds what a tick has read (list,
PID, flag of a vision window), `call` what a launch has read (the launch id). `Owned` is
`_owned_training_process_alive`; a trainer found by its command line is adopted by two
commits (`AdoptLaunch`, then the PID) in the tick, in a launch and in a stop. A tick that finds its trainer
alive goes through `AdvanceDrops` … `AdvanceRemembers`, one that does not through
`AdvanceCompensates`, then either `AdvancePrepares` … `AdvanceForgetsLaunch` or
`AdvanceReleases` … `AdvanceForgetsToken`. `Clear(k)` is the k-th row that
`_clear_failed_training_state` writes, for a roll-back, a failed launch or a stop. `TakeLock` … `Identify` are the phases of
`_launch_training`: prepared, lease, token stored, spawning, flag, spawn, PID,
running; `FailLaunch` is its roll-back. `StopLooks` … `StopClears` are `stop_training`.

**BackgroundJobs.** `Create` is `create_or_get` under its lock;
`TouchReads`/`TouchWrites` the read and the conditional UPDATE of `touch`;
`Recover` the bulk UPDATE of the start.

**Publish.** `memory` is the entry of `_jobs`, `at` the place of each thread,
`phase` the progress column of its row. `StartPublish` decides whether the new
attempt may resume (`Owns`), `CreateRepo`, `MarkCreated`, `Upload`,
`RemoveRepo`, `MarkRemoved` are `publish_to_hf`, `Report` and `TerminalRow`,
`TerminalFails` the end of the thread with the retries of `_terminal_job`. The
Hub and the user act through `repo`. `SetupStarts`, `SetupReads`, `SetupRecords` and `SetupCloses` are
the setup installer, whose worker and cancel request are two sessions at one row of the ledger.

**CloudRun.** `row` is the run's row (status, registered machine, meter, phase
of the submission, target of a pending clean-up), `pod` the machine, `remote`
the job on it. `mon` is the place of the monitor thread: `Stage`, `Rent`,
`Register` are `_provision`, `BootReady` to `Ready` the wait for the machine,
`Submits` covers the phases of `_submit_remote_job` one call or commit at a
time, `Polls` the loop. `closing` is `_finish` (destroy, then record), by
the monitor or by a stop request, which may both be under way. `sweep` is
`reconcile_orphan_pods` with what it listed and read, `rec` the
recovery of the start and of the periodic tick, `launch` a request. Any
provider call may fail, and a rental or a submission may succeed and lose its answer
(`RentAnswerLost`). Money is not counted: the meter is the pair of columns the
budget is computed from.

**Snapshot.** `photo` is the row of an image (status, caption, whether a crop scaled it), `disk` its working file with a time stamp,
`orig` the copy of its first bytes, `revision` what the triggers count. `SetPhoto`, `SetSettings`,
`Preserve` … `CommitDrawn`/`RollBackDrawn` (a crop, a trim or an inpainting: preserve, write the file, commit the row
or write the old bytes back) and `Delete` … `RollBackDeleted` change the dataset. `capture` walks through `CaptureBegins`,
`CaptureQueries`, `CaptureCopies`/`CaptureChecks` per image, `CaptureVerifies` and `CapturePublishes`; any difference it sees
ends the launch. `moments` is history: what the dataset was at some time of the copy and still agrees with all that was copied.

**CloudLaunch** puts the copy between the two halves of a launch of `CloudRun` (`SnapshotStarts`, `SnapshotFails`). The steps of a copy share no
variable with those of sweep, recovery and stop requests, so any interleaving of the two ends like one in which the copy runs first, and
the model orders them so. The dataset is followed from the admission to the return of the copy, since a run
never looks at it again.

**ImageStore.** `row` is the row of one image, `at` where each version of its
picture is, `trash` the entries and the files their manifests list, `work` and `api` the generations by
the queue and by a provider, `seen` the row as a thread read it. `txn` is the
transaction that holds the trash lock: moves one by one, then the commit and the
removal of used entries, or, after a failure, the moves back (`UndoMove`, `Undone`), which
may fail too. `Write` merges what a thread changed into what is committed, as the ORM
does. `sound` is history: it turns false when the code has no way back (a
crash inside a transaction, a failed move back, a stale write over a swap), and the invariants say what
holds until then.

**Curation.** A cell is one field of one image. `history` holds the batches with
their before and after values, `edit` the thread inside the curation lock,
`plan` the captioning pass, `scan` the watermark pass, `saved` the values a
regeneration will restore if it fails. `LoadUndo` and `CommitUndo` are the two halves
of `undo`: the conflict checks against later events and current values, and the write.

**Pairs.** `status` is the column of the photo (row 0) and of its candidates, `pics` the rows with a
picture, `job` the queue's job of a candidate. `improver`, `curator`, `linker`, `stopper` and
`resolver` are the threads with what they read: the improve request or the scrape
(`ImproveReads` … `ImproveFails`), the holder of the curation lock (`SetStatus*`, `Undo*`),
the callback (`Link*`), Stop, and resolvers, which preflight, cancel, and then read and write
again in one transaction. The callback and the status request write a status only if it differs from the one
they read, as the ORM does. `Start` is the normalisation of groups an old release left
(`Normalized`). `leaked` is history: a decision older than the pair was undone, or written late.

**Update.** `head`, `tree`, `py`, `db` and `image` each have a revision; "mixed" means
a change was cut half way. A cut checkout is "untracked" where git had written files its
index does not name yet, and `locked` where the killed process left `index.lock`: `Own`
refuses the first (any "??" line), git itself the second, until the user removes them
(`UserTidies`). `work` says whether the user has uncommitted work and whether `git status`
saw it; an edit between status and reset is "unseen". `upd` walks through `apply_update` (`Prepare` … `HandOver`) or
its roll-back (`MarkRollback` …), `proc` through recovery (`Recover*`, `Restore*`), import,
migration and service. `Acknowledges` is the readiness answer, `DeadlinePasses`
the watchdog that gives up on it. What an update changes (packages, schema, files added or
removed) is chosen in the initial state. A failing write of the journal may have replaced
the file or not.

Definitions marked "Defect" or "Mutant" are not part of any specification: each is a
definition of the code with a plausible bug, kept to show that the property it
belongs to would notice.

## 3. Runs

| Run | Instance | Question | Result |
|---|---|---|---|
| `queue` | 2 jobs, 1 cancelling request, 2 crashes, 2 failing commits | does the queue keep its promises, and does everything end? | holds, 280,032 states |
| `studio` | 1 cell, 2 jobs, 1 crash, 1 fault | launch, cancel, resume and callback over the queue with failures | holds, 826,834 states |
| `gpu_lease` | 1 generation, 2 windows (symmetric), 1 training, 1 thread that clears, 1 lapse, 1 crash | exclusion, restart, dead rows | holds, 6,105,364 states |
| `train_live` | 2 items, 4 runs, 2 crashes | the queue alone, with vision in between | holds, 113,662 states |
| `train_all` | 1 item, 3 runs, 1 web launch, 1 stop, 1 crash | everything together | holds, 4,204,725 states |
| `train_race` | 1 item, 1 web launch | two trainers never run | violated |
| `cloud` | 1 run, its dataset of 2 images, 2 edits, 1 crash, 1 failing call or commit | copy of the dataset; monitor, stop, sweep and recovery over one machine | holds, 625,390 states |
| `images` | 1 image, 2 generations, 2 Trash entries, 1 decision, 2 faults, 1 crash | swaps, deletions and late answers over rows and files | holds, 1,388,267 states |
| `curation` | 1 image, 3 recorded actions, 2 pictures, 1 pass | undo out of order, and passes that write between | holds, 2,116,564 states |
| `pairs` | 1 photo, 2 candidates, 2 resolvers, 2 recorded decisions, 1 failing enqueue, 1 crash | who may decide between a photo and its versions | holds, 8,903,448 states |
| `update` | 2 attempts, 2 crashes, 2 failures, 2 edits of the user | an update interrupted anywhere | holds, 671,494 states |
| `publish` | 3 rows on 2 keys, 2 names, 2 sessions, 1 crash, 2 failing transactions | the ledger with its two users; publication and its resumption | holds, 1,431,350 states |

The properties:

- `queue`: `AtMostOnePrompt`, `OutcomeIsOwedOrHeard`, `TerminalIsFinal`,
  `KeepsThePromise` (refinement of `Outbox`), `EveryJobEnds` (and what is owed is delivered).
- `studio`: `NoStrandedCell` (a pending cell has something that will end it),
  `ShownOnlyAfterCommit`, `QueueSpec` (refinement of the queue), `EveryCellSettles`.
- `gpu_lease`: `ExclusiveWhileLeased` (two uses overlap only if one of them lost its lease), `ClosedWindowFreesGpu` (a window leaves nothing
  behind at its end or at the next start), `DeadStayDead` (the rows of an ended or dead use
  are not renewed and do not come back).
- `train_live`: `QueueKeepsItsTrainer` (one trainer, behind its flag), `GpuComesBack`,
  `EveryItemIsTried`; `train_all`: `TrainedOncePerLife`.
- `publish`: `OneActivePerKey`, `NoGhost` of the ledger; `DoneIsPublished`, `UnrecordedRepoIsSafe`, `PublishEnds`.
- `cloud`: `OwnedPodsAreSpared` (a machine just rented or kept for the user is not
  destroyed under its owner), `MeteredWhileUp`, `OneSeededJob`, `SnapshotIsOneMoment`, `RunsEnd`,
  `RentsOnce` (refinement of `Rental`).
- `images`: `NothingIsDestroyed`, `RowHasItsFile`, `TrashedIsRecoverable`, `TilesSettle`.
- `curation`: `RowShowsNewestEdit`, `NewestCanBeUndone`, `WrittenCaptionSurvives`.
- `pairs`: `OneVersionAdmitted` (never both, unless `leaked`), `DecisionStands` (only an undo or a write of
  something read earlier changes a decision).
- `update`: `ServesOneRevision`, `AcknowledgedIsKept`, `LocalWorkIsKept`, `UpdateSettles`.

The configurations check no type invariant. Each module defines one; those of `JobQueue`, `StudioRuns`, `GpuLease`,
`TrainQueue`, `BackgroundJobs`, `Publish`, `CloudRun`, `Snapshot`, `Curation`, `Pairs` and `Update` are proved, the other
(`StoreTypeOK`) holds on the same instance.

**Why the bounds are enough.** The hazards of this code need two actors at one
row, or one actor and one restart. Two jobs give the worker a job to overtake
or to confuse with another and leave one waiting; two crashes allow a crash
during the recovery from a crash; two failing commits allow the failure of a
retry. One cell and two jobs let a cell be resumed once, which is when an old
job meets a new one. Two windows can overlap at their
ends; one lapse makes room for a successor beside its holder, and one thread that clears, which may do so again and
again, releases under any training; the proof covers any number of each. In training, four runs
let each of two items be launched again after each crash (`train_live`); one item and three
runs suffice where queue, web and stop meet over the same rows (`train_all`). Three attempts at a publication are
one that leaves something behind, one that resumes, and one that meets what that one left. Cloud runs share
only the lock and the sweep, and one run with its monitor, a stop request, the sweep and recovery has four threads at one
machine. Two images give a copy one to have finished and one to do, two edits one before and one between a copy and its
comparison; `SnapshotSpec` alone also holds with three images and three edits (2,065,196 states), and the proof covers any number. Images share only the trash lock, so one image suffices; two generations make one late, two faults
let a compensation fail, two Trash entries hold the picture and its replaced version. Three recorded actions
let an undo meet a later edit and a later undo; the proof covers any number. A pair needs two recorded decisions, one older than it or
one undone, and two resolvers; without faults and crashes `pairs` also holds with three decisions (5,614,711 states). Two attempts and two
crashes let an update meet what an interrupted one left, and recovery be interrupted; two failures let a killed git be followed by a
failing recovery, two edits one be seen and one not. All bounds are
guards on `crashes`, `faults`, `lapses`, `directs`, `stops`, `edits`, `attempts`, `passes`, `nextRun`, `nextJob` and the
sets of jobs; a bound that is reached only stops the environment (or, for jobs and
runs, new requests).

Deadlock is checked in the runs of `JobQueue` and `StudioRuns`, where something (the GPU
changing hands) can always happen. In the others an idle server with its bounds used up
really has nothing to do, so it is off.

## 4. Fairness

- **Queue**: weak fairness of the worker as a whole (its loop runs for ever and
  every poll has a deadline), of the recovery (a supervisor restarts the
  server and `_recover_stuck_jobs` loops over all rows), and of an admitted
  cancel. None for ComfyUI, for the GPU, for crashes or new jobs: a job ends
  though ComfyUI never answers. `EveryJobEnds` assumes that the other users leave the GPU
  alone at some time, since admission is a check, not a queue, and the code promises no order.
  It exempts one case the code has: a row whose terminal commit failed before its prompt was published
  is looked at again only by the next start (`Unsettled`).
- **Studio**: the same, and that an admitted launch or cancel goes on.
- **Lease**: none. That a dead row goes for good follows from its expiry and from
  `DeadStayDead`, which says that nothing renews it.
- **Training**: the scheduler ticks (weak fairness of the advance as a whole), an admitted launch goes
  on, trainers end. `EveryItemIsTried` again assumes that the others leave the GPU alone.
- **Cloud**: an admitted launch, the copy of its dataset included, and every monitor, clean-up, recovery and wait with a deadline go on (weak
  fairness); a thread that needs the reconcile lock gets it at some time (strong fairness of `Stage`, `Rent`, `Register` and of the
  sweep of a recovery, as others take the lock again and again); a run reaches its maximum runtime, since the
  monitor measures it. None for the provider, the trainer, the user or the edits of a dataset, and none for a sweep a launch would do.
- **Images**: a transaction, once begun, goes on; answers arrive and their threads run; a swap gets the
  trash lock at some time (strong fairness of `CommitGeneratedReplacement`).
- **Curation**, **Pairs**: none; their properties are about safety.
- **Update**: the user starts the application again, and restarts it when an update
  asks for it; processes go on. None for edits, crashes and acknowledgements, and none for the user who tidies up: `UpdateSettles` exempts
  what only he can remove (`InTheWay`: his work, an untracked file, a lock), at every start again.
- **Publication**: a running thread goes on, a dead server is started again.

## 5. Proofs

The proofs hold for every value of the constants: any number of jobs,
requests, rows, keys, sessions, crashes and faults. They assume
`QueueAssumption`, `StudioAssumption` (one `cancel_run` at a time), `LeaseAssumption`, `LedgerAssumption`,
`PublishAssumption`, `CloudAssumption`, `CurationBounds`, `StoreBounds`, `GeneratedRows`, `CaptionValues`, `SnapshotBounds`, `TrainAssumption`,
`PairAssumption`, `UpdateBounds` and `UpdateTiming`, and nothing else; one theorem, `OneRevisionServes`, has a hypothesis of its own
on a constant (`PromptHelper`, see `UpdateProofs`).

`StudioProofs`, of `JobQueue`:

| Theorem | States |
|---|---|
| `QueueTyped` | `QueueSpec => []TypeOK` |
| `QueueInvariant` | `QueueSpec => []QueueInv`, the inductive invariant |
| `OnePromptPerJob` | `QueueSpec => []AtMostOnePrompt` |
| `NoOutcomeIsLost` | `QueueSpec => []OutcomeIsOwedOrHeard` |
| `EndedStaysEnded` | `QueueSpec => TerminalIsFinal` |
| `QueueImplementsOutbox` | `QueueSpec => KeepsThePromise` |

`AtMostOnePrompt` is not inductive: from a state with `sent[j] = 1` and the
worker at `submit`, a second prompt would go out. `QueueInv` adds what rules
that out. `WorkerInv` says what each place of the worker knows about its row
(at `submit`: nothing was sent and the row can not be claimed again, since no
action makes a row `pending` but its insertion; from `deliver` to `ack`: the outcome is owed).
`RowInv` relates the columns (a row not yet claimed was never sent; what is
owed or heard belongs to a terminal row; a completed or failed row is owed or
heard). `CancelInv` says that a request in `cancel_job` holds an existing row.
Each part has one lemma with a step per action. For the two results about
steps, `StepEffect` collects in `RowEffect` all that a step can do to status,
flag and history; finality and the refinement follow from it.

`StudioProofs`, of `StudioRuns`: `StudioTyped` (`StudioTypeOK`), `StudioImplementsQueue` (`QueueSpec`),
`CellsAreNotStranded` (`NoStrandedCell`) and `ShownImagesAreCommitted`
(`ShownOnlyAfterCommit`), for any number of cells, jobs, crashes and faults. The refinement is
a step per action: each action of a launch, of a cancellation or of the callback is one of the queue or leaves its variables alone, which
carries the five theorems above over to the composed system, and with them the queue's invariant.
`StudioInv` (theorem `StudioInvariant`) builds on it. `DoneInv`: a success, from the poll that
found it to the callback, stands for an output ComfyUI made. `CellInv`: a
job id belongs to one cell for ever; the job of a pending cell was not heard yet and is live or owed, unless a
request is at work on the cell or a crash interrupted one; the file of a cell is the output of a job of that cell.
`LaunchHolds`, `CancelHolds` and `LinkHolds` say that what a thread holds between two commits is
still about its cell. The interesting step is the callback's: it
writes by primary key a row that was cancelled and resumed meanwhile, and then the job it replaces
is the one whose cell leaves `pending`, so nothing is stranded, though the cell
shows the older job's image (section 6).

`PublishProofs`, of `BackgroundJobs`: `LedgerTyped`, `NoDuplicateOperation` (`OneActivePerKey`),
`NoGhostOperation` (`NoGhost`) and `EndedStaysAsItIs` (`EndedIsFinal`, which no run repeats). `LedgerInv`, the
conjunction of the types, `OneActivePerKey` and `NoGhost`, is inductive: only `Create` makes an inactive row active, and it
finds no active row for its key; the only step that sets `up` closes all active rows.

`DatasetProofs`, of `Curation`: `CurationTypeCorrect` (`CurationTypeOK`), `NewestEditIsShown`
(`RowShowsNewestEdit`), `NewestIsUndoable` (`NewestCanBeUndone`) and `CaptionsSurvive` (`WrittenCaptionSurvives`), for any number of images, edits, undos and passes.
`RowShowsNewestEdit` says whose value a cell holds. It is not inductive: an edit commits what it read earlier, and an
undo commits the batch it found without conflict earlier. `CurationOwned` adds what the curation
lock guarantees meanwhile: `RowsOwned` names the writer of every cell, `BatchesOwned` says
that a live batch nobody overlapped is that writer, and `EditOwned` that
the batch in `edit` is still the newest of its cells, since only the holder of the lock appends to
`history` or reverts in it and the passes mark what they write. That the newest batch
can be undone is a consequence: nothing later overlaps it, and its cells show what it wrote. `PlanSpares` is what the
captions rest on: a pass that was not asked to rewrite everything has planned no row whose caption the user had written when it read
the rows, and writes only what is still as it was planned.

`DatasetProofs`, of `ImageStore`: `ShownIsKept` (`NothingIsDestroyed`), `LiveRowHasItsFile` (`RowHasItsFile`) and
`TrashedStaysRecoverable` (`TrashedIsRecoverable`), for any number of generations, Trash entries, decisions, faults and crashes. The first rests on
`StoreInv` alone and needs no `sound`: only bytes that a replacement wrote itself are ever unlinked, when it is undone, and `JobKnown` says that the row has not
shown them by then. That is not obvious, since the outcome of a job may be delivered again after a crash: a
result that was shown belongs to a job that is over, is being finished, or waits for a row that no longer names it. `GoodIn` says of the chain of
states a regeneration leaves behind (`regenerate_image` nests them) that each names a picture the row has shown.

The other two say where the files are between transactions, so the invariant must say where they are inside one. `PlaceInv` does it per
phase, as long as `sound` holds: `Resting` (a live row has its picture on disk and no entry of its own, a trashed row is covered by one),
`Deleting`, `Restoring`, `Swapping` and `Replacing` (which moves were made, and what the commit or the way back will leave), and `Finishing`. `RowsCoherent` says that
the states below a row have its own picture: a regeneration leaves the picture in place, so a failure that puts an older state back does not change
it. `VersionsLive` is what keeps a swap from bringing back a trashed state, `OneImage` that a trashed row has one entry. A decision, an answer
or a regeneration may commit between any two moves; `OutsideStep` disposes of these, since a stale one either leaves picture and kind of row alone or ends `sound`. The
six ways a transaction goes on, turns, is undone and ends have a lemma each, with a case per phase.

`CloudRunProofs`, of `Snapshot`: `SnapshotTyped` (`SnapshotTypeOK`) and `SnapshotShowsOneMoment` (`SnapshotIsOneMoment`) of `LaunchSpec`, that is of the
copy among everything a cloud run does, for any number of images, edits, runs, faults and crashes. The property speaks of the end of a copy only; its
inductive form `CaptureInv` names the moment the snapshot shows: the one at which the second comparison of all files began.
`ClockInv` and `FilesInv` say that revision, settings and time stamps only grow and that a file with the stamp of its
entry has its picture; `TurnInv` that a file is compared before the next is copied; `RowsInv` that rows whose revision did not change are those
copied; `MomentInv` that `moments` holds the present while it agrees with what was copied; `VerifyInv` that some moment agrees with
every entry as long as no file still to be compared, nor the revision or the settings, changed. The
lemma `EditsAreSeen` is where the code is used: every edit that changes a row counts the revision, every one that changes a picture its stamp.

`GpuLeaseProofs`: `LeaseTyped` (`TypeOK`), `GpuIsExclusive` (`ExclusiveWhileLeased`), `WindowsFreeTheGpu`
(`ClosedWindowFreesGpu`) and `NothingDeadIsRenewed` (`DeadStayDead`), for any number of uses, clearing threads, lapses and crashes. The inductive fact
is `OwnerInv`: whoever was admitted, whose lease never lapsed and was not released by a clearing thread (`Lost`) is still named by the row. A thread
that clears releases the token it read, so it takes the row from that training only. `LockInv` says why nobody takes it from
him: between the check and the write only the holder of the lock is at work, and he purges only what he saw lapsed. `DownInv`: the
only use a start can meet alive is a training. `WindowInv` adds that a renewal outlives its window only when the join gave up on it.

`PublishProofs`, of `Publish`: `PublicationTyped` (`PublishTypeOK`), `NoDuplicatePublication` (`OneActivePerKey`), `NoGhostPublication` (`NoGhost`),
`DoneStaysPublished` (`DoneIsPublished`) and `UserRepoIsSafe` (`UnrecordedRepoIsSafe`) of `PublishSpec`, in which publication and installer
write the ledger together. `RowsInv` orders the rows of a key: all but the newest have ended. `WorkInv` ties a thread to its active
row and to the entry in memory; with the first it follows that a running publication is alone (`WorksAlone`). `OwnedInv`: what a thread
uploads to or removes was recorded by some attempt. `DoneInv`, which makes `DoneIsPublished` inductive, says that no attempt after a finished one at its name
has created, resumed or recorded the repository. Its case of interest is `StartPublish`: `latest()` returns the newest
earlier attempt at the dataset, which is not the finished one only if it came later, and then it did not record the repository. That
a newest one exists is `NewestExists`, by the well-founded order of the natural numbers.

`CloudRunProofs`, of `CloudRun`: of `LaunchSpec`, for any number of runs, crashes and failing calls, `CloudTyped` (`CloudTypeOK`), `OneJobPerMachine` (`OneSeededJob`),
`NothingRunsUnmetered` (`MeteredWhileUp`), `OwnMachinesAreSpared` (`OwnedPodsAreSpared`) and `RentalIsKept`, the safety part of the refinement of `Rental` (its
liveness stays with TLC). `LaunchIsCloud` says that the copy of the dataset adds no step to a cloud run, so that the work is done on `CloudRun`.
`CloudInv` consists of `SubmitInv` (each phase of a submission is recorded after its call and before the next one, but the start of the queue before its call, hence
at most one start), `LaunchInv` (no monitor and no machine before the request has handed over), `MachineInv` (a registered machine that is up is metered and its row has not
ended; a monitor rents only where there is no machine yet), `ClosingInv` (two clean-ups of one run never record an end over a machine that is up), `SweepInv` and
`RecoverInv`. `SweepInv` is the difficult one: a sweep works on what it listed and read, while monitors, clean-ups, recoveries and launches go on and only the
registration of a new machine is locked out. It says what of that stays true meanwhile, above all that a registered machine it
may still destroy belonged, when its row was read, to a run in clean-up or was kept for the user, and that the clean-up still has its target. `MachineSteps` are the
steps that change a machine or a meter; `OtherSteps` disposes of all others at once.

`TrainQueueProofs`: `TrainTyped` (`TrainTypeOK`), `TrainedOnce` (`TrainedOncePerLife`) and `QueueKeepsTrainer` (`QueueKeepsItsTrainer`), for
any number of items, launches, web requests, stops and crashes. `TimesInv` carries the second: an item trained in this life is in the launch
that did it (`QueueInv`: the tick waits for that launch), or it has left the list and the copy of the list a tick works with, which it
will write back whole. For the third, `FreshInv` says that without requests over the web only the queue launches, and what
it launches never ran before; hence what is undisturbed after a step was so before it (`UndisturbedBefore`). `Kept` is its
invariant: a living trainer is the one of the launch record, behind the flag, and the only one whose PID may be recorded
(`Covered`); without its identity it can still be found by its config path, but only while its launch is about to record it or
behind a crash. `PidsInv` follows what a tick has read: it finds the recorded PID as it read it, and behind a crash every PID on record is of
the trainer that lives, as by hypothesis none has ended. `CallInv` and `DeadInv` close the circle: the launch owns record and flag from the flag on, and whatever
rolls back, releases or launches has seen that nothing lives. The hypothesis `Undisturbed` is needed: `train_race` shows what a web launch can do.

`PairProofs`: `PairTyped` (`PairTypeOK`), `OneVersionStays` (`OneVersionAdmitted`) and `DecisionIsKept` (`DecisionStands`), for any number of
candidates, resolvers, recorded decisions, crashes and faults. A decision is taken on an open pair only, and a pair that is not open has one kept version
at most (`ResolvedIsExclusive`); what is left is undo, which writes some rows and not the others. `PairInv` therefore has two cases. `OldPair`, several candidates of
an old release: none has a job, so the only decision that can be undone is the newest, and its undo leaves no version
kept. `NewPair`, one candidate: a late answer may open the pair again, but a decision that displaced a kept version changed both rows, so its undo writes both. `leaked`
marks the undo of a decision older than the pair, for which neither case holds (section 6).

`UpdateProofs`: `UpdateTyped` (`UpdateTypeOK`), `AcknowledgedStays` (`AcknowledgedIsKept`), `LocalWorkStays` (`LocalWorkIsKept`) and
`OneRevisionServes` (`ServesOneRevision`), for any number of attempts, crashes, failures and edits. `BaseInv` needs no assumption on timing: a reset
is under way only while the journal names an unfinished update, and begins only where `git status` saw no work; the attempt that is running has a nonce no process was started
with. `PromptInv` adds what makes the served revision whole: what the journal tells about checkout, environment and database at each place (`JournalInv`,
`SchemaInv`), and that the import is reached only with one revision (`ServerInv`). It assumes `PromptHelper`, as the run does: a restart helper
that waits for the port tries before the process that was quicker ends. Otherwise it would launch, much later, with the nonce of an update that is half rolled back.

Model-checked only: all liveness (fairness is outside the prover's reach). Every safety invariant and every
action property of a passing run is proved.

## 6. Where code and documentation disagree

One run ends in a counterexample because a comment of the repository claims
more than the code does. `train_race`: `services/lora_training.py:56` and `:63` say a second trainer
cannot be started over the first. A tick does not take the launch lock; between
flag and PID of a web launch it finds no live process, rolls the launch back
and may start a queued item.

The modules state sixteen more sentences of the repository that the code does not
keep. Each was found violated by TLC when it was written; no run repeats it, and each can be
had back by adding the property to the configuration of its module (for the
ones of `TrainQueue`, that of `train_live`, whose bounds suffice; for `WithinLimit`, with two runs).

| Property | Sentence | What the code does |
|---|---|---|
| `StudioRuns`: `DoneShowsOwnJob` | `services/studio_storage.py:103`: a late completion must not overwrite the run that resumed its row | the status is compared at `:106`, the row written by primary key at `:163`; a cancel and a resume between them get their cell finished with the old job's image |
| `TrainQueue`: `TrainerIsFlagged` | `lora_training_process.py:481`: the ownership of a trainer survives an outage | the tick that adopts a trainer writes back the PID it had read before (`lora_training_queue.py:389`, `:409`); the next tick disowns the trainer and lowers its flag |
| `TrainQueue`: `FinishedRunRefusesNobody` | `lora_training_queue.py:128`, `:258`: an item is launched when the current training ends | the tick keeps the lease of the ended training (`:448`), the launch is refused and the item marked failed |
| `CloudRun`: `CleanupKeepsItsTarget` | `cloud_training.py:4`: a run goes from `terminating` to its end | periodic recovery takes a run in `terminating` for one in training (`:1258`), monitors it again and may record another outcome |
| `CloudRun`: `WithinLimit` | `cloud_training.py:139`: the number of concurrent runs is limited | periodic recovery ends a run that its launch is still preparing; the launch then starts its monitor, which brings the run back beside one admitted meanwhile |
| `Update`: `OldFindsItsPackages` | `updater.py:292`: roll-back reverses the install | an update that was verified and never acknowledged is recovered without the packages (`update_recovery.py:304`) |
| `Update`: `ImageIsAvailable` | `update_recovery.py:300`: on failure the journal and image remain for a retry | the image is removed before the journal that names it (`:322`, `:325`) |
| `Update`: `OnlyWorkIsInTheWay` | `update_recovery.py:125`: recovery goes on when git was interrupted after writing some blobs | any "??" line is refused (`:131`); a merge killed half way that had written a new file before the index is taken for local work at every start, with no work of the user present, until he removes the file |
| `Update`: `AnyWorkIsKept` | `updater.py:579`: no automatic reset erases work created after the transaction began | nothing looks between `git status` (`:582`, `update_recovery.py:286`) and `git reset --hard` (`:600`, `:296`): an edit of a tracked file in that window is lost; `LocalWorkIsKept` covers those before it |
| `Curation`: `UndoKeepsToItsPicture` | `curation_history.py:138`: an undo never erases newer work | events name row and field, not the picture; a decision about a replaced picture is undone on its successor |
| `Curation`: `CaptionDescribesPicture` | `face_dataset_service.py`, `_persist_inference_caption`: "one still-current model result" | caption and status are compared, the file is not |
| `ImageStore`: `InterruptedIsClosed` | `face_dataset_service.py:2421`: API rows never carry a `job_id` | a failed tile of the queue keeps its id when a provider regenerates it; the recovery of the start (`:6704`) then misses it |
| `ImageStore`: `TrashedStaysTrashed` | `face_dataset_service.py:2056`: pending jobs are cancelled before a deletion | an answer already read, or the failure of the cancelled job, writes the row and revives it |
| `Pairs`: `NeverBothKept` | `face_dataset_service.py:1868`: the resolver "is the only way to make a training decision" about a pair | undo does not look for a pair (`curation_history.py:157`-`:203`) and a resolver does not take the curation lock: the undo of an older keep→pending, checked before the pair is resolved as improved and committed after it, brings back the photo, and both are kept; so does a keep written late, and without a race keep→reject, reject→pending, improve, undo of the second, improved (the rejected photo is not touched), undo of the first. The preflight of a training then refuses both |
| `Pairs`: `FailureKeepsDecision` | `face_dataset_service.py:6985`: "Never let that callback overwrite an already-resolved rescue choice" | the status is checked at `:6959` and `:6987` on one read and committed at `:6992`: the failure of the job a resolver has just cancelled, read before the decision, turns its reject into failed; Stop (`:2428`) and a failing enqueue (`:4219`, `:5977`) do the same |
| `Pairs`: `SourceIsSuspended` | `face_dataset_service.py:5951`: the source's admission is suspended while its replacement is unresolved | a photo read as pending is not written (the value did not change); a request that keeps it between read and commit wins |

What does hold in their place is checked: without web
launches, stops, or a crash after a finished training, the queue keeps one trainer behind its flag
(`QueueKeepsItsTrainer`); `RowHasItsFile` holds until `sound` turns false.

The models contain these further deviations, which follow from the same kind of window and have no run
of their own:

- A cancel between the commit of a cell and the insert of its job finds no job
  to cancel; the job then runs for a cancelled cell (`studio_lifecycle.py:66`,
  `lora_test_studio.py:974` and `:979`).
- The start keeps an unexpired lease of an image generation of the dead process
  (`gpu_window.py:26`; the comment at `:22` says in-process owners are gone).
- An expired lease is deleted by key after it was read; a renewal in between is
  lost (`job_queue.py:567` against `:446`). `ExclusiveWhileLeased` exempts it, since the lease had lapsed.
- A stop in the window between spawn and PID terminates nothing, releases the lease and lowers the
  flag (`lora_training_process.py:611`-`:623`); a roll-back does so for a launch that is about to spawn
  (`lora_training_queue.py:340`, `lora_training_process.py:131`-`:135`). A generation, a vision window or another training may then be
  admitted beside the trainer with no lapse. `ExclusiveWhileLeased` names this case (`givenUp`); `train_race` shows it for two trainers.
- A web launch that runs while a queued one waits for the lock takes over its launch id
  (`lora_training_process.py:388`); the item is then removed though it never ran
  (`lora_training_queue.py:370`, `:396`).
- A publication resumes on a name its predecessor recorded, also when the user
  deleted that repository and created his own under the name (`hf_publish.py:435` against `:443`);
  `UnrecordedRepoIsSafe` is what holds.
- `sound` of `ImageStore` turns false where the code has no way back: a crash
  inside a transaction (no start resumes one), a move back that fails, the second move of
  `restore_regenerated_image`, which is outside its `try` (`face_dataset_service.py:2194`), a failing commit of a purge,
  after which the entry of an existing row is marked as not restorable (`trash.py:492`), and a decision or
  regeneration written from a row read before a swap (`:1580`).
- A crash between the commit of a pair and the insert of its job leaves a candidate that waits for a job that
  does not exist (`face_dataset_service.py:5954`, `:4206`); Stop or a resolver ends it. A candidate that Stop ended before
  its job was inserted is generated all the same and comes back as pending.
- Restoring a version of a trashed image revives its row (`face_dataset_service.py:2157`); a second
  regeneration by a provider orphans the result of the first; a restart leaves an interrupted regeneration
  of an existing picture pending; `set_image_status` accepts a failed tile (`:1580` against `:3040`).
- A failed regeneration puts back the caption and decision from before it, over those made
  meanwhile (`_restore_replacement_after_failure`); a watermark pass writes its verdict over a dismissal
  made while it ran.
- An `index.lock` left by a killed git makes the reset of every later recovery fail (`update_recovery.py:298`); the code never
  removes it, so the application does not start until the user does.
- An accepted stop of a cloud run is in memory only (`cloud_training.py:632`) and forgotten by a crash.
- `ServesOneRevision` assumes that a waiting restart helper polls before a quicker process ends
  (`PromptHelper`); without it, a helper launched late carries a nonce that no longer belongs to the
  running update.
- A resumed publication that fails removes a repository its predecessor had
  filled completely (`hf_publish.py:459` against `:478`), and does not record the phase in
  its own row, so that the attempt after it is refused (`:435`-`:439`).

## 7. Plan

The order was by what can be lost: image queue (jobs, money), lease and
training (the GPU), Studio, ledger and publication, then cloud machines (money), the
images and their Trash, the edits of the user, pairs of images, and the update. What is left:

1. What becomes of a snapshot: its loading, its reuse by a retry or a continuation, and what provenance
   says of a checkpoint trained from it.
2. Whole datasets in `ImageStore`; the files of derived pairs.
3. `ImageStore` over `JobQueue` instead of its own sketch of the queue, to state that an
   owner never hears two outcomes (a failing claim commit, `job_queue.py:56`).

## 8. Not modelled

- Assumptions that narrow a property. `CloudRun`: the key of the provider is configured; recovery skips a run without it
  (`cloud_training.py:1261`), and such a run waits longer than `RunsEnd` says. `OwnedPodsAreSpared` exempts a
  kept machine in a step in which a call or commit fails. `Snapshot`: the settings are a counter that only grows,
  so a change and its reversal within one copy are told apart where the code, which compares values, does not; the copy holds the settings of its
  first query, which are then again those of the dataset.
- Inside the modelled parts: read-only queries; payloads, logs, progress
  counters and messages; the ORM's sessions beyond their commits; the schedule
  of a queued training (`not_before`: any item may be the due one); the checkpoint
  copies of the watcher; staging directories; the numbers of time-outs.
- `CloudRun`: the arithmetic of the budget, the choice of an offer and of a provider, the host
  blacklist, the transfer of checkpoints. `Snapshot`: two edits of one picture at once, the new name of a JPEG
  that an inpainting turns into a PNG, the fingerprint of the manifest. `ImageStore`: whole datasets and their archives, the
  attributes of `Curation`. `Pairs`: the deletion of its rows, the scores and
  watermarks of a candidate, a group of one candidate an old release left with both versions kept (the normalisation skips it). `Curation`: anchor, coverage and rights decisions, retention. `Update`: the boot
  bundle, the update check, the content of the database, commits of the user.
- ComfyUI, the Hub, the cloud provider, the trainer and the user are environment: any answer the
  code handles may come at any time.
- Engines, vision clients, image analysis, configuration and export builders,
  scraping, routes, frontend, the `avatar_prep` command line and
  packaging are sequential computation, thin request handling or I/O, with no
  interleaving a model checker would add to. `PROJECT.json` lists each with its reason.
