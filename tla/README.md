# Formal verification of xrr-fitter

TLA+ models of the concurrent, transactional and restartable core of xrr-fitter, the TLC
configurations that check them on small instances, and TLAPS proofs of their main
safety properties for every value of the constants.

Paths are relative to the repository; the program is `src/xrr_fitter/`, written
below without that prefix (`services/workers.py`).

- [1. The system](#1-the-system)
- [2. The modules and the code](#2-the-modules-and-the-code)
- [3. The runs](#3-the-runs)
- [4. The proofs](#4-the-proofs)
- [5. Disagreements between the code and what is said of it](#5-disagreements-between-the-code-and-what-is-said-of-it)
- [6. What is not modelled](#6-what-is-not-modelled)
- [7. Plan](#7-plan)

To repeat everything, in this directory:

    tlc -config OperationJob_safety.cfg OperationJob.tla     # one run; see the table in 3
    tlapm OperationJobProofs.tla                             # one proof module; see 4

## 1. The system

xrr-fitter fits structure models (stacks of layers) to X-ray reflectivity curves. A
*project* is an immutable record of *dataset rows*; every row has a source file, a
structure, parameter settings, perhaps a `last_valid_result` and perhaps a
`checkpoint` from which an interrupted search can go on. The window spawns a worker
process for every fit, gives it the project, and receives new projects back; the command line
calls the same transactions in its own process.

    GUI panel ──────── poll() ──► OperationJob ◄── multiprocessing.Queue ── worker process
      │  cancel, pause, skip, force    │ cancellation / pause / skip events        │
      ▼                                └───────────────────────────────────────────┤
    ProjectDocument (undo, save)                                                   ▼
      ▲   checkpoint or result                                        batch transaction
      └──────────── adopted snapshots ◄── checkpoint_callback ──  (independent | joint | automatic)
                                                                        │ one OrderedTaskRunner for rows
                                                                        ▼
                                                            staged search A → B → C → D → E
                                                                        │ one OrderedTaskRunner per row
                                                                        ▼
                                                              numerical solvers (poll the probe)

### Components, their state, and what makes them correct

**Worker process and operation job** (`services/workers.py`). State: the queue between
the two processes, three shared events, the job's protocol state (pending terminal, protocol
failure, forced stop and its grace period). Operations: the worker puts progress,
checkpoints, one terminal and `stopped`; a request may name a project file, and then a checkpoint is
saved there before it is put (a caller of the library can ask for that; the jobs the window
starts do not, so there a checkpoint is in the owner's memory only). The owner calls
`poll()`, `cancel()`, `pause()`, `resume()`, `skip_stage()`, `force_stop()`, `close()`.
Hard: the worker's exit races every step of a poll, the queue is written by a feeder thread
that dies with the worker, a large message is written in pieces, SIGTERM may do nothing,
SIGINT may arrive between any two statements, the queue itself may fail to be read.
Correct if the owner sees a faithful prefix of the worker's log, believes a result only with
the complete log and a clean exit, always gets an end, and, where the request
names a project file, never saw a checkpoint that is not in it.

**Task runner** (`services/parallel.py`, `fit/tasking.py`). State: the futures of the
current batch, the number registered, the cancel flag and the running flag under a lock, a
queue of finished positions per batch, the executor. Operations: `run()` (submit, register,
collect in order of completion), `cancel()` from another thread, `close()`. Hard: the
lock is not held between submission and registration, a failed batch leaves running tasks in
the pool, the collecting `get()` has no timeout and stands outside every `try`. Correct if every
position is reported once, a normal return means a value from every task, an ended batch starts
nothing but what an exception around `get()` or a registration left queued, and every batch ends.

**Worker control** (`services/fitting.py`, `_WorkerCancellation`). State: the three
events as every thread of every row sees them, the skip lock. Operations: the probe's loop
(cancel, consume a skip, park while paused), the search scope that discards skips before
and after a search. Hard: concurrent rows share one skip flag; tasks of a skipped stage live
on. Correct if a request skips at most one stage, never one of a search that began later, a
cancellation is heard everywhere, and a pause halts the solvers.

**Batch transactions** (`services/batch.py`, `batch_publication.py`, `batch_routing.py`,
and the phases in `services/fitting_phases/`). State: the transaction's working copy of the
project, the baseline of the fit group in refinement, and the snapshots published to the owner.
Operations: the independent fit, the all-or-nothing expert joint fit, the automatic fit (prefit
every row, then refine each fit group). Hard: rows fail, stop and resume one by one while others
are already published; groups are rolled back; a transaction may end by force after any
snapshot, and the next one starts from that snapshot. Correct if a joint project never mixes
runs, a stop never costs finished work, and one row's end never takes away another's.

**Staged search** (`fit/pipeline.py`, `stages.py`, `stage_schedule.py`, `resume.py`,
`checkpoint.py`) **and joint search** (`fit/joint_pipeline.py` and its siblings). State:
the stage history, candidate pools, skipped stages, the ledger of consumed seeds. Operations: a
stage, a skip, a checkpoint, a resume; the joint stage E commits seed by seed. Correct if every
checkpoint it writes is one its validator accepts, a resumed search ends like an
uninterrupted one, no seed is used twice, and the kept checkpoint only ever gains.

**Adaptive review, profile recovery, diagnostic refits** (`fit/adaptive_review.py`,
`adaptive_grid.py`, `profile_rescue.py`, `diagnostic_refit.py`, `local_budget.py`). Which
candidates are promoted over refined grids and within which budget. The control is small, the
decisions are numerical.

**Fit session of the window** (`gui/fitting/controller.py`, `panel.py`,
`gui/main_window.py`, `gui/operation_state.py`). State: the running job, a poll timer with
back-off from 250 to 1000 ms, whether a cancel or a force prompt is pending, the window's close
request and its five-second timer. Operations: start, poll and dispatch, adopt a checkpoint,
cancel, force, close. Hard: modal questions run an event loop inside a handler. Correct if no
snapshot overwrites an edit it did not see, durable events are shown in order, and closing the
window ends, with the worker stopped.

**Document and autosave** (`gui/document.py`, `gui/project/autosave.py`). State: project,
undo and redo (at most fifty steps), the saved project, the draft file. Operations: edit, amend,
undo, redo, new, open, save, accept a source update, write or retire a draft. Correct if a
document that calls itself saved is what its file holds, and unsaved work that autosave has seen
keeps its draft.

**Project load and source checks** (`services/projects.py`, `io/source.py`). Hash, read and
hash again against files that another program may be writing.

**Project file and export** (`io/project_codec.py`, `io/export_run.py`,
`services/exports.py`). Temporary file, fsync, replace; partial directory, synchronisation,
exclusive rename. Correct if a crash at any step leaves the old or the new state, whole.

**Dataset, structure and parameter edits** (`services/datasets.py`,
`dataset_removal.py`, `structures.py`, `parameters.py`). Pure functions from project
to project. What matters is which rows each edit invalidates, in joint projects and fit groups above all.

**Without a state machine**: forward model (`physics/`), objective and solvers
(`fit/objective.py`, `global_search.py`, `local_search.py`), uncertainty analysis and MCMC
numerics (`analysis/`), readers and writers of data (`io/xy.py`, `orso.py`),
the records of `model/`, evaluation front end, plots and tables, command line, release tools.

`PROJECT.json` lists every component with its status, and under `hazards` every place
where this code can go wrong in a way that a unit test would hardly reach, at its line, with
the properties that watch it or a note that says why none does.

## 2. The modules and the code

| Module | Models | Proofs |
|---|---|---|
| `EventStream` | what a background operation promises its owner (abstract) | |
| `OperationJob` | `services/workers.py`; implements `EventStream` | `OperationJobProofs` |
| `OrderedTaskRunner` | `services/parallel.py`, `fit/tasking.py` | `OrderedTaskRunnerProofs` |
| `WorkerControl`, `MCWorkerControl` | `_WorkerCancellation` and the scopes of `services/fitting.py` | `WorkerControlProofs` |
| `BatchTransaction`, `MCBatchTransaction` | `services/batch*.py` and what the phases do to datasets | `BatchTransactionProofs`, `BatchProgressProofs` |
| `FitSearch` | the staged search of one dataset or of a joint graph: `fit/pipeline.py`, `joint_pipeline.py`, `resume.py` and what they call | `FitSearchProofs` |
| `Counting` | Python's `sorted`, filters and `sum` as `FitSearch` needs them | `CountingProofs` |
| `ProjectDocument` | `gui/document.py`, `gui/project/`; the document operations `FitSession` uses | |
| `FitSession` | `gui/fitting/`, the chain panel of `gui/results/`, the close sequence of `gui/main_window.py`; extends `ProjectDocument` | `FitSessionProofs` |

Definitions keep the names of the functions they translate (`_fail_protocol`,
`_terminal_after_exit`, `_begin`, `_register`, `_automatic_result_dataset`,
...). `PROJECT.json` `map` gives the lines of each. Operators named `Bug...` are not part of
a model: each is a mutated form of the definition after it, kept to show that the properties
can fail.

The models meet at narrow interfaces. `OperationJob` sees a handler that may
report, return, raise, or consume the events; `WorkerControl` refines that consumption
into rows and threads; the threads are those of `OrderedTaskRunner`, of which `WorkerControl`
keeps only that a raising batch leaves its running tasks behind. `FitSearch` is one row's
search (or one joint graph's): a skip reaches it at the places where a stage polls, which
is what `WorkerControl` delivers. `BatchTransaction` sees a search as something that writes
checkpoints and ends in one of four ways, and its job as something that may be cancelled or die
at any step; what becomes of a row's checkpoint at the end of a search is the same set of choices
in `FitSearch` (`Finish`, `Fail`, `Abort`). `FitSession` sees a job as the stream that
`EventStream` promises and `OperationJob` is proved to implement: checkpoints, at most one
outcome, the end.

### OperationJob and EventStream

`sent` is everything the worker has put, in order. Positions up to `flushed` are in the pipe
and positions up to `read` were taken by the parent; what lies after `flushed` is in
the worker's memory and dies with it. `torn` says that the feeder has begun to write a message
larger than the pipe. `wpc` is the worker's place: a handler step (`work`), between the save
of a checkpoint and its put (`publish`), parked in a pause, past its terminal, past its `except`
clause, at the exit, or leaving by an exception (`failing`). `ppc` cuts `poll()` at every queue
operation: first drain, `_advance_force_stop`, the liveness test of `_finish_exited`, the
second drain, and the verdict (`Settle`). All other calls of the owner happen between polls,
as in the code, where one thread makes them.

`checkpointPath` says whether the request names a project file; it is chosen once, and every property
is checked for both. `made` counts the snapshots the handler handed to `checkpoint()`, `saved` is the
newest one in the file: `WorkerSaveCheckpoint` writes it where there is a path, and
`WorkerSaveFails` is `save_project` raising into the handler, before or after the file was replaced
(so nothing is put). A save of the file is one step, which is what `os.replace` gives.

A SIGINT is two actions: inside the `try` the worker reports an error even when it has already
reported a terminal (`InterruptBody`); later, it leaves with a failing exit code and perhaps
without `stopped` (`InterruptEnding`). A crash or signal may hit anywhere (`WorkerDies`).

A message is a kind and a number; the number of a checkpoint says which snapshot it is. Whatever the
parent's checks refuse for what it is (no pair, no known kind, a payload that `OperationEvent` does
not take) is one message, `Refused`, which a worker may put in place of a payload or of its terminal
(`WorkerPutsRefused`). `RejectMessage` fails the protocol on it, as on a message out of order.
`DrainFails` is the drain's other exit, EOFError or OSError from the queue: the protocol fails, the
drain is over, and what is still in the pipe is read by the second drain or not at all. `broken`
remembers it, for `CleanExitBelieved`, which cannot hold of a queue that could not be read.

`EventStream` has no process, queue or poll: a log grows, its owner is shown a prefix of the
payloads, and the stream closes once, with the complete log or with an outcome the parent
made up. What a producer may put besides payloads, terminals and the end, its constant `Others`,
is never shown. `OperationJob` implements it under `produced <- sent`, `shown <- events`,
`over <- stopped`.

### OrderedTaskRunner

`future[b][i]` is the future of task `i` of batch `b`. `told_value` and `told_error` are
the instant at which `observed_task` has put its position but the executor has not yet set
the result. `finished[b]` is the batch's own queue as a log. `opc` is the owner's place in
`run()`; submission and registration are separate steps because the lock is taken only for the
second. `snapshot` is the list of futures that a concurrent `cancel()` copied under
the lock and cancels after it. With `max_workers = 1` there is no pool, and the tasks run inline.

An exception that hits the owner itself (SIGINT, or a thread the executor cannot start) is one of four
steps, by where it finds `run()`. `InterruptSubmission` is the `except` clause of `_submit_tasks`: it
cancels the futures in its list (`last` is its length), and one that was submitted and not yet
appended stays queued. `InterruptCollection` hits `get()` or what surrounds it, outside any `try`, or
`_cancel_pending`: `run()` raises at once and cancels nothing more. `InterruptResult` is inside the
`try` around `result()` and the callback, and cancels like a failing task. `InterruptIdlePool` hits
the inline loop, or a return whose values are all there. `spared` records what such an exception left
in the executor's queue: a pool thread starts it later, after `run()` has raised, perhaps during the
next batch, and `close()` drops what is still there (`DropQueued`). No interrupt falls inside
`_begin`, `_finish` or `close()` itself, a restriction of the model: the first two are a few
assignments under the lock, and a `close()` cut short leaves a runner that nobody uses again.

The executor is external code, modelled from how `parallel.py` uses it: it starts pending futures
in the order of submission, on as many threads as it has, and `Future.cancel()` works only
on a pending one.

### WorkerControl

`phase[r]` is a row's place (before, in, or after its search; closing; over), `polling[r]`
says that it is inside `__call__`, and `pc[t]` is a pool thread's place in the probe: `look`
at the cancellation, take the `lock`, `held` with a skip seen, `parked`. `at[t]` is the stage
of the thread's task, so a thread can belong to a stage that is over. `Pool[r]` are the threads of row
`r` that every one of its stages has a task for. `asked` and
`skips` are history variables: the stages that were in progress when the pending request was
made, and the stages skipped so far.

A task left behind by a skipped stage still polls the probe and can consume the next
request; nobody is listening for the `StageSkipped` it raises. The model keeps that.

### BatchTransaction

A dataset is its status, the run that produced its result, its settings and its checkpoint.
A checkpoint is the layout it was written under (a single search, the expert joint graph,
an automatic fit group) with the settings its fingerprint was taken from, which is exactly
what decides whether a search accepts it. `project` is the owner's copy, `working` the
transaction's, `baseline` the rollback point of the group being refined. `fits[r]` is where a
row is: `ready`, ended but unpublished (`ok`, `error`, `refused`, `cancelled`), awaiting its
group (`fitted`, `winnerless`), in its group (`qualified`, `isolated`), or `decided`, `failed`,
`stopped`.

Choices made on the way:

- The worker's preflight leaves the project alone, so it has no action; a row that can no longer
  be prepared afterwards is `unprepared`.
- Every row is an automatic import. A MANUAL row is never routed and changes nothing.
- Several checkpoints of one search collapse to one: only the newest is kept.
- A checkpoint callback that raises is `JointFails`, `GroupFails` or `WorkerDies`, which is
  where such an exception ends up.
- Whether a fit is good, whether a member is isolated and which settings win is numerical: it is
  chosen freely, within what the code forces (members refined together share the validity of the
  joint winner; a member with no winner is isolated).
- `Cancel` sets the answer of the probe. Each place that asks it may see the new or the old answer,
  as in the code.

### FitSearch

`mode` says whether the search is of one dataset or of a joint graph: the two share the
checkpoint and its validator and differ in their stages. `at` is the next stage of the loop,
`history` the committed stages with their candidates, `skipped` the skipped ones, `counts`
the `perturbation_counts` that stage B or a local stage hands to the next (a checkpoint does not
have them), `work` the local stage C or D in progress. `pending` is the newest checkpoint given
to the callback and `store` the one the project keeps: an abort (a cancellation, or the death of
the process) keeps either, since a publication may be lost.

One action per step of the code: `StageA`; `StageB` with its archive; `StartLocal`,
`LocalRound` and `CommitLocal` for C and D; `StageE`; `JointStage` and, seed by seed,
`_run_stage_e_prefix`; `StageSkipped` where a stage polls; `Finish` and
`continue_profile_basin`; `Abort`; and `BeginSearch`, which validates the stored checkpoint
and takes it up or fails the row. `Accepted` is the validator after its identity check:
`_validate_history` with the order of the candidates, `_validate_candidate_layout`,
`_validate_summaries`, `_validate_seeds`. A summary is made when its stage is committed and travels
with the checkpoint; the validator makes it again from the candidates, by another rule than the
joint search did (`_joint_best_objective` takes every candidate, `_summary` the selectable ones).

Choices made on the way:

- A candidate is its line, its round, its cost (`Infinite`: invalid or not finite) and a mark.
  Which cost a solver finds is chosen freely.
- The fingerprints of data and settings (`_validate_identity`) are left to `BatchTransaction`. Of a
  summary the identifiers and the best objective are kept; stop reasons, evaluation counts and evidence
  are copied from the candidates on both sides of the comparison.
- One record stands for the checkpoints of all members of a joint graph. They are built from one state
  in one call (`fit/joint_pipeline.py:488-512`), and `BatchTransaction` shows that a project never
  mixes those of two runs; so the comparison across members (`joint_pipeline.py:535-552`) and of
  their candidates (`joint_candidates.py:181-220`) has nothing to compare here. A checkpoint of one
  member edited by hand is outside the model.
- A joint evaluation that is invalid makes its stage raise: `_project_candidate` would give the
  candidate an infinite ranking, which `FitCandidate` refuses (`model/fitting.py:131-133`), so the
  graph fails (`Fail` in `JointStage` and `_run_stage_e_prefix`). A joint checkpoint therefore never
  holds an invalid candidate, except one the solver took back (`raised`, without a ranking).
- A stage that is not committed leaves nothing behind, so what happens inside one is visible only
  where it decides a budget (C and D) or publishes (joint E).
- Sorting, selecting and summing come from `Counting` and not from the community modules, whose
  operators take other operators as arguments and so cannot be proved about. `InOrder` sorts by
  how many members come before each, `Chosen` and `Total` go through a sequence with a recursive
  function.

### ProjectDocument and FitSession

A content is a number, new with every commit, since the code compares contents by identity
first. `undos` and `redos` are the two deques, `disk` and `draft` the project file and
the `.autosave` file at each path. `drafted` and `unsettled` are history: autosave has seen the
present content; a save replaced the open file and then failed.

In `FitSession`, `op` is the panel whose controller has a job; `cancelled`, `forced` and
`paused` are what the panels show as asked and `job` what the job was told. `question` is
the question box that is open: while it is, timers and job events go on and the user can do
nothing else, which is what a modal box with its nested event loop gives. `pending`,
`deadline`, `prompt`, `resumed` and `scheduled` are the fields of the close sequence
(`_close_pending`, the five-second timer, the force prompt, `_resume_user_close`, the zero
timer). `source` is the project the run began with, `tip` what it wrote last. While an operation
runs the window disables the ways to change the project it lists (`gui/operation_state.py:48-97`),
so `Edit` and `FileOperation` need an idle window. Two ways get through, and `stepped` remembers
that one was taken. The menu entry of the expert mode is not on the list: `ToggleMidRun`, once
per run; `twin` is the project the run began with in its other expert mode, which a chain still
accepts. And every commit ends by enabling the undo and redo actions as the stacks are
(`gui/document.py:211`, `gui/chrome.py:542`), so from the first one of the run on the user can
step through them: `StepMidRun`.

Polling delivers batches of events. Nothing of the window can come between two events of a batch
that could not come between two polls, so an action delivers one durable event with the progress
frames around it; `_dispatch_batch` is the coalescing of the code on those frames, a recursive
function of how many events it has dispatched, and
`project_frames` records in `in_order` whether it kept what `FaithfulFrames` asks.

## 3. The runs

| Run | Configuration | Shows |
|---|---|---|
| `operation_job_safety` | `OperationJob_safety.cfg` | every interleaving of a worker with or without a project file, its feeder, one fault, and an owner that polls, pauses, cancels and force-stops: what the owner is shown and when it believes it; the implementation of `EventStream` |
| `operation_job_liveness` | `OperationJob_liveness.cfg` | a cancelled, force-stopped or dead job is always reported as stopped, although the pipe holds a single message and SIGTERM may be ignored |
| `operation_job_blocking` | `OperationJob_blocking.cfg` | violation: a poll that never returns |
| `runner_batches` | `OrderedTaskRunner_batches.cfg` | two batches, inline or pooled, failing tasks and callbacks, leftovers of a failed batch, `cancel()` and an exception in the owner at any point |
| `runner_cancel` | `OrderedTaskRunner_cancel.cfg` | violation: a task starts after `cancel()` has returned |
| `control_rows` | `WorkerControl_rows.cfg` | two rows, one with two threads, that share the events: skips requested, discarded and consumed in every order, also by tasks of a skipped stage, a cancellation, a pause |
| `control_swallow` | `WorkerControl_swallow.cfg` | violation: one row discards the skip meant for the other |
| `batch_reruns` | `BatchTransaction_reruns.cfg` | two transactions of any kind one after the other, over rows that fail, stop, resume or die at every point |
| `batch_refusal` | `BatchTransaction_refusal.cfg` | violation: a refused resume erases the previous result |
| `search_resume` | `FitSearch_resume.cfg` | two searches, the second on whatever the first left: stages skipped, cut off or committed anywhere, restarts dealt out of the shared pool, joint seeds one by one, profile recovery |
| `session_window` | `FitSession_window.cfg` | fits and chains in a window that is edited, saved, autosaved, paused, stopped, closed, quit and killed around them |
| `session_undo` | `FitSession_undo.cfg` | violation: an undo during a fit, and the next checkpoint is written over what the fit began with |

### Properties

The comment in front of each property says which code it is about. In short:

- **OperationJob.** `FaithfulPrefix` (nothing dropped, repeated or invented),
  `BelievedOnlyIfComplete` and its converse `CleanExitBelieved` (the two drains around the
  liveness test lose no result and invent none), `ShownCheckpointIsSaved` (in a job with a project file),
  `ForcedOnlyOnRequest`, `ImplementsEventStream`; liveness:
  `CancellationStops`, `ForceStopEnds`, `ExitIsNoticed`, `PollReturns`.
- **OrderedTaskRunner.** `ReportedOnce`, `ReturnIsWhole`, `ClosedIsQuiet`,
  `EndedBatchStartsNothing` (but for the futures that an exception outside every `try`, or between
  a submission and its registration, leaves queued), `RunEnds`.
- **WorkerControl.** `OneStagePerRequest`, `NoStaleSkip`, `CancelIsHeard`, `PauseHalts`.
- **BatchTransaction.** `StopKeepsProgress`, `CancelKeepsRunnable`, `JointAllOrNothing`,
  `UnfinishedKeepsResult`, `SingleCheckpointsResume`, `DecisionsStand`.
- **FitSearch.** `CheckpointsResume` (the validator accepts what the search writes, holes of
  skipped stages and the summaries of a partial ensemble included), `ResumeIsExact` (whoever takes up the newest checkpoint is at the same
  stage with the same history, the same parents and the same restart budgets, although the budgets
  are not in the checkpoint), `BudgetKept` (the archive moves restarts and loses none; D spends
  no more than C), `ArchiveStaysDead`, `StoreGrows` (no later search drops, redoes or changes what
  the project keeps); liveness: `SearchEnds`.
- **ProjectDocument and FitSession.** `CleanMeansOnDisk`, `AutosavedWorkSurvives`, `RunIsOneStep`
  (a run's writes overwrite no edit and are one undo step, as long as the user changes
  nothing meanwhile), `ShownAsTold` (no stop is shown
  that the running job was not told, nor the reverse), `WaitingHasAnEnd`, `CloseIsSafe`,
  `FramesKeepOrder`, and the type invariant `TypeOK`.

`OrderedTaskRunner`, `WorkerControl` and `BatchTransaction` have type invariants that no run
lists: they are conjuncts of the inductive invariants of section 4, proved there.

### Bounds, and why they are enough

- `OperationJob`: `MaxPayloads = 2` allows a checkpoint before and after another
  message, `PipeCapacity = 2` lets the parent lag by more than one message, `LargePayloads = TRUE`
  includes torn writes, `MaxFaults = 1` puts one fault anywhere: a SIGINT, a crash, a save that fails,
  a read that fails, or a message the parent refuses (the parent's own signals are not counted). About
  1.6 million states, 65 s. The liveness runs use one payload and a pipe of one message: the tightest
  queue, where an exit that waits for the flush and an owner that waits for the exit would block
  each other. About 371,000 states, 80 s.
- `OrderedTaskRunner`: two tasks in each of two batches, with one or two threads, one cancellation and
  one exception in the owner: enough for a leftover task of the first batch to hold a thread that the
  second needs, for a cancellation on each side of a registration, and for queued tasks of an
  interrupted batch to start during the next. Two cancellations differ from one only in the
  snapshots they hold, and were explored without interrupts. About 485,000 states, 85 s.
  `runner_cancel` uses three tasks, so that a free thread exists while submission still goes on.
- `WorkerControl`: two rows and two stages give every pair of concurrent pollers across rows. One row
  has two pool threads, so that a task of a skipped stage lives on beside a task of the next one and
  competes with it and with the other row for the second of two requests, a stale one and a
  fresh one; `MaxPauses = 1`, since a pause that ends looks like none. About 636,000 states, 145 s.
  Two threads in both rows are beyond what a run can explore; the safety proofs cover them.
- `BatchTransaction`: two rows are the smallest joint graph and fit group, and still
  allow rows with different signatures; two settings tell a checkpoint that fits from one that does not;
  two transactions let the second meet whatever the first left. About 574,000 states, 45 s.
  Permutations of the settings are a symmetry: no setting is named. Three rows with one
  setting and one transaction were also explored, without a violation.

- `FitSearch`: `MaxRuns = 2`, a search and one that resumes it. `Costs = {1, 20}` with
  `ThresholdRatio = 10` is one cost that is archived against the other; three launches of stage B
  over these and `Infinite` give every split into active, archived and dropped.
  `BasePerturbations = 0` only takes a constant off every share, and makes the reclaimed
  restarts fall unevenly. `FinalSeeds = RescuePaths = 2` is the smallest ensemble with a proper
  prefix that recovery accepts. `Refined = {20, 999}` bounds the costs found in C, D and E: a usable
  one and an unusable one are what decides there. About 139,000 states, 110 s.
- `FitSession`: one path and the unsaved one; `MaxUndo = 1` makes the undo list
  overflow at the second edit; `MaxContents = 3` is an edit and two writes of a run;
  two runs, two closes and together three of them let a second run or close meet what the first
  left; one crash; up to three frames around a durable event. Three further bounds are named in
  the module: the user works on the document before the first close or after a crash
  (`DocumentVaries`), nothing is started or closed after a crash (`MoreDeeds`), and frames vary
  only in a window that is not being closed (`FramesVary`), since they touch nothing else. About
  1.35 million states, 100 s. `session_undo` needs one run, two writes and an undo list of two.

Deadlock is not checked for `OperationJob` and `BatchTransaction`, which really end (a closed
job; a project after the last allowed transaction). In the other modules an explicit
action marks the proper end, and any other state without a successor would be reported.

### Fairness, and what justifies it

- `OperationJob`: `ParentFairness` is what the owner controls: its timer keeps polling, the
  clock advances, and SIGKILL is obeyed by the operating system. Nothing is assumed of the
  worker, which may hang, or of SIGTERM. Only `CancellationStops` also assumes a scheduled
  worker, as the antecedent of the property itself: a cancellation is cooperative. The
  owner's calls and the faults, a failing read among them, are never fair.
- `OrderedTaskRunner`: the owner's thread and each pool thread run, and tasks return. Nobody has to
  call `run()` or `cancel()`, and no exception has to hit the owner.
- `WorkerControl`: threads are scheduled and a solver polls its probe again and again, which
  is what the solvers' callbacks do. A solver need not finish (`ReturnTask` is not fair), and
  the owner need not resume a paused worker.
- `FitSearch`: a step of the running search (`Step`) is weakly fair: its thread runs and
  its solvers return. Beginning a search, skipping a stage and aborting are not.
- `BatchTransaction` and `FitSession` have safety properties only, and no fairness. That a
  close which waits will end is stated as a safety property, `WaitingHasAnEnd`: some
  timer, prompt or forced job is always there to end it; that these come is the event loop's
  promise and, for a forced job, `ForceStopEnds` of `OperationJob`.

## 4. The proofs

Checked by `tlapm` with Z3, Zenon and LS4, from the module's assumptions on its constants
only (`JobAssumption`, `RunnerAssumption`, `ControlAssumption`, `BatchAssumption`,
`SearchAssumption`, `DocumentAssumption`, `SessionAssumption`: bounds are naturals, sets of
settings and of costs are not empty, `Infinite` is above every cost, `NoPath` is no path, the undo
list holds at least one step, `Result` is one of the two result kinds). Every theorem holds
for every number of messages, threads, tasks, rows, stages, settings, transactions, searches,
seeds, runs and closes.

**OperationJobProofs.** `IInv` is type correctness with four parts. `SavedInv`: in a job with a
project file no snapshot on the queue is newer than the file. `ChannelInv`:
`read <= flushed <= Len(sent)`, and a worker that left in good order left nothing unflushed.
`ProtocolInv` is the heart: as long as the protocol has not failed, what the parent knows
(`pendingTerminal`, `stopReceived`, the events shown) is exactly what the messages it has read say;
and if it has failed, the queue could not be read or the part read contains a message that breaks
the protocol. `ClosedInv`: the verdict, once given, is the one the log calls for. None of the safety properties is inductive without
`ProtocolInv`, because each speaks about the log while the parent decides from its own
flags. Theorems: `TypeCorrect`, `ShownIsFaithful`, `BeliefIsSound`, `BeliefIsComplete`,
`ShownIsDurable`, `ForceIsRequested`, and `Refinement` (`Spec => ImplementsEventStream`).

**OrderedTaskRunnerProofs.** `LogInv` ties each batch's log to its futures: a position is in
the log exactly when its future has reported. `SubmitInv` says which futures are still untouched
or queued at each place of `run()`: after it only those that an exception spared, and in
`_cancel_pending` those and the rest of its list. `Control`
and `Place` tie the owner's place to the fields under the lock, and `CollectedInv` says that
what has been read so far are values; that the owner has read `N` distinct positions is then,
by a counting argument over finite sets, that it has read all. Theorems: `ReportsOnce`,
`ReturnsWhole`, `ClosesQuietly`, `EndsForGood`.

**WorkerControlProofs.** `CountInv`: stages skipped plus the request in flight (flag set, or
seen by the thread with the lock) are at most the requests made; it needs `LockInv`, that
the holder of the lock is the one thread about to clear the flag. `AskedInv`: a flag that a
searching row can see was set during that search. Theorems: `SkipsOnce`, `NothingStale`.

**BatchTransactionProofs.** `TypeCorrect`, then two further invariants.
`DecisionsInv` (for `DecisionsHold`): in an automatic run of an independent project a decided row is
the same in the working copy and in the owner's, and while a group is being refined every row
outside it is the same in the group's baseline; so the rollback of a cancelled group
restores nothing but the group. `JointInv` (for `JointWhole`): in a joint project all four
copies (owner's, original, working, baseline) have the results of one run each, and an automatic
run has all its rows in one group that is refined and decided together, or fails as a whole.

**BatchProgressProofs** (over `BatchTransactionProofs`). Four invariants, one per theorem.
`OpenInv`: a row whose outcome is not yet decided has the result and the settings it was given in
all copies; the group's baseline is among them because a cancelled group puts it back
(`ResultsWait`). `CheckpointInv`: in every copy a single-search checkpoint carries the settings
beside it, and while a transaction runs those are the settings the row was given, which is
why a result that keeps the checkpoint keeps the settings too (`CheckpointsFit`).
`IndependentInv`: what a row of an independent fit published is in the working copy, its
checkpoint in the owner's copy as well (`StopsKeep`). `AutomaticInv`: a waiting row keeps its route
or its checkpoint until it is committed, a committed row is published as it is, and a group in
refinement has a baseline that can run again (`CancelsRunnable`).

**CountingProofs.** The lemmas that `FitSearchProofs` and `FitSessionProofs` share. `Induct`,
induction over the naturals for a *set* of numbers, from the library's theorem that they are well
founded: a fact to be proved for all `n` is stated as the set of the `n` it holds of, so no theorem
with an operator parameter is needed. `Recursion`: a function defined step by step exists and
satisfies its equation. From these what `InOrder` returns (`InOrderFacts`: a bijection that lists
every member behind its predecessors), what `Chosen` keeps, and what `Total` adds up to.

**FitSearchProofs.** Three layers. The first, `IInv`, is about which stages there are: a checkpoint is
accepted because of what is known of the history it is made from, and after a resume that is known
only because the checkpoint was accepted. `Good` is the validator without what looks at
candidates, for the newest and for the kept checkpoint. `MemoryInv`: the committed stages are those
before `at` that were not skipped, and a joint ensemble that is not finished, or was skipped, is a
proper prefix of its seeds. `KeptInv`: the running search has all the kept checkpoint has.
`GrowInv`: so has the newest checkpoint, which the project may take at any time. `MirrorInv`: the
newest checkpoint leads back to where the search is.

The second, `DataInv`, is about the candidates. `Documented`, of every history in memory or in a
checkpoint: stage B is archived as `archive_stage_b_candidates` leaves it, and C and D hold
unmarked candidates of every line, no more of them than B's pool of restarts. `RoundInv`: from its
first round on, a local stage in progress has a candidate of every line. `ContinuedAlike`: parents and counts computed from the
history alone are those computed with the counts in memory; this is what a resume has to reproduce,
since a checkpoint does not hold the counts. It follows for B because the marks in the history
say what was archived, and for C because the launches of a line can be counted in its candidates.
`BudgetKept` is a conjunct: the pool of D is what C launched, so it is needed to bound it.

The third, `NameInv`, is about what a checkpoint says of its candidates: each identifier occurs once
in its stage (`Named`), and the summaries are those of the history (`Told`). For C and D it needs
`Counted`: every round number on a line is below the number of its candidates, which is the number the
next round takes (`NextRound`), and no round visits a line twice. The two rules for the best objective
agree on candidates that were neither archived nor taken back (`BestIsLeast`).
Theorems: `Accepts` (`CheckpointsResume`), `ResumesExactly` (`ResumeIsExact`), `KeepsBudget`
(`BudgetKept`), `ArchivedStaysDead` (`ArchiveStaysDead`), `KeepsProgress` (`StoreGrows`).

**FitSessionProofs.** `DocumentInv`: the file holds `saved`, a clean document is `saved`, the
draft holds what autosave saw. `StopInv`: what a panel shows is what the job was told, and nothing
of a fit's stop is left when no fit runs. `RunInv`: `RunIsOneStep` with the flag that decides
between a new undo step and the one on top. `CloseInv`: a prompt is open only over an
operation that a close waits for, a fit that was not told to stop was started while the close
waited, and a close on its zero timer still asks unless something overtook it; without
these neither `WaitingHasAnEnd` nor `CloseIsSafe` is inductive. The order of progress frames is
not about the window's steps but about what one batch shows of its events: `Coalesced` holds after
every event of the batch (what was shown is in order, what waits is of one dataset each and comes
after it with no durable event in between, and whatever is in neither gave way to a later frame of
its dataset and stage), proved by induction over the events for batches of any length. Theorems:
`TypeCorrect`, `CleanDocuments`, `DraftsHold`, `RunsUndoAsOne`, `PanelsTell`, `WaitsEnd`,
`ClosesAreSafe`, `FramesInOrder`.

Every invariant and every action property that a passing run checks is stated by one of these
theorems. Only model-checked are the liveness properties, `CancellationStops`, `ForceStopEnds`,
`ExitIsNoticed`, `PollReturns`, `RunEnds`, `CancelIsHeard`, `PauseHalts` and `SearchEnds`:
ENABLED and fairness are beyond this prover.

## 5. Disagreements between the code and what is said of it

Each is a run whose single property states a sentence of the repository, and which TLC
finds violated.

1. `PollReturns`: "Return all currently available events without blocking"
   (`services/workers.py`, `poll`). `get_nowait()` waits for the rest of a message whose
   beginning is in the pipe. A forced stop can kill the worker in the middle of a large
   message, and the parent holds the write end open itself: that poll never returns.
2. `CancelReachesUnstarted`: "Cancel every task in the current batch that has not started"
   (`services/parallel.py`, `cancel`). Submission does not look at the flag; a task submitted
   after `cancel()` has returned may start before `_register` cancels it.
3. `SkipReachesStage`: "void this one stage, the search goes on" (`services/workers.py`,
   `skip_stage`, in Chinese there). With two rows fitted at the same time, any probe of the row
   that is not searching discards the skip asked for the one that is.
4. `RefusalKeepsEvidence`: a mismatched checkpoint "preserves the previous valid
   result/checkpoint" (`docs/algorithm.md`, `docs/user-guide.md`). An automatic run that ended by
   force during a group refinement leaves joint-layout checkpoints in rows that the next run
   resumes one by one; the refusal marks the rows FAILED and clears both.

5. `RunCanBeUndone`: "mutating routes are locked while it runs, so the view is the only thing that
   can have changed underneath it" (`gui/document.py:238`), "a run takes one step of the undo stack"
   (`gui/fitting/panel.py:464`, in Chinese there), "every homepage route that can mutate the project is
   gated during a fit" (`tests/gui/test_operation_controls.py:152`). Every commit emits
   `project_changed`, on which the window disables undo and redo, and then
   `undo_state_changed`, on which the menu enables them again. From a fit's first checkpoint on
   Ctrl+Z works; it takes the run's undo step away, and the next checkpoint, folded into a step
   that is no longer there, replaces the project the fit began with for good. The test uses a fake
   job that writes nothing.

Noticed on the way, without a run of their own:

- The menu entry of the expert mode stays enabled while an operation runs (`gui/chrome.py:574-586`).
  The mode is content, not view (`gui/document.py:26`), so a fit's next checkpoint puts it back
  unasked; a chain's result keeps it (`gui/results/panel.py:829-832`). `ToggleMidRun` has both.
- The docs describe a `checkpoint_failed` result (`docs/algorithm.md:688`,
  `docs/user-guide.md:350`) that no source line produces; and an automatic run of a joint
  project with one row that is not runnable fails and clears all its rows (`RefuseRoutes`).
- Quit (`gui/main_window.py:660-670`) returns the answer to "stop and exit?" and asks nothing
  after it, although its comment says that both questions are asked there and the question
  itself promises another one about unsaved changes (`gui/project/dialogs.py:156`). If the
  operation writes its result and ends while the question is open, the close events of the quit
  find an idle window: the result is dropped unasked and its draft deleted. The same happens with a
  quit while a close is pending, and when a user's close overtakes the zero timer of an earlier
  one. The model has these steps; `CloseIsSafe` names them in `excuse` and says that no other way
  leads there.
- A save that fails after it replaced the file leaves a document that remembers the old content as
  saved: an undo back to it then reads as clean (`save_half_done`, `unsettled`).
- A draft can be left behind by autosave followed by an undo to the saved project, or by a save
  under another name, against `gui/project/autosave.py:6-9`.
- A fit started while a close waits gets a force prompt whose Yes is ignored, because nothing told
  it to stop (`late`). A No to the question about a long chain leaves the close pending, and the
  force prompt comes anyway. A late Yes leaves the chain panel at "cancelling" until its next
  start.
- Two kinds of candidate make a checkpoint that its own validator refuses (`Rederivable`): a joint
  one whose solver raised the objective (published as invalid and without a ranking; on resume it is
  evaluated as valid, and a missing ranking is refused too, against `fit/joint_pipeline.py:5-6`), and
  one of stage B that is both invalid and archived. Both are on defensive paths that ordinary data does
  not take; `CheckpointsResume` excepts them. A third cannot come about: a joint candidate with an
  invalid evaluation would need an infinite ranking, which `FitCandidate` does not take.
- So an invalid joint evaluation (also one that breaks a constraint across datasets,
  `fit/joint_evaluation.py:140-164`) ends in a ValueError out of `_project_candidate`, and the graph
  fails. The rest of the code expects such a candidate to exist, unranked: `_summary` and
  `_append_stage_e` step over a missing ranking (`fit/joint_pipeline.py:164-168`, `210`), and
  `model/project_joint_ranking.py:17-22` demands that an invalid candidate has none.
- An exception in `run()` between a submission and its registration, or around `get()`, leaves tasks
  in the executor's queue that start after `run()` has raised (`services/parallel.py:118-124`, `137`),
  until `close()` drops them. `EndedBatchStartsNothing` names them in `spared`.
- A `fit_group_id` is a hash of import batch, physical signature and measurement preset, and a
  later import can change the preset (`services/datasets.py:449`): a row that runs again then
  leaves the group whose passed members keep the old identifier, and an edit of one no
  longer clears the others. Removing a dataset, and edits of sharing or constraint rules, clear
  only the rows they name.

## 6. What is not modelled

- Numbers: reflectivity, objectives, optimisers, uncertainties. Where control depends on
  them the models choose freely.
- Formatting: codecs, tables, plots, messages, translations.
- Widgets that only show the document or send edits to it.
- The executor, `multiprocessing` and the file system beyond what the code in `src/` relies on.
- Of the window: operation controllers attached from outside, the skip button, the hold timer of the
  preview, the back-off of the poll timer, readiness and preflight, a second quit while a question
  is open, and where the reader looks (page, splitters, active dataset).
- Of a search: the seed of the global search, the elite that one seed of E hands to the next, the
  solver calls inside a stage, warnings.
- Source snapshots (`services/projects.py`): validate, clear, read again, at most twice. One
  writer outside the repository against a straight line of reads.
- The steps of a file or directory publication (`io/project_codec.py`, `io/export_run.py`): a
  straight line of system calls whose guarantee is the rename of the operating system. The models
  take it as one step that happens, fails, or happens and then fails (`save_half_done`).
- Which rows an edit clears (`services/datasets.py`, `structures.py`, `parameters.py`): pure
  functions. `BatchTransaction` would need an edit between its transactions, which takes its state
  space past what a run can explore.
- Adaptive review, its grids, diagnostic refits: what they compare is numerical, and their control
  is sequential.
- The components with status `not_modelled` in `PROJECT.json`.

The greater part of the repository by lines is forward models, optimisers, statistics, plots
and widgets: no finite state to check, or none that outlives a call.

## 7. Plan

Done: the worker and its job, the task runner, the worker control, the batch transactions, the
staged and the joint search with profile recovery, the window's session with its document and
autosave; every safety property the runs check is proved. All twelve runs of the project
are used, so a further model has to share one.

Left, in order:

1. **ProjectEdits**: which rows each edit clears in joint projects and fit groups, as an action
   between two transactions of `BatchTransaction`, if its state space can be cut (one
   setting, one edit). Property: no row keeps a group result whose group it, or another member,
   has left.
2. **SourceSnapshot and Publication**, in one module: hash-read-hash against a writing program, and
   temporary file, fsync, replace with a crash at every step. Proof: a published file is old or
   new, whole.
3. **Adaptive review** (`fit/adaptive_review.py`): the budget after each level and the bound on
   promotions.
4. **FitSession**: external controllers and the skip button, whose request would meet
   `WorkerControl`.
