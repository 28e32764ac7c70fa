# React Doctor: a verification of the scan machinery

React Doctor lints React projects. Most of its code decides *what* to report
about a syntax tree; the part verified here decides *that* every file is
reported on, once, correctly, and without harm to the user's files: how a scan
runs its phases and what its report may claim, the processes it starts, the way it
divides its work and survives failures, the rewriting of files in audit mode, and
the caches between scans.

Modules are TLA+; TLC checks them on the instances named by the `.cfg` files,
and TLAPS checks the proofs. Paths below are relative to
`src/packages/core/src/` unless they begin with `src/`.

## 1. Inventory

### Modelled

| Part | State it keeps | Operations | What is hard | What makes it correct |
|---|---|---|---|---|
| **Scan orchestration** `run-inspect.ts`, `services/linter.ts`, and what the command does with the report: `src/packages/react-doctor/src/inspect.ts`, `cli/utils/scan-result-cache-lifecycle.ts` | the main fiber, four forked fibers, references to failures and to the coverage, the promise of `runOxlint`; a git lookup shared by the scans of an invocation | discover, fork, lint, join or interrupt, finalize, report, compare, store; limits, abort, defects | a promise that goes on after its phase timed out; analyses that end in any order while limits interrupt them; a service that never answers | nothing runs on after the scan; the report names what it lost; no score without lint and maintainability; nothing incomplete is stored or compared, outside the supply chain; every scan ends |
| **Oxlint worker pool** `runners/oxlint/oxlint-worker-pool.ts`, `oxlint-worker-prespawn.ts`, `start-oxlint-worker.ts` | set of workers, idle stack, queue of jobs, `available`; per worker its job and flags; per job its promise and the ended streams | `run`, abort, `warm`, `closeIdleWorkers`, `close`; boot, ready timeout, job timeout, idle timeout, data, close and send-error events | handlers that re-enter each other; promise reactions that run later than the state they were queued for; kills whose effect comes much later; two pipes per worker | a job is in one place and settles once with its own output; no job waits beside a free worker; no more processes than allowed; the pool ends clean |
| **Lint jobs** `runners/oxlint/run-oxlint-job.ts`, `spawn-oxlint.ts` | per job its promise, process, listener on the abort signal, timer | hand to the pool, fall back to a process; timeout, abort, too much output, spawn error, close | the events of a process come in any order; the pool goes out of use at any time | only a job that the pool refused gets a process; nothing armed is left behind; every call is answered |
| **Worker slots** `utils/create-worker-slots.ts` | free count, queue of waiters | acquire, abort, release | hand-over of a slot against an abort | slots are conserved, granted in order, to everyone |
| **Lint batches** `runners/oxlint/spawn-batches.ts`, `utils/map-with-concurrency.ts` | batch index, first error, per task the recursion over halves, sets of dropped and skipped files, deadlines | start, succeed, split, drop, skip, fail; serial replay; rescue one file at a time | any job can fail in any way at any time; deadlines; a pass that fails while its siblings run | every file is linted, dropped or skipped, exactly once, and the report says which of their sources |
| **Directive neutralization** `neutralize-disable-directives.ts` | leases shared by the scans of a process; backups on disk; a queue of initializations | recover, discover, lease and rewrite, restore, restore on exit | overlapping scans of nested roots; kills between two file operations; edits by the user | the user's text is never lost; the directives are hidden while a scan needs it and are back afterwards |
| **Lint caches** `runners/oxlint/file-lint-cache.ts`, `sidecar-lint-cache.ts`, `resolve-sidecar-probe-answer.ts`, the cached path of `run-oxlint.ts` | two JSON files of buckets of entries; per scan its hits, misses and results | load, split, lint, replay, store, merge, prune, rename | processes that share the files; partial failures that look like clean files; reports that depend on other files | a warm scan reports what a cold one would |

### How the parts interact

`runInspect` (`run-inspect.ts`) runs one scan. It forks the security scan, the
supply-chain check and the maintainability analysis, streams the diagnostics of
`runOxlint`, joins the forks, and reports. `runOxlint` (`run-oxlint.ts`) takes
the directive leases in audit mode, consults the caches, and passes what is left
to `spawnLintBatches`; that runs batches through `mapWithConcurrency`, takes a
worker slot for each, and hands it to `runOxlintJob`, which uses the worker pool
or, when the pool is not available, a process of its own (`spawn-oxlint.ts`).
Scans of several projects in one invocation share the slots, the pool and the
leases; processes share only files: the caches, the backups, the CLI state.

### Not modelled

Each of these is a component in `PROJECT.json` with its reason. In short:

| Part | Why not |
|---|---|
| Rules and plugins, project analysis (most of the repository's 425 000 lines) | sequential functions over syntax trees. What a rule reports is the data of the system modelled here; a model of one would be its text again. For this reason the models cover a small share of the lines, though nearly all of the code that schedules, waits, fails and recovers |
| Diagnostic pipeline, configuration, project detection, planning arithmetic, score and report formats | pure functions over text, or one query each |
| Progress line of a scan (`services/progress.ts`) | output. Its comment asks that a handle terminate exactly once; an abort leaves that to the exit of the process |
| Whole-repository scan cache: key and store | the read, merge and rename of `LintCaches` once more; the decision to store is in `RunInspect` |
| CLI state | an update without a lock by design: two processes can lose each other's gate, and nothing promises otherwise |
| Project batches, maintainability workers | built from parts that are modelled (`mapWithConcurrency`), or a queue simpler than the pool's |
| Evaluation harness (`src/packages/evals`) | a development tool beside the program |
| Terminal interface, set-up commands, fuzzing, scripts, action | input and output |

Five of the listed hazards stay without a property. Two belong to parts that are not
modelled, the CLI state and the evaluation harness. Two are edits during a scan, after
which the lint caches or the whole-repository cache may file a result under the hash of
older content: the code treats the file system as frozen while it scans, and so do the
models. The last is that two processes that audit the same root at once take each
other's backups for orphans; the leases are known to one process only, and the code
promises nothing for two.

## 2. Modules

| Module | Content |
|---|---|
| `LintJobService` | abstract: a queue that starts jobs in order and settles each once |
| `OxlintWorkerPool` | the pool, its host's event loop, the processes and pipes |
| `OxlintWorkerPoolProperties` | its properties, and the refinement mapping to `LintJobService` |
| `OxlintWorkerPoolProofs` | proofs of its safety properties and of the refinement, in three parts: types, processes, jobs |
| `OxlintJobs`, `OxlintJobsProofs` | jobs between the pool, as `LintJobService`, and processes of their own; properties and proofs |
| `FifoSemaphore` | abstract: a semaphore that serves its waiters in order |
| `WorkerSlots`, `WorkerSlotsProofs` | the slots, their properties, the refinement mapping to `FifoSemaphore`, and proofs |
| `LintBatches`, `LintBatchesProperties`, `LintBatchesProofs` | one call of `spawnLintBatches` |
| `RunInspect`, `RunInspectProperties`, `RunInspectProofs` | one scan and its report |
| `DirectiveLeases`, `DirectiveLeasesProperties`, `DirectiveLeasesProofs` | calls of `neutralizeDisableDirectives` |
| `LintCaches`, `LintCachesProperties`, `LintCachesProofs` | scans that use the two caches |
| `SequenceLemmas` | what removing from a sequence and appending to one return, and least elements |
| `MC*` | instances for TLC |

### How the models correspond to the code

**OxlintWorkerPool.** The variables `workers`, `idleWorkers`, `waitingJobs` and
`available` are those of the closure of `createOxlintWorkerPool`; `worker` and
`job` hold its records. JavaScript is modelled by three levels. `stack` is the
synchronous code still to run: `dispatchWaiting` and `warm` are loops, and
`createWorker` can replay the exit of a prespawned child that died before, which
calls `dispatchWaiting` again inside the loop. `micro` is the queue of promise
reactions (`worker.ready.then(...)`), which run only when the stack is empty and
may find the worker dead or the job gone. Events are taken only when both are
empty. Calls of the interface come from reactions too, so they wait only for the
stack. A process is its `inbox` and two `pipe`s; the bytes of a job are the
job's name, written before the end marker of each stream, and the streams are
read in any order. Of a dead worker's record only what is read again is kept.
Identities of workers are reused after their exit.

**OxlintJobs.** The pool is not modelled again: `Pool` is an instance of
`LintJobService`, the abstract service that `OxlintWorkerPool` is proved to
implement, and its variables are those of the service. So the two modules compose:
what `OxlintJobs` assumes of the pool is what the pool shows (the run `pool` its
safety part, `pool_liveness` its liveness part). A job has a `stage`, its process a
`child` that is dying between the kill and the `close` event, and the abort of the
scan runs all listeners in one step, as an `AbortSignal` does. `Close` settles again
what another event settled already; as with a promise only the first answer counts.

**RunInspect.** `main` is where the main fiber stands between two awaits. A forked
fiber is running, emitting its findings one by one, done, or interrupted; findings
are counted. `marks` are the references that record failures and the flags derived
from them. `oxlint` is the promise of `runOxlint`: the phase limit ends the wait for it, and
`OxlintSettles` may still come after. Time limits are actions that may happen at any
moment at which their timer is armed; `spent` says that the maximum duration is over,
which several places read. An abort and a defect are one action, `Stop`, after which
the children are interrupted. What the command does with the report, the comparison
with the base commit and the decision to store it, is `Complete`. A lint run that
succeeds may have lost files, the React Compiler plugin, or both (`LintMarks`), each with
a note of its own: any note keeps a report from being stored, but only lost files keep it
from being compared (`Comparable`), and neither costs it its score. The notes are
independent of the coverage. The silent retry without the configuration that the project
adopted leaves no note and is not counted as a loss. Three other behaviours of the code
shape the properties. The supply-chain check leaves out packages without a mark, and
`OnlyWholeScansAreKept` leaves that analysis out (see section 5). If lint failed, the
maintainability analysis is dropped without a mark of its own, because the report names
lint. And the coverage of a late `runOxlint` counts only until the main fiber reads it.

**LintBatches.** A task is `runWorker` of `mapWithConcurrency`; its `work` is the
stack of calls of `spawnLintBatch` in progress, each half a call. A step is a
handler between two awaits. `runOxlintJob` is its outcomes: success, a limit
exceeded, out of memory, exhausted resources, a fatal error. Deadlines are
actions that may happen between any two steps. A file of the model is one place in the
list of lint paths: explicit `includePaths` reach the batches without deduplication
(`run-oxlint.ts:591-599`, `run-oxlint.ts:1036-1039`), so a path listed twice is two files
with the same `PathOf`. `SourceOf` is `resolveSourcePath`: a component and the `.tsx` that
was generated from it are two paths of one source. The bookkeeping of a pass is about
files; the rescue clears a path, and the report is about sources. The wording of reasons
is abstracted.

**DirectiveLeases.** A `handler` is a synchronous section and one step of it is
one file operation, so that a kill can come between any two of them or leave a
file torn in the middle of a write. A version of a file is a number and whether
its directives are hidden; every save of the user is a new number. One process
runs at a time, the user does not save during a handler, and a torn file counts
as one without directives.

**LintCaches.** A report is abstracted to what it was computed from: the content
of the file and, for cross-file rules, the content of every path they consult.
So a stale report differs from a fresh one and soundness is an equation. Probes
are modelled separately, as the recorder of the plugin records them, and whether
they cover what the report depends on is checked, not assumed. Hashes are the
contents they stand for. `persist` is two steps, the read and the rename, because
another process may do the same in between. As in the code the file system is
frozen while a scan runs; edits come between scans. A schema mismatch, an
undecodable entry and a missing file all read as an empty bucket, and clock ties
between buckets are ignored.

Definitions marked as *wrong variants* are used by no action. Each is the
neighbouring definition with a plausible bug; a run in which it takes the place
of the right one must fail, which shows that the property in question has
something to say about the code. Every property of a passing run has one.

## 3. Runs

| Run | Instance | Shows |
|---|---|---|
| `pool` | 2 jobs, 2 workers, 1 prespawned child, 4 identities | process limit, separation of outputs, what taking the pool out of service leaves; no job is lost, doubled or left waiting; the pool implements `LintJobService` |
| `pool_liveness` | 2 jobs, 1 worker | every accepted job settles; `close()` resolves |
| `pool_unavailable` | 2 jobs, 2 workers | **violation**, see section 5 |
| `jobs` | 3 jobs, a pool that may go out of use | only a job that the pool refused or turned away is run by a process, nothing is left behind, every call is answered |
| `worker_slots` | 4 tasks, 2 slots | slots are conserved, granted to every waiter; the slots implement `FifoSemaphore` |
| `batches` | 5 files in 2 batches, two of them of one source and two of one path, 2 tasks, split depth 1 | bookkeeping of files, signals, progress, rescue; every pass ends |
| `inspect` | a full scan with a maximum duration, a pull request with a shared git lookup | no fiber outlives the scan; a report names what it lost, a score needs lint and maintainability, nothing incomplete is stored or compared (the supply chain apart); every scan ends |
| `leases_overlap` | 3 scans, nested roots, one file in both, 1 kill | leases are counted, directives stay hidden, recovery is complete, no lock-up |
| `leases_crash` | 2 scans, 2 files, 1 kill, 1 failing operation, 1 edit | nothing is lost; files are restored |
| `leases_audit` | 3 scans, 1 kill | **violation**, see section 5 |
| `caches` | 2 processes with 2 scans each, 2 rulesets, 2 edits, a bucket of 2 entries, workers that collect probes | entries are sound, reports fresh, and merging keeps the newest |
| `caches_probes` | 1 process, 3 scans, a pool worker | **violation**, see section 5 |

**Why the bounds are enough to be interesting.** The pool needs two workers for
one to fail while its sibling works; a prespawned child is what makes its handlers
re-enter. Identities suffice for a new worker to appear while a killed one has not
exited (`EnoughIdentities`). With one worker, as in `pool_liveness`, a job queues
behind another. The fallback needs one job that the pool has started, one in
its queue, and one that comes after it has closed. A scan
needs both shapes of input: the security scan runs beside lint only in a full scan,
and a report is compared only with a base commit. One finding per
analysis suffices, because what matters is whether findings are missing. Slots need
more than two waiters behind two holders. The batches need two tasks to fail apart, a
batch that splits into unequal halves, and one level of splitting (each deeper level
repeats it, and the proofs hold for any depth). Leases need two
overlapping scans and a third that begins while one ends; one kill suffices
because recovery starts from the files alone, and a kill during the recovery
from it is the same state again. The kill is in the run with three scans too: after a
kill between the backup and the rewrite, a scan of the nested root leases the file, so
that a recovery of the outer root has to pass over a backup. What `RecoveryIsComplete`
says of such a backup is that it is then a copy of the file. The caches need two scans of one process beside
those of another: one that stores, one that merges or replays what both stored; two
entries for the reports of two files put every merge with changed files over the
limit.

`CHECK_DEADLOCK FALSE` stands where the system really stops: all jobs settled and
the pool closed, a pass that ended, scans used up.

Each counter with a bound is named in its module: `MaxEdits`, `MaxCrashes`,
`MaxFailures`, `MaxScans`, `MaxFindings`, and the code's own limits `MaxWorkers`,
`SplitMaxDepth`, `MaxEntries`, `MaxRulesets`.

`TypeOK` of each module states the types of its variables; the runs spend their
properties on other things, and for the pool, the slots, the batches, the directives
and the caches it is proved.

### Fairness

* Pool: the synchronous code and the reactions run (weak fairness). Each round of
  the event loop serves due timers and readable pipes whatever else goes on, and
  a process that was sent `SIGKILL` dies: strong fairness of a worker's job
  timeout, its data and its exit, because every handler in between disables these
  events for a moment. No fairness for boots, processes finishing a job, aborts or
  calls: the liveness holds because of the timeouts, not because workers behave.
* Jobs: the pool settles what it has started (its own liveness property), a promise
  that settled reaches the caller, timers fire, killed processes close. None for a
  process that is neither finished nor killed: it may hang.
* Scan: the main fiber goes on; `runOxlint` ends, because each of its jobs does; the
  security scan reads a finite tree, the maintainability workers have timeouts, and
  git commands end. None for the supply-chain service: only its timer ends it.
* Slots: a granted task begins and ends; a lint job has a timeout.
* Batches: each task and the orchestrating function go on; jobs may fail forever.
* Leases: the running handler goes on, and so does each scan.

## 4. Proofs

TLAPS proves these for all values of the constants that satisfy the assumptions of
the modules (there is at least one worker or slot; the null values are not members;
the scans are finitely many; each root names its files; no batch is empty, a file is one
place in the batches and a path has one source; the walk lists a file once, and a content hash is never one of the
words that answer a lookup), with no bound on jobs, batches, splits, workers, tasks, findings,
files, kills, failures or edits:

| Theorem | Property |
|---|---|
| `OxlintWorkerPoolProofs!TypeCorrect` | `TypeOK` |
| `OxlintWorkerPoolProofs!SafetyInvariance` | the inductive invariant below |
| `OxlintWorkerPoolProofs!ProcessesAreLimited` | `WorkerLimit` |
| `OxlintWorkerPoolProofs!NothingIsLeft` | `ShutdownLeavesNothing` |
| `OxlintWorkerPoolProofs!ReclaimIsHarmless` | `ReclaimKeepsPoolAvailable` |
| `OxlintWorkerPoolProofs!JobsInvariance` | the inductive invariant of the jobs below |
| `OxlintWorkerPoolProofs!JobsAreInOnePlace` | `JobInOnePlace` |
| `OxlintWorkerPoolProofs!NoWakeupIsLost` | `NoLostWakeup` |
| `OxlintWorkerPoolProofs!OutputIsOwn` | `OwnOutputOnly` |
| `OxlintWorkerPoolProofs!OutcomesStand` | `SettledOnce` |
| `OxlintWorkerPoolProofs!PoolImplementsService` | `ImplementsService` |
| `WorkerSlotsProofs!TypeCorrect` | `TypeOK` |
| `WorkerSlotsProofs!SlotsAreConserved` | `SlotsConserved` |
| `WorkerSlotsProofs!WaitersStayQueued` | `WaitersAreQueued` |
| `WorkerSlotsProofs!SlotsNeverIdle` | `NoSlotIdles` |
| `WorkerSlotsProofs!InOrder` | `FirstComeFirstServed` (no run checks it by itself) |
| `WorkerSlotsProofs!SlotsImplementSemaphore` | `ImplementsSemaphore` |
| `OxlintJobsProofs!Invariance` | the inductive invariant below |
| `OxlintJobsProofs!RefusalsComeFirst` | `OnlyRefusedJobsRunAgain` |
| `OxlintJobsProofs!NothingStaysBehind` | `NothingIsLeftBehind` |
| `LintBatchesProofs!Invariance` | the inductive invariant below |
| `LintBatchesProofs!TypeCorrect` | `TypeOK` |
| `LintBatchesProofs!FilesStayInOnePlace` | `FilesInOnePlace` |
| `LintBatchesProofs!ReportsAreComplete` | `AnalyzedFilesHaveResults` |
| `LintBatchesProofs!SignalIsHonest` | `SignalFollowsMainPass` |
| `LintBatchesProofs!PassesOutliveProcesses` | `NoProcessOutlivesItsPass` |
| `LintBatchesProofs!RescueImproves` | `RescueOnlyImproves` |
| `LintBatchesProofs!DisplayIsHonest` | `ProgressIsHonest` |
| `RunInspectProofs!Invariance` | the inductive invariant below |
| `RunInspectProofs!ScansLeakNothing` | `NothingAfterTheScan` |
| `RunInspectProofs!ReportsAreWhole` | `ReportIsWhole` |
| `RunInspectProofs!ScoresAreHonest` | `ScoreIsHonest` |
| `RunInspectProofs!KeptScansAreWhole` | `OnlyWholeScansAreKept` |
| `DirectiveLeasesProofs!TypeCorrect` | `TypeOK` |
| `DirectiveLeasesProofs!UserFilesAreSafe` | `NothingIsLost` |
| `DirectiveLeasesProofs!LeasesStayCounted` | `LeasesAreCounted` |
| `DirectiveLeasesProofs!NoDirectiveIsSeen` | `NoDirectiveIsVisible` |
| `DirectiveLeasesProofs!RecoveriesAreComplete` | `RecoveryIsComplete` |
| `DirectiveLeasesProofs!AllFilesAreRestored` | `FilesAreRestored` |
| `LintCachesProofs!Invariance` | the inductive invariant below |
| `LintCachesProofs!TypeCorrect` | `TypeOK` |
| `LintCachesProofs!FileCacheStaysSound` | `FileCacheIsSound` |
| `LintCachesProofs!SidecarStaysSound` | `SidecarIsSound` |
| `LintCachesProofs!ReportsAreFresh` | `ReportIsFresh` |
| `LintCachesProofs!FreshEntriesAreKept` | `FreshSidecarEntriesAreKept` |

**The pool.** `TypeOK` includes one fact beyond types: an iteration of the
dispatch loop that has created a worker lies inside the loop (`Stacks`), without
which popping the stack twice would not be defined. `ReclaimKeepsPoolAvailable`
is not inductive: `onBootFailed` runs as a reaction, long after the worker it is
about has gone, and whether it takes the pool out of service depends on a flag
of a dead worker's record. `SafetyInv` supplies the missing history:

* `LiveWorkers`: `isDead` says whether a worker is in the set, so that adding a
  worker adds one process and removing one removes it (`WorkersBounded`);
* `KilledBooting`: a worker killed while it boots was reclaimed, unless the pool
  is out of service already: the boot failure that the kill causes is excused;
* `ReportedFailures`: a queued `onBootFailed` is about a reclaimed worker or a
  failure that did happen;
* `SendsAfterBoot`: a queued send, and an error of one, belongs to a worker that
  has booted, so the kill that a failed send causes cannot look like a failed boot;
* `ShutdownLeavesNothing`: needed by `KilledBooting` when the pool goes out of
  service.

The proof has one lemma per level of the event loop (`SafetyInterface`,
`SafetySynchronous`, `SafetyMicrotask`, `SafetyWorkerEvent`). Most handlers change
neither the worker set nor the service flag and only need two frame conditions,
`Keeps` (what a record remembers) and `ReactionsJustified` (what may be queued);
`QuietStep` concludes from these.

**The pool's jobs.** `JobsInv` is inductive on top of `SafetyInv`, with one lemma per
level of the event loop for each of its parts:

* `QueueInv`: a pending job is in the queue, once, or with one worker, and every other
  job is in neither. Its step lemma, `JobStep`, lists what may happen to the places of
  the jobs: one is queued, turned away, given up, started or finished, or one is
  finished and the next started on the same worker in one handler. Each of these is a
  step of `LintJobService` (`ServiceStep`), so the same lemma shows `SettledOnce` and the
  refinement;
* `FreeInv`: a worker that is idle, or that was created in an iteration of a loop that
  is still on the stack, has no job, and is in one of these places only. Without it the
  re-entered `dispatchWaiting` could give a second job to the worker whose creation
  re-entered it;
* `ChannelInv`: what a worker's channels carry belongs to the job it has: nothing yet,
  the job itself, or what is left of its output. A job over its output limit is exempt,
  because collecting stops before its pipes are empty, and so it is never resolved;
* `SendInv`: a queued send is the only one for its job, and if the worker still has the
  job, nothing of it was sent;
* `WakeupInv`: a job waits only while every slot is taken or while `dispatchWaiting` is
  on the stack. `NoLostWakeup` is the case of an empty stack.

**The slots.** `SlotsConserved` needs that the queue holds exactly the waiting
tasks, each once (`WaitersAreQueued`); otherwise a release
could grant a slot to a task that already has one. `NoSlotIdles` is needed for the
hand-over. The three are inductive together with `TypeOK`, and they are what the
refinement needs: a newcomer takes a free slot without a look at the queue, which is a
step of `FifoSemaphore` only because the queue is empty then.

**The jobs.** `OnlyRefusedJobsRunAgain` is not inductive: that a job with a process is not
with the pool must hold when the pool queues, starts, finishes or turns away. `PoolInv`
says that the pool has a job in one place, queued once or started, and that a settled
job is in neither; `ProcessInv` that a process belongs to a job the pool never had or
turned away. `NothingIsLeftBehind` needs that whoever listens has a process and no
answer yet, and that a process that runs listens. The lemma `QueueSteps` about the
pool's queue rests on `SequenceLemmas`.

**The batches.** `FilesInOnePlace` counts; `Places` says the same without counting: the
settled sets are disjoint, a file in a call is not settled, no two calls share a file,
and the files handed out are those settled or in a call. That a split keeps this is
`HalvesShape`, about the index arithmetic of one call, and `CallSplits`, about the stack of
calls. `IsStack` bounds the stack: a call is at least as deep as there are calls below
it. `AnalyzedFilesHaveResults` needs the rescue to be exact (`RescueIsExact`): the files
it clears are those of the path it linted. For that the pass that runs has one task and
one file that is neither skipped nor left to rescue, and if an error ended it, nothing was
linted (`OutcomeInv`). That a file counts as dropped while it is rescued cannot be part of
this invariant, because the same path may have been cleared at another place before.
From files to sources (`Analyzed`) it is one step, which needs that a path has one
source. `SignalFollowsMainPass` needs that
the starts that were reported and the tasks yet to report one are no more than the
batches handed out (`Signals`). `ProgressIsHonest` needs no sum over the tasks:
`DisplayInv` says that the files of the batch of each busy task are a set on loan to it
alone, that `scanned` counts at most what was handed out and is not on loan, and that
the display shows the total only when `scanned` is the total. A step that ends with
`scanned` at the total therefore leaves nothing on loan, and a tick stops one short of
the total.

**The scan.** What the report claims is about the past, so `IInv` carries the reasons
forward. `LossInv`: what was emitted and is not in the results has left a mark, or its
fiber still runs, or the scan has failed. `OutcomeInv`: an analysis that was cut short
and is joined has a mark, and lint that is not marked has ended with all its findings.
`FiberInv`: when the report is written, nobody who could lose a finding is alive. The
lemma `Frozen` then shows that whatever runs on after the report (a late `runOxlint`,
an abort, the git lookup) touches nothing that the report is about.

**The directives.** `NothingIsLost` says that the text the user saved last is in the file
or in a backup. `ContentInv` adds what each file operation relies on: in the middle of
a handler the backup holds what the file had and the file is as the handler found it
(`HandlerInv`); a lease knows the content of its backup (`LeaseInv`); recovery touches
only files that nobody leases (`RecoverInv`); and nothing is newer than what the user
saved (`NoneNewer`), so that the version written back is never an older one over a
newer one. There is one lemma per file operation; kills come between any two of them, or
tear the file in one. `LeasesAreCounted` is about sets of scans: `Held` is what a scan
holds, the files it has not yet given back if it is ending, and `Counted` says that
the count of a lease is the cardinality of its holders. `StateInv` keeps a scan from
leasing a file twice.

The other properties speak of files that no edit or failure disturbed, and
`PromiseInv` is the invariant for these:

* `UntouchedInv`: such a file is as the user saved it or the rewritten form of that,
  which it is while it is leased, and its backups hold what the user saved;
* `RecoveryInv`: a recovery still has every orphan of its root to do, and what is left
  below the root of a scan that has recovered is a copy of its file;
* `QueueInv`: of two overlapping initializations that are under way one has the other
  among its blockers, and one that has begun has no blocker left. So no other scan
  leases a file between the adoption of the leases, the search and its use;
* `OrphanInv`, as long as no process was killed: every backup belongs to a lease or to
  the file in hand, and no scan has given a file up;
* `SearchInv`, under the same condition: from its recovery to its end, every directive in
  the scope of a scan is in a file it has leased, has found, or has still to lease.

`UntouchedInv`, `RecoveryInv` and `QueueInv` hold after kills as well, which is what
`RecoveryIsComplete` needs; that `SearchInv` does not is the run `leases_audit`. The
proofs look at each action three times only: at what it does to one file
(`FileEffects`), to one scan (`ScanEffects`) and to the handler (`HandlerEffects`).
Everything else is about these effects.

**The caches.** `CachesInv` says of every bucket on disk, and of what a scan holds in
memory, that its entries are sound and its keys unique. An entry of the file cache is
sound if it reports what linting its content does. For an entry of the sidecar cache
this is the lemma `ProbesCover`: a project in which all its probes have their answers
agrees with the one it was recorded in on every path that the rules consult, by an
argument about two levels of imports; answers that a pool worker got wrong
(`Honest`) match no content and so replay nothing. `ReplayInv` carries the
comparison made at the start of a scan to its report: the project is frozen, storing
keeps what was hit, and the entries a scan adds are about files it did not replay
(`FreshSidecarEntries`). Uniqueness of keys is what makes "the entry looked up" the
same before and after. The filters of the model number their indices (`Select`), and
`Ranks` shows by counting that they lose nothing and repeat nothing.

**Model-checked only.** Liveness: `EveryJobSettles`, `CloseReaps`, `WaitersServed`,
`EveryPassEnds`, `EveryCallIsAnswered`, `InitializationsEnd`, `EveryScanEnds` and
`SiblingsGetMetadata` rest on fairness and `ENABLED`, which are outside the prover's
reach. Every safety and action property that a passing run checks is a theorem. What a
recursive definition computes for every input cannot be proved with the provers at
hand, and a module with a `RECURSIVE` operator cannot hold theorems, so the modules
use none.

## 5. Where the code and its documentation disagree

* **`pool_unavailable`.** When one worker fails to boot, the pool goes out of
  service and kills its booted siblings. Their jobs are rejected as killed, which
  the caller reports as a lint failure, although the error class for this case
  promises the fallback to a process per batch.
* **`leases_audit`.** Recovery looks only below the scanned root. After a killed
  audit scan of an outer root, an audit scan of a nested root finds its files
  rewritten, leases nothing, and a later scan of the outer root restores the
  directives while it lints.
* **`caches_probes`.** A pool worker returns one existence answer per path, and
  the parent uses it for the content probe of the same path as well. A module
  that was resolved and then parsed has both, so an entry collected by a worker
  carries a content answer that no content has. It is linted again by every scan.
  `caches` runs with such workers too and shows that nothing stale results.

Three more were met while modelling. No run is about them, because the models state
what the code does:

* **A stored payload is not always complete.**
  `src/packages/react-doctor/src/cli/utils/scan-result-cache.ts:496-503` says that the
  maximum duration need not be part of the key: "every such truncated run (lint partial or
  maintainability skipped) is barred from the cache by `shouldStoreScanPayload` below. So
  a stored payload is always COMPLETE". The supply-chain check leaves out packages whose
  lookup fails, and all of them when its own limit is reached
  (`check-supply-chain.ts:835-841`), which the maximum duration shortens
  (`run-inspect.ts:480-488`). Only the limit around the check sets
  `supplyChainOverlapTimedOut`; the one inside it leaves nothing that
  `shouldStoreScanPayload` could see, so such a report may be stored. This is
  `SupplyChainSkips`, and the reason why `OnlyWholeScansAreKept` is not about that
  analysis: with it the property fails in the run `inspect`.
* **A source can be analyzed and dropped at once.** `InspectResult.analyzedFiles` is
  documented as the "paths whose lint analysis completed successfully"
  (`types/inspect.ts:36-41`). `spawn-batches.ts:506-515` reports a source if one of its
  lint paths was linted, while `spawn-batches.ts:491` names it as dropped if another was
  not. `AnalyzedFilesHaveResults` therefore promises the results of at least one path. The
  note of the dropped path still keeps the report from being stored or compared.
* **The order of the file cache.** "ours are appended last, so the slice keeps the most
  recently linted entries" (`runners/oxlint/file-lint-cache.ts:128-129`) is not true of a
  key that is on disk already: the merge by spreading keeps its old position, and over the
  limit the slice may drop it. `MergeLint` merges in this way. The sidecar cache leaves
  out such keys first, and `FreshSidecarEntriesAreKept` holds for it; nothing is promised
  here about the order of the file cache, whose losses only cost another lint.

## 6. Done and left

The models were written from the processes outwards: the pool and its service, the
slots, the batches, the directive leases, the caches, then the scan that uses them and
the jobs between batches and pool. Of what the code does concurrently or across
failures, the store of whole-repository scans, with program versions that share it,
remains.

## 7. Running

In this directory: `tlc -config MCPool.cfg MCOxlintWorkerPool.tla` and so on
for each pair of `PROJECT.json`; `tlapm OxlintWorkerPoolProofs.tla` and so on for
each module of proofs.
