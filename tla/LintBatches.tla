---------------------------- MODULE LintBatches ----------------------------
(***************************************************************************)
(* spawnLintBatches (runners/oxlint/spawn-batches.ts) on top of            *)
(* mapWithConcurrency (utils/map-with-concurrency.ts): the batches of one  *)
(* lint pass are linted by a bounded number of concurrent tasks, a batch   *)
(* that exceeds its limits is split in halves, a pass that exhausted the   *)
(* system is replayed serially, and files dropped for memory are rescued   *)
(* one at a time.  Handlers between two awaits are one step each.          *)
(*                                                                         *)
(* runOxlintJob is seen through its outcomes; the spawn slots and the      *)
(* worker pool behind it are WorkerSlots and OxlintWorkerPool.  Clocks are *)
(* actions: a deadline or a budget may run out between any two steps.      *)
(***************************************************************************)
EXTENDS Integers, Sequences, FiniteSets, FiniteSetsExt, SequencesExt

CONSTANTS
  FileBatches,    \* the top-level batches: a sequence of sequences of files
  PathOf,         \* the lint path of a file
  SourceOf,       \* resolveSourcePath of that path
  Concurrency,    \* requested number of concurrent tasks
  SplitMaxDepth   \* OXLINT_SPLIT_MAX_DEPTH

FilesOf(bs) == UNION {ToSet(bs[i]) : i \in DOMAIN bs}
File == FilesOf(FileBatches)

\* No batch is empty.  A file is one place in the list of paths to lint, so it is
\* in one place of the batches; a path that is listed twice is two files.
AreDistinct(bs) ==
  /\ \A i \in DOMAIN bs : bs[i] # <<>>
  /\ \A i, j \in DOMAIN bs : \A k \in DOMAIN bs[i], l \in DOMAIN bs[j] :
       bs[i][k] = bs[j][l] => i = j /\ k = l

ASSUME BatchesAssumption ==
  /\ Concurrency \in Nat \ {0}
  /\ SplitMaxDepth \in Nat
  /\ FileBatches \in Seq(Seq(File)) /\ AreDistinct(FileBatches)

\* sourcePathByLintPath is a map: a generated .tsx has the source it was made from,
\* any other path has itself.
ASSUME PathsAssumption == \A f, g \in File : PathOf[f] = PathOf[g] => SourceOf[f] = SourceOf[g]

\* Every place of the paths of S.
SamePath(S) == {f \in File : \E g \in S : PathOf[f] = PathOf[g]}

Task == 1 .. Concurrency

VARIABLES
  pass,           \* "main", "replay", "rescue", "done" or "failed"
  batches,        \* the batches of the pass that runs
  nextIndex,      \* mapWithConcurrency: the next batch to hand out
  firstError,     \* mapWithConcurrency: errors[0], "none" while there is none
  task,           \* runWorker with the split recursion of its batch
  linted,         \* files of the pass whose diagnostics were returned
  dropped,        \* droppedFiles
  oomDropped,     \* oomDroppedFiles
  skipped,        \* deadlineSkippedFiles
  startedBatches, \* startedTopLevelBatchCount
  allStarted,     \* didReportAllBatchesStarted
  progress,       \* the counters of the progress display
  pastDeadline,   \* deadlineEpochMs has passed
  rescueElapsed,  \* rescueDeadlineEpochMs has passed
  toRescue,       \* oomDroppedFiles the rescue has not tried yet
  outcome         \* what spawnLintBatches will report

passLocal == <<linted, dropped, oomDropped, skipped>>
signals == <<startedBatches, allStarted>>
clocks == <<pastDeadline, rescueElapsed>>
vars == <<pass, batches, nextIndex, firstError, task, passLocal, signals, progress, clocks,
          toRescue, outcome>>

Total == Cardinality(File)
Status == {"idle", "ready", "queued", "requested", "running", "exited"}
Budget == {"none", "running", "elapsed"}

\* work: the calls of spawnLintBatch that are still to run, the current one first.
Fresh(batch) ==
  [status |-> "queued", work |-> <<[files |-> batch, depth |-> 0]>>, size |-> Len(batch),
   didStart |-> FALSE, budget |-> "none", skippedCount |-> 0]

Rest(status) ==
  [status |-> status, work |-> <<>>, size |-> 0,
   didStart |-> FALSE, budget |-> "none", skippedCount |-> 0]

IsPastDeadline == pastDeadline \/ (pass = "rescue" /\ rescueElapsed)

Current(t) == Head(task[t].work)
Files(t) == ToSet(Current(t).files)

\* Wrong variant: the halves share the file at the split index.
HalvesOverlap(call) ==
  LET splitIndex == (Len(call.files) + 1) \div 2
  IN  <<[files |-> SubSeq(call.files, 1, splitIndex), depth |-> call.depth + 1],
        [files |-> SubSeq(call.files, splitIndex, Len(call.files)),
         depth |-> call.depth + 1]>>

Halves(call) ==
  LET splitIndex == (Len(call.files) + 1) \div 2
  IN  <<[files |-> SubSeq(call.files, 1, splitIndex), depth |-> call.depth + 1],
        [files |-> SubSeq(call.files, splitIndex + 1, Len(call.files)),
         depth |-> call.depth + 1]>>

---------------------------------------------------------------------------
\* runBatchPass: every pass starts with its own bookkeeping.
NewPass(kind, passBatches, concurrency) ==
  /\ pass' = kind
  /\ batches' = passBatches
  /\ nextIndex' = 1
  /\ firstError' = "none"
  /\ task' = [t \in Task |->
                Rest(IF t <= Min({concurrency, Len(passBatches)}) THEN "idle" ELSE "exited")]
  /\ linted' = {} /\ dropped' = {} /\ oomDropped' = {} /\ skipped' = {}
  /\ progress' = [started |-> 0, scanned |-> 0, displayed |-> 0]

Init ==
  /\ pass = "main"
  /\ batches = FileBatches
  /\ nextIndex = 1
  /\ firstError = "none"
  /\ task = [t \in Task |->
               Rest(IF t <= Min({Concurrency, Len(FileBatches)}) THEN "idle" ELSE "exited")]
  /\ linted = {} /\ dropped = {} /\ oomDropped = {} /\ skipped = {}
  /\ startedBatches = 0 /\ allStarted = FALSE
  /\ progress = [started |-> 0, scanned |-> 0, displayed |-> 0]
  /\ pastDeadline \in BOOLEAN /\ rescueElapsed = FALSE
  /\ toRescue = {}
  /\ outcome = [diagnostics |-> {}, dropped |-> {}, skipped |-> {}]

\* reportBatchStarted
ReportBatchStarted ==
  /\ startedBatches' = startedBatches + 1
  /\ allStarted' = (allStarted \/ startedBatches + 1 >= Len(batches))

\* Wrong variant: the display shows what was scanned even if it is ahead of that.
ScannedOnly(call) ==
  LET scanned == progress.scanned + call.size - call.skippedCount
  IN  [progress EXCEPT
         !.scanned = scanned,
         !.displayed = IF pass # "rescue" /\ call.didStart THEN scanned ELSE @]

\* The display after a top-level batch: only what it did not skip was scanned.
Scanned(call) ==
  LET scanned == progress.scanned + call.size - call.skippedCount
  IN  [progress EXCEPT
         !.scanned = scanned,
         !.displayed = IF pass # "rescue" /\ call.didStart
                       THEN Min({Max({@, scanned}), Total}) ELSE @]

\* A call of spawnLintBatch returns and leaves the task in state u: its caller
\* goes on with the second half, or the top-level batch is done.
Return(t, u) ==
  IF Len(u.work) > 1
  THEN /\ task' = [task EXCEPT ![t] = [u EXCEPT !.status = "ready", !.work = Tail(@)]]
       /\ UNCHANGED progress
  ELSE /\ task' = [task EXCEPT ![t] = Rest("idle")]
       /\ progress' = Scanned(u)

\* The current files were never linted because the scan ran out of time.
Skip(t) ==
  /\ skipped' = skipped \cup Files(t)
  /\ Return(t, [task[t] EXCEPT !.skippedCount = @ + Cardinality(Files(t))])
  /\ UNCHANGED <<linted, dropped, oomDropped>>

control == <<pass, batches, nextIndex, firstError, toRescue, outcome>>

---------------------------------------------------------------------------
(* mapWithConcurrency *)

HasNext == firstError = "none" /\ nextIndex <= Len(batches)

Pull(t) ==
  /\ task[t].status = "idle"
  /\ HasNext
  /\ nextIndex' = nextIndex + 1
  /\ LET batch == batches[nextIndex]
     IN  IF IsPastDeadline
         THEN /\ skipped' = skipped \cup ToSet(batch)
              /\ ReportBatchStarted
              /\ UNCHANGED task
         ELSE /\ task' = [task EXCEPT ![t] = Fresh(batch)]
              /\ UNCHANGED <<skipped, signals>>
  /\ UNCHANGED <<pass, batches, firstError, linted, dropped, oomDropped, progress, clocks,
                 toRescue, outcome>>

\* Wrong variant: after an error the other tasks wait for batches that never come.
RetireWhenDrained(t) ==
  /\ task[t].status = "idle"
  /\ firstError = "none" /\ nextIndex > Len(batches)
  /\ task' = [task EXCEPT ![t] = Rest("exited")]
  /\ UNCHANGED <<control, passLocal, signals, progress, clocks>>

Retire(t) ==
  /\ task[t].status = "idle"
  /\ ~HasNext
  /\ task' = [task EXCEPT ![t] = Rest("exited")]
  /\ UNCHANGED <<control, passLocal, signals, progress, clocks>>

---------------------------------------------------------------------------
(* spawnLintBatch *)

\* The second half of a split batch checks the budget again.
EnterSecondHalf(t) ==
  /\ task[t].status = "ready"
  /\ IF IsPastDeadline
     THEN Skip(t)
     ELSE /\ task' = [task EXCEPT ![t].status = "queued"]
          /\ UNCHANGED <<passLocal, progress>>
  /\ UNCHANGED <<control, signals, clocks>>

\* spawnBatch runs when the task was given a spawn slot, maybe much later.
SpawnBatch(t) ==
  /\ task[t].status = "queued"
  /\ IF IsPastDeadline
     THEN Skip(t)
     ELSE /\ task' = [task EXCEPT ![t].status = "requested"]
          /\ UNCHANGED <<passLocal, progress>>
  /\ UNCHANGED <<control, signals, clocks>>

\* Wrong variant: every restarted half counts as a started batch.
JobRestarts(t) ==
  /\ task[t].status = "requested"
  /\ task' = [task EXCEPT ![t].status = "running", ![t].didStart = TRUE]
  /\ progress' = [progress EXCEPT !.started = @ + task[t].size]
  /\ ReportBatchStarted
  /\ UNCHANGED <<control, passLocal, clocks>>

\* onStart: the job left the queue of the worker pool or was spawned.
JobStarts(t) ==
  /\ task[t].status = "requested"
  /\ task' = [task EXCEPT ![t].status = "running", ![t].didStart = TRUE]
  /\ IF task[t].didStart
     THEN UNCHANGED <<signals, progress>>
     ELSE /\ progress' = [progress EXCEPT !.started = @ + task[t].size]
          /\ ReportBatchStarted
  /\ UNCHANGED <<control, passLocal, clocks>>

JobSucceeds(t) ==
  /\ task[t].status = "running"
  /\ linted' = linted \cup Files(t)
  /\ Return(t, task[t])
  /\ UNCHANGED <<control, dropped, oomDropped, skipped, signals, clocks>>

\* A batch that failed and is not split any further.
CannotSplit(t, budget) ==
  \/ Len(Current(t).files) <= 1
  \/ budget = "elapsed"
  \/ Current(t).depth >= SplitMaxDepth

Drop(t, isOom) ==
  /\ dropped' = dropped \cup Files(t)
  /\ oomDropped' = IF isOom THEN oomDropped \cup Files(t) ELSE oomDropped
  /\ UNCHANGED <<linted, skipped>>

\* An OxlintBatchExceeded error: the only errors that are split and retried.
\* A split budget of zero has elapsed as soon as it is anchored.
JobExceeds(t, isOom) ==
  /\ task[t].status = "running"
  /\ IF IsPastDeadline
     THEN Skip(t)
     ELSE \E budget \in IF task[t].budget = "none" THEN {"running", "elapsed"}
                        ELSE {task[t].budget} :
            IF CannotSplit(t, budget)
            THEN /\ Drop(t, isOom)
                 /\ Return(t, [task[t] EXCEPT !.budget = budget])
            ELSE /\ task' = [task EXCEPT ![t].status = "queued", ![t].budget = budget,
                                         ![t].work = Halves(Head(@)) \o Tail(@)]
                 /\ UNCHANGED <<passLocal, progress>>
  /\ UNCHANGED <<control, signals, clocks>>

\* Any other error ends the task; the others finish what they are running.
\* A job that is still waiting fails when the lint phase is aborted, a started
\* one also when the system is out of processes, descriptors or memory.
TaskFails(t, error) ==
  /\ \/ task[t].status \in {"queued", "requested"} /\ error = "fatal"
     \/ task[t].status = "running" /\ error \in {"fatal", "exhausted"}
  /\ firstError' = IF firstError = "none" THEN error ELSE firstError
  /\ task' = [task EXCEPT ![t] = Rest("exited")]
  /\ UNCHANGED <<pass, batches, nextIndex, passLocal, signals, progress, clocks, toRescue,
                 outcome>>

---------------------------------------------------------------------------
(* spawnLintBatches *)

\* Wrong variant: the first rejection settles the pass.
PassRejected == firstError # "none" \/ \A t \in Task : task[t].status = "exited"

\* Promise.all over the workers of mapWithConcurrency
PassSettled == \A t \in Task : task[t].status = "exited"

\* Wrong variant: an error in the rescue fails the scan.
RescueFails ==
  /\ pass \in {"main", "replay", "rescue"}
  /\ PassSettled
  /\ firstError # "none"
  /\ IF pass = "main" /\ Concurrency > 1 /\ firstError = "exhausted"
     THEN NewPass("replay", FileBatches, 1)
     ELSE /\ pass' = "failed"
          /\ UNCHANGED <<batches, nextIndex, firstError, task, passLocal, progress>>
  /\ UNCHANGED <<signals, clocks, toRescue, outcome>>

PassFails ==
  /\ pass \in {"main", "replay"}
  /\ PassSettled
  /\ firstError # "none"
  /\ IF pass = "main" /\ Concurrency > 1 /\ firstError = "exhausted"
     THEN NewPass("replay", FileBatches, 1)
     ELSE /\ pass' = "failed"
          /\ UNCHANGED <<batches, nextIndex, firstError, task, passLocal, progress>>
  /\ UNCHANGED <<signals, clocks, toRescue, outcome>>

\* A replay ran serially, so a single process already failed on its dropped files.
NeedsRescue == pass = "main" /\ Concurrency > 1 /\ oomDropped # {} /\ ~IsPastDeadline

PassCompletes ==
  /\ pass \in {"main", "replay"}
  /\ PassSettled
  /\ firstError = "none"
  /\ outcome' = [diagnostics |-> linted, dropped |-> dropped, skipped |-> skipped]
  /\ IF NeedsRescue
     THEN /\ rescueElapsed' = FALSE
          /\ \E file \in oomDropped :
               /\ toRescue' = oomDropped \ {file}
               /\ NewPass("rescue", <<<<file>>>>, 1)
     ELSE /\ pass' = "done"
          /\ UNCHANGED <<batches, nextIndex, firstError, task, passLocal, progress, toRescue,
                         rescueElapsed>>
  /\ UNCHANGED <<signals, pastDeadline>>

\* Wrong variant: a file the rescue had no time for counts as rescued.
RescuedOrSkipped ==
  IF firstError = "none" /\ dropped = {} THEN SamePath(FilesOf(batches)) ELSE {}

\* The single-file pass that just ended has cleared its file only when nothing
\* failed or was skipped in it; an error leaves the file dropped.  It is cleared
\* by its path, wherever else that path was dropped.
Rescued ==
  IF firstError = "none" /\ dropped = {} /\ skipped = {}
  THEN SamePath(FilesOf(batches)) ELSE {}

\* One turn of the rescue loop, from the end of one single-file pass to the
\* start of the next.  The order of the files is left open.
RescueNext ==
  /\ pass = "rescue"
  /\ PassSettled
  /\ outcome' = [outcome EXCEPT !.diagnostics = @ \cup linted, !.dropped = @ \ Rescued]
  /\ IF toRescue = {} \/ IsPastDeadline
     THEN /\ pass' = "done"
          /\ UNCHANGED <<batches, nextIndex, firstError, task, passLocal, progress, toRescue>>
     ELSE \E file \in toRescue :
            /\ toRescue' = toRescue \ {file}
            /\ NewPass("rescue", <<<<file>>>>, 1)
  /\ UNCHANGED <<signals, clocks>>

\* What spawnLintBatches reports to onAnalyzedFiles: the sources of the paths that
\* were neither dropped nor skipped.
Analyzed == {SourceOf[f] : f \in File \ SamePath(outcome.dropped \cup outcome.skipped)}

---------------------------------------------------------------------------
(* Time *)

Ended == pass \in {"done", "failed"}

DeadlinePasses ==
  /\ ~Ended /\ ~pastDeadline
  /\ pastDeadline' = TRUE
  /\ UNCHANGED <<control, task, passLocal, signals, progress, rescueElapsed>>

RescueBudgetElapses ==
  /\ pass = "rescue" /\ ~rescueElapsed
  /\ rescueElapsed' = TRUE
  /\ UNCHANGED <<control, task, passLocal, signals, progress, pastDeadline>>

SplitBudgetElapses(t) ==
  /\ task[t].budget = "running"
  /\ task' = [task EXCEPT ![t].budget = "elapsed"]
  /\ UNCHANGED <<control, passLocal, signals, progress, clocks>>

\* The interval that lets the display creep towards the files handed out.
ProgressTick ==
  /\ pass \in {"main", "replay"} /\ ~PassSettled
  /\ progress.displayed < Min({progress.started, Total - 1})
  /\ progress' = [progress EXCEPT !.displayed = @ + 1]
  /\ UNCHANGED <<control, task, passLocal, signals, clocks>>

---------------------------------------------------------------------------
TaskStep(t) ==
  \/ Pull(t) \/ Retire(t) \/ EnterSecondHalf(t) \/ SpawnBatch(t) \/ JobStarts(t)
  \/ JobSucceeds(t)
  \/ \E isOom \in BOOLEAN : JobExceeds(t, isOom)
  \/ \E error \in {"fatal", "exhausted"} : TaskFails(t, error)

Orchestrate == PassFails \/ PassCompletes \/ RescueNext

Next ==
  \/ \E t \in Task : TaskStep(t)
  \/ Orchestrate
  \/ DeadlinePasses \/ RescueBudgetElapses \/ ProgressTick
  \/ \E t \in Task : SplitBudgetElapses(t)

Spec == Init /\ [][Next]_vars

\* The event loop runs every ready continuation, a queued task gets a slot, and
\* a job ends at the latest with its own timeout.  No clock has to run out.
FairSpec == Spec /\ (\A t \in Task : WF_vars(TaskStep(t))) /\ WF_vars(Orchestrate)
=============================================================================
