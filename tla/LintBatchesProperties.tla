----------------------- MODULE LintBatchesProperties -----------------------
(* What a lint pass must guarantee whatever fails in it. *)
EXTENDS LintBatches

\* The shapes of the bookkeeping of a pass.
TypeOK ==
  /\ pass \in {"main", "replay", "rescue", "done", "failed"}
  /\ nextIndex \in 1 .. Len(batches) + 1
  /\ firstError \in {"none", "fatal", "exhausted"}
  /\ \A t \in Task :
       /\ task[t].status \in Status
       /\ task[t].budget \in Budget
       /\ task[t].work = <<>> <=> task[t].status \in {"idle", "exited"}
       /\ \A i \in DOMAIN task[t].work : task[t].work[i].depth \in 0 .. SplitMaxDepth
  /\ \A S \in {linted, dropped, skipped, outcome.diagnostics, outcome.dropped} : S \subseteq File
  /\ oomDropped \subseteq dropped

Pulled == UNION {ToSet(batches[i]) : i \in 1 .. nextIndex - 1}

\* File f is in the i-th call of task t.
Has(t, i, f) == i \in DOMAIN task[t].work /\ f \in ToSet(task[t].work[i].files)

Results == [linted |-> linted, dropped |-> dropped, skipped |-> skipped]

\* How often a file is accounted for in the pass that runs.
Accounts(f) ==
  Cardinality({how \in {"linted", "dropped", "skipped"} : f \in Results[how]})
  + Cardinality({p \in Task \X (1 .. SplitMaxDepth + 1) : Has(p[1], p[2], f)})

\* Through every split, retry and skip, a file that was handed out is in
\* exactly one state: linted, dropped, skipped, or in one call still to run.
\* None is lost, linted twice or reported twice.  A failed pass loses its files.
FilesInOnePlace ==
  firstError = "none" =>
    \A f \in File : Accounts(f) = IF f \in Pulled THEN 1 ELSE 0

\* Every file has the results of its path or is named as dropped or as skipped, and
\* no file is two of these: after every split, replay and rescue, a file that was
\* not linted never passes for a clean one.
AllAreReported ==
  /\ File \subseteq SamePath(outcome.diagnostics) \cup outcome.dropped \cup outcome.skipped
  /\ outcome.diagnostics \cap outcome.dropped = {}
  /\ outcome.diagnostics \cap outcome.skipped = {}
  /\ outcome.dropped \cap outcome.skipped = {}

\* When the pass reports, all files are reported, and a source is reported as
\* analyzed only if the results have the diagnostics of a path of it.  Not of every
\* path: a source that is linted under two paths is reported as analyzed and
\* named as dropped at once if only one of them failed.
AnalyzedFilesHaveResults ==
  pass = "done" =>
    /\ AllAreReported
    /\ Analyzed \subseteq {SourceOf[f] : f \in outcome.diagnostics}

\* A pass ends only when all its jobs have: the replay and the report never
\* start while a process of the failed pass still runs.
NoProcessOutlivesItsPass ==
  [][\A t \in Task : task[t].status \in {"queued", "requested", "running"} =>
       pass' = pass /\ batches' = batches]_vars

\* The rescue only improves the outcome of the main pass: it never loses a
\* result, never drops another file and never makes the scan fail.
RescueOnlyImproves ==
  [][pass = "rescue" =>
       /\ pass' # "failed"
       /\ outcome.diagnostics \subseteq outcome'.diagnostics
       /\ outcome'.dropped \subseteq outcome.dropped
       /\ outcome'.skipped = outcome.skipped]_vars

\* Within a pass the displayed count never goes back, and it shows all files
\* only after all were scanned.
ProgressIsHonest ==
  [][/\ pass' = pass => progress'.displayed >= progress.displayed
     /\ progress'.displayed = Total /\ pass' = "main" => progress'.scanned = Total]_vars

\* In the first pass the signal that no batch is left to start is sent only
\* when every batch was handed to a task, however batches split and restart.
SignalFollowsMainPass == pass = "main" /\ allStarted => nextIndex > Len(batches)

\* Every pass ends: splitting, the replay and the rescue all come to an end
\* even if every job keeps exceeding its limits.
EveryPassEnds == <>Ended
=============================================================================
