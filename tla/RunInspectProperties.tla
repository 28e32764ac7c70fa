----------------------- MODULE RunInspectProperties -----------------------
(* What a scan promises to whoever reads its report. *)
EXTENDS RunInspect

TypeOK ==
  /\ settings \in Settings
  /\ fiber \in [Children -> {"none", "running", "emitting", "done", "interrupted"}]
  /\ found \in [Phases -> Findings]
  /\ emitted \in [Phases -> Findings]
  /\ result \in [Phases -> Findings]
  /\ marks \subseteq Marks
  /\ coverage \in Coverages
  /\ report \in Reports \cup {None}

\* Nothing is emitted after reporter.finalize, and a scan that has ended, in
\* whatever way, has no fiber left: it "never leaks" (run-inspect.ts:456).
NothingAfterTheScan ==
  /\ main \in {"finalized", "reported"} => \A c \in Analyzers : ~Alive(c)
  /\ main \in Over => \A c \in Children : ~Alive(c)

\* Every finding in the report was emitted, and an emitted finding is missing
\* only if the report says that its phase failed or that lint did.
ReportIsWhole ==
  report # None =>
    \A p \in Phases :
      /\ report.findings[p] <= emitted[p]
      /\ report.findings[p] < emitted[p] => report.failures \cap {p, "lint"} # {}

\* A score is given only to a scan whose lint ended by itself, with everything it
\* found in the report, and whose maintainability analysis was complete.  It may
\* be given although lint dropped files or its plugin, or security was cut short.
ScoreIsHonest ==
  report # None /\ report.score =>
    /\ oxlint = "ok" /\ report.findings["lint"] = found["lint"]
    /\ outcome["maintainability"] = "whole"

\* Whichever of limits, errors and interrupts a scan met, its report is stored for
\* later scans only if no phase other than the supply chain lost anything (packages
\* that are skipped there, or its own limit, leave no mark).  It is compared with
\* the base commit only if every file of the change was linted, perhaps without the
\* React Compiler rules, and the maintainability analysis was complete.
OnlyWholeScansAreKept ==
  kept # None =>
    /\ kept.stored => \A p \in Phases \ {"supplyChain"} : outcome[p] = "whole"
    /\ kept.delta => /\ outcome["lint"] \in {"whole", "withoutPlugin"}
                     /\ report.analyzed = "all"
                     /\ outcome["maintainability"] = "whole"

\* A scan ends although the supply-chain service may never answer, and whatever
\* is interrupted on the way.
EveryScanEnds == <>(main \in Over)

\* Another scan of the invocation gets the git metadata even if the scan that
\* started the lookup is interrupted ("an aborted first project cannot interrupt
\* the lookup every later project of the repository awaits").
SiblingsGetMetadata == sibling = "waiting" ~> sibling = "served"
===========================================================================
