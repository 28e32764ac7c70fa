---------------------------- MODULE RunInspect ----------------------------
(***************************************************************************)
(* One scan: runInspect (run-inspect.ts) and what the command line does    *)
(* with its report (inspect.ts, scan-result-cache-lifecycle.ts).           *)
(*                                                                         *)
(* A main fiber checks the environment, forks the security scan, the       *)
(* supply-chain check, the maintainability analysis and the git lookup,    *)
(* lints, joins or interrupts what it forked and assembles the report.     *)
(* Each analyzer returns its findings at once and emits them to the        *)
(* reporter one by one.  Any phase can fail, and time limits, an abort or  *)
(* a defect can stop it anywhere.                                          *)
(*                                                                         *)
(* runOxlint is a promise: when its phase times out it goes on for a while *)
(* and its callbacks still change what the main fiber reads.  Findings are *)
(* counted; what they say is not modelled.                                 *)
(***************************************************************************)
EXTENDS Naturals

CONSTANTS
  Inputs,      \* the inputs and the configured limits to consider
  MaxFindings, \* bound: findings of one analyzer
  None         \* no report, nothing stored

Limits == {"maxDuration", "lintPhase", "maintainabilityPhase", "scan"}

\* A scan of changed files only, project rules that need the maintainability
\* analysis, a comparison with a base commit, scans that share their git lookup.
Settings == [diff : BOOLEAN, maintainability : BOOLEAN, baseline : BOOLEAN, shared : BOOLEAN,
             limits : SUBSET Limits]

ASSUME RunInspectAssumption == Inputs \subseteq Settings /\ MaxFindings \in Nat

VARIABLES
  settings,  \* the input and the configured limits
  main,      \* where the main fiber is
  fiber,     \* state of each forked fiber
  found,     \* findings that each analyzer returned
  emitted,   \* findings of each phase that the reporter got
  result,    \* findings of each phase that reach the report
  marks,     \* the failure references and flags that are set
  oxlint,    \* the promise of runOxlint
  coverage,  \* what onFileCoverage reported last
  spent,     \* the maximum duration of the scan is over
  lookup,    \* the git lookup that the scans of one invocation share
  sibling,   \* another scan of the invocation that needs it
  report,    \* what runInspect returned
  kept,      \* what was done with the report
  outcome    \* history: how each analysis ended

analysis == <<fiber, found, emitted, result, marks>>
git == <<lookup, sibling>>
vars == <<settings, main, analysis, oxlint, coverage, spent, git, report, kept, outcome>>

Analyzers == {"security", "supplyChain", "maintainability"}
Children == Analyzers \cup {"git"}
Phases == Analyzers \cup {"environment", "lint"}
Over == {"done", "failed"}
Findings == 0 .. MaxFindings

\* lintIncomplete: files were dropped or skipped; pluginDropped: the React Compiler rules were.
Marks == Phases \cup {"securityDeadline", "lintIncomplete", "pluginDropped"}
Coverages == {"none", "some", "all"}
Reports == [findings : [Phases -> Nat], score : BOOLEAN, failures : SUBSET Marks, analyzed : Coverages]

ASSUME NoneAssumption == None \notin Reports

Alive(c) == fiber[c] \in {"running", "emitting"}

Init ==
  /\ settings \in Inputs
  /\ main = "discover"
  /\ fiber = [c \in Children |-> "none"]
  /\ found = [p \in Phases |-> 0]
  /\ emitted = [p \in Phases |-> 0]
  /\ result = [p \in Phases |-> 0]
  /\ marks = {}
  /\ oxlint = "none"
  /\ coverage = "none"
  /\ spent = FALSE
  /\ lookup = "none"
  /\ sibling = "idle"
  /\ report = None
  /\ kept = None
  /\ outcome = [p \in Phases |-> "none"]

---------------------------------------------------------------------------
(* The main fiber up to the lint phase *)

\* getOrResolve: the first caller starts the lookup, on a detached fiber.
Ask == lookup' = IF lookup = "none" THEN "running" ELSE lookup

\* The project is discovered, or the directory has no React project.
Discover ==
  /\ main = "discover"
  /\ \/ /\ main' = "environment"
        /\ fiber' = [fiber EXCEPT !["git"] = "running"]
        /\ IF settings.shared THEN Ask ELSE UNCHANGED lookup
     \/ /\ main' = "failed"
        /\ UNCHANGED <<fiber, lookup>>
  /\ UNCHANGED <<settings, found, emitted, result, marks, oxlint, coverage, spent,
                 sibling, report, kept, outcome>>

Skipped(c) ==
  CASE c = "security" -> settings.diff
    [] c = "supplyChain" -> settings.diff  \* and the manifest is unchanged
    [] c = "maintainability" -> ~settings.maintainability

\* The environment checks, the three forks, and the start of lint.
Start ==
  /\ main = "environment"
  /\ main' = "lint"
  /\ \E n \in IF settings.diff THEN {0} ELSE Findings :
       /\ found' = [found EXCEPT !["environment"] = n]
       /\ emitted' = [emitted EXCEPT !["environment"] = n]
       /\ result' = [result EXCEPT !["environment"] = n]
  /\ \E manifestChanged \in BOOLEAN :
       fiber' = [c \in Children |->
                   IF c = "git" THEN fiber[c]
                   ELSE IF Skipped(c) /\ ~(c = "supplyChain" /\ manifestChanged)
                        THEN "done" ELSE "running"]
  /\ outcome' = [p \in Phases |->
                   IF p = "environment" \/ (p \in Analyzers /\ fiber'[p] = "done")
                   THEN "whole" ELSE "none"]
  /\ oxlint' = "running"
  /\ UNCHANGED <<settings, marks, coverage, spent, git, report, kept>>

---------------------------------------------------------------------------
(* The forked analyzers *)

\* What an analysis returns: all its findings, or some of them and a mark.
Returns(c, n, how, mark) ==
  /\ fiber[c] = "running"
  /\ fiber' = [fiber EXCEPT ![c] = "emitting"]
  /\ found' = [found EXCEPT ![c] = n]
  /\ outcome' = [outcome EXCEPT ![c] = how]
  /\ marks' = marks \cup mark
  /\ UNCHANGED <<settings, main, emitted, result, oxlint, coverage, spent, git,
                 report, kept>>

Analyzed(c) == \E n \in Findings : Returns(c, n, "whole", {})

\* The security scan keeps what it found before the deadline; an error skips it.
SecurityStops == spent /\ \E n \in Findings : Returns("security", n, "partial", {"securityDeadline"})
SecurityFails == Returns("security", 0, "partial", {"security"})

\* Packages whose lookup fails, and all of them when the check reaches its own
\* limit, are left out without a mark.
SupplyChainSkips == \E n \in Findings : Returns("supplyChain", n, "partial", {})

\* onIncomplete only records the reason; the mark is set when all is emitted.
MaintainabilityIsIncomplete ==
  \E n \in Findings : Returns("maintainability", n, "partial", {})
MaintainabilityFails == Returns("maintainability", 0, "partial", {"maintainability"})

Emit(c) ==
  /\ fiber[c] = "emitting"
  /\ emitted[c] < found[c]
  /\ emitted' = [emitted EXCEPT ![c] = @ + 1]
  /\ UNCHANGED <<settings, main, fiber, found, result, marks, oxlint, coverage, spent,
                 git, report, kept, outcome>>

\* Wrong variant: the reason that onIncomplete recorded is forgotten.
FinishesQuietly(c) == marks
FinishMarks(c) ==
  IF c = "maintainability" /\ outcome[c] = "partial" THEN marks \cup {c} ELSE marks

Finish(c) ==
  /\ fiber[c] = "emitting"
  /\ emitted[c] = found[c]
  /\ fiber' = [fiber EXCEPT ![c] = "done"]
  /\ result' = [result EXCEPT ![c] = found[c]]
  /\ marks' = FinishMarks(c)
  /\ UNCHANGED <<settings, main, found, emitted, oxlint, coverage, spent, git, report,
                 kept, outcome>>

\* Wrong variants: a supply-chain check without a limit, and a limit that leaves
\* no mark.
LimitsMaintainability(c) == c = "maintainability" /\ "maintainabilityPhase" \in settings.limits
LeavesNoMark(c) == marks

HasLimit(c) ==
  \/ c = "supplyChain"
  \/ c = "maintainability" /\ settings.limits \cap {"maintainabilityPhase", "maxDuration"} # {}

TimeoutMarks(c) == marks \cup {c}

\* The limit of a fork, measured from its start: it ends with no findings.
TimesOut(c) ==
  /\ Alive(c)
  /\ HasLimit(c)
  /\ fiber' = [fiber EXCEPT ![c] = "done"]
  /\ marks' = TimeoutMarks(c)
  /\ outcome' = [outcome EXCEPT ![c] = "partial"]
  /\ UNCHANGED <<settings, main, found, emitted, result, oxlint, coverage, spent, git,
                 report, kept>>

Analyze ==
  \/ \E c \in Analyzers : Analyzed(c) \/ Emit(c) \/ Finish(c) \/ TimesOut(c)
  \/ SecurityStops \/ SecurityFails \/ SupplyChainSkips
  \/ MaintainabilityIsIncomplete \/ MaintainabilityFails

\* The git lookup cannot fail: what it cannot learn is null.
LookupEnds ==
  /\ lookup = "running"
  /\ lookup' = "done"
  /\ UNCHANGED <<settings, main, analysis, oxlint, coverage, spent, sibling, report,
                 kept, outcome>>

GitEnds ==
  /\ fiber["git"] = "running"
  /\ settings.shared => lookup = "done"
  /\ fiber' = [fiber EXCEPT !["git"] = "done"]
  /\ UNCHANGED <<settings, main, found, emitted, result, marks, oxlint, coverage, spent,
                 git, report, kept, outcome>>

SiblingAsks ==
  /\ sibling = "idle" /\ settings.shared
  /\ sibling' = "waiting"
  /\ Ask
  /\ UNCHANGED <<settings, main, analysis, oxlint, coverage, spent, report, kept, outcome>>

SiblingIsServed ==
  /\ sibling = "waiting" /\ lookup = "done"
  /\ sibling' = "served"
  /\ UNCHANGED <<settings, main, analysis, oxlint, coverage, spent, lookup, report, kept,
                 outcome>>

---------------------------------------------------------------------------
(* The lint phase *)

\* runOxlint ends, perhaps without some files, or fails.  It reports the files
\* it covered even if nobody waits for it any more; what it reports after the
\* main fiber has read the coverage is not read again.
OxlintSettles ==
  /\ oxlint = "running"
  /\ \/ \E n \in Findings, c \in {"some", "all"} :
          /\ oxlint' = "ok"
          /\ coverage' = IF main \in {"lint", "afterLint"} THEN c ELSE coverage
          /\ found' = [found EXCEPT !["lint"] = n]
     \/ /\ oxlint' = "failed"
        /\ UNCHANGED <<coverage, found>>
  /\ UNCHANGED <<settings, main, fiber, emitted, result, marks, spent, git, report, kept,
                 outcome>>

\* What the lint run lost, one set for each way it can end.  The notes say nothing of
\* the coverage: a source is covered although one of its two paths was dropped, and a
\* file that vanished is not covered although nothing was dropped.
LintMarks ==
  IF oxlint = "failed" THEN {{"lint"}} ELSE SUBSET {"lintIncomplete", "pluginDropped"}

LintOutcome(lost) ==
  CASE lost = {} -> "whole"
    [] lost = {"pluginDropped"} -> "withoutPlugin"
    [] OTHER -> "partial"

\* What the promise returned is emitted; a failure of it, or the notes of what it
\* lost, are recorded.
LintEnds ==
  /\ main = "lint"
  /\ oxlint \in {"ok", "failed"}
  /\ main' = "afterLint"
  /\ \E lost \in LintMarks :
       /\ marks' = marks \cup lost
       /\ outcome' = [outcome EXCEPT !["lint"] = LintOutcome(lost)]
  /\ emitted' = [emitted EXCEPT !["lint"] = found["lint"]]
  /\ result' = [result EXCEPT !["lint"] = found["lint"]]
  /\ UNCHANGED <<settings, fiber, found, oxlint, coverage, spent, git, report, kept>>

LintTimesOut ==
  /\ main = "lint"
  /\ "lintPhase" \in settings.limits
  /\ main' = "afterLint"
  /\ marks' = marks \cup {"lint"}
  /\ outcome' = [outcome EXCEPT !["lint"] = "partial"]
  /\ UNCHANGED <<settings, fiber, found, emitted, result, oxlint, coverage, spent, git, report, kept>>

---------------------------------------------------------------------------
(* The joins and the report *)

LintFailed == "lint" \in marks

Interrupted(c) == IF Alive(c) THEN [fiber EXCEPT ![c] = "interrupted"] ELSE fiber

\* Nothing can be joined in time: what the analysis found is not used, even if
\* it has just ended.
DropMaintainability ==
  /\ main = "afterLint"
  /\ \/ LintFailed /\ UNCHANGED marks
     \/ /\ ~LintFailed /\ settings.maintainability /\ spent
        /\ marks' = marks \cup {"maintainability"}
  /\ main' = "background"
  /\ fiber' = Interrupted("maintainability")
  /\ result' = [result EXCEPT !["maintainability"] = 0]
  /\ outcome' = [outcome EXCEPT !["maintainability"] = "partial"]
  /\ UNCHANGED <<settings, found, emitted, oxlint, coverage, spent, git, report, kept>>

AwaitMaintainability ==
  /\ main = "afterLint"
  /\ ~LintFailed
  /\ ~(settings.maintainability /\ spent)
  /\ main' = "maintainability"
  /\ UNCHANGED <<settings, analysis, oxlint, coverage, spent, git, report, kept, outcome>>

JoinMaintainability ==
  /\ main = "maintainability"
  /\ fiber["maintainability"] = "done"
  /\ main' = "background"
  /\ UNCHANGED <<settings, analysis, oxlint, coverage, spent, git, report, kept, outcome>>

\* Wrong variant: the reporter is finalized before the background work is joined.
JoinsNothing == TRUE
BackgroundIsDone == fiber["supplyChain"] = "done" /\ fiber["security"] = "done"

\* The last joins before reporter.finalize.
Finalize ==
  /\ main = "background"
  /\ BackgroundIsDone
  /\ main' = "finalized"
  /\ UNCHANGED <<settings, analysis, oxlint, coverage, spent, git, report, kept, outcome>>

Scored == marks \cap {"lint", "maintainability"} = {}

\* The failures that the report names: those of an analysis nobody waited for
\* are dropped together with its findings.
Named == IF LintFailed THEN marks \ {"maintainability"} ELSE marks

Report ==
  /\ main = "finalized"
  /\ fiber["git"] = "done"
  /\ main' = "reported"
  /\ report' = [findings |-> result, score |-> Scored, failures |-> Named, analyzed |-> coverage]
  /\ UNCHANGED <<settings, analysis, oxlint, coverage, spent, git, kept, outcome>>

\* The comparison with the base commit: refused if a file was dropped or skipped or is
\* not covered, not if the plugin was dropped; and it may fail by itself.
Comparable ==
  /\ settings.baseline /\ settings.diff
  /\ report.failures \cap {"lint", "maintainability", "lintIncomplete"} = {}
  /\ report.analyzed = "all"

\* Wrong variant: a security scan that reached the deadline is stored.
StoresPartialSecurity == report.failures \subseteq {"securityDeadline"}
ShouldStore == report.failures = {}

Complete ==
  /\ main = "reported"
  /\ main' = "done"
  /\ \E delta \in IF Comparable THEN BOOLEAN ELSE {FALSE} :
       kept' = [delta |-> delta,
                stored |-> ShouldStore /\ ~(settings.baseline /\ settings.diff /\ ~delta)]
  /\ UNCHANGED <<settings, analysis, oxlint, coverage, spent, git, report, outcome>>

---------------------------------------------------------------------------
(* Time, aborts and defects *)

Spend ==
  /\ "maxDuration" \in settings.limits
  /\ ~spent
  /\ spent' = TRUE
  /\ UNCHANGED <<settings, main, analysis, oxlint, coverage, git, report, kept, outcome>>

\* The scan deadline, the abort of SIGINT, or a defect.
Stop ==
  /\ main \notin Over \cup {"stopping"}
  /\ main' = "stopping"
  /\ UNCHANGED <<settings, analysis, oxlint, coverage, spent, git, report, kept, outcome>>

ScanTimesOut == "scan" \in settings.limits /\ main # "reported" /\ Stop

\* Wrong variant: the shared lookup is a child of the fiber that started it.
LookupDies == IF Alive("git") /\ lookup = "running" THEN "interrupted" ELSE lookup

\* forkDetach: the lookup does not end with the scan that started it.
LookupAfterStop == lookup

\* forkChild: the children of a fiber that ends are interrupted with it.
Stopped ==
  /\ main = "stopping"
  /\ main' = "failed"
  /\ fiber' = [c \in Children |-> IF Alive(c) THEN "interrupted" ELSE fiber[c]]
  /\ lookup' = LookupAfterStop
  /\ UNCHANGED <<settings, found, emitted, result, marks, oxlint, coverage, spent, sibling, report,
                 kept, outcome>>

Main ==
  \/ Discover \/ Start \/ LintEnds \/ DropMaintainability \/ AwaitMaintainability
  \/ JoinMaintainability \/ Finalize \/ Report \/ Complete \/ Stopped

Timers == LintTimesOut \/ Spend \/ ScanTimesOut \/ \E c \in Analyzers : TimesOut(c)

Next ==
  \/ Main \/ Analyze \/ Timers
  \/ OxlintSettles \/ LookupEnds \/ GitEnds \/ SiblingAsks \/ SiblingIsServed \/ Stop

Spec == Init /\ [][Next]_vars

\* Every job of runOxlint and every worker of the maintainability analysis has a
\* timeout of its own, the security scan reads a finite tree, and git commands
\* end; the supply chain is not assumed to answer.
FairSpec ==
  /\ Spec
  /\ WF_vars(Main) /\ WF_vars(OxlintSettles) /\ WF_vars(LookupEnds) /\ WF_vars(GitEnds)
  /\ WF_vars(SiblingIsServed)
  /\ \A c \in {"security", "maintainability"} : WF_vars(Analyzed(c))
  /\ \A c \in Analyzers : WF_vars(Emit(c)) /\ WF_vars(Finish(c))
  /\ WF_vars(TimesOut("supplyChain"))
===========================================================================
