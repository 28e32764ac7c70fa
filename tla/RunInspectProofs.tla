------------------------- MODULE RunInspectProofs -------------------------
(***************************************************************************)
(* What a scan promises about its report, for every combination of         *)
(* settings and limits and for any number of findings.                     *)
(***************************************************************************)
EXTENDS RunInspectProperties, TLAPS

Fibers == {"none", "running", "emitting", "done", "interrupted"}

Shapes ==
  /\ fiber \in [Children -> Fibers]
  /\ found \in [Phases -> Nat]
  /\ emitted \in [Phases -> Nat]
  /\ result \in [Phases -> Nat]
  /\ outcome \in [Phases -> {"none", "whole", "withoutPlugin", "partial"}]
  /\ \A p \in Phases \ {"lint"} : outcome[p] # "withoutPlugin"
  /\ marks \subseteq Marks
  /\ coverage \in Coverages

AfterLint == {"afterLint", "maintainability", "background", "finalized", "reported"}
AfterStart == AfterLint \cup {"lint"}

\* The reporter is closed: nothing that belongs to the report changes any more,
\* not even after an abort that comes too late.
Closed == main \in {"finalized", "reported", "done"} \/ report # None

FiberInv ==
  /\ main = "discover" => \A c \in Children : fiber[c] = "none"
  /\ main = "environment" => \A c \in Analyzers : fiber[c] = "none"
  /\ main \in AfterStart => \A c \in Analyzers : fiber[c] # "none"
  /\ main = "background" \/ Closed => ~Alive("maintainability")
  /\ Closed => ~Alive("security") /\ ~Alive("supplyChain")
  /\ main \in {"reported", "done"} => ~Alive("git")
  /\ main = "failed" => \A c \in Children : ~Alive(c)
  /\ report # None => main \in {"reported", "done", "stopping", "failed"}
  /\ main \in {"reported", "done"} => report # None
  /\ kept # None => report # None

Marked(c) == marks \cap {c, "lint"} # {}

\* Findings that were emitted are lost only with a mark.
LossInv ==
  /\ result["environment"] = emitted["environment"]
  /\ result["lint"] = emitted["lint"]
  /\ \A c \in Analyzers :
       /\ result[c] <= emitted[c]
       /\ result[c] < emitted[c] => Alive(c) \/ Marked(c) \/ main = "failed"

\* An analysis that was cut short has left its mark when it is joined.
OutcomeInv ==
  /\ \A c \in Analyzers : fiber[c] = "emitting" => outcome[c] # "none"
  /\ fiber["maintainability"] = "done" => outcome["maintainability"] = "whole" \/ Marked("maintainability")
  /\ fiber["maintainability"] = "interrupted" => Marked("maintainability") \/ main = "failed"
  /\ fiber["security"] \in {"emitting", "done"} =>
       outcome["security"] = "whole" \/ marks \cap {"security", "securityDeadline"} # {}
  /\ fiber["security"] = "interrupted" => main = "failed"
  /\ main \in AfterStart => outcome["environment"] = "whole"
  /\ main \in AfterLint =>
       /\ "lint" \in marks \/ (oxlint = "ok" /\ result["lint"] = found["lint"])
       /\ \/ outcome["lint"] = "whole"
          \/ outcome["lint"] = "withoutPlugin" /\ "pluginDropped" \in marks
          \/ "lint" \in marks \/ "lintIncomplete" \in marks

ReportInv ==
  report # None =>
    /\ ReportIsWhole /\ ScoreIsHonest
    /\ outcome["environment"] = "whole"
    /\ report.failures \cap {"lint", "lintIncomplete", "pluginDropped"} = {} => outcome["lint"] = "whole"
    /\ report.failures \cap {"lint", "lintIncomplete"} = {} =>
         outcome["lint"] \in {"whole", "withoutPlugin"}
    /\ report.failures \cap {"lint", "maintainability"} = {} => outcome["maintainability"] = "whole"
    /\ report.failures \cap {"security", "securityDeadline"} = {} => outcome["security"] = "whole"

\* The inductive invariant.  The promises are about the report only, but they
\* hold because every analyzer was joined or marked before it was written.
IInv == Shapes /\ FiberInv /\ LossInv /\ OutcomeInv /\ ReportInv /\ OnlyWholeScansAreKept

---------------------------------------------------------------------------
\* The ways in which an analyzer moves.
GoodReturn(c, how, mark) ==
  /\ how \in {"whole", "partial"}
  /\ c = "security" /\ how = "partial" => mark \cap {"security", "securityDeadline"} # {}

LEMMA AnalyzeCases ==
  ASSUME Analyze
  PROVE  \/ \E c \in Analyzers, n \in Nat, how \in {"whole", "partial"}, mark \in SUBSET {"security", "securityDeadline", "maintainability"} :
              Returns(c, n, how, mark) /\ GoodReturn(c, how, mark)
         \/ \E c \in Analyzers : Emit(c) \/ Finish(c) \/ TimesOut(c)
<1> USE DEF Analyzers, GoodReturn, Findings
<1>0. Findings \subseteq Nat
  BY RunInspectAssumption DEF Findings
<1>1. ASSUME NEW c \in Analyzers, Analyzed(c)
      PROVE  \E n \in Nat : Returns(c, n, "whole", {})
  BY <1>0, <1>1 DEF Analyzed
<1>2. CASE SecurityStops
  BY <1>0, <1>2 DEF SecurityStops
<1>3. CASE SecurityFails
  BY <1>3 DEF SecurityFails
<1>4. CASE SupplyChainSkips
  BY <1>0, <1>4 DEF SupplyChainSkips
<1>5. CASE MaintainabilityIsIncomplete
  BY <1>0, <1>5 DEF MaintainabilityIsIncomplete
<1>6. CASE MaintainabilityFails
  BY <1>6 DEF MaintainabilityFails
<1> QED
  BY <1>1, <1>2, <1>3, <1>4, <1>5, <1>6 DEF Analyze

---------------------------------------------------------------------------
Core == Shapes /\ FiberInv /\ LossInv /\ OutcomeInv

\* An analyzer returns, emits, finishes or reaches its limit: what it loses is marked.
LEMMA CoreAnalyze ==
  ASSUME Core, Analyze
  PROVE  Core'
<1> USE DEF Core, Shapes, Analyzers, Children, Phases, Fibers, Alive, Closed, Marked,
            AfterLint, AfterStart, Marks, Coverages
<1>1. ASSUME NEW c \in Analyzers, NEW n \in Nat, NEW how \in {"whole", "partial"},
             NEW mark \in SUBSET {"security", "securityDeadline", "maintainability"},
             Returns(c, n, how, mark), GoodReturn(c, how, mark)
      PROVE  Core'
  <2> USE <1>1 DEF Returns
  <2>1. Shapes'
    OBVIOUS
  <2>2. FiberInv'
    BY DEF FiberInv
  <2>3. LossInv'
    BY DEF LossInv
  <2>4. OutcomeInv'
    BY DEF OutcomeInv, GoodReturn
  <2> QED
    BY <2>1, <2>2, <2>3, <2>4
<1>2. ASSUME NEW c \in Analyzers, Emit(c)
      PROVE  Core'
  <2> USE <1>2 DEF Emit
  <2>1. Shapes'
    OBVIOUS
  <2>2. FiberInv'
    BY DEF FiberInv
  <2>3. LossInv'
    BY DEF LossInv
  <2>4. OutcomeInv'
    BY DEF OutcomeInv
  <2> QED
    BY <2>1, <2>2, <2>3, <2>4
<1>3. ASSUME NEW c \in Analyzers, Finish(c)
      PROVE  Core'
  <2> USE <1>3 DEF Finish, FinishMarks
  <2>1. Shapes'
    OBVIOUS
  <2>2. FiberInv'
    BY DEF FiberInv
  <2>3. LossInv'
    BY DEF LossInv
  <2>4. OutcomeInv'
    BY DEF OutcomeInv
  <2> QED
    BY <2>1, <2>2, <2>3, <2>4
<1>4. ASSUME NEW c \in Analyzers, TimesOut(c)
      PROVE  Core'
  <2> USE <1>4 DEF TimesOut, HasLimit, TimeoutMarks
  <2>1. Shapes'
    OBVIOUS
  <2>2. FiberInv'
    BY DEF FiberInv
  <2>3. LossInv'
    BY DEF LossInv
  <2>4. OutcomeInv'
    BY DEF OutcomeInv
  <2> QED
    BY <2>1, <2>2, <2>3, <2>4
<1> QED
  BY <1>1, <1>2, <1>3, <1>4, AnalyzeCases

\* A step that leaves the analyses alone, or only ends the git fiber.
LEMMA CoreQuiet ==
  ASSUME Core,
         UNCHANGED <<found, emitted, result, marks, oxlint, coverage, report, kept, outcome, main>>,
         fiber' = fiber \/ (main # "discover" /\ fiber' = [fiber EXCEPT !["git"] = "done"])
  PROVE  Core'
<1> USE DEF Core, Shapes, Analyzers, Children, Phases, Fibers, Alive, Closed, Marked,
            AfterLint, AfterStart, Marks, Coverages
<1>1. Shapes'
  OBVIOUS
<1>2. FiberInv'
  <2>1. CASE fiber' = fiber
    BY <2>1 DEF FiberInv
  <2>2. CASE fiber' = [fiber EXCEPT !["git"] = "done"] /\ main # "discover"
    BY <2>2 DEF FiberInv
  <2> QED
    BY <2>1, <2>2
<1>3. LossInv'
  BY DEF LossInv
<1>4. OutcomeInv'
  BY DEF OutcomeInv
<1> QED
  BY <1>1, <1>2, <1>3, <1>4

\* The main fiber, and what can end the lint phase or the scan, keep the core.
LEMMA CoreMain ==
  ASSUME Core, Main \/ LintTimesOut \/ OxlintSettles \/ Stop
  PROVE  Core'
<1> USE RunInspectAssumption, NoneAssumption
    DEF Core, Shapes, Analyzers, Children, Phases, Fibers, Alive, Closed, Marked,
        AfterLint, AfterStart, Marks, Coverages, Findings, analysis, git
<1>1. CASE Discover
  <2> USE <1>1 DEF Discover
  <2>1. Shapes'
    OBVIOUS
  <2>2. FiberInv'
    BY DEF FiberInv
  <2>3. LossInv'
    BY DEF LossInv
  <2>4. OutcomeInv'
    BY DEF OutcomeInv
  <2> QED
    BY <2>1, <2>2, <2>3, <2>4
<1>2. CASE Start
  <2> USE <1>2 DEF Start, Skipped
  <2>1. Shapes'
    OBVIOUS
  <2>2. FiberInv'
    BY DEF FiberInv
  <2>3. LossInv'
    BY DEF LossInv, FiberInv
  <2>4. OutcomeInv'
    BY DEF OutcomeInv
  <2> QED
    BY <2>1, <2>2, <2>3, <2>4
<1>3. CASE LintEnds
  <2>0. PICK lost \in LintMarks : /\ marks' = marks \cup lost
                                  /\ outcome' = [outcome EXCEPT !["lint"] = LintOutcome(lost)]
    BY <1>3 DEF LintEnds
  <2> USE <1>3, <2>0 DEF LintEnds, LintMarks, LintOutcome
  <2>1. Shapes'
    OBVIOUS
  <2>2. FiberInv'
    BY DEF FiberInv
  <2>3. LossInv'
    BY DEF LossInv
  <2>4. OutcomeInv'
    BY DEF OutcomeInv
  <2> QED
    BY <2>1, <2>2, <2>3, <2>4
<1>4. CASE DropMaintainability
  <2> USE <1>4 DEF DropMaintainability, LintFailed, Interrupted
  <2>1. Shapes'
    OBVIOUS
  <2>2. FiberInv'
    BY DEF FiberInv
  <2>3. LossInv'
    BY DEF LossInv
  <2>4. OutcomeInv'
    BY DEF OutcomeInv
  <2> QED
    BY <2>1, <2>2, <2>3, <2>4
<1>5. CASE AwaitMaintainability
  <2> USE <1>5 DEF AwaitMaintainability
  <2>1. Shapes'
    OBVIOUS
  <2>2. FiberInv'
    BY DEF FiberInv
  <2>3. LossInv'
    BY DEF LossInv
  <2>4. OutcomeInv'
    BY DEF OutcomeInv
  <2> QED
    BY <2>1, <2>2, <2>3, <2>4
<1>6. CASE JoinMaintainability
  <2> USE <1>6 DEF JoinMaintainability
  <2>1. Shapes'
    OBVIOUS
  <2>2. FiberInv'
    BY DEF FiberInv
  <2>3. LossInv'
    BY DEF LossInv
  <2>4. OutcomeInv'
    BY DEF OutcomeInv
  <2> QED
    BY <2>1, <2>2, <2>3, <2>4
<1>7. CASE Finalize
  <2> USE <1>7 DEF Finalize, BackgroundIsDone
  <2>1. Shapes'
    OBVIOUS
  <2>2. FiberInv'
    BY DEF FiberInv
  <2>3. LossInv'
    BY DEF LossInv
  <2>4. OutcomeInv'
    BY DEF OutcomeInv
  <2> QED
    BY <2>1, <2>2, <2>3, <2>4
<1>8. CASE Report
  <2> USE <1>8 DEF Report, Scored, Named, LintFailed
  <2>1. Shapes'
    OBVIOUS
  <2>2. FiberInv'
    <3>1. report' \in Reports
      BY DEF Report, Reports
    <3> QED
      BY <3>1 DEF FiberInv
  <2>3. LossInv'
    BY DEF LossInv
  <2>4. OutcomeInv'
    BY DEF OutcomeInv
  <2> QED
    BY <2>1, <2>2, <2>3, <2>4
<1>9. CASE Complete
  <2> USE <1>9 DEF Complete
  <2>1. Shapes'
    OBVIOUS
  <2>2. FiberInv'
    BY DEF FiberInv
  <2>3. LossInv'
    BY DEF LossInv
  <2>4. OutcomeInv'
    BY DEF OutcomeInv
  <2> QED
    BY <2>1, <2>2, <2>3, <2>4
<1>10. CASE Stopped
  <2> USE <1>10 DEF Stopped
  <2>1. Shapes'
    OBVIOUS
  <2>2. FiberInv'
    BY DEF FiberInv
  <2>3. LossInv'
    BY DEF LossInv
  <2>4. OutcomeInv'
    BY DEF OutcomeInv
  <2> QED
    BY <2>1, <2>2, <2>3, <2>4
<1>11. CASE LintTimesOut
  <2> USE <1>11 DEF LintTimesOut
  <2>1. Shapes'
    OBVIOUS
  <2>2. FiberInv'
    BY DEF FiberInv
  <2>3. LossInv'
    BY DEF LossInv
  <2>4. OutcomeInv'
    BY DEF OutcomeInv
  <2> QED
    BY <2>1, <2>2, <2>3, <2>4
<1>12. CASE OxlintSettles
  <2> USE <1>12 DEF OxlintSettles
  <2>1. Shapes'
    OBVIOUS
  <2>2. FiberInv'
    BY DEF FiberInv
  <2>3. LossInv'
    BY DEF LossInv
  <2>4. OutcomeInv'
    BY DEF OutcomeInv
  <2> QED
    BY <2>1, <2>2, <2>3, <2>4
<1>13. CASE Stop
  <2> USE <1>13 DEF Stop, Over
  <2>1. Shapes'
    OBVIOUS
  <2>2. FiberInv'
    BY DEF FiberInv
  <2>3. LossInv'
    BY DEF LossInv
  <2>4. OutcomeInv'
    BY DEF OutcomeInv
  <2> QED
    BY <2>1, <2>2, <2>3, <2>4
<1> QED
  BY <1>1, <1>2, <1>3, <1>4, <1>5, <1>6, <1>7, <1>8, <1>9, <1>10, <1>11, <1>12, <1>13 DEF Main

\* The part of the invariant that is about the analyses, without the report.
LEMMA CoreStep ==
  ASSUME Core, [Next]_vars
  PROVE  Core'
<1> USE DEF analysis, git
<1>1. CASE Spend
  BY <1>1, CoreQuiet DEF Spend
<1>2. CASE LookupEnds
  BY <1>2, CoreQuiet DEF LookupEnds
<1>3. CASE GitEnds
  <2>1. main # "discover"
    BY <1>3 DEF GitEnds, Core, FiberInv, Children, Analyzers
  <2> QED
    BY <1>3, <2>1, CoreQuiet DEF GitEnds
<1>4. CASE SiblingAsks
  BY <1>4, CoreQuiet DEF SiblingAsks
<1>5. CASE SiblingIsServed
  BY <1>5, CoreQuiet DEF SiblingIsServed
<1>6. CASE UNCHANGED vars
  BY <1>6, CoreQuiet DEF vars
<1>7. CASE ScanTimesOut
  BY <1>7, CoreMain DEF ScanTimesOut
<1>8. ASSUME NEW c \in Analyzers, TimesOut(c)
      PROVE  Core'
  BY <1>8, CoreAnalyze DEF Analyze
<1> QED
  BY <1>1, <1>2, <1>3, <1>4, <1>5, <1>6, <1>7, <1>8, CoreAnalyze, CoreMain DEF Next, Timers

---------------------------------------------------------------------------
\* Once there is a report, nothing it speaks of changes: no analyzer is alive,
\* and runOxlint, if it still runs, has been given up with a mark.
LEMMA Frozen ==
  ASSUME Core, [Next]_vars, report # None
  PROVE  /\ UNCHANGED <<emitted, outcome, report>>
         /\ oxlint = "ok" => oxlint' = "ok" /\ found'["lint"] = found["lint"]
<1> USE DEF Core, Shapes, FiberInv, Analyzers, Children, Phases, Alive, Closed, analysis, git
<1>1. main \in {"reported", "done", "stopping", "failed"}
  OBVIOUS
<1>2. ~Analyze /\ \A c \in Analyzers : ~TimesOut(c)
  <2>1. \A c \in Analyzers : ~Alive(c)
    OBVIOUS
  <2>2. \A c \in Analyzers : ~TimesOut(c)
    BY <2>1 DEF TimesOut
  <2>3. \A c \in Analyzers : ~Emit(c) /\ ~Finish(c)
    BY <2>1 DEF Emit, Finish
  <2>4. \A c \in Analyzers : \A n \in Nat : \A how, mark : ~Returns(c, n, how, mark)
    BY <2>1 DEF Returns
  <2> QED
    BY <2>2, <2>3, <2>4, AnalyzeCases
<1>3. CASE Complete
  BY <1>3 DEF Complete
<1>4. CASE Stopped
  BY <1>4 DEF Stopped
<1>5. CASE OxlintSettles
  BY <1>5 DEF OxlintSettles
<1>6. CASE Stop \/ ScanTimesOut
  BY <1>6 DEF Stop, ScanTimesOut
<1>7. CASE Spend \/ LookupEnds \/ GitEnds \/ SiblingAsks \/ SiblingIsServed \/ UNCHANGED vars
  BY <1>7 DEF Spend, LookupEnds, GitEnds, SiblingAsks, SiblingIsServed, vars
<1>8. CASE Discover \/ Start \/ LintEnds \/ LintTimesOut
  BY <1>1, <1>8 DEF Discover, Start, LintEnds, LintTimesOut
<1>9. CASE DropMaintainability \/ AwaitMaintainability \/ JoinMaintainability \/ Finalize \/ Report
  BY <1>1, <1>9 DEF DropMaintainability, AwaitMaintainability, JoinMaintainability, Finalize, Report
<1> QED
  BY <1>2, <1>3, <1>4, <1>5, <1>6, <1>7, <1>8, <1>9 DEF Next, Main, Timers

\* The report is true when it is written and stays true of what it is about.
LEMMA ReportStep ==
  ASSUME Core, ReportInv, [Next]_vars
  PROVE  ReportInv'
<1>1. CASE report # None
  BY <1>1, Frozen DEF ReportInv, ReportIsWhole, ScoreIsHonest
<1>2. CASE report = None /\ Report
  <2> USE <1>2 DEF Core, Shapes, Analyzers, Children, Phases, Fibers, Alive, Closed, Marked, AfterLint,
          AfterStart, Report, Scored, Named, LintFailed, FiberInv, OutcomeInv, analysis, git
  <2>1. ReportIsWhole'
    BY DEF ReportIsWhole, LossInv
  <2>2. ScoreIsHonest'
    BY DEF ScoreIsHonest
  <2>3. outcome'["environment"] = "whole"
    OBVIOUS
  <2>4. /\ report'.failures \cap {"lint", "lintIncomplete", "pluginDropped"} = {} =>
             outcome'["lint"] = "whole"
        /\ report'.failures \cap {"lint", "lintIncomplete"} = {} =>
             outcome'["lint"] \in {"whole", "withoutPlugin"}
    OBVIOUS
  <2>5. report'.failures \cap {"lint", "maintainability"} = {} => outcome'["maintainability"] = "whole"
    OBVIOUS
  <2>6. report'.failures \cap {"security", "securityDeadline"} = {} => outcome'["security"] = "whole"
    OBVIOUS
  <2> QED
    BY <2>1, <2>2, <2>3, <2>4, <2>5, <2>6 DEF ReportInv
<1>3. CASE report = None /\ ~Report
  <2>1. report' = None
    <3> USE DEF analysis, git
    <3>1. ASSUME NEW c \in Analyzers, Emit(c) \/ Finish(c) \/ TimesOut(c)
          PROVE  report' = report
      BY <3>1 DEF Emit, Finish, TimesOut
    <3>2. CASE Analyze
      BY <1>3, <3>1, <3>2, AnalyzeCases DEF Returns
    <3> QED
      BY <1>3, <3>1, <3>2 DEF Next, Main, Timers, Discover, Start, LintEnds, DropMaintainability,
        AwaitMaintainability, JoinMaintainability, Finalize, Complete, Stopped, LintTimesOut, Spend,
        ScanTimesOut, Stop, OxlintSettles, LookupEnds, GitEnds, SiblingAsks, SiblingIsServed, vars
  <2> QED
    BY <2>1 DEF ReportInv
<1> QED
  BY <1>1, <1>2, <1>3

\* What was stored or compared came from a whole scan.
LEMMA KeptStep ==
  ASSUME Core, ReportInv, OnlyWholeScansAreKept, [Next]_vars
  PROVE  OnlyWholeScansAreKept'
<1>1. CASE Complete
  <2>1. report # None /\ UNCHANGED <<outcome, report>>
    BY <1>1 DEF Complete, Core, FiberInv, analysis, git
  <2>2. ShouldStore => \A p \in Phases \ {"supplyChain"} : outcome[p] = "whole"
    BY <2>1 DEF ShouldStore, ReportInv, Phases, Analyzers
  <2>3. Comparable => /\ outcome["lint"] \in {"whole", "withoutPlugin"} /\ report.analyzed = "all"
                      /\ outcome["maintainability"] = "whole"
    BY <2>1 DEF Comparable, ReportInv
  <2>4. PICK delta \in IF Comparable THEN BOOLEAN ELSE {FALSE} :
          kept' = [delta |-> delta,
                   stored |-> ShouldStore /\ ~(settings.baseline /\ settings.diff /\ ~delta)]
    BY <1>1 DEF Complete
  <2>5. (kept'.stored => ShouldStore) /\ (kept'.delta => Comparable)
    BY <2>4
  <2> QED
    BY <2>1, <2>2, <2>3, <2>5 DEF OnlyWholeScansAreKept
<1>2. CASE ~Complete
  <2>1. kept' = kept
    <3> USE DEF analysis, git
    <3>1. ASSUME NEW c \in Analyzers, Emit(c) \/ Finish(c) \/ TimesOut(c)
          PROVE  kept' = kept
      BY <3>1 DEF Emit, Finish, TimesOut
    <3>2. CASE Analyze
      BY <3>1, <3>2, AnalyzeCases DEF Returns
    <3> QED
      BY <1>2, <3>1, <3>2 DEF Next, Main, Timers, Discover, Start, LintEnds, DropMaintainability,
        AwaitMaintainability, JoinMaintainability, Finalize, Report, Stopped, LintTimesOut, Spend,
        ScanTimesOut, Stop, OxlintSettles, LookupEnds, GitEnds, SiblingAsks, SiblingIsServed, vars
  <2>2. kept # None => UNCHANGED <<outcome, report>>
    BY Frozen DEF Core, FiberInv
  <2> QED
    BY <2>1, <2>2 DEF OnlyWholeScansAreKept
<1> QED
  BY <1>1, <1>2

---------------------------------------------------------------------------
\* The shapes of the data, which fibers are alive when, what is lost with a mark,
\* and what a report stands for.
THEOREM Invariance == Spec => []IInv
<1>1. Init => IInv
  BY DEF Init, IInv, Shapes, FiberInv, LossInv, OutcomeInv, ReportInv, OnlyWholeScansAreKept,
    Children, Analyzers, Phases, Fibers, Marks, Coverages, Closed, Alive, AfterLint, AfterStart
<1>2. IInv /\ [Next]_vars => IInv'
  BY CoreStep, ReportStep, KeptStep DEF IInv, Core
<1> QED
  BY <1>1, <1>2, PTL DEF Spec

\* The reporter is finalized after the last emit, and no fiber outlives its scan,
\* whichever way it ended.
THEOREM ScansLeakNothing == Spec => []NothingAfterTheScan
<1>1. IInv => NothingAfterTheScan
  BY DEF IInv, FiberInv, NothingAfterTheScan, Closed, Over, Analyzers, Children
<1> QED
  BY <1>1, Invariance, PTL

\* Findings that were emitted are missing from the report only with a reason.
THEOREM ReportsAreWhole == Spec => []ReportIsWhole
<1>1. IInv => ReportIsWhole
  BY DEF IInv, ReportInv, ReportIsWhole
<1> QED
  BY <1>1, Invariance, PTL

\* A score is given only if lint ended by itself with all it found in the report, and
\* the maintainability analysis was complete.
THEOREM ScoresAreHonest == Spec => []ScoreIsHonest
<1>1. IInv => ScoreIsHonest
  BY DEF IInv, ReportInv, ScoreIsHonest
<1> QED
  BY <1>1, Invariance, PTL

\* A stored report lost nothing outside the supply chain, and a comparison is one of
\* linted files.
THEOREM KeptScansAreWhole == Spec => []OnlyWholeScansAreKept
<1>1. IInv => OnlyWholeScansAreKept
  BY DEF IInv
<1> QED
  BY <1>1, Invariance, PTL
===========================================================================
