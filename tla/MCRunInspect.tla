---------------------------- MODULE MCRunInspect ----------------------------
(* A full scan with a maximum duration, and a pull request: a scan of changed  *)
(* files that is compared with its base.                                       *)
EXTENDS RunInspectProperties

FullScan == [diff |-> FALSE, maintainability |-> FALSE, baseline |-> FALSE, shared |-> FALSE,
             limits |-> {"maxDuration", "lintPhase", "scan"}]
PullRequest == [diff |-> TRUE, maintainability |-> TRUE, baseline |-> TRUE, shared |-> TRUE,
                limits |-> {"lintPhase", "maxDuration"}]
MCInputs == {FullScan, PullRequest}
=============================================================================
