---------------------------- MODULE OxlintJobs ----------------------------
(***************************************************************************)
(* Lint jobs as the batches see them: runOxlintJob (run-oxlint-job.ts)     *)
(* gives a job to the worker pool and, when the pool turns it away, to a   *)
(* process of its own, spawnOxlint (spawn-oxlint.ts).                      *)
(*                                                                         *)
(* The pool is LintJobService, the contract that OxlintWorkerPool is shown *)
(* to implement.  The events of a process (its end, a spawn error, too     *)
(* much output, the timer, the abort signal of the scan) come in any       *)
(* order; the first one settles the promise.                               *)
(***************************************************************************)
EXTENDS Naturals, Sequences, SequencesExt

CONSTANTS
  Job,     \* lint jobs of one scan
  Failure  \* how a job of the pool can fail once it has started

VARIABLES
  open, queue, started, result, \* the worker pool
  stage,    \* where each job is
  child,    \* the process of each job
  listener, \* jobs whose listener is on the abort signal
  timer,    \* jobs whose timer runs
  tooLarge, \* jobs that were killed for the size of their output
  outcome,  \* what the caller got
  aborted   \* the abort signal

pool == <<open, queue, started, result>>
process == <<child, listener, timer, tooLarge>>
vars == <<pool, stage, process, outcome, aborted>>

Pool == INSTANCE LintJobService

Stages == {"new", "pooled", "spawned", "timing", "ended"}
Outcomes == Failure \cup {"resolved", "aborted", "timeout", "outputTooLarge", "spawnFailed", "killed"}

Init ==
  /\ Pool!SInit
  /\ stage = [j \in Job |-> "new"]
  /\ child = [j \in Job |-> "none"]
  /\ listener = {} /\ timer = {} /\ tooLarge = {}
  /\ outcome = [j \in Job |-> "none"]
  /\ aborted = FALSE

\* A promise takes the first answer; later ones have no effect.
Settle(j, answer) ==
  /\ outcome' = [outcome EXCEPT ![j] = IF @ = "none" THEN answer ELSE @]
  /\ stage' = [stage EXCEPT ![j] = "ended"]

---------------------------------------------------------------------------
(* runOxlintJob *)

\* Wrong variant: without the ceiling on the wall time of a process.
Unarmed(j) == timer
Armed(j) == timer \cup {j}

\* spawnOxlint: refused after the abort, otherwise a process with a listener on
\* the signal and a timer.
Spawn(j) ==
  IF aborted
  THEN Settle(j, "aborted") /\ UNCHANGED process
  ELSE /\ stage' = [stage EXCEPT ![j] = "spawned"]
       /\ child' = [child EXCEPT ![j] = "alive"]
       /\ listener' = listener \cup {j}
       /\ timer' = Armed(j)
       /\ UNCHANGED <<tooLarge, outcome>>

\* The pool gives up at once what is handed to it after the abort.
Call(j) ==
  /\ stage[j] = "new"
  /\ \/ /\ open
        /\ stage' = [stage EXCEPT ![j] = "pooled"]
        /\ IF aborted THEN Pool!TurnAway(j) ELSE Pool!Accept(j)
        /\ UNCHANGED <<process, outcome>>
     \/ /\ ~open
        /\ Spawn(j)
        /\ UNCHANGED pool
  /\ UNCHANGED aborted

\* The pool's own steps; it aborts jobs only when the signal says so.
PoolStep ==
  /\ \/ Pool!Start \/ Pool!Shut
     \/ \E j \in Job :
          \/ Pool!Finish(j) /\ (result'[j] = "aborted" => aborted)
          \/ aborted /\ Pool!GiveUp(j)
  /\ UNCHANGED <<stage, process, outcome, aborted>>

\* Wrong variant: every failure of the pool is retried.
AnyFailure(j) == result[j] # "resolved"

IsUnavailable(j) == result[j] = "unavailable"

\* The promise of the pool settled: the catch block falls back or throws.
PoolAnswers(j) ==
  /\ stage[j] = "pooled"
  /\ result[j] # "none"
  /\ IF IsUnavailable(j) THEN Spawn(j)
     ELSE Settle(j, result[j]) /\ UNCHANGED process
  /\ UNCHANGED <<pool, aborted>>

---------------------------------------------------------------------------
(* spawnOxlint *)

\* SIGKILL: the process is gone a little later, when "close" is emitted.
Killed(j) == IF child[j] = "alive" THEN "dying" ELSE child[j]

\* The listeners run before abort() returns; the timer is left to "close".
Abort ==
  /\ ~aborted
  /\ aborted' = TRUE
  /\ child' = [j \in Job |-> IF j \in listener THEN Killed(j) ELSE child[j]]
  /\ outcome' = [j \in Job |-> IF j \in listener /\ outcome[j] = "none" THEN "aborted" ELSE outcome[j]]
  /\ stage' = [j \in Job |-> IF j \in listener THEN "ended" ELSE stage[j]]
  /\ listener' = {}
  /\ UNCHANGED <<pool, timer, tooLarge>>

\* Wrong variant: clearAbortListener is forgotten.
KeepsListener(j) == listener
WithoutListener(j) == listener \ {j}

TimerFires(j) ==
  /\ j \in timer
  /\ timer' = timer \ {j}
  /\ listener' = WithoutListener(j)
  /\ child' = [child EXCEPT ![j] = Killed(j)]
  /\ Settle(j, "timeout")
  /\ UNCHANGED <<pool, tooLarge, aborted>>

\* killIfTooLarge does not settle: that is left to "close".
Output(j) ==
  /\ child[j] \in {"alive", "dying"}
  /\ j \notin tooLarge
  /\ tooLarge' = tooLarge \cup {j}
  /\ child' = [child EXCEPT ![j] = Killed(j)]
  /\ UNCHANGED <<pool, stage, listener, timer, outcome, aborted>>

\* The process could not be started; "close" is still emitted.
SpawnError(j) ==
  /\ child[j] = "alive" /\ stage[j] = "spawned"
  /\ child' = [child EXCEPT ![j] = "dying"]
  /\ timer' = timer \ {j}
  /\ listener' = WithoutListener(j)
  /\ Settle(j, "spawnFailed")
  /\ UNCHANGED <<pool, tooLarge, aborted>>

\* What "close" makes of a process: it exited with a complete output, with an
\* exit code or a signal, or with nothing but messages on stderr.
Answers(j) == IF j \in tooLarge THEN {"outputTooLarge"} ELSE {"resolved", "killed", "spawnFailed"}

\* With REACT_DOCTOR_OXLINT_TIMINGS_DIR a complete output waits for its timings.
Close(j) ==
  /\ child[j] \in {"alive", "dying"}
  /\ child' = [child EXCEPT ![j] = "closed"]
  /\ timer' = timer \ {j}
  /\ listener' = WithoutListener(j)
  /\ \E answer \in Answers(j) :
       \/ Settle(j, answer)
       \/ /\ answer = "resolved"
          /\ stage' = [stage EXCEPT ![j] = "timing"]
          /\ UNCHANGED outcome
  /\ UNCHANGED <<pool, tooLarge, aborted>>

Timings(j) ==
  /\ stage[j] = "timing"
  /\ \E answer \in {"resolved", "spawnFailed"} : Settle(j, answer)
  /\ UNCHANGED <<pool, process, aborted>>

Next ==
  \/ PoolStep \/ Abort
  \/ \E j \in Job :
       \/ Call(j) \/ PoolAnswers(j)
       \/ TimerFires(j) \/ Output(j) \/ SpawnError(j) \/ Close(j) \/ Timings(j)

Spec == Init /\ [][Next]_vars

\* The pool settles what it accepts (SLiveness of LintJobService); a process may
\* hang for ever unless it was killed, but timers fire.
FairSpec ==
  /\ Spec
  /\ WF_vars(PoolStep /\ Pool!Start)
  /\ \A j \in Job :
       /\ WF_vars(PoolStep /\ Pool!Finish(j))
       /\ WF_vars(PoolAnswers(j)) /\ WF_vars(TimerFires(j)) /\ WF_vars(Timings(j))
       /\ WF_vars(child[j] = "dying" /\ Close(j))

---------------------------------------------------------------------------

TypeOK ==
  /\ stage \in [Job -> Stages]
  /\ child \in [Job -> {"none", "alive", "dying", "closed"}]
  /\ listener \subseteq Job /\ timer \subseteq Job /\ tooLarge \subseteq Job
  /\ outcome \in [Job -> Outcomes \cup {"none"}]
  /\ aborted \in BOOLEAN

\* Only a job that the pool refused or turned away gets a process, whenever the pool
\* goes out of use: one that failed there for a reason of its own is not run again,
\* and none is with the pool and a process at once.
OnlyRefusedJobsRunAgain ==
  \A j \in Job :
    child[j] # "none" => result[j] \in {"none", "unavailable"} /\ j \notin started \cup ToSet(queue)

\* A job that was answered has no listener on the shared signal and no process
\* that still runs, and a process that has ended has no timer: "each settle path
\* must drop its listener or they accumulate" (spawn-oxlint.ts:94).
NothingIsLeftBehind ==
  \A j \in Job :
    /\ outcome[j] # "none" => j \notin listener /\ child[j] # "alive"
    /\ child[j] = "closed" => j \notin timer

\* Every job that was called is answered, even if its process hangs and whenever
\* the pool goes out of use.
EveryCallIsAnswered == \A j \in Job : stage[j] # "new" ~> outcome[j] # "none"
===========================================================================
