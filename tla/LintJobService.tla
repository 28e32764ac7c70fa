-------------------------- MODULE LintJobService --------------------------
(***************************************************************************)
(* What callers are promised by the worker pool: run() accepts a job and   *)
(* settles its promise once.  Jobs start in the order they were accepted;  *)
(* only a started job can produce a result; when the service goes out of   *)
(* use it turns every job that has not started away and accepts no other.  *)
(***************************************************************************)
EXTENDS Naturals, Sequences, SequencesExt

CONSTANTS Job, Failure

VARIABLES
  open,     \* the service accepts jobs
  queue,    \* accepted and not started
  started,  \* started and not settled
  result    \* of every settled job, "none" before

svars == <<open, queue, started, result>>

SInit ==
  /\ open = TRUE
  /\ queue = <<>>
  /\ started = {}
  /\ result = [j \in Job |-> "none"]

Fresh(j) == result[j] = "none" /\ j \notin started /\ j \notin ToSet(queue)

Accept(j) ==
  /\ open
  /\ Fresh(j)
  /\ queue' = Append(queue, j)
  /\ UNCHANGED <<open, started, result>>

\* A job is turned away at once when the service is closed or the caller has
\* already given it up.
TurnAway(j) ==
  /\ Fresh(j)
  /\ \E r \in {"unavailable", "aborted"} :
       /\ r = "unavailable" => ~open
       /\ result' = [result EXCEPT ![j] = r]
  /\ UNCHANGED <<open, queue, started>>

GiveUp(j) ==
  /\ j \in ToSet(queue)
  /\ queue' = RemoveFirst(queue, j)
  /\ result' = [result EXCEPT ![j] = "aborted"]
  /\ UNCHANGED <<open, started>>

Start ==
  /\ open
  /\ queue # <<>>
  /\ started' = started \cup {Head(queue)}
  /\ queue' = Tail(queue)
  /\ UNCHANGED <<open, result>>

\* A job may settle in the step that starts the next one.
Finish(j) ==
  /\ j \in started
  /\ \E r \in Failure \cup {"resolved"} : result' = [result EXCEPT ![j] = r]
  /\ \/ started' = started \ {j} /\ UNCHANGED queue
     \/ /\ open /\ queue # <<>>
        /\ started' = (started \ {j}) \cup {Head(queue)}
        /\ queue' = Tail(queue)
  /\ UNCHANGED open

Shut ==
  /\ open
  /\ open' = FALSE
  /\ queue' = <<>>
  /\ result' = [j \in Job |-> IF j \in ToSet(queue) THEN "unavailable" ELSE result[j]]
  /\ UNCHANGED started

SNext == Shut \/ Start \/ \E j \in Job : Accept(j) \/ TurnAway(j) \/ GiveUp(j) \/ Finish(j)

SSpec == SInit /\ [][SNext]_svars

\* Every accepted job is settled.
SLiveness == \A j \in Job : (j \in started \/ j \in ToSet(queue)) ~> result[j] # "none"

Service == SSpec /\ SLiveness
=============================================================================
