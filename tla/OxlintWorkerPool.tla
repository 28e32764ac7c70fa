------------------------- MODULE OxlintWorkerPool -------------------------
(***************************************************************************)
(* The pool of warm oxlint worker processes of one host process            *)
(* (runners/oxlint/oxlint-worker-pool.ts with oxlint-worker-prespawn.ts)   *)
(* and the worker processes it talks to (start-oxlint-worker.ts).          *)
(*                                                                         *)
(* The host is single threaded.  Three levels decide what may run next:    *)
(*  - stack: the synchronous code still to be executed by the handler that *)
(*    is running (dispatchWaiting and warm are loops that can re-enter     *)
(*    themselves through an adopted child that is already dead);           *)
(*  - micro: the promise reactions queued by the handlers, in order;       *)
(*  - the events of timers, pipes and processes, taken only when both are  *)
(*    empty.                                                               *)
(* Calls of the pool's interface come from promise reactions of the        *)
(* callers as well as from events, so they only wait for the stack.        *)
(***************************************************************************)
EXTENDS Naturals, Sequences, FiniteSets, SequencesExt

CONSTANTS
  Job,             \* jobs handed to run(), each once
  WorkerId,        \* identities of worker processes, reused after the exit
  NoJob, NoWorker,
  MaxWorkers,      \* options.maxWorkers
  MaxPrespawned,   \* children spawned before the pool exists
  ExitError        \* what buildOxlintExitError and its fallback make of an exit

ASSUME PoolAssumption ==
  /\ MaxWorkers \in Nat \ {0}
  /\ MaxPrespawned \in Nat
  /\ ExitError \subseteq {"killed", "oom", "spawnFailed"}
  /\ NoJob \notin Job
  /\ NoWorker \notin WorkerId

VARIABLES
  \* the pool's closure
  workers, idleWorkers, waitingJobs, available,
  worker,          \* the Worker records
  job,             \* the PendingJob records and the promises run() returned
  aborted,         \* jobs whose abortSignal has fired
  prespawned,      \* prespawned children not adopted yet
  closeCalled,     \* close() has been called,
  closing,         \* and its promise waits for these workers
  \* the host's event loop
  stack, micro,
  \* the processes and the channels to them
  inbox,           \* jobs a worker process has been sent and not finished
  pipe,            \* end markers written and not read, per stream
  sendErrors,      \* failed child.send calls whose callback is pending
  \* history
  bootBroken       \* a worker that nobody killed has failed to boot

pool == <<workers, idleWorkers, waitingJobs, available>>
shutdown == <<closeCalled, closing>>
os   == <<inbox, pipe, sendErrors>>
vars == <<pool, worker, job, aborted, prespawned, shutdown, stack, micro, os, bootBroken>>

Stream  == {"stdout", "stderr"}
Failure == {"unavailable", "aborted", "timeout", "outputTooLarge", "killed", "oom",
            "spawnFailed"}
Settled == Failure \cup {"resolved"}

WorkerRecord ==
  [current: Job \cup {NoJob}, ready: {"pending", "resolved", "rejected"}, booted: BOOLEAN,
   isReady: BOOLEAN, isDead: BOOLEAN, isReclaimed: BOOLEAN, idleTimer: BOOLEAN,
   killed: BOOLEAN]
JobRecord ==
  [promise: {"none", "pending"} \cup Settled, ends: SUBSET Stream, bytes: SUBSET Job,
   didKillForSize: BOOLEAN]

\* The record createWorker builds.  booted: the process has sent its boot
\* message; killed: the pool has sent SIGKILL.
NewWorker ==
  [current |-> NoJob, ready |-> "pending", booted |-> FALSE, isReady |-> FALSE,
   isDead |-> FALSE, isReclaimed |-> FALSE, idleTimer |-> FALSE, killed |-> FALSE]
NewJob == [promise |-> "none", ends |-> {}, bytes |-> {}, didKillForSize |-> FALSE]
NoPipe == [s \in Stream |-> <<>>]

Frame(kind, w) == [kind |-> kind, w |-> w]
Reaction(kind, w, j) == [kind |-> kind, w |-> w, j |-> j]
FrameRecord == [kind: {"dispatch", "warm"}, w: {NoWorker}] \cup
               [kind: {"assign", "release"}, w: WorkerId]
ReactionRecord == [kind: {"bootFailed"}, w: WorkerId, j: {NoJob}] \cup
                  [kind: {"failReady", "send"}, w: WorkerId, j: Job]

Init ==
  /\ workers = {} /\ idleWorkers = <<>> /\ waitingJobs = <<>> /\ available = TRUE
  /\ worker = [w \in WorkerId |-> [NewWorker EXCEPT !.isDead = TRUE]]
  /\ job = [j \in Job |-> NewJob]
  /\ aborted = {}
  /\ prespawned \in 0 .. MaxPrespawned
  /\ closeCalled = FALSE /\ closing = {}
  /\ stack = <<>> /\ micro = <<>>
  /\ inbox = [w \in WorkerId |-> <<>>]
  /\ pipe = [w \in WorkerId |-> NoPipe]
  /\ sendErrors = {}
  /\ bootBroken = FALSE

---------------------------------------------------------------------------
(* Helpers: each is the new value of a record function after a call.       *)

Kill(W, w) == [W EXCEPT ![w].idleTimer = FALSE, ![w].killed = @ \/ ~W[w].isDead]

\* What was collected for a job matters to nobody once its promise is rejected.
Settle(J, j, result) ==
  [J EXCEPT ![j] = IF result = "resolved" THEN [@ EXCEPT !.promise = result]
                   ELSE [NewJob EXCEPT !.promise = result]]

\* Wrong variants of the definitions below.  No action uses them: each stands
\* for a bug that the property it is paired with in PROJECT.json must notice.
KillUnmarked(W, w) == Kill(W, w)
ClearForgotten(W, w, j) == W
Unchecked(w, j) == TRUE
StaysQueued(j) == waitingJobs
RoomForUnkilled == Cardinality({w \in workers : ~worker[w].killed}) < MaxWorkers
StdoutEnded(ends) == "stdout" \in ends
NoDispatch == <<>>
UnavailableKeepingWaiting(J) ==
  /\ available' = FALSE
  /\ worker' = [w \in WorkerId |-> IF w \in workers THEN Kill(worker, w)[w] ELSE worker[w]]
  /\ job' = J
  /\ UNCHANGED waitingJobs
UnavailableKeepingWorkers(J) ==
  /\ available' = FALSE
  /\ job' = [j \in Job |->
               IF j \in ToSet(waitingJobs) THEN Settle(J, j, "unavailable")[j] ELSE J[j]]
  /\ waitingJobs' = <<>>
  /\ UNCHANGED worker
IdleWithoutServing(W, J, w) ==
  /\ idleWorkers' = Append(idleWorkers, w)
  /\ worker' = [W EXCEPT ![w].idleTimer = TRUE]
  /\ job' = J
  /\ UNCHANGED <<waitingJobs, micro>>

Reclaim(W, w) == Kill([W EXCEPT ![w].isReclaimed = TRUE], w)
Clear(W, w, j) == [W EXCEPT ![w].current = IF @ = j THEN NoJob ELSE @]
\* The check that a late callback still concerns the worker's job.
StillCurrent(w, j) == worker[w].current = j
WithoutWaiting(j) == RemoveFirst(waitingJobs, j)
WithoutIdle(w) == RemoveFirst(idleWorkers, w)
HasRoom == Cardinality(workers) < MaxWorkers
HasPrespawned == prespawned > 0
JobEnded(ends) == ends = Stream

\* ready.reject of worker w: the pool's reaction, then the reaction of the job
\* that waits for the worker, if any.
RejectReady(W, w) ==
  IF W[w].ready # "pending" THEN W ELSE [W EXCEPT ![w].ready = "rejected"]
RejectionReactions(W, w) ==
  IF W[w].ready # "pending" THEN <<>>
  ELSE <<Reaction("bootFailed", w, NoJob)>> \o
       (IF W[w].current = NoJob THEN <<>> ELSE <<Reaction("failReady", w, W[w].current)>>)

MarkUnavailable(J) ==
  /\ available' = FALSE
  /\ worker' = [w \in WorkerId |-> IF w \in workers THEN Kill(worker, w)[w] ELSE worker[w]]
  /\ job' = [j \in Job |->
               IF j \in ToSet(waitingJobs) THEN Settle(J, j, "unavailable")[j] ELSE J[j]]
  /\ waitingJobs' = <<>>

\* The reaction on worker.ready runs at once when the promise is settled;
\* otherwise it is registered and queued when the promise settles.
StartJob(W, J, w, j) ==
  /\ worker' = [W EXCEPT ![w].idleTimer = FALSE, ![w].current = j]
  /\ job' = [J EXCEPT ![j] = [NewJob EXCEPT !.promise = J[j].promise]]
  /\ micro' = CASE W[w].ready = "pending"  -> micro
                [] W[w].ready = "resolved" -> Append(micro, Reaction("send", w, j))
                [] W[w].ready = "rejected" -> Append(micro, Reaction("failReady", w, j))

ReleaseWorker(W, J, w) ==
  IF W[w].isDead
  THEN worker' = W /\ job' = J /\ UNCHANGED <<waitingJobs, idleWorkers, micro>>
  ELSE IF waitingJobs # <<>>
  THEN /\ waitingJobs' = Tail(waitingJobs)
       /\ StartJob(W, J, w, Head(waitingJobs))
       /\ UNCHANGED idleWorkers
  ELSE /\ idleWorkers' = Append(idleWorkers, w)
       /\ worker' = [W EXCEPT ![w].idleTimer = TRUE]
       /\ job' = J
       /\ UNCHANGED <<waitingJobs, micro>>

\* An identity that nothing in the host refers to any more.
Unused(w) ==
  /\ w \notin workers
  /\ worker[w].current = NoJob
  /\ \A i \in DOMAIN stack : stack[i].w # w
  /\ \A i \in DOMAIN micro : micro[i].w # w
  /\ \A e \in sendErrors : e[1] # w

\* createWorker, called by the frame under `rest`: a prespawned child is
\* adopted when there is one, and what it reported meanwhile is replayed.  The
\* replay of an exit runs onWorkerClose, and with it dispatchWaiting, before
\* the caller continues.
CreateWorker(w, rest) ==
  /\ Unused(w)
  /\ inbox' = [inbox EXCEPT ![w] = <<>>]
  /\ pipe' = [pipe EXCEPT ![w] = NoPipe]
  /\ UNCHANGED <<idleWorkers, waitingJobs, available, job, sendErrors>>
  /\ \/ /\ ~HasPrespawned
        /\ worker' = [worker EXCEPT ![w] = NewWorker]
        /\ workers' = workers \cup {w}
        /\ stack' = rest
        /\ UNCHANGED <<prespawned, micro, bootBroken>>
     \/ /\ HasPrespawned
        /\ prespawned' = prespawned - 1
        /\ \E report \in {"nothing", "ready", "failed"}, exited \in BOOLEAN :
             LET ready == CASE report = "ready" -> "resolved"
                            [] report = "failed" \/ (report = "nothing" /\ exited) -> "rejected"
                            [] OTHER -> "pending"
             IN /\ worker' = [worker EXCEPT ![w] =
                     [NewWorker EXCEPT !.ready = ready, !.isReady = report = "ready",
                                       !.booted = report # "nothing", !.isDead = exited]]
                /\ workers' = IF exited THEN workers ELSE workers \cup {w}
                /\ micro' = IF ready = "rejected"
                            THEN Append(micro, Reaction("bootFailed", w, NoJob)) ELSE micro
                /\ stack' = IF exited THEN <<Frame("dispatch", NoWorker)>> \o rest ELSE rest
                /\ bootBroken' = (bootBroken \/ ready = "rejected")

---------------------------------------------------------------------------
(* The interface *)

Run(j) ==
  /\ stack = <<>>
  /\ job[j].promise = "none"
  /\ IF ~available
     THEN job' = Settle(job, j, "unavailable") /\ UNCHANGED <<waitingJobs, stack>>
     ELSE IF j \in aborted
     THEN job' = Settle(job, j, "aborted") /\ UNCHANGED <<waitingJobs, stack>>
     ELSE /\ job' = Settle(job, j, "pending")
          /\ waitingJobs' = Append(waitingJobs, j)
          /\ stack' = <<Frame("dispatch", NoWorker)>>
  /\ UNCHANGED <<workers, idleWorkers, available, worker, aborted, prespawned, shutdown,
                 micro, os, bootBroken>>

\* The job's abortSignal fires: onWaitingAbort or onAbort, whichever is attached
\* (neither is once the promise is settled).
Abort(j) ==
  /\ stack = <<>>
  /\ j \notin aborted /\ job[j].promise \notin Settled
  /\ aborted' = aborted \cup {j}
  /\ IF j \in ToSet(waitingJobs)
     THEN /\ waitingJobs' = WithoutWaiting(j)
          /\ job' = Settle(job, j, "aborted")
          /\ UNCHANGED worker
     ELSE /\ UNCHANGED waitingJobs
          /\ \/ \E w \in WorkerId :
                  /\ worker[w].current = j
                  /\ worker' = Reclaim(Clear(worker, w, j), w)
                  /\ job' = Settle(job, j, "aborted")
             \/ /\ \A w \in WorkerId : worker[w].current # j
                /\ UNCHANGED <<worker, job>>
  /\ UNCHANGED <<workers, idleWorkers, available, prespawned, shutdown, stack, micro, os,
                 bootBroken>>

\* warmOxlintWorkerPool when it has anything to do: warm(), then the
\* prespawned children that were not adopted are killed.
Warm ==
  /\ stack = <<>>
  /\ (available /\ HasRoom) \/ HasPrespawned
  /\ stack' = <<Frame("warm", NoWorker)>>
  /\ UNCHANGED <<pool, worker, job, aborted, prespawned, shutdown, micro, os, bootBroken>>

CloseIdleWorkers ==
  /\ stack = <<>>
  /\ idleWorkers # <<>>
  /\ idleWorkers' = <<>>
  /\ worker' = [w \in WorkerId |->
                  IF w \in ToSet(idleWorkers) THEN Reclaim(worker, w)[w] ELSE worker[w]]
  /\ UNCHANGED <<workers, waitingJobs, available, job, aborted, prespawned, shutdown, stack,
                 micro, os, bootBroken>>

\* close(), called once: the workers alive at the call are awaited.
Close ==
  /\ stack = <<>>
  /\ ~closeCalled
  /\ closeCalled' = TRUE
  /\ closing' = workers
  /\ MarkUnavailable(job)
  /\ UNCHANGED <<workers, idleWorkers, aborted, prespawned, stack, micro, os, bootBroken>>

---------------------------------------------------------------------------
(* Synchronous continuations *)

Top(kind) == stack # <<>> /\ Head(stack).kind = kind

\* dispatchWaiting leaves its loop.
DispatchReturn ==
  /\ Top("dispatch")
  /\ \/ waitingJobs = <<>>
     \/ ~available
     \/ idleWorkers = <<>> /\ ~HasRoom
  /\ stack' = Tail(stack)
  /\ UNCHANGED <<pool, worker, job, aborted, prespawned, shutdown, micro, os, bootBroken>>

DispatchToIdleWorker ==
  /\ Top("dispatch")
  /\ waitingJobs # <<>> /\ available
  /\ idleWorkers # <<>>
  /\ idleWorkers' = Front(idleWorkers)
  /\ waitingJobs' = Tail(waitingJobs)
  /\ StartJob(worker, job, Last(idleWorkers), Head(waitingJobs))
  /\ UNCHANGED <<workers, available, aborted, prespawned, shutdown, stack, os, bootBroken>>

DispatchToNewWorker(w) ==
  /\ Top("dispatch")
  /\ waitingJobs # <<>> /\ available
  /\ idleWorkers = <<>>
  /\ HasRoom
  /\ CreateWorker(w, <<Frame("assign", w)>> \o stack)
  /\ UNCHANGED <<aborted, shutdown>>

\* The rest of the iteration, after createWorker returned: the job is taken
\* from the queue only now, and the whole loop returns when none is left.
AssignToNewWorker ==
  /\ Top("assign")
  /\ IF waitingJobs = <<>>
     THEN /\ stack' = Tail(Tail(stack))
          /\ UNCHANGED <<waitingJobs, worker, job, micro>>
     ELSE /\ stack' = Tail(stack)
          /\ waitingJobs' = Tail(waitingJobs)
          /\ StartJob(worker, job, Head(stack).w, Head(waitingJobs))
  /\ UNCHANGED <<workers, idleWorkers, available, aborted, prespawned, shutdown, os,
                 bootBroken>>

WarmOne(w) ==
  /\ Top("warm")
  /\ available /\ HasRoom
  /\ CreateWorker(w, <<Frame("release", w)>> \o stack)
  /\ UNCHANGED <<aborted, shutdown>>

WarmReturn ==
  /\ Top("warm")
  /\ ~available \/ ~HasRoom
  /\ stack' = Tail(stack)
  /\ prespawned' = 0
  /\ UNCHANGED <<pool, worker, job, aborted, shutdown, micro, os, bootBroken>>

ReleaseNewWorker ==
  /\ Top("release")
  /\ stack' = Tail(stack)
  /\ ReleaseWorker(worker, job, Head(stack).w)
  /\ UNCHANGED <<workers, available, aborted, prespawned, shutdown, os, bootBroken>>

Synchronous ==
  \/ DispatchReturn \/ DispatchToIdleWorker \/ AssignToNewWorker
  \/ WarmReturn \/ ReleaseNewWorker
  \/ \E w \in WorkerId : DispatchToNewWorker(w) \/ WarmOne(w)

---------------------------------------------------------------------------
(* Promise reactions, in the order they were queued *)

Reacting(kind) == stack = <<>> /\ micro # <<>> /\ Head(micro).kind = kind

\* The rejection handler createWorker attaches to ready.
OnBootFailed ==
  /\ Reacting("bootFailed")
  /\ micro' = Tail(micro)
  /\ IF worker[Head(micro).w].isReclaimed
     THEN UNCHANGED <<available, worker, job, waitingJobs>>
     ELSE MarkUnavailable(job)
  /\ UNCHANGED <<workers, idleWorkers, aborted, prespawned, shutdown, stack, os, bootBroken>>

\* The rejection handler startJob attaches to ready.
OnReadyRejected ==
  /\ Reacting("failReady")
  /\ micro' = Tail(micro)
  /\ LET w == Head(micro).w
         j == Head(micro).j
     IN IF StillCurrent(w, j)
        THEN worker' = Clear(worker, w, j) /\ job' = Settle(job, j, "unavailable")
        ELSE UNCHANGED <<worker, job>>
  /\ UNCHANGED <<pool, aborted, prespawned, shutdown, stack, os, bootBroken>>

\* The fulfilment handler startJob attaches to ready: child.send reaches the
\* process, or fails and says so in its callback.
OnReadySend ==
  /\ Reacting("send")
  /\ micro' = Tail(micro)
  /\ LET w == Head(micro).w
         j == Head(micro).j
     IN IF ~StillCurrent(w, j) THEN UNCHANGED <<inbox, sendErrors>>
        ELSE \/ /\ w \in workers
                /\ inbox' = [inbox EXCEPT ![w] = Append(@, j)]
                /\ UNCHANGED sendErrors
             \/ /\ sendErrors' = sendErrors \cup {<<w, j>>}
                /\ UNCHANGED inbox
  /\ UNCHANGED <<pool, worker, job, aborted, prespawned, shutdown, stack, pipe, bootBroken>>

\* The callback of a failed send: Node calls it on the next tick, after the
\* reactions and before any event.
SendFailed(w, j) ==
  /\ stack = <<>> /\ micro = <<>>
  /\ <<w, j>> \in sendErrors
  /\ sendErrors' = sendErrors \ {<<w, j>>}
  /\ IF StillCurrent(w, j)
     THEN worker' = Kill(Clear(worker, w, j), w) /\ job' = Settle(job, j, "unavailable")
     ELSE UNCHANGED <<worker, job>>
  /\ UNCHANGED <<pool, aborted, prespawned, shutdown, stack, micro, inbox, pipe, bootBroken>>

Microtask ==
  \/ OnBootFailed \/ OnReadyRejected \/ OnReadySend
  \/ \E w \in WorkerId, j \in Job : SendFailed(w, j)

---------------------------------------------------------------------------
(* Events *)

Quiet == stack = <<>> /\ micro = <<>> /\ sendErrors = {}

\* The boot message "ready" arrives.
BootReady(w) ==
  /\ Quiet
  /\ w \in workers /\ ~worker[w].booted
  /\ worker' = [worker EXCEPT ![w].booted = TRUE, ![w].isReady = TRUE,
                              ![w].ready = IF @ = "pending" THEN "resolved" ELSE @]
  /\ micro' = IF worker[w].ready = "pending" /\ worker[w].current # NoJob
              THEN <<Reaction("send", w, worker[w].current)>> ELSE <<>>
  /\ UNCHANGED <<pool, job, aborted, prespawned, shutdown, stack, os, bootBroken>>

\* The boot message "unavailable" or the child's error event arrives.
BootFails(w) ==
  /\ Quiet
  /\ w \in workers /\ ~worker[w].booted
  /\ worker' = [RejectReady(worker, w) EXCEPT ![w].booted = TRUE]
  /\ micro' = RejectionReactions(worker, w)
  /\ bootBroken' = TRUE
  /\ UNCHANGED <<pool, job, aborted, prespawned, shutdown, stack, os>>

ReadyTimeout(w) ==
  /\ Quiet
  /\ w \in workers /\ worker[w].ready = "pending"
  /\ worker' = Kill(RejectReady(worker, w), w)
  /\ micro' = RejectionReactions(worker, w)
  /\ bootBroken' = TRUE
  /\ UNCHANGED <<pool, job, aborted, prespawned, shutdown, stack, os>>

IdleTimeout(w) ==
  /\ Quiet
  /\ worker[w].idleTimer
  /\ worker' = Reclaim(worker, w)
  /\ UNCHANGED <<pool, job, aborted, prespawned, shutdown, stack, micro, os, bootBroken>>

JobTimeout(w) ==
  /\ Quiet
  /\ worker[w].current # NoJob
  /\ worker' = Reclaim(Clear(worker, w, worker[w].current), w)
  /\ job' = Settle(job, worker[w].current, "timeout")
  /\ UNCHANGED <<pool, aborted, prespawned, shutdown, stack, micro, os, bootBroken>>

\* A worker process runs the jobs it was sent one after the other and ends
\* each with a marker line on both streams.
ProcessFinishesJob(w) ==
  /\ Quiet
  /\ inbox[w] # <<>>
  /\ inbox' = [inbox EXCEPT ![w] = Tail(@)]
  /\ pipe' = [pipe EXCEPT ![w] = [s \in Stream |-> Append(@[s], Head(inbox[w]))]]
  /\ UNCHANGED <<pool, worker, job, aborted, prespawned, shutdown, stack, micro, sendErrors,
                 bootBroken>>

\* onWorkerData: the host reads a job's last bytes on stream s.  Both
\* markers complete the pending job, with its output or as a failed run, and
\* release the worker; data for no pending job is dropped.
WorkerData(w, s) ==
  /\ Quiet
  /\ pipe[w][s] # <<>>
  /\ pipe' = [pipe EXCEPT ![w][s] = Tail(@)]
  /\ LET j == worker[w].current
         from == Head(pipe[w][s])
         ends == IF from = j THEN job[j].ends \cup {s} ELSE job[j].ends
         J == [job EXCEPT ![j].bytes = @ \cup {from}, ![j].ends = ends]
     IN IF j = NoJob
        THEN UNCHANGED <<worker, job, waitingJobs, idleWorkers, micro>>
        ELSE IF job[j].didKillForSize
        THEN UNCHANGED <<worker, job, waitingJobs, idleWorkers, micro>>
        ELSE IF JobEnded(ends)
        THEN \E result \in {"resolved", "spawnFailed"} :
               ReleaseWorker(Clear(worker, w, j), Settle(J, j, result), w)
        ELSE job' = J /\ UNCHANGED <<worker, waitingJobs, idleWorkers, micro>>
  /\ UNCHANGED <<workers, available, aborted, prespawned, shutdown, stack, inbox, sendErrors,
                 bootBroken>>

\* onWorkerData with a chunk that takes the job over outputMaxBytes.
OutputOverflow(w) ==
  /\ Quiet
  /\ inbox[w] # <<>> \/ \E s \in Stream : pipe[w][s] # <<>>
  /\ LET j == worker[w].current
     IN /\ j # NoJob
        /\ ~job[j].didKillForSize
        /\ job' = [job EXCEPT ![j].didKillForSize = TRUE]
  /\ worker' = Reclaim(worker, w)
  /\ UNCHANGED <<pool, aborted, prespawned, shutdown, stack, micro, os, bootBroken>>

CloseError(w, how) ==
  IF ~worker[w].isReady /\ ~worker[w].isReclaimed THEN "unavailable"
  ELSE IF job[worker[w].current].didKillForSize THEN "outputTooLarge" ELSE how

AfterClose == <<Frame("dispatch", NoWorker)>>

\* The close event of the child: the process is gone and its streams have been
\* read to the end.  Of the record of a dead worker only isReclaimed is read
\* again (OnBootFailed), so the other fields are put in a normal form.
WorkerClose(w, how) ==
  /\ Quiet
  /\ w \in workers
  /\ pipe[w] = NoPipe
  /\ LET j == worker[w].current
     IN /\ job' = IF j = NoJob THEN job ELSE Settle(job, j, CloseError(w, how))
        /\ worker' = [worker EXCEPT ![w] =
             [NewWorker EXCEPT
                !.isDead = TRUE,
                !.isReclaimed = worker[w].isReclaimed /\ worker[w].ready = "pending"]]
  /\ workers' = workers \ {w}
  /\ idleWorkers' = WithoutIdle(w)
  /\ micro' = RejectionReactions(worker, w)
  /\ inbox' = [inbox EXCEPT ![w] = <<>>]
  /\ closing' = closing \ {w}
  /\ bootBroken' = (bootBroken \/ (worker[w].ready = "pending" /\ ~worker[w].killed))
  /\ stack' = AfterClose
  /\ UNCHANGED <<waitingJobs, available, aborted, prespawned, closeCalled, pipe, sendErrors>>

WorkerEvent(w) ==
  \/ BootReady(w) \/ BootFails(w) \/ ReadyTimeout(w) \/ IdleTimeout(w) \/ JobTimeout(w)
  \/ ProcessFinishesJob(w) \/ OutputOverflow(w)
  \/ \E s \in Stream : WorkerData(w, s)
  \/ \E how \in ExitError : WorkerClose(w, how)

Next ==
  \/ Synchronous
  \/ Microtask
  \/ \E w \in WorkerId : WorkerEvent(w)
  \/ \E j \in Job : Run(j) \/ Abort(j)
  \/ Warm \/ CloseIdleWorkers \/ Close

Spec == Init /\ [][Next]_vars

\* The event loop runs its queues.  Each of its rounds serves due timers and
\* readable pipes whatever else keeps happening, and a process that was sent
\* SIGKILL dies: strong fairness, because every handler that runs in between
\* makes these events wait.
Fairness ==
  /\ WF_vars(Synchronous)
  /\ WF_vars(Microtask)
  /\ \A w \in WorkerId :
       /\ SF_vars(JobTimeout(w))
       /\ SF_vars(\E s \in Stream : WorkerData(w, s))
       /\ SF_vars(worker[w].killed /\ \E how \in ExitError : WorkerClose(w, how))

FairSpec == Spec /\ Fairness
=============================================================================
