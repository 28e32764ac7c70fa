-------------------- MODULE OxlintWorkerPoolProperties --------------------
(***************************************************************************)
(* What the worker pool must guarantee, and its refinement of the service  *)
(* it offers to runOxlintJob (runners/oxlint/run-oxlint-job.ts).           *)
(***************************************************************************)
EXTENDS OxlintWorkerPool

\* An iteration of dispatchWaiting that creates a worker is always inside the loop.
Stacks ==
  {s \in Seq(FrameRecord) : \A i \in DOMAIN s : s[i].kind = "assign" => i < Len(s)}

\* The shapes of the pool's data structures.
TypeOK ==
  /\ workers \subseteq WorkerId
  /\ idleWorkers \in Seq(WorkerId)
  /\ waitingJobs \in Seq(Job)
  /\ available \in BOOLEAN
  /\ worker \in [WorkerId -> WorkerRecord]
  /\ job \in [Job -> JobRecord]
  /\ aborted \subseteq Job
  /\ prespawned \in 0 .. MaxPrespawned
  /\ closeCalled \in BOOLEAN
  /\ closing \subseteq WorkerId
  /\ stack \in Stacks
  /\ micro \in Seq(ReactionRecord)
  /\ inbox \in [WorkerId -> Seq(Job)]
  /\ pipe \in [WorkerId -> [Stream -> Seq(Job)]]
  /\ sendErrors \subseteq WorkerId \X Job
  /\ bootBroken \in BOOLEAN

\* maxWorkers bounds the processes that exist, those the pool has killed and
\* the system has not reaped yet included: a replacement waits for the close
\* event of the worker it replaces.
WorkerLimit == Cardinality(workers) <= MaxWorkers

Holders(j) ==
  {<<"queue", i>> : i \in {i \in DOMAIN waitingJobs : waitingJobs[i] = j}} \cup
  {<<"worker", w>> : w \in {w \in WorkerId : worker[w].current = j}}

\* A job whose promise is pending is in exactly one place that will settle it,
\* the waiting queue or one worker, and a settled job is in none: no job is
\* lost between the queue and a worker, run twice, or left on a worker that no
\* longer serves it.
JobInOnePlace ==
  \A j \in Job :
    Cardinality(Holders(j)) = IF job[j].promise = "pending" THEN 1 ELSE 0

\* Between handlers, jobs wait only while every worker slot is taken by a
\* worker that is not idle: each handler that frees a worker or a slot hands
\* it on before it returns.
NoLostWakeup ==
  stack = <<>> /\ available /\ waitingJobs # <<>> =>
    idleWorkers = <<>> /\ Cardinality(workers) = MaxWorkers

\* A resolved job was given its own bytes and no other job's, although a
\* worker's two pipes carry the output of all the jobs it runs and are read in
\* any order: the next job starts only when both are drained of the last one.
OwnOutputOnly ==
  \A j \in Job : job[j].promise = "resolved" => job[j].bytes = {j}

\* Killing a worker for a job's timeout, abort or output, or because it is
\* idle, leaves the pool in service even when the worker was still booting:
\* only close() or a worker that really failed to boot takes it out of service.
ReclaimKeepsPoolAvailable == ~available => closeCalled \/ bootBroken

\* Out of service, the pool keeps no job waiting and no process running that
\* it has not killed.
ShutdownLeavesNothing ==
  ~available => waitingJobs = <<>> /\ \A w \in workers : worker[w].killed

\* The outcome of a job never changes: of the timer, the abort listener, the
\* markers, the close event and the failed send, which all settle it, only the
\* first one counts.
SettledOnce ==
  [][\A j \in Job : job[j].promise \in Settled => job'[j].promise = job[j].promise]_vars

\* The promise of close() resolves, and then every worker process is gone.
CloseReaps == closeCalled ~> (closing = {} /\ workers = {})

Started == {worker[w].current : w \in WorkerId} \ {NoJob}

\* The pool implements the service: callers cannot tell it from a queue that
\* starts jobs in order and settles each of them once, and every job that was
\* accepted is settled.
Abstract == INSTANCE LintJobService WITH
  open <- available,
  queue <- waitingJobs,
  started <- Started,
  result <- [j \in Job |-> IF job[j].promise = "pending" THEN "none" ELSE job[j].promise]

ImplementsService == Abstract!SSpec
EveryJobSettles == Abstract!SLiveness

\* "Raised instead of a ReactDoctorError when the pool cannot serve jobs at
\* all ... so the caller falls back to the per-batch spawn path rather than
\* reporting a lint failure" (oxlint-worker-pool.ts:68): when the pool goes
\* out of service by itself and kills a worker, the worker's job is rejected as
\* unavailable, not as a batch that exceeded its limits.
UnavailablePoolFailsNoJob ==
  [][\A w \in WorkerId, j \in Job :
       /\ ~available /\ ~closeCalled /\ worker[w].killed /\ ~worker[w].isReclaimed
       /\ worker[w].current = j
       /\ job'[j].promise # "pending"
       => job'[j].promise # "killed"]_vars
=============================================================================
