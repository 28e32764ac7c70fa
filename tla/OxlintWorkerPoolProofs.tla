----------------------- MODULE OxlintWorkerPoolProofs -----------------------
(***************************************************************************)
(* The worker pool keeps its promises for any number of jobs, workers and  *)
(* prespawned children.  The proof has three parts, each on top of the one *)
(* before: the types, the processes (their number, and what taking the     *)
(* pool out of service means), and the jobs (where they are, what the      *)
(* channels of their workers carry, and the abstract service).             *)
(***************************************************************************)
EXTENDS OxlintWorkerPoolProperties, SequenceLemmas, FiniteSetTheorems

-----------------------------------------------------------------------------
(***************************************************************************)
(* Types                                                                   *)
(***************************************************************************)

Workers == [WorkerId -> WorkerRecord]
Jobs == [Job -> JobRecord]

---------------------------------------------------------------------------
(* The types of the helpers *)

\* What killWorker and reclaimWorker change of a worker record.
LEMMA KillType ==
  ASSUME NEW W \in Workers, NEW w \in WorkerId
  PROVE  /\ Kill(W, w) \in Workers
         /\ Reclaim(W, w) \in Workers
         /\ \A v \in WorkerId \ {w} : Kill(W, w)[v] = W[v] /\ Reclaim(W, w)[v] = W[v]
<1>1. W[w] \in WorkerRecord
  BY DEF Workers
<1>2. Kill(W, w) \in Workers
  BY <1>1 DEF Kill, Workers, WorkerRecord
<1>3. [W EXCEPT ![w].isReclaimed = TRUE] \in Workers
  BY <1>1 DEF Workers, WorkerRecord
<1>4. Reclaim(W, w) \in Workers
  <2> DEFINE V == [W EXCEPT ![w].isReclaimed = TRUE]
  <2>1. V \in Workers /\ V[w] \in WorkerRecord
    BY <1>3 DEF Workers
  <2> HIDE DEF V
  <2>2. Kill(V, w) \in Workers
    BY <2>1 DEF Kill, Workers, WorkerRecord
  <2> QED
    BY <2>2 DEF Reclaim, V
<1> QED
  BY <1>2, <1>4 DEF Kill, Reclaim, Workers, WorkerRecord

LEMMA ClearType ==
  ASSUME NEW W \in Workers, NEW w \in WorkerId, NEW j
  PROVE  Clear(W, w, j) \in Workers
BY DEF Clear, Workers, WorkerRecord

LEMMA SettleType ==
  ASSUME NEW J \in Jobs, NEW j \in Job, NEW r \in Settled \cup {"pending"}
  PROVE  Settle(J, j, r) \in Jobs
<1>1. J[j] \in JobRecord /\ r \in {"none", "pending"} \cup Settled
  BY DEF Jobs
<1>2. [J[j] EXCEPT !.promise = r] \in JobRecord
  BY <1>1 DEF JobRecord
<1>3. [NewJob EXCEPT !.promise = r] \in JobRecord
  BY <1>1 DEF JobRecord, NewJob
<1> QED
  BY <1>2, <1>3 DEF Settle, Jobs

LEMMA RejectReadyType ==
  ASSUME NEW W \in Workers, NEW w \in WorkerId
  PROVE  /\ RejectReady(W, w) \in Workers
         /\ RejectionReactions(W, w) \in Seq(ReactionRecord)
<1>1. W[w] \in WorkerRecord /\ W[w].current \in Job \cup {NoJob}
  BY DEF Workers, WorkerRecord
<1>2. RejectReady(W, w) \in Workers
  BY <1>1 DEF RejectReady, Workers, WorkerRecord
<1>3. /\ Reaction("bootFailed", w, NoJob) \in ReactionRecord
      /\ W[w].current # NoJob => Reaction("failReady", w, W[w].current) \in ReactionRecord
  BY <1>1 DEF Reaction, ReactionRecord
<1>4. RejectionReactions(W, w) \in Seq(ReactionRecord)
  <2> DEFINE a == Reaction("bootFailed", w, NoJob)
             b == Reaction("failReady", w, W[w].current)
  <2> HIDE DEF a, b
  <2>1. /\ <<>> \in Seq(ReactionRecord) /\ <<a>> \in Seq(ReactionRecord)
        /\ W[w].current # NoJob => <<b>> \in Seq(ReactionRecord)
    BY <1>3 DEF a, b
  <2>2. <<a>> \o <<>> \in Seq(ReactionRecord)
    BY <2>1, ConcatProperties
  <2>3. ASSUME W[w].current # NoJob
        PROVE  <<a>> \o <<b>> \in Seq(ReactionRecord)
    BY <2>1, <2>3, ConcatProperties
  <2> QED
    BY <2>1, <2>2, <2>3 DEF RejectionReactions, a, b
<1> QED
  BY <1>2, <1>4

LEMMA MarkUnavailableType ==
  ASSUME TypeOK, NEW J \in Jobs, MarkUnavailable(J)
  PROVE  /\ available' \in BOOLEAN
         /\ worker' \in Workers
         /\ job' \in Jobs
         /\ waitingJobs' \in Seq(Job)
<1>1. worker \in Workers
  BY DEF TypeOK, Workers
<1>2. \A w \in WorkerId : Kill(worker, w)[w] \in WorkerRecord /\ worker[w] \in WorkerRecord
  BY <1>1, KillType DEF Workers
<1>3. worker' \in Workers
  BY <1>2 DEF MarkUnavailable, Workers
<1>4. \A j \in Job : Settle(J, j, "unavailable")[j] \in JobRecord /\ J[j] \in JobRecord
  BY SettleType DEF Jobs, Settled, Failure
<1>5. job' \in Jobs
  BY <1>4 DEF MarkUnavailable, Jobs
<1>6. available' = FALSE /\ waitingJobs' = <<>>
  BY DEF MarkUnavailable
<1>7. <<>> \in Seq(Job)
  OBVIOUS
<1> QED
  BY <1>3, <1>5, <1>6, <1>7

LEMMA StartJobType ==
  ASSUME TypeOK, NEW W \in Workers, NEW J \in Jobs, NEW w \in WorkerId, NEW j \in Job,
         StartJob(W, J, w, j)
  PROVE  worker' \in Workers /\ job' \in Jobs /\ micro' \in Seq(ReactionRecord)
<1>1. worker' \in Workers
  BY DEF StartJob, Workers, WorkerRecord
<1>2. J[j] \in JobRecord /\ J[j].promise \in {"none", "pending"} \cup Settled
  BY DEF Jobs, JobRecord
<1>3. [NewJob EXCEPT !.promise = J[j].promise] \in JobRecord
  BY <1>2 DEF NewJob, JobRecord
<1>4. job' \in Jobs
  BY <1>3 DEF StartJob, Jobs
<1>5. /\ Reaction("send", w, j) \in ReactionRecord
      /\ Reaction("failReady", w, j) \in ReactionRecord
      /\ W[w].ready \in {"pending", "resolved", "rejected"}
  BY DEF Reaction, ReactionRecord, Workers, WorkerRecord
<1>6. micro' \in Seq(ReactionRecord)
  BY <1>5, SequenceTypes DEF StartJob, TypeOK
<1> QED
  BY <1>1, <1>4, <1>6

LEMMA ReleaseWorkerType ==
  ASSUME TypeOK, NEW W \in Workers, NEW J \in Jobs, NEW w \in WorkerId,
         ReleaseWorker(W, J, w)
  PROVE  /\ worker' \in Workers /\ job' \in Jobs /\ micro' \in Seq(ReactionRecord)
         /\ waitingJobs' \in Seq(Job) /\ idleWorkers' \in Seq(WorkerId)
<1> USE DEF TypeOK
<1>1. CASE W[w].isDead
  BY <1>1 DEF ReleaseWorker
<1>2. CASE ~W[w].isDead /\ waitingJobs # <<>>
  <2>1. Head(waitingJobs) \in Job /\ Tail(waitingJobs) \in Seq(Job)
    BY <1>2, SequenceTypes
  <2>2. StartJob(W, J, w, Head(waitingJobs))
    BY <1>2 DEF ReleaseWorker
  <2>3. worker' \in Workers /\ job' \in Jobs /\ micro' \in Seq(ReactionRecord)
    BY <2>1, <2>2, StartJobType
  <2> QED
    BY <1>2, <2>1, <2>3 DEF ReleaseWorker
<1>3. CASE ~W[w].isDead /\ waitingJobs = <<>>
  <2>1. [W EXCEPT ![w].idleTimer = TRUE] \in Workers
    BY DEF Workers, WorkerRecord
  <2>2. Append(idleWorkers, w) \in Seq(WorkerId)
    BY SequenceTypes
  <2> QED
    BY <1>3, <2>1, <2>2 DEF ReleaseWorker
<1> QED
  BY <1>1, <1>2, <1>3

\* The stack grows by frames on top of it and shrinks from the top.
LEMMA StackType ==
  /\ <<>> \in Stacks
  /\ <<Frame("dispatch", NoWorker)>> \in Stacks
  /\ <<Frame("warm", NoWorker)>> \in Stacks
  /\ \A s \in Stacks : <<Frame("dispatch", NoWorker)>> \o s \in Stacks
  /\ \A s \in Stacks, w \in WorkerId : <<Frame("release", w)>> \o s \in Stacks
  /\ \A s \in Stacks, w \in WorkerId : s # <<>> => <<Frame("assign", w)>> \o s \in Stacks
  /\ \A s \in Stacks : s # <<>> => Tail(s) \in Stacks
  /\ \A s \in Stacks : s # <<>> /\ Head(s).kind = "assign" => Tail(s) # <<>>
<1>1. /\ Frame("dispatch", NoWorker) \in FrameRecord /\ Frame("warm", NoWorker) \in FrameRecord
      /\ \A w \in WorkerId : Frame("assign", w) \in FrameRecord /\ Frame("release", w) \in FrameRecord
  BY DEF Frame, FrameRecord
<1>2. /\ Frame("dispatch", NoWorker).kind = "dispatch" /\ Frame("warm", NoWorker).kind = "warm"
      /\ \A w : Frame("assign", w).kind = "assign" /\ Frame("release", w).kind = "release"
  BY DEF Frame
<1>3. ASSUME NEW s \in Stacks, NEW f \in FrameRecord, f.kind = "assign" => s # <<>>
      PROVE  <<f>> \o s \in Stacks
  <2>1. s \in Seq(FrameRecord) /\ <<f>> \in Seq(FrameRecord) /\ Len(<<f>>) = 1 /\ <<f>>[1] = f
    BY DEF Stacks
  <2> DEFINE t == <<f>> \o s
  <2>2. /\ t \in Seq(FrameRecord) /\ Len(t) = 1 + Len(s) /\ Len(s) \in Nat
        /\ \A i \in 1 .. 1 + Len(s) : t[i] = IF i <= 1 THEN f ELSE s[i - 1]
    <3>1. /\ t \in Seq(FrameRecord) /\ Len(t) = Len(<<f>>) + Len(s)
          /\ \A i \in 1 .. Len(<<f>>) + Len(s) :
                t[i] = IF i <= Len(<<f>>) THEN <<f>>[i] ELSE s[i - Len(<<f>>)]
      BY <2>1, ConcatProperties
    <3> HIDE DEF t
    <3>2. \A i \in 1 .. 1 + Len(s) : i <= 1 => i = 1
      OBVIOUS
    <3> QED
      BY <2>1, <3>1, <3>2
  <2> HIDE DEF t
  <2>3. s # <<>> => Len(s) >= 1
    BY <2>1, EmptySeq
  <2>4. ASSUME NEW i \in DOMAIN t, t[i].kind = "assign"
        PROVE  i < Len(t)
    <3>1. i \in 1 .. 1 + Len(s)
      BY <2>2
    <3>2. CASE i = 1
      BY <1>3, <2>2, <2>3, <2>4, <3>2
    <3>3. CASE i > 1
      <4>1. i - 1 \in DOMAIN s /\ s[i - 1].kind = "assign"
        BY <2>1, <2>2, <2>4, <3>1, <3>3
      <4>2. i - 1 < Len(s)
        BY <4>1 DEF Stacks
      <4> QED
        BY <2>2, <3>1, <4>2
    <3> QED
      BY <3>1, <3>2, <3>3
  <2> QED
    BY <2>2, <2>4 DEF Stacks, t
<1>4. ASSUME NEW s \in Stacks, s # <<>>
      PROVE  Tail(s) \in Stacks /\ (Head(s).kind = "assign" => Tail(s) # <<>>)
  <2>1. s \in Seq(FrameRecord) /\ Len(s) \in Nat \ {0} /\ DOMAIN s = 1 .. Len(s)
    BY <1>4, EmptySeq, LenProperties DEF Stacks
  <2>2. /\ Tail(s) \in Seq(FrameRecord) /\ Len(Tail(s)) = Len(s) - 1
        /\ \A i \in 1 .. Len(s) - 1 : Tail(s)[i] = s[i + 1]
    BY <1>4, <2>1, HeadTailProperties
  <2>3. ASSUME NEW i \in DOMAIN Tail(s), Tail(s)[i].kind = "assign"
        PROVE  i < Len(Tail(s))
    <3>1. i \in 1 .. Len(s) - 1 /\ i + 1 \in DOMAIN s /\ s[i + 1].kind = "assign"
      BY <2>1, <2>2, <2>3
    <3>2. i + 1 < Len(s)
      BY <3>1 DEF Stacks
    <3> QED
      BY <2>1, <2>2, <3>1, <3>2
  <2>4. ASSUME Head(s).kind = "assign"
        PROVE  Tail(s) # <<>>
    <3>1. 1 \in DOMAIN s /\ s[1].kind = "assign"
      BY <2>1, <2>4
    <3>2. 1 < Len(s)
      BY <3>1 DEF Stacks
    <3>3. Len(Tail(s)) > 0
      BY <2>1, <2>2, <3>2
    <3> QED
      BY <3>3, EmptySeq
  <2> QED
    BY <2>2, <2>3, <2>4 DEF Stacks
<1>5. <<>> \in Stacks
  BY EmptySeq DEF Stacks
<1>6. \A f \in FrameRecord : f.kind # "assign" => <<f>> \in Stacks
  <2>1. ASSUME NEW f \in FrameRecord, f.kind # "assign"
        PROVE  <<f>> \in Stacks
    BY <2>1 DEF Stacks
  <2> QED
    BY <2>1
<1> QED
  BY <1>1, <1>2, <1>3, <1>4, <1>5, <1>6

LEMMA NewWorkerType == NewWorker \in WorkerRecord
BY DEF NewWorker, WorkerRecord

LEMMA CreateWorkerType ==
  ASSUME TypeOK, PoolAssumption, NEW w \in WorkerId, NEW rest \in Stacks,
         CreateWorker(w, rest)
  PROVE  /\ workers' \subseteq WorkerId /\ worker' \in Workers /\ stack' \in Stacks
         /\ micro' \in Seq(ReactionRecord) /\ prespawned' \in 0 .. MaxPrespawned
         /\ bootBroken' \in BOOLEAN
         /\ inbox' \in [WorkerId -> Seq(Job)]
         /\ pipe' \in [WorkerId -> [Stream -> Seq(Job)]]
<1> USE DEF TypeOK
<1>1. /\ inbox' \in [WorkerId -> Seq(Job)]
      /\ pipe' \in [WorkerId -> [Stream -> Seq(Job)]]
  <2>1. inbox' = [inbox EXCEPT ![w] = <<>>] /\ pipe' = [pipe EXCEPT ![w] = NoPipe]
    BY DEF CreateWorker
  <2>2. NoPipe \in [Stream -> Seq(Job)]
    BY DEF NoPipe
  <2> QED
    BY <2>1, <2>2
<1>2. CASE ~HasPrespawned
  <2>1. worker' = [worker EXCEPT ![w] = NewWorker]
    BY <1>2 DEF CreateWorker
  <2>2. worker' \in Workers
    BY <2>1, NewWorkerType DEF Workers
  <2> QED
    BY <1>1, <1>2, <2>2 DEF CreateWorker
<1>3. CASE HasPrespawned
  <2>1. PICK report \in {"nothing", "ready", "failed"}, exited \in BOOLEAN :
          LET ready == CASE report = "ready" -> "resolved"
                         [] report = "failed" \/ (report = "nothing" /\ exited) -> "rejected"
                         [] OTHER -> "pending"
          IN /\ worker' = [worker EXCEPT ![w] =
                  [NewWorker EXCEPT !.ready = ready, !.isReady = report = "ready",
                                    !.booted = report # "nothing", !.isDead = exited]]
             /\ workers' = IF exited THEN workers ELSE workers \cup {w}
             /\ micro' = IF ready = "rejected"
                         THEN Append(micro, Reaction("bootFailed", w, NoJob)) ELSE micro
             /\ stack' = IF exited THEN <<Frame("dispatch", NoWorker)>> \o rest ELSE rest
             /\ bootBroken' = (bootBroken \/ ready = "rejected")
    BY <1>3 DEF CreateWorker
  <2> DEFINE ready == CASE report = "ready" -> "resolved"
                        [] report = "failed" \/ (report = "nothing" /\ exited) -> "rejected"
                        [] OTHER -> "pending"
             record == [NewWorker EXCEPT !.ready = ready, !.isReady = report = "ready",
                                         !.booted = report # "nothing", !.isDead = exited]
  <2>2. ready \in {"pending", "resolved", "rejected"}
    OBVIOUS
  <2> HIDE DEF ready
  <2>3. record \in WorkerRecord
    BY <2>2, NewWorkerType DEF WorkerRecord
  <2>4. Reaction("bootFailed", w, NoJob) \in ReactionRecord
    BY DEF Reaction, ReactionRecord
  <2>5. <<Frame("dispatch", NoWorker)>> \o rest \in Stacks
    BY StackType
  <2>6. worker' = [worker EXCEPT ![w] = record] /\ stack' \in Stacks
    BY <2>1, <2>5 DEF ready
  <2>7. worker' \in Workers
    <3> HIDE DEF record
    <3> QED
      BY <2>3, <2>6 DEF Workers
  <2>8. micro' \in Seq(ReactionRecord)
    BY <2>1, <2>4, SequenceTypes DEF ready
  <2>9. prespawned' = prespawned - 1 /\ prespawned > 0
    BY <1>3 DEF CreateWorker, HasPrespawned
  <2>10. prespawned' \in 0 .. MaxPrespawned /\ workers' \subseteq WorkerId
    BY <2>1, <2>9 DEF PoolAssumption
  <2>11. bootBroken' \in BOOLEAN
    BY <2>1 DEF ready
  <2> QED
    BY <1>1, <2>6, <2>7, <2>8, <2>10, <2>11
<1> QED
  BY <1>2, <1>3

---------------------------------------------------------------------------
LEMMA TypeInit ==
  ASSUME PoolAssumption, Init
  PROVE  TypeOK
<1>1. [NewWorker EXCEPT !.isDead = TRUE] \in WorkerRecord
  BY NewWorkerType DEF WorkerRecord
<1>2. NewJob \in JobRecord
  BY DEF NewJob, JobRecord
<1>3. NoPipe \in [Stream -> Seq(Job)]
  BY DEF NoPipe
<1>4. <<>> \in Stacks
  BY StackType
<1>5. worker \in [WorkerId -> WorkerRecord]
  BY <1>1 DEF Init
<1>6. job \in [Job -> JobRecord]
  BY <1>2 DEF Init
<1>7. inbox \in [WorkerId -> Seq(Job)] /\ pipe \in [WorkerId -> [Stream -> Seq(Job)]]
  BY <1>3 DEF Init
<1>8. /\ idleWorkers \in Seq(WorkerId) /\ waitingJobs \in Seq(Job)
      /\ micro \in Seq(ReactionRecord) /\ stack \in Stacks
  BY <1>4 DEF Init
<1>9. /\ workers \subseteq WorkerId /\ aborted \subseteq Job /\ closing \subseteq WorkerId
      /\ sendErrors \subseteq WorkerId \X Job /\ prespawned \in 0 .. MaxPrespawned
      /\ available \in BOOLEAN /\ closeCalled \in BOOLEAN /\ bootBroken \in BOOLEAN
  BY DEF Init
<1> QED
  BY <1>5, <1>6, <1>7, <1>8, <1>9 DEF TypeOK

LEMMA TypeInterface ==
  ASSUME TypeOK, \/ \E j \in Job : Run(j) \/ Abort(j)
                 \/ Warm \/ CloseIdleWorkers \/ Close
  PROVE  TypeOK'
<1> USE DEF TypeOK, pool, shutdown, os
<1>0. /\ worker \in Workers /\ job \in Jobs
      /\ {"pending", "unavailable", "aborted"} \subseteq Settled \cup {"pending"}
  BY DEF Workers, Jobs, Settled, Failure
<1>1. ASSUME NEW j \in Job, Run(j)
      PROVE  TypeOK'
  <2>1. job' \in Jobs
    BY <1>0, <1>1, SettleType DEF Run
  <2>2. waitingJobs' \in Seq(Job)
    <3>1. Append(waitingJobs, j) \in Seq(Job)
      BY SequenceTypes
    <3>2. waitingJobs' = waitingJobs \/ waitingJobs' = Append(waitingJobs, j)
      BY <1>1 DEF Run
    <3> QED
      BY <3>1, <3>2
  <2>3. stack' \in Stacks
    BY <1>1, StackType DEF Run
  <2> QED
    BY <1>1, <2>1, <2>2, <2>3 DEF Run, Jobs
<1>2. ASSUME NEW j \in Job, Abort(j)
      PROVE  TypeOK'
  <2>1. job' \in Jobs
    BY <1>0, <1>2, SettleType DEF Abort
  <2>2. waitingJobs' \in Seq(Job)
    BY <1>2, SequenceTypes DEF Abort, WithoutWaiting
  <2>3. worker' \in Workers
    BY <1>0, <1>2, ClearType, KillType DEF Abort
  <2> QED
    BY <1>2, <2>1, <2>2, <2>3 DEF Abort, Jobs, Workers
<1>3. CASE Warm
  BY <1>0, <1>3, StackType DEF Warm
<1>4. CASE CloseIdleWorkers
  <2>1. \A w \in WorkerId : Reclaim(worker, w)[w] \in WorkerRecord /\ worker[w] \in WorkerRecord
    BY <1>0, KillType DEF Workers
  <2>2. worker' \in Workers
    BY <1>4, <2>1 DEF CloseIdleWorkers, Workers
  <2>3. idleWorkers' \in Seq(WorkerId)
    BY <1>4 DEF CloseIdleWorkers
  <2> QED
    BY <1>4, <2>2, <2>3 DEF CloseIdleWorkers, Workers
<1>5. CASE Close
  <2>1. /\ available' \in BOOLEAN /\ worker' \in Workers /\ job' \in Jobs
        /\ waitingJobs' \in Seq(Job)
    BY <1>0, <1>5, MarkUnavailableType DEF Close
  <2> QED
    BY <1>5, <2>1 DEF Close, Workers, Jobs
<1> QED
  BY <1>1, <1>2, <1>3, <1>4, <1>5

LEMMA TypeSynchronous ==
  ASSUME TypeOK, PoolAssumption, Synchronous
  PROVE  TypeOK'
<1> USE DEF TypeOK, pool, shutdown, os
<1>0. worker \in Workers /\ job \in Jobs
  BY DEF Workers, Jobs
<1>1. CASE DispatchReturn
  BY <1>1, StackType DEF DispatchReturn, Top
<1>2. CASE DispatchToIdleWorker
  <2>1. /\ Front(idleWorkers) \in Seq(WorkerId) /\ Last(idleWorkers) \in WorkerId
        /\ Tail(waitingJobs) \in Seq(Job) /\ Head(waitingJobs) \in Job
    BY <1>2, SequenceTypes DEF DispatchToIdleWorker
  <2>2. worker' \in Workers /\ job' \in Jobs /\ micro' \in Seq(ReactionRecord)
    BY <1>0, <1>2, <2>1, StartJobType DEF DispatchToIdleWorker
  <2> QED
    BY <1>2, <2>1, <2>2 DEF DispatchToIdleWorker, Workers, Jobs
<1>3. CASE AssignToNewWorker
  <2>1. stack # <<>> /\ Head(stack).kind = "assign"
    BY <1>3 DEF AssignToNewWorker, Top
  <2>2. Head(stack).w \in WorkerId
    <3>1. Head(stack) \in FrameRecord
      BY <2>1, SequenceTypes DEF Stacks
    <3> QED
      BY <2>1, <3>1 DEF FrameRecord
  <2>3. Tail(stack) \in Stacks /\ Tail(Tail(stack)) \in Stacks
    BY <2>1, StackType
  <2>4. CASE waitingJobs = <<>>
    BY <1>3, <2>3, <2>4 DEF AssignToNewWorker
  <2>5. CASE waitingJobs # <<>>
    <3>1. Tail(waitingJobs) \in Seq(Job) /\ Head(waitingJobs) \in Job
      BY <2>5, SequenceTypes
    <3>2. worker' \in Workers /\ job' \in Jobs /\ micro' \in Seq(ReactionRecord)
      BY <1>0, <1>3, <2>2, <2>5, <3>1, StartJobType DEF AssignToNewWorker
    <3> QED
      BY <1>3, <2>3, <2>5, <3>1, <3>2 DEF AssignToNewWorker, Workers, Jobs
  <2> QED
    BY <2>4, <2>5
<1>4. CASE WarmReturn
  <2>1. Tail(stack) \in Stacks
    BY <1>4, StackType DEF WarmReturn, Top
  <2> QED
    BY <1>4, <2>1 DEF WarmReturn, PoolAssumption
<1>5. CASE ReleaseNewWorker
  <2>1. stack # <<>> /\ Head(stack).kind = "release"
    BY <1>5 DEF ReleaseNewWorker, Top
  <2>2. Head(stack).w \in WorkerId
    <3>1. Head(stack) \in FrameRecord
      BY <2>1, SequenceTypes DEF Stacks
    <3> QED
      BY <2>1, <3>1 DEF FrameRecord
  <2>3. Tail(stack) \in Stacks
    BY <2>1, StackType
  <2>4. /\ worker' \in Workers /\ job' \in Jobs /\ micro' \in Seq(ReactionRecord)
        /\ waitingJobs' \in Seq(Job) /\ idleWorkers' \in Seq(WorkerId)
    BY <1>0, <1>5, <2>2, ReleaseWorkerType DEF ReleaseNewWorker
  <2> QED
    BY <1>5, <2>3, <2>4 DEF ReleaseNewWorker, Workers, Jobs
<1>6. ASSUME NEW w \in WorkerId, NEW kind \in {"assign", "release"},
             stack # <<>>, CreateWorker(w, <<Frame(kind, w)>> \o stack),
             UNCHANGED <<aborted, shutdown>>
      PROVE  TypeOK'
  <2>1. <<Frame(kind, w)>> \o stack \in Stacks
    BY <1>6, StackType
  <2>2. /\ workers' \subseteq WorkerId /\ worker' \in Workers /\ stack' \in Stacks
        /\ micro' \in Seq(ReactionRecord) /\ prespawned' \in 0 .. MaxPrespawned
        /\ bootBroken' \in BOOLEAN
        /\ inbox' \in [WorkerId -> Seq(Job)]
        /\ pipe' \in [WorkerId -> [Stream -> Seq(Job)]]
    BY <1>6, <2>1, CreateWorkerType
  <2>3. UNCHANGED <<idleWorkers, waitingJobs, available, job, sendErrors>>
    BY <1>6 DEF CreateWorker
  <2> QED
    BY <1>6, <2>2, <2>3 DEF Workers
<1>7. ASSUME NEW w \in WorkerId, DispatchToNewWorker(w)
      PROVE  TypeOK'
  BY <1>6, <1>7 DEF DispatchToNewWorker, Top
<1>8. ASSUME NEW w \in WorkerId, WarmOne(w)
      PROVE  TypeOK'
  BY <1>6, <1>8 DEF WarmOne, Top
<1> QED
  BY <1>1, <1>2, <1>3, <1>4, <1>5, <1>7, <1>8 DEF Synchronous

LEMMA TypeMicrotask ==
  ASSUME TypeOK, Microtask
  PROVE  TypeOK'
<1> USE DEF TypeOK, pool, shutdown, os
<1>0. worker \in Workers /\ job \in Jobs /\ "unavailable" \in Settled \cup {"pending"}
  BY DEF Workers, Jobs, Settled, Failure
<1>1. ASSUME micro # <<>>, micro' = Tail(micro)
      PROVE  micro' \in Seq(ReactionRecord) /\ Head(micro) \in ReactionRecord
  BY <1>1, SequenceTypes
<1>2. CASE OnBootFailed
  <2>1. micro' \in Seq(ReactionRecord)
    BY <1>1, <1>2 DEF OnBootFailed, Reacting
  <2>2. /\ available' \in BOOLEAN /\ worker' \in Workers /\ job' \in Jobs
        /\ waitingJobs' \in Seq(Job)
    BY <1>0, <1>2, MarkUnavailableType DEF OnBootFailed
  <2> QED
    BY <1>2, <2>1, <2>2 DEF OnBootFailed, Workers, Jobs
<1>3. CASE OnReadyRejected
  <2>1. micro' \in Seq(ReactionRecord) /\ Head(micro).w \in WorkerId /\ Head(micro).j \in Job
    BY <1>1, <1>3 DEF OnReadyRejected, Reacting, ReactionRecord
  <2>2. worker' \in Workers
    BY <1>0, <1>3, <2>1, ClearType DEF OnReadyRejected
  <2>3. job' \in Jobs
    BY <1>0, <1>3, <2>1, SettleType DEF OnReadyRejected
  <2> QED
    BY <1>3, <2>1, <2>2, <2>3 DEF OnReadyRejected, Workers, Jobs
<1>4. CASE OnReadySend
  <2>1. micro' \in Seq(ReactionRecord) /\ Head(micro).w \in WorkerId /\ Head(micro).j \in Job
    BY <1>1, <1>4 DEF OnReadySend, Reacting, ReactionRecord
  <2>2. Append(inbox[Head(micro).w], Head(micro).j) \in Seq(Job)
    BY <2>1, SequenceTypes
  <2>3. inbox' \in [WorkerId -> Seq(Job)]
    BY <1>4, <2>1, <2>2 DEF OnReadySend
  <2>4. sendErrors' \subseteq WorkerId \X Job
    BY <1>4, <2>1 DEF OnReadySend
  <2> QED
    BY <1>4, <2>1, <2>3, <2>4 DEF OnReadySend
<1>5. ASSUME NEW w \in WorkerId, NEW j \in Job, SendFailed(w, j)
      PROVE  TypeOK'
  <2>1. Clear(worker, w, j) \in Workers
    BY <1>0, ClearType
  <2>2. worker' \in Workers
    BY <1>0, <1>5, <2>1, KillType DEF SendFailed
  <2>3. job' \in Jobs
    BY <1>0, <1>5, SettleType DEF SendFailed
  <2> QED
    BY <1>5, <2>2, <2>3 DEF SendFailed, Workers, Jobs
<1> QED
  BY <1>2, <1>3, <1>4, <1>5 DEF Microtask

LEMMA BootedType ==
  ASSUME NEW r \in WorkerRecord
  PROVE  [r EXCEPT !.booted = TRUE] \in WorkerRecord
BY DEF WorkerRecord

\* Reading a job's output either adds to what was collected for it, or completes
\* the job and releases the worker.
LEMMA DataOutcome ==
  ASSUME TypeOK, NEW w \in WorkerId, NEW s \in Stream, WorkerData(w, s)
  PROVE  \/ /\ UNCHANGED <<worker, waitingJobs, idleWorkers, micro>>
            /\ job' \in Jobs
            /\ \A k \in Job : job'[k].promise = job[k].promise
         \/ /\ worker[w].current \in Job
            /\ \E J \in Jobs, result \in {"resolved", "spawnFailed"} :
                 /\ \A k \in Job : J[k].promise = job[k].promise
                 /\ ReleaseWorker(Clear(worker, w, worker[w].current),
                                  Settle(J, worker[w].current, result), w)
<1> DEFINE j == worker[w].current
           from == Head(pipe[w][s])
           ends == IF from = j THEN job[j].ends \cup {s} ELSE job[j].ends
           J == [job EXCEPT ![j].bytes = @ \cup {from}, ![j].ends = ends]
<1>0. job \in Jobs /\ j \in Job \cup {NoJob}
  BY DEF TypeOK, Jobs, WorkerRecord
<1>1. from \in Job
  BY SequenceTypes DEF WorkerData, TypeOK
<1>2. ASSUME j # NoJob
      PROVE  J \in Jobs /\ \A k \in Job : J[k].promise = job[k].promise
  <2>1. j \in Job
    BY <1>0, <1>2
  <2>2. job[j] \in JobRecord /\ job[j].ends \in SUBSET Stream /\ job[j].bytes \in SUBSET Job
    BY <1>0, <2>1 DEF Jobs, JobRecord
  <2>3. job[j].bytes \cup {from} \in SUBSET Job /\ ends \in SUBSET Stream
    BY <1>1, <2>2
  <2> HIDE DEF from, ends, j
  <2> QED
    BY <1>0, <2>1, <2>2, <2>3 DEF Jobs, JobRecord
<1>3. CASE j = NoJob \/ job[j].didKillForSize
  BY <1>0, <1>3 DEF WorkerData
<1>4. CASE j # NoJob /\ ~job[j].didKillForSize /\ ~JobEnded(ends)
  <2>1. job' = J /\ UNCHANGED <<worker, waitingJobs, idleWorkers, micro>>
    BY <1>4 DEF WorkerData
  <2> HIDE DEF J, j
  <2> QED
    BY <1>2, <1>4, <2>1
<1>5. CASE j # NoJob /\ ~job[j].didKillForSize /\ JobEnded(ends)
  <2>1. PICK result \in {"resolved", "spawnFailed"} :
          ReleaseWorker(Clear(worker, w, j), Settle(J, j, result), w)
    BY <1>5 DEF WorkerData
  <2>2. j \in Job
    BY <1>0, <1>5
  <2> HIDE DEF J
  <2> QED
    BY <1>2, <1>5, <2>1, <2>2
<1> QED
  BY <1>3, <1>4, <1>5

\* Every event of a worker concerns one worker record, the job it runs and
\* what its channels carry.
LEMMA TypeWorkerEvent ==
  ASSUME TypeOK, PoolAssumption, NEW w \in WorkerId, WorkerEvent(w)
  PROVE  TypeOK'
<1> USE DEF TypeOK, pool, shutdown, os
<1>0. /\ worker \in Workers /\ job \in Jobs /\ worker[w] \in WorkerRecord
      /\ worker[w].current \in Job \cup {NoJob}
      /\ worker[w].ready \in {"pending", "resolved", "rejected"}
  BY DEF Workers, Jobs, WorkerRecord
<1>1. CASE BootReady(w)
  <2>1. worker' \in Workers
    BY <1>0, <1>1 DEF BootReady, Workers, WorkerRecord
  <2>2. worker[w].current # NoJob => Reaction("send", w, worker[w].current) \in ReactionRecord
    BY <1>0 DEF Reaction, ReactionRecord
  <2>3. micro' \in Seq(ReactionRecord)
    BY <1>1, <2>2 DEF BootReady
  <2> QED
    BY <1>1, <2>1, <2>3 DEF BootReady, Workers
<1>2. CASE BootFails(w)
  <2>1. RejectReady(worker, w) \in Workers /\ RejectionReactions(worker, w) \in Seq(ReactionRecord)
    BY <1>0, RejectReadyType
  <2>2. worker' \in Workers
    <3> DEFINE V == RejectReady(worker, w)
    <3>1. worker' = [V EXCEPT ![w].booted = TRUE] /\ V \in Workers
      BY <1>2, <2>1 DEF BootFails
    <3> HIDE DEF V
    <3>2. [V[w] EXCEPT !.booted = TRUE] \in WorkerRecord
      BY <3>1, BootedType DEF Workers
    <3> QED
      BY <3>1, <3>2 DEF Workers
  <2> QED
    BY <1>2, <2>1, <2>2 DEF BootFails, Workers
<1>3. CASE ReadyTimeout(w)
  <2>1. RejectReady(worker, w) \in Workers /\ RejectionReactions(worker, w) \in Seq(ReactionRecord)
    BY <1>0, RejectReadyType
  <2>2. worker' \in Workers
    BY <1>3, <2>1, KillType DEF ReadyTimeout
  <2> QED
    BY <1>3, <2>1, <2>2 DEF ReadyTimeout, Workers
<1>4. CASE IdleTimeout(w)
  BY <1>0, <1>4, KillType DEF IdleTimeout, Workers
<1>5. CASE JobTimeout(w)
  <2>1. worker[w].current \in Job
    BY <1>0, <1>5 DEF JobTimeout
  <2>2. worker' \in Workers
    BY <1>0, <1>5, ClearType, KillType DEF JobTimeout
  <2>3. job' \in Jobs
    BY <1>0, <1>5, <2>1, SettleType DEF JobTimeout, Settled, Failure
  <2> QED
    BY <1>5, <2>2, <2>3 DEF JobTimeout, Workers, Jobs
<1>6. CASE ProcessFinishesJob(w)
  <2>1. Head(inbox[w]) \in Job /\ Tail(inbox[w]) \in Seq(Job)
    BY <1>6, SequenceTypes DEF ProcessFinishesJob
  <2>2. inbox' \in [WorkerId -> Seq(Job)]
    BY <1>6, <2>1 DEF ProcessFinishesJob
  <2>3. \A s \in Stream : Append(pipe[w][s], Head(inbox[w])) \in Seq(Job)
    BY <2>1, SequenceTypes
  <2>4. pipe' \in [WorkerId -> [Stream -> Seq(Job)]]
    BY <1>6, <2>3 DEF ProcessFinishesJob
  <2> QED
    BY <1>6, <2>2, <2>4 DEF ProcessFinishesJob
<1>7. CASE OutputOverflow(w)
  <2>1. worker' \in Workers
    BY <1>0, <1>7, KillType DEF OutputOverflow
  <2>2. job' \in Jobs
    BY <1>0, <1>7 DEF OutputOverflow, Jobs, JobRecord
  <2> QED
    BY <1>7, <2>1, <2>2 DEF OutputOverflow, Workers, Jobs
<1>8. ASSUME NEW s \in Stream, WorkerData(w, s)
      PROVE  TypeOK'
  <2>1. pipe' \in [WorkerId -> [Stream -> Seq(Job)]]
    <3>1. Tail(pipe[w][s]) \in Seq(Job)
      BY <1>8, SequenceTypes DEF WorkerData
    <3> QED
      BY <1>8, <3>1 DEF WorkerData
  <2>2. /\ worker' \in Workers /\ job' \in Jobs /\ micro' \in Seq(ReactionRecord)
        /\ waitingJobs' \in Seq(Job) /\ idleWorkers' \in Seq(WorkerId)
    <3>1. ASSUME NEW J \in Jobs, NEW result \in {"resolved", "spawnFailed"},
                 worker[w].current \in Job,
                 ReleaseWorker(Clear(worker, w, worker[w].current),
                               Settle(J, worker[w].current, result), w)
          PROVE  /\ worker' \in Workers /\ job' \in Jobs /\ micro' \in Seq(ReactionRecord)
                 /\ waitingJobs' \in Seq(Job) /\ idleWorkers' \in Seq(WorkerId)
      <4>1. Clear(worker, w, worker[w].current) \in Workers
        BY <1>0, ClearType
      <4>2. Settle(J, worker[w].current, result) \in Jobs
        BY <3>1, SettleType DEF Settled, Failure
      <4> QED
        BY <3>1, <4>1, <4>2, ReleaseWorkerType
    <3> QED
      BY <1>0, <1>8, <3>1, DataOutcome
  <2> QED
    BY <1>8, <2>1, <2>2 DEF WorkerData, Workers, Jobs
<1>9. ASSUME NEW how \in ExitError, WorkerClose(w, how)
      PROVE  TypeOK'
  <2>1. CloseError(w, how) \in Settled
    BY <1>9 DEF CloseError, Settled, Failure, PoolAssumption
  <2>2. job' \in Jobs
    BY <1>0, <1>9, <2>1, SettleType DEF WorkerClose
  <2>3. worker' \in Workers
    <3> DEFINE last == worker[w].isReclaimed /\ worker[w].ready = "pending"
    <3>1. last \in BOOLEAN
      OBVIOUS
    <3> HIDE DEF last
    <3>2. [NewWorker EXCEPT !.isDead = TRUE, !.isReclaimed = last] \in WorkerRecord
      BY <3>1, NewWorkerType DEF WorkerRecord
    <3>3. worker' = [worker EXCEPT ![w] = [NewWorker EXCEPT !.isDead = TRUE, !.isReclaimed = last]]
      BY <1>9 DEF WorkerClose, last
    <3> QED
      BY <1>0, <3>2, <3>3 DEF Workers
  <2>4. idleWorkers' \in Seq(WorkerId)
    BY <1>9, SequenceTypes DEF WorkerClose, WithoutIdle
  <2>5. micro' \in Seq(ReactionRecord)
    BY <1>0, <1>9, RejectReadyType DEF WorkerClose
  <2>6. stack' \in Stacks
    BY <1>9, StackType DEF WorkerClose, AfterClose
  <2>7. inbox' \in [WorkerId -> Seq(Job)]
    BY <1>9 DEF WorkerClose
  <2> QED
    BY <1>9, <2>2, <2>3, <2>4, <2>5, <2>6, <2>7 DEF WorkerClose, Workers, Jobs
<1> QED
  BY <1>1, <1>2, <1>3, <1>4, <1>5, <1>6, <1>7, <1>8, <1>9 DEF WorkerEvent

\* The data structures of the pool keep their shapes, whatever the number of
\* jobs, workers and prespawned children.
THEOREM TypeCorrect == Spec => []TypeOK
<1>1. Init => TypeOK
  BY TypeInit, PoolAssumption
<1>2. TypeOK /\ [Next]_vars => TypeOK'
  <2> SUFFICES ASSUME TypeOK, [Next]_vars
               PROVE  TypeOK'
    OBVIOUS
  <2>1. CASE UNCHANGED vars
    BY <2>1 DEF TypeOK, vars, pool, shutdown, os
  <2>2. CASE Next
    BY <2>2, PoolAssumption, TypeInterface, TypeSynchronous, TypeMicrotask, TypeWorkerEvent
       DEF Next
  <2> QED
    BY <2>1, <2>2
<1> QED
  BY <1>1, <1>2, PTL DEF Spec

-----------------------------------------------------------------------------
(***************************************************************************)
(* Processes                                                               *)
(***************************************************************************)

WorkersBounded == IsFiniteSet(workers) /\ WorkerLimit

\* isDead says whether the worker is still in the set of workers.
LiveWorkers == \A w \in WorkerId : w \in workers <=> ~worker[w].isDead

\* A worker killed while it boots was reclaimed, unless everything is killed.
KilledBooting ==
  \A w \in WorkerId :
    worker[w].killed /\ worker[w].ready = "pending" => worker[w].isReclaimed \/ ~available

\* While the pool is in service only a worker that was reclaimed is reported
\* without having failed.
ReportedFailures ==
  \A i \in DOMAIN micro :
    micro[i].kind = "bootFailed" =>
      worker[micro[i].w].isReclaimed \/ bootBroken \/ ~available

\* A job is sent only to a worker that has left its boot behind.
SendsAfterBoot ==
  /\ \A i \in DOMAIN micro :
       micro[i].kind = "send" =>
         worker[micro[i].w].ready # "pending" \/ worker[micro[i].w].isDead
  /\ \A e \in sendErrors : worker[e[1]].ready # "pending" \/ worker[e[1]].isDead

SafetyInv ==
  /\ TypeOK
  /\ WorkersBounded
  /\ LiveWorkers
  /\ ShutdownLeavesNothing
  /\ KilledBooting
  /\ ReportedFailures
  /\ SendsAfterBoot
  /\ ReclaimKeepsPoolAvailable

---------------------------------------------------------------------------
\* What a worker record remembers through a step in which the worker neither
\* appears nor exits.
Keeps(W, V) ==
  \A v \in WorkerId :
    /\ V[v].isDead = W[v].isDead
    /\ W[v].killed => V[v].killed
    /\ W[v].isReclaimed => V[v].isReclaimed
    /\ V[v].ready = "pending" =>
         W[v].ready = "pending" /\ (V[v].killed => W[v].killed \/ V[v].isReclaimed)

\* The reactions a step may queue: sends to a worker that has booted, and
\* reports of a boot failure that did happen.
ReactionsJustified ==
  \A i \in DOMAIN micro' :
    \/ \E k \in DOMAIN micro : micro'[i] = micro[k]
    \/ micro'[i].kind = "failReady"
    \/ micro'[i].kind = "bootFailed" /\ bootBroken'
    \/ micro'[i].kind = "send" /\ worker'[micro'[i].w].ready # "pending"

LEMMA KeepsTransitive ==
  ASSUME NEW U, NEW V, NEW W, Keeps(U, V), Keeps(V, W)
  PROVE  Keeps(U, W)
BY DEF Keeps

LEMMA HelpersKeep ==
  ASSUME NEW W \in Workers, NEW w \in WorkerId
  PROVE  /\ Keeps(W, Reclaim(W, w))
         /\ \A j : Keeps(W, Clear(W, w, j))
         /\ Keeps(W, RejectReady(W, w))
         /\ W[w].ready # "pending" \/ W[w].isDead => Keeps(W, Kill(W, w))
<1> USE DEF Workers, WorkerRecord, Keeps
<1>1. Keeps(W, Reclaim(W, w))
  BY DEF Reclaim, Kill
<1>2. \A j : Keeps(W, Clear(W, w, j))
  BY DEF Clear
<1>3. Keeps(W, RejectReady(W, w))
  BY DEF RejectReady
<1>4. W[w].ready # "pending" \/ W[w].isDead => Keeps(W, Kill(W, w))
  BY DEF Kill
<1> QED
  BY <1>1, <1>2, <1>3, <1>4

LEMMA StartJobKeeps ==
  ASSUME NEW W \in Workers, NEW J, NEW w \in WorkerId, NEW j, StartJob(W, J, w, j)
  PROVE  /\ Keeps(W, worker')
         /\ \/ micro' = micro
            \/ micro' = Append(micro, Reaction("failReady", w, j))
            \/ micro' = Append(micro, Reaction("send", w, j)) /\ worker'[w].ready # "pending"
<1>1. Keeps(W, worker')
  BY DEF StartJob, Keeps, Workers, WorkerRecord
<1>2. W[w].ready \in {"pending", "resolved", "rejected"} /\ worker'[w].ready = W[w].ready
  BY DEF StartJob, Workers, WorkerRecord
<1> QED
  BY <1>1, <1>2 DEF StartJob

\* A step that keeps the workers, takes nothing out of service and queues only
\* justified reactions keeps the invariant.
LEMMA QuietStep ==
  ASSUME SafetyInv, TypeOK', Keeps(worker, worker'), UNCHANGED <<workers, available>>,
         ~available => waitingJobs' = <<>>,
         closeCalled => closeCalled', bootBroken => bootBroken',
         ReactionsJustified,
         \A e \in sendErrors' :
           e \in sendErrors \/ worker'[e[1]].ready # "pending" \/ worker'[e[1]].isDead
  PROVE  SafetyInv'
<1> USE DEF SafetyInv
<1>1. WorkersBounded'
  BY DEF WorkersBounded, WorkerLimit
<1>2. LiveWorkers' /\ ShutdownLeavesNothing'
  BY DEF LiveWorkers, ShutdownLeavesNothing, Keeps, TypeOK
<1>3. KilledBooting'
  BY DEF KilledBooting, Keeps
<1>4. /\ \A k \in DOMAIN micro : micro[k].w \in WorkerId
      /\ \A e \in sendErrors : e[1] \in WorkerId
  BY DEF TypeOK, ReactionRecord
<1>5. ReportedFailures'
  BY <1>4 DEF ReportedFailures, ReactionsJustified, Keeps
<1>6. SendsAfterBoot'
  BY <1>4 DEF SendsAfterBoot, ReactionsJustified, Keeps
<1>7. ReclaimKeepsPoolAvailable'
  BY DEF ReclaimKeepsPoolAvailable
<1> QED
  BY <1>1, <1>2, <1>3, <1>5, <1>6, <1>7

\* What the steps do to the queue of reactions.
LEMMA MicroStep ==
  ASSUME TypeOK
  PROVE  /\ micro # <<>> =>
              \A i \in DOMAIN Tail(micro) : \E k \in DOMAIN micro : Tail(micro)[i] = micro[k]
         /\ \A r \in ReactionRecord : \A i \in DOMAIN Append(micro, r) :
              \/ Append(micro, r)[i] = r
              \/ \E k \in DOMAIN micro : Append(micro, r)[i] = micro[k]
<1>1. micro \in Seq(ReactionRecord) /\ Len(micro) \in Nat /\ DOMAIN micro = 1 .. Len(micro)
  BY LenProperties DEF TypeOK
<1>2. ASSUME micro # <<>>, NEW i \in DOMAIN Tail(micro)
      PROVE  \E k \in DOMAIN micro : Tail(micro)[i] = micro[k]
  <2>1. /\ Len(Tail(micro)) = Len(micro) - 1 /\ DOMAIN Tail(micro) = 1 .. Len(Tail(micro))
        /\ Tail(micro)[i] = micro[i + 1]
    BY <1>1, <1>2, HeadTailProperties, LenProperties
  <2>2. i + 1 \in DOMAIN micro
    BY <1>1, <2>1
  <2> QED
    BY <2>1, <2>2
<1>3. ASSUME NEW r \in ReactionRecord, NEW i \in DOMAIN Append(micro, r)
      PROVE  \/ Append(micro, r)[i] = r
             \/ \E k \in DOMAIN micro : Append(micro, r)[i] = micro[k]
  <2>1. i \in 1 .. Len(micro) + 1
    BY <1>1, AppendProperties, LenProperties
  <2> QED
    BY <1>1, <2>1, AppendProperties
<1> QED
  BY <1>2, <1>3

LEMMA SameReactions ==
  ASSUME TypeOK
  PROVE  /\ micro' = micro => ReactionsJustified
         /\ micro # <<>> /\ micro' = Tail(micro) => ReactionsJustified
BY MicroStep DEF ReactionsJustified

\* The reactions queued by startJob are justified.
LEMMA StartJobMicro ==
  ASSUME TypeOK, NEW W \in Workers, NEW J, NEW w \in WorkerId, NEW j \in Job,
         StartJob(W, J, w, j)
  PROVE  ReactionsJustified
<1>1. CASE micro' = micro
  BY <1>1, SameReactions
<1>2. ASSUME NEW kind \in {"send", "failReady"}, micro' = Append(micro, Reaction(kind, w, j)),
             kind = "send" => worker'[w].ready # "pending"
      PROVE  ReactionsJustified
  <2>1. /\ Reaction(kind, w, j) \in ReactionRecord
        /\ Reaction(kind, w, j).kind = kind /\ Reaction(kind, w, j).w = w
    BY DEF Reaction, ReactionRecord
  <2> QED
    BY <1>2, <2>1, MicroStep DEF ReactionsJustified
<1> QED
  BY <1>1, <1>2, StartJobKeeps

\* Handing on or parking a worker after W is a quiet step too.
LEMMA ReleaseWorkerKeeps ==
  ASSUME SafetyInv, NEW W \in Workers, Keeps(worker, W), NEW J \in Jobs, NEW w \in WorkerId,
         ReleaseWorker(W, J, w)
  PROVE  /\ Keeps(worker, worker')
         /\ ~available => waitingJobs' = <<>>
         /\ ReactionsJustified
<1>0. TypeOK /\ (~available => waitingJobs = <<>>)
  BY DEF SafetyInv, ShutdownLeavesNothing
<1>1. CASE W[w].isDead
  BY <1>0, <1>1, SameReactions DEF ReleaseWorker
<1>2. CASE ~W[w].isDead /\ waitingJobs # <<>>
  <2>1. StartJob(W, J, w, Head(waitingJobs)) /\ Head(waitingJobs) \in Job
    BY <1>0, <1>2, SequenceTypes DEF ReleaseWorker, TypeOK
  <2> QED
    BY <1>0, <1>2, <2>1, StartJobKeeps, StartJobMicro, KeepsTransitive
<1>3. CASE ~W[w].isDead /\ waitingJobs = <<>>
  <2>1. Keeps(W, worker')
    BY <1>3 DEF ReleaseWorker, Keeps, Workers, WorkerRecord
  <2> QED
    BY <1>0, <1>3, <2>1, KeepsTransitive, SameReactions DEF ReleaseWorker
<1> QED
  BY <1>1, <1>2, <1>3

LEMMA CreateWorkerStep ==
  ASSUME SafetyInv, TypeOK', NEW w \in WorkerId, NEW rest, CreateWorker(w, rest),
         HasRoom, available, UNCHANGED <<aborted, shutdown>>
  PROVE  SafetyInv'
<1> USE DEF SafetyInv
<1>1. /\ w \notin workers /\ \A i \in DOMAIN micro : micro[i].w # w
      /\ available' = available /\ closeCalled' = closeCalled
  BY DEF CreateWorker, Unused, shutdown
<1>2. workers' \in {workers, workers \cup {w}}
  BY DEF CreateWorker
<1>3. WorkersBounded'
  <2>1. IsFiniteSet(workers) /\ Cardinality(workers) \in Nat /\ Cardinality(workers) < MaxWorkers
    BY FS_CardinalityType DEF WorkersBounded, HasRoom
  <2>2. IsFiniteSet(workers \cup {w}) /\ Cardinality(workers \cup {w}) = Cardinality(workers) + 1
    BY <1>1, <2>1, FS_AddElement
  <2>3. Cardinality(workers) + 1 <= MaxWorkers /\ Cardinality(workers) <= MaxWorkers
    BY <2>1, PoolAssumption DEF PoolAssumption
  <2>4. CASE workers' = workers
    BY <2>1, <2>3, <2>4 DEF WorkersBounded, WorkerLimit
  <2>5. CASE workers' = workers \cup {w}
    BY <2>2, <2>3, <2>5 DEF WorkersBounded, WorkerLimit
  <2> QED
    BY <1>2, <2>4, <2>5
<1>4. /\ \A v \in WorkerId \ {w} : worker'[v] = worker[v]
      /\ ~worker'[w].killed
      /\ w \in workers' <=> ~worker'[w].isDead
  <2> DEFINE Adopted(ready, report, exited) ==
               [NewWorker EXCEPT !.ready = ready, !.isReady = report = "ready",
                                 !.booted = report # "nothing", !.isDead = exited]
  <2>1. NewWorker.isDead = FALSE /\ NewWorker.killed = FALSE
    BY DEF NewWorker
  <2>2. \A ready, report, exited :
          /\ Adopted(ready, report, exited).isDead = exited
          /\ Adopted(ready, report, exited).killed = FALSE
    BY DEF NewWorker
  <2>3. CASE ~HasPrespawned
    BY <1>1, <2>1, <2>3 DEF CreateWorker, TypeOK
  <2>4. CASE HasPrespawned
    <3>1. PICK report \in {"nothing", "ready", "failed"}, exited \in BOOLEAN :
            LET ready == CASE report = "ready" -> "resolved"
                           [] report = "failed" \/ (report = "nothing" /\ exited) -> "rejected"
                           [] OTHER -> "pending"
            IN /\ worker' = [worker EXCEPT ![w] = Adopted(ready, report, exited)]
               /\ workers' = IF exited THEN workers ELSE workers \cup {w}
      BY <2>4 DEF CreateWorker
    <3> DEFINE ready == CASE report = "ready" -> "resolved"
                          [] report = "failed" \/ (report = "nothing" /\ exited) -> "rejected"
                          [] OTHER -> "pending"
    <3> HIDE DEF Adopted
    <3>2. /\ worker' = [worker EXCEPT ![w] = Adopted(ready, report, exited)]
          /\ workers' = IF exited THEN workers ELSE workers \cup {w}
      BY <3>1
    <3> HIDE DEF ready
    <3> QED
      BY <1>1, <2>2, <3>2 DEF TypeOK
  <2> QED
    BY <2>3, <2>4
<1>5. LiveWorkers'
  BY <1>2, <1>4 DEF LiveWorkers
<1>6. ShutdownLeavesNothing' /\ KilledBooting' /\ ReclaimKeepsPoolAvailable'
  BY <1>1, <1>4 DEF ShutdownLeavesNothing, KilledBooting, ReclaimKeepsPoolAvailable
<1>7. ReportedFailures'
  <2>1. CASE micro' = micro /\ (bootBroken => bootBroken')
    <3>1. \A i \in DOMAIN micro : micro[i].w \in WorkerId
      BY DEF TypeOK, ReactionRecord
    <3> QED
      BY <1>1, <1>4, <2>1, <3>1 DEF ReportedFailures
  <2>2. CASE bootBroken'
    BY <2>2 DEF ReportedFailures
  <2>3. (micro' = micro /\ (bootBroken => bootBroken')) \/ bootBroken'
    BY DEF CreateWorker
  <2> QED
    BY <2>1, <2>2, <2>3
<1>8. SendsAfterBoot'
  <2>1. /\ \A e \in sendErrors : e[1] \in WorkerId \ {w}
        /\ \A k \in DOMAIN micro : micro[k].w \in WorkerId \ {w}
        /\ sendErrors' = sendErrors
    <3>1. Unused(w) /\ sendErrors' = sendErrors
      BY DEF CreateWorker
    <3>2. \A e \in sendErrors : e[1] \in WorkerId /\ e[1] # w
      BY <3>1 DEF Unused, TypeOK
    <3>3. \A k \in DOMAIN micro : micro[k].w \in WorkerId
      BY DEF TypeOK, ReactionRecord
    <3> QED
      BY <1>1, <3>1, <3>2, <3>3
  <2>2. CASE micro' = micro
    BY <1>4, <2>1, <2>2 DEF SendsAfterBoot
  <2>3. CASE micro' = Append(micro, Reaction("bootFailed", w, NoJob))
    <3>1. /\ Reaction("bootFailed", w, NoJob) \in ReactionRecord
          /\ Reaction("bootFailed", w, NoJob).kind = "bootFailed"
      BY DEF Reaction, ReactionRecord
    <3>2. \A i \in DOMAIN micro' :
            \/ micro'[i].kind = "bootFailed"
            \/ \E k \in DOMAIN micro : micro'[i] = micro[k]
      BY <2>3, <3>1, MicroStep
    <3> QED
      BY <1>4, <2>1, <3>2 DEF SendsAfterBoot
  <2> QED
    BY <2>2, <2>3 DEF CreateWorker
<1> QED
  BY <1>3, <1>5, <1>6, <1>7, <1>8

\* Everything the pool knows of is killed when it goes out of service.
LEMMA MarkUnavailableStep ==
  ASSUME SafetyInv, TypeOK', NEW J, MarkUnavailable(J), workers' = workers,
         closeCalled' \/ bootBroken', sendErrors' = sendErrors,
         \A i \in DOMAIN micro' : \E k \in DOMAIN micro : micro'[i] = micro[k]
  PROVE  SafetyInv'
<1> USE DEF SafetyInv
<1>1. worker \in Workers
  BY DEF TypeOK, Workers
<1>2. \A w \in WorkerId :
        /\ worker'[w].isDead = worker[w].isDead /\ worker'[w].ready = worker[w].ready
        /\ w \in workers => worker'[w].killed
  BY <1>1 DEF MarkUnavailable, Kill, Workers, WorkerRecord, LiveWorkers
<1>3. ~available' /\ waitingJobs' = <<>>
  BY DEF MarkUnavailable
<1>4. SendsAfterBoot'
  <2>1. /\ \A k \in DOMAIN micro : micro[k].w \in WorkerId
        /\ \A e \in sendErrors : e[1] \in WorkerId
    BY DEF TypeOK, ReactionRecord
  <2>2. ASSUME NEW i \in DOMAIN micro', micro'[i].kind = "send"
        PROVE  worker'[micro'[i].w].ready # "pending" \/ worker'[micro'[i].w].isDead
    <3>1. PICK k \in DOMAIN micro : micro'[i] = micro[k]
      OBVIOUS
    <3> QED
      BY <1>2, <2>1, <2>2, <3>1 DEF SendsAfterBoot
  <2>3. \A e \in sendErrors' : worker'[e[1]].ready # "pending" \/ worker'[e[1]].isDead
    BY <1>2, <2>1 DEF SendsAfterBoot
  <2> QED
    BY <2>2, <2>3 DEF SendsAfterBoot
<1> QED
  BY <1>2, <1>3, <1>4 DEF WorkersBounded, WorkerLimit, LiveWorkers, ShutdownLeavesNothing,
       KilledBooting, ReportedFailures, ReclaimKeepsPoolAvailable, TypeOK

---------------------------------------------------------------------------
LEMMA SafetyInterface ==
  ASSUME SafetyInv, TypeOK',
         \/ \E j \in Job : Run(j) \/ Abort(j)
         \/ Warm \/ CloseIdleWorkers \/ Close
  PROVE  SafetyInv'
<1> USE DEF pool, shutdown, os
<1>0. /\ worker \in Workers /\ Keeps(worker, worker) /\ TypeOK
      /\ ~available => waitingJobs = <<>>
  BY DEF SafetyInv, TypeOK, Workers, Keeps, ShutdownLeavesNothing
<1>1. ASSUME NEW j \in Job, Run(j)
      PROVE  SafetyInv'
  BY <1>0, <1>1, QuietStep, SameReactions DEF Run
<1>2. ASSUME NEW j \in Job, Abort(j)
      PROVE  SafetyInv'
  <2>1. Keeps(worker, worker')
    <3>1. CASE worker' = worker
      BY <1>0, <3>1
    <3>2. ASSUME NEW w \in WorkerId, worker' = Reclaim(Clear(worker, w, j), w)
          PROVE  Keeps(worker, worker')
      BY <1>0, <3>2, ClearType, HelpersKeep, KeepsTransitive
    <3> QED
      BY <1>2, <3>1, <3>2 DEF Abort
  <2>2. ~available => waitingJobs' = <<>>
    BY <1>0, <1>2 DEF Abort, ToSet
  <2> QED
    BY <1>0, <1>2, <2>1, <2>2, QuietStep, SameReactions DEF Abort
<1>3. CASE Warm
  BY <1>0, <1>3, QuietStep, SameReactions DEF Warm
<1>4. CASE CloseIdleWorkers
  <2>1. Keeps(worker, worker')
    <3>1. \A w \in WorkerId : Keeps(worker, Reclaim(worker, w))
      BY <1>0, HelpersKeep
    <3> QED
      BY <1>4, <3>1 DEF CloseIdleWorkers, Keeps
  <2> QED
    BY <1>0, <1>4, <2>1, QuietStep, SameReactions DEF CloseIdleWorkers
<1>5. CASE Close
  <2>1. \A i \in DOMAIN micro' : \E k \in DOMAIN micro : micro'[i] = micro[k]
    BY <1>5 DEF Close
  <2> QED
    BY <1>5, <2>1, MarkUnavailableStep DEF Close
<1> QED
  BY <1>1, <1>2, <1>3, <1>4, <1>5

LEMMA SafetySynchronous ==
  ASSUME SafetyInv, TypeOK', Synchronous
  PROVE  SafetyInv'
<1> USE DEF pool, shutdown, os
<1>0. /\ worker \in Workers /\ job \in Jobs /\ Keeps(worker, worker) /\ TypeOK
      /\ ~available => waitingJobs = <<>>
  BY DEF SafetyInv, TypeOK, Workers, Jobs, Keeps, ShutdownLeavesNothing
<1>1. CASE DispatchReturn
  BY <1>0, <1>1, QuietStep, SameReactions DEF DispatchReturn
<1>2. CASE DispatchToIdleWorker
  <2>1. Last(idleWorkers) \in WorkerId /\ Head(waitingJobs) \in Job
    BY <1>0, <1>2, SequenceTypes DEF DispatchToIdleWorker, TypeOK
  <2>2. /\ Keeps(worker, worker')
        /\ ReactionsJustified
    BY <1>0, <1>2, <2>1, StartJobKeeps, StartJobMicro DEF DispatchToIdleWorker
  <2> QED
    BY <1>2, <2>2, QuietStep, SameReactions DEF DispatchToIdleWorker
<1>3. CASE AssignToNewWorker
  <2>1. CASE waitingJobs = <<>>
    BY <1>0, <1>3, <2>1, QuietStep, SameReactions DEF AssignToNewWorker
  <2>2. CASE waitingJobs # <<>>
    <3>1. Head(stack) \in FrameRecord /\ Head(stack).kind = "assign" /\ Head(waitingJobs) \in Job
      BY <1>0, <1>3, <2>2, SequenceTypes DEF AssignToNewWorker, Top, TypeOK, Stacks
    <3>2. Head(stack).w \in WorkerId
      BY <3>1 DEF FrameRecord
    <3>3. StartJob(worker, job, Head(stack).w, Head(waitingJobs))
      BY <1>3, <2>2 DEF AssignToNewWorker
    <3>4. /\ Keeps(worker, worker')
          /\ ReactionsJustified
      BY <1>0, <3>1, <3>2, <3>3, StartJobKeeps, StartJobMicro
    <3> QED
      BY <1>0, <1>3, <2>2, <3>4, QuietStep, SameReactions DEF AssignToNewWorker
  <2> QED
    BY <2>1, <2>2
<1>4. CASE WarmReturn
  BY <1>0, <1>4, QuietStep, SameReactions DEF WarmReturn
<1>5. CASE ReleaseNewWorker
  <2>1. Head(stack) \in FrameRecord /\ Head(stack).kind = "release"
    BY <1>0, <1>5, SequenceTypes DEF ReleaseNewWorker, Top, TypeOK, Stacks
  <2>2. Head(stack).w \in WorkerId
    BY <2>1 DEF FrameRecord
  <2>3. ReleaseWorker(worker, job, Head(stack).w)
    BY <1>5 DEF ReleaseNewWorker
  <2>4. /\ Keeps(worker, worker')
        /\ ~available => waitingJobs' = <<>>
        /\ ReactionsJustified
    BY <1>0, <2>2, <2>3, ReleaseWorkerKeeps
  <2> QED
    BY <1>5, <2>4, QuietStep, SameReactions DEF ReleaseNewWorker
<1>6. ASSUME NEW w \in WorkerId, DispatchToNewWorker(w)
      PROVE  SafetyInv'
  BY <1>6, CreateWorkerStep DEF DispatchToNewWorker
<1>7. ASSUME NEW w \in WorkerId, WarmOne(w)
      PROVE  SafetyInv'
  BY <1>7, CreateWorkerStep DEF WarmOne
<1> QED
  BY <1>1, <1>2, <1>3, <1>4, <1>5, <1>6, <1>7 DEF Synchronous

LEMMA SafetyMicrotask ==
  ASSUME SafetyInv, TypeOK', Microtask
  PROVE  SafetyInv'
<1> USE DEF pool, shutdown, os
<1>0. /\ worker \in Workers /\ Keeps(worker, worker) /\ TypeOK
      /\ ~available => waitingJobs = <<>>
  BY DEF SafetyInv, TypeOK, Workers, Keeps, ShutdownLeavesNothing
<1>1. CASE OnBootFailed
  <2>1. micro # <<>> /\ Head(micro) = micro[1] /\ 1 \in DOMAIN micro
        /\ Head(micro).kind = "bootFailed"
    <3>1. micro # <<>> /\ Head(micro).kind = "bootFailed" /\ micro \in Seq(ReactionRecord)
      BY <1>0, <1>1 DEF OnBootFailed, Reacting, TypeOK
    <3>2. Len(micro) \in Nat \ {0} /\ DOMAIN micro = 1 .. Len(micro)
      BY <3>1, EmptySeq, LenProperties
    <3> QED
      BY <3>1, <3>2
  <2>2. CASE worker[Head(micro).w].isReclaimed
    BY <1>0, <1>1, <2>1, <2>2, QuietStep, SameReactions DEF OnBootFailed
  <2>3. CASE ~worker[Head(micro).w].isReclaimed
    <3>1. bootBroken \/ ~available
      BY <2>1, <2>3 DEF SafetyInv, ReportedFailures
    <3>2. closeCalled \/ bootBroken
      BY <3>1 DEF SafetyInv, ReclaimKeepsPoolAvailable
    <3> QED
      BY <1>1, <2>3, <3>2, MarkUnavailableStep, MicroStep DEF OnBootFailed
  <2> QED
    BY <2>2, <2>3
<1>2. CASE OnReadyRejected
  <2>1. micro # <<>> /\ Head(micro) \in ReactionRecord
    BY <1>0, <1>2, SequenceTypes DEF OnReadyRejected, Reacting, TypeOK
  <2>2. Keeps(worker, worker')
    <3>1. Head(micro).w \in WorkerId
      BY <2>1 DEF ReactionRecord
    <3> QED
      BY <1>0, <1>2, <3>1, HelpersKeep DEF OnReadyRejected
  <2> QED
    BY <1>0, <1>2, <2>1, <2>2, QuietStep, SameReactions DEF OnReadyRejected
<1>3. CASE OnReadySend
  <2>1. micro # <<>> /\ Head(micro) \in ReactionRecord /\ Head(micro).kind = "send"
        /\ 1 \in DOMAIN micro /\ Head(micro) = micro[1]
    <3>1. micro # <<>> /\ Head(micro).kind = "send" /\ micro \in Seq(ReactionRecord)
      BY <1>0, <1>3 DEF OnReadySend, Reacting, TypeOK
    <3>2. Len(micro) \in Nat \ {0} /\ DOMAIN micro = 1 .. Len(micro)
      BY <3>1, EmptySeq, LenProperties
    <3> QED
      BY <3>1, <3>2, SequenceTypes
  <2>2. worker[Head(micro).w].ready # "pending" \/ worker[Head(micro).w].isDead
    BY <2>1 DEF SafetyInv, SendsAfterBoot
  <2>3. \A e \in sendErrors' : e \in sendErrors \/ e[1] = Head(micro).w
    BY <1>3 DEF OnReadySend
  <2> QED
    BY <1>0, <1>3, <2>1, <2>2, <2>3, QuietStep, SameReactions DEF OnReadySend
<1>4. ASSUME NEW w \in WorkerId, NEW j \in Job, SendFailed(w, j)
      PROVE  SafetyInv'
  <2>1. worker[w].ready # "pending" \/ worker[w].isDead
    BY <1>4 DEF SendFailed, SafetyInv, SendsAfterBoot
  <2>2. Keeps(worker, worker')
    <3> DEFINE W == Clear(worker, w, j)
    <3>1. W \in Workers /\ Keeps(worker, W) /\ (W[w].ready # "pending" \/ W[w].isDead)
      BY <1>0, <2>1, ClearType, HelpersKeep DEF Keeps
    <3>2. worker' = worker \/ worker' = Kill(W, w)
      BY <1>4 DEF SendFailed
    <3> HIDE DEF W
    <3> QED
      BY <1>0, <3>1, <3>2, HelpersKeep, KeepsTransitive
  <2> QED
    BY <1>0, <1>4, <2>2, QuietStep, SameReactions DEF SendFailed
<1> QED
  BY <1>1, <1>2, <1>3, <1>4 DEF Microtask

LEMMA SafetyWorkerEvent ==
  ASSUME SafetyInv, TypeOK', NEW w \in WorkerId, WorkerEvent(w)
  PROVE  SafetyInv'
<1> USE DEF pool, shutdown, os
<1>0. /\ worker \in Workers /\ job \in Jobs /\ Keeps(worker, worker) /\ TypeOK
      /\ ~available => waitingJobs = <<>>
      /\ worker[w].current \in Job \cup {NoJob}
  BY DEF SafetyInv, TypeOK, Workers, Jobs, WorkerRecord, Keeps, ShutdownLeavesNothing
<1>1. CASE BootReady(w)
  <2>1. Keeps(worker, worker') /\ worker'[w].ready # "pending"
    BY <1>0, <1>1 DEF BootReady, Keeps, Workers, WorkerRecord
  <2>2. ReactionsJustified
    <3>1. CASE micro' = <<>>
      BY <3>1 DEF ReactionsJustified
    <3>2. CASE micro' = <<Reaction("send", w, worker[w].current)>>
      BY <2>1, <3>2 DEF ReactionsJustified, Reaction
    <3> QED
      BY <1>1, <3>1, <3>2 DEF BootReady
  <2> QED
    BY <1>0, <1>1, <2>1, <2>2, QuietStep DEF BootReady
<1>2. ASSUME NEW W
      PROVE  \A i \in DOMAIN RejectionReactions(W, w) :
               RejectionReactions(W, w)[i].kind \in {"bootFailed", "failReady"}
  BY DEF RejectionReactions, Reaction
<1>3. CASE BootFails(w)
  <2>1. Keeps(worker, worker')
    <3> DEFINE V == RejectReady(worker, w)
    <3>1. V \in Workers /\ Keeps(worker, V) /\ worker' = [V EXCEPT ![w].booted = TRUE]
      BY <1>0, <1>3, RejectReadyType, HelpersKeep DEF BootFails
    <3> HIDE DEF V
    <3>2. Keeps(V, worker')
      BY <3>1 DEF Keeps, Workers, WorkerRecord
    <3> QED
      BY <3>1, <3>2, KeepsTransitive
  <2>2. ReactionsJustified
    BY <1>2, <1>3 DEF BootFails, ReactionsJustified
  <2> QED
    BY <1>0, <1>3, <2>1, <2>2, QuietStep DEF BootFails
<1>4. CASE ReadyTimeout(w)
  <2>1. Keeps(worker, worker')
    <3> DEFINE V == RejectReady(worker, w)
    <3>1. V \in Workers /\ Keeps(worker, V) /\ worker' = Kill(V, w)
      BY <1>0, <1>4, RejectReadyType, HelpersKeep DEF ReadyTimeout
    <3>2. V[w].ready # "pending"
      BY <1>0 DEF RejectReady, Workers, WorkerRecord
    <3> HIDE DEF V
    <3> QED
      BY <3>1, <3>2, HelpersKeep, KeepsTransitive
  <2>2. ReactionsJustified
    BY <1>2, <1>4 DEF ReadyTimeout, ReactionsJustified
  <2> QED
    BY <1>0, <1>4, <2>1, <2>2, QuietStep DEF ReadyTimeout
<1>5. CASE IdleTimeout(w)
  BY <1>0, <1>5, HelpersKeep, QuietStep, SameReactions DEF IdleTimeout
<1>6. CASE JobTimeout(w)
  <2>1. Keeps(worker, worker')
    BY <1>0, <1>6, ClearType, HelpersKeep, KeepsTransitive DEF JobTimeout
  <2> QED
    BY <1>0, <1>6, <2>1, QuietStep, SameReactions DEF JobTimeout
<1>7. CASE ProcessFinishesJob(w)
  BY <1>0, <1>7, QuietStep, SameReactions DEF ProcessFinishesJob
<1>8. CASE OutputOverflow(w)
  BY <1>0, <1>8, HelpersKeep, QuietStep, SameReactions DEF OutputOverflow
<1>9. ASSUME NEW s \in Stream, WorkerData(w, s)
      PROVE  SafetyInv'
  <2>1. CASE UNCHANGED <<worker, waitingJobs, micro>>
    BY <1>0, <1>9, <2>1, QuietStep, SameReactions DEF WorkerData
  <2>2. ASSUME NEW j \in Job, NEW J \in Jobs, NEW result \in {"resolved", "spawnFailed"},
               ReleaseWorker(Clear(worker, w, j), Settle(J, j, result), w)
        PROVE  SafetyInv'
    <3>1. Clear(worker, w, j) \in Workers /\ Keeps(worker, Clear(worker, w, j))
      BY <1>0, ClearType, HelpersKeep
    <3>2. Settle(J, j, result) \in Jobs
      BY SettleType DEF Settled, Failure
    <3>3. Keeps(worker, worker') /\ ReactionsJustified /\ (~available => waitingJobs' = <<>>)
      BY <2>2, <3>1, <3>2, ReleaseWorkerKeeps
    <3> QED
      BY <1>9, <3>3, QuietStep DEF WorkerData
  <2> QED
    BY <1>0, <1>9, <2>1, <2>2, DataOutcome
<1>10. ASSUME NEW how \in ExitError, WorkerClose(w, how)
       PROVE  SafetyInv'
  <2> USE DEF SafetyInv
  <2>1. /\ w \in workers /\ sendErrors = {} /\ sendErrors' = sendErrors
        /\ workers' = workers \ {w} /\ micro' = RejectionReactions(worker, w)
        /\ available' = available /\ waitingJobs' = waitingJobs /\ closeCalled' = closeCalled
        /\ bootBroken' = (bootBroken \/ (worker[w].ready = "pending" /\ ~worker[w].killed))
    BY <1>10 DEF WorkerClose, Quiet
  <2>2. /\ \A v \in WorkerId \ {w} : worker'[v] = worker[v]
        /\ worker'[w].isDead = TRUE /\ worker'[w].killed = FALSE
        /\ worker'[w].isReclaimed = (worker[w].isReclaimed /\ worker[w].ready = "pending")
    BY <1>0, <1>10 DEF WorkerClose, Workers, NewWorker
  <2>3. WorkersBounded'
    <3>1. IsFiniteSet(workers') /\ Cardinality(workers') = Cardinality(workers) - 1
          /\ Cardinality(workers) \in Nat
      BY <2>1, FS_RemoveElement, FS_CardinalityType DEF WorkersBounded
    <3> QED
      BY <3>1, PoolAssumption DEF WorkersBounded, WorkerLimit, PoolAssumption
  <2>4. LiveWorkers' /\ ShutdownLeavesNothing' /\ KilledBooting'
    BY <1>0, <2>1, <2>2 DEF LiveWorkers, ShutdownLeavesNothing, KilledBooting, TypeOK
  <2>5. ReportedFailures'
    <3>1. \A i \in DOMAIN micro' : micro'[i].kind = "bootFailed" =>
            micro'[i].w = w /\ worker[w].ready = "pending"
      BY <2>1 DEF RejectionReactions, Reaction
    <3> QED
      BY <2>1, <2>2, <3>1 DEF ReportedFailures, KilledBooting
  <2>6. SendsAfterBoot'
    BY <1>2, <2>1 DEF SendsAfterBoot
  <2>7. ReclaimKeepsPoolAvailable'
    BY <2>1 DEF ReclaimKeepsPoolAvailable
  <2> QED
    BY <2>3, <2>4, <2>5, <2>6, <2>7
<1> QED
  BY <1>1, <1>3, <1>4, <1>5, <1>6, <1>7, <1>8, <1>9, <1>10 DEF WorkerEvent

---------------------------------------------------------------------------
\* The inductive invariant: the slots, the kill marks and the reported failures
\* agree with each other in every reachable state.
THEOREM SafetyInvariance == Spec => []SafetyInv
<1>1. Init => SafetyInv
  <2> SUFFICES ASSUME Init
               PROVE  SafetyInv
    OBVIOUS
  <2>1. TypeOK
    BY TypeInit, PoolAssumption
  <2>2. WorkersBounded
    BY FS_EmptySet, PoolAssumption DEF Init, WorkersBounded, WorkerLimit, PoolAssumption
  <2>3. \A w \in WorkerId :
          worker[w].isDead /\ ~worker[w].killed /\ ~worker[w].isReclaimed
    BY DEF Init, NewWorker
  <2>4. workers = {} /\ waitingJobs = <<>> /\ DOMAIN micro = {} /\ sendErrors = {}
        /\ available = TRUE
    BY DEF Init
  <2>5. LiveWorkers /\ ShutdownLeavesNothing /\ KilledBooting
    BY <2>3, <2>4 DEF LiveWorkers, ShutdownLeavesNothing, KilledBooting
  <2>6. ReportedFailures /\ SendsAfterBoot /\ ReclaimKeepsPoolAvailable
    BY <2>4 DEF ReportedFailures, SendsAfterBoot, ReclaimKeepsPoolAvailable
  <2> QED
    BY <2>1, <2>2, <2>5, <2>6 DEF SafetyInv
<1>2. TypeOK /\ [Next]_vars => TypeOK'
  <2> SUFFICES ASSUME TypeOK, [Next]_vars
               PROVE  TypeOK'
    OBVIOUS
  <2>1. CASE UNCHANGED vars
    BY <2>1 DEF TypeOK, vars, pool, shutdown, os
  <2>2. CASE Next
    BY <2>2, PoolAssumption, TypeInterface, TypeSynchronous, TypeMicrotask, TypeWorkerEvent
       DEF Next
  <2> QED
    BY <2>1, <2>2
<1>3. SafetyInv /\ [Next]_vars => SafetyInv'
  <2> SUFFICES ASSUME SafetyInv, [Next]_vars
               PROVE  SafetyInv'
    OBVIOUS
  <2>1. TypeOK'
    BY <1>2 DEF SafetyInv
  <2>2. CASE UNCHANGED vars
    BY <2>2 DEF vars, pool, shutdown, os, SafetyInv, TypeOK, WorkersBounded, WorkerLimit,
         LiveWorkers, ShutdownLeavesNothing, KilledBooting, ReportedFailures,
         SendsAfterBoot, ReclaimKeepsPoolAvailable
  <2>3. CASE Next
    BY <2>1, <2>3, SafetyInterface, SafetySynchronous, SafetyMicrotask, SafetyWorkerEvent
       DEF Next
  <2> QED
    BY <2>2, <2>3
<1> QED
  BY <1>1, <1>3, PTL DEF Spec

\* There are never more than maxWorkers processes, the killed ones included.
THEOREM ProcessesAreLimited == Spec => []WorkerLimit
<1>1. SafetyInv => WorkerLimit
  BY DEF SafetyInv, WorkersBounded
<1> QED
  BY <1>1, SafetyInvariance, PTL

\* Out of service, the pool keeps no job waiting and has killed every process.
THEOREM NothingIsLeft == Spec => []ShutdownLeavesNothing
<1>1. SafetyInv => ShutdownLeavesNothing
  BY DEF SafetyInv
<1> QED
  BY <1>1, SafetyInvariance, PTL

\* Killing workers on purpose never takes the pool out of service.
THEOREM ReclaimIsHarmless == Spec => []ReclaimKeepsPoolAvailable
<1>1. SafetyInv => ReclaimKeepsPoolAvailable
  BY DEF SafetyInv
<1> QED
  BY <1>1, SafetyInvariance, PTL

-----------------------------------------------------------------------------
(***************************************************************************)
(* Jobs                                                                    *)
(***************************************************************************)

\* The places of a job: the waiting queue without repetitions, or one worker.
QueueInv ==
  /\ IsInjective(waitingJobs)
  /\ \A v, w \in WorkerId :
       worker[v].current = worker[w].current => v = w \/ worker[w].current = NoJob
  /\ \A w \in WorkerId : worker[w].current \notin ToSet(waitingJobs)
  /\ \A j \in Job :
       job[j].promise = "pending" <=>
         j \in ToSet(waitingJobs) \/ \E w \in WorkerId : worker[w].current = j

\* The frames of a stack in which workers wait that were just created.
OnStack(frames, w) == \E i \in DOMAIN frames : frames[i].w = w
OneFrameEach(frames) ==
  \A a, b \in DOMAIN frames : frames[a].w = frames[b].w => a = b \/ frames[a].w = NoWorker
\* The workers that are about to be given a job.
Free(w) == w \in ToSet(idleWorkers) \/ OnStack(stack, w)

FreeInv ==
  /\ IsInjective(idleWorkers)
  /\ ToSet(idleWorkers) \subseteq workers
  /\ OneFrameEach(stack)
  /\ \A w \in WorkerId : ~ (w \in ToSet(idleWorkers) /\ OnStack(stack, w))
  /\ \A w \in WorkerId : Free(w) => worker[w].current = NoJob

\* Nothing was sent to the worker that has not been read.
Unsent(w) == inbox[w] = <<>> /\ pipe[w] = NoPipe
Untouched(w, j) == Unsent(w) /\ job[j].ends = {} /\ job[j].bytes = {}
Running(w, j) == inbox[w] = <<j>> /\ pipe[w] = NoPipe /\ job[j].ends = {} /\ job[j].bytes = {}
Printed(w, j) ==
  /\ inbox[w] = <<>>
  /\ job[j].ends # Stream
  /\ job[j].bytes = IF job[j].ends = {} THEN {} ELSE {j}
  /\ pipe[w] = [s \in Stream |-> IF s \in job[j].ends THEN <<>> ELSE <<j>>]

ChannelInv ==
  /\ \A w \in WorkerId : Free(w) \/ w \notin workers => Unsent(w)
  /\ \A w \in WorkerId, j \in Job :
       worker[w].current = j /\ ~job[j].didKillForSize =>
         Untouched(w, j) \/ Running(w, j) \/ Printed(w, j)
  /\ \A w \in WorkerId, j \in Job :
       worker[w].current = j /\ worker[w].ready = "pending" => Untouched(w, j)

\* A job that is to be sent was started, once, and nothing of it has been sent.
SendsOnce(reactions) ==
  \A a, b \in DOMAIN reactions :
    /\ reactions[a].kind = "send" /\ reactions[b].kind = "send"
    /\ reactions[a].j = reactions[b].j
    => a = b

SendInv ==
  /\ \A r \in ToSet(micro) : r.kind # "bootFailed" =>
       r.j \notin ToSet(waitingJobs) /\ job[r.j].promise # "none"
  /\ \A r \in ToSet(micro) : r.kind = "send" /\ worker[r.w].current = r.j =>
       Untouched(r.w, r.j)
  /\ SendsOnce(micro)

\* Jobs wait for a slot, or for dispatchWaiting to get on.
Dispatching(frames) == \E i \in DOMAIN frames : frames[i].kind = "dispatch"

WakeupInv ==
  available /\ waitingJobs # <<>> =>
    \/ idleWorkers = <<>> /\ Cardinality(workers) = MaxWorkers
    \/ Dispatching(stack)

JobsInv == QueueInv /\ FreeInv /\ ChannelInv /\ SendInv /\ WakeupInv /\ OwnOutputOnly

---------------------------------------------------------------------------
(* What a step may do to the places of the jobs. *)

SameWorkers == \A w \in WorkerId : worker'[w].current = worker[w].current
SameWorkersBut(w) == \A v \in WorkerId \ {w} : worker'[v].current = worker[v].current
SameJobs == \A j \in Job : job'[j].promise = job[j].promise
SameJobsBut(j) == \A k \in Job \ {j} : job'[k].promise = job[k].promise

Rests == SameWorkers /\ SameJobs /\ UNCHANGED <<waitingJobs, available>>

Enqueues(j) ==
  /\ available
  /\ job[j].promise = "none" /\ job'[j].promise = "pending"
  /\ waitingJobs' = Append(waitingJobs, j)
  /\ SameWorkers /\ SameJobsBut(j) /\ UNCHANGED available

TurnsAway(j) ==
  /\ job[j].promise = "none"
  /\ \/ ~available /\ job'[j].promise = "unavailable"
     \/ job'[j].promise = "aborted"
  /\ SameWorkers /\ SameJobsBut(j) /\ UNCHANGED <<waitingJobs, available>>

GivesUp(j) ==
  /\ j \in ToSet(waitingJobs)
  /\ waitingJobs' = RemoveFirst(waitingJobs, j)
  /\ job'[j].promise = "aborted"
  /\ SameWorkers /\ SameJobsBut(j) /\ UNCHANGED available

\* The first job that waits goes to worker w.
Hands(w) ==
  /\ available /\ waitingJobs # <<>>
  /\ waitingJobs' = Tail(waitingJobs)
  /\ worker'[w].current = Head(waitingJobs)
  /\ SameWorkersBut(w) /\ UNCHANGED available

StartsJob(w) == worker[w].current = NoJob /\ Hands(w) /\ SameJobs

SettlesJob(w) ==
  /\ worker[w].current # NoJob
  /\ job'[worker[w].current].promise \in Settled
  /\ SameJobsBut(worker[w].current)

Finishes(w) ==
  /\ SettlesJob(w)
  /\ worker'[w].current = NoJob
  /\ SameWorkersBut(w) /\ UNCHANGED <<waitingJobs, available>>

FinishesAndStarts(w) == SettlesJob(w) /\ Hands(w)

Shuts ==
  /\ available /\ available' = FALSE
  /\ waitingJobs' = <<>>
  /\ \A j \in Job : job'[j].promise = IF j \in ToSet(waitingJobs) THEN "unavailable"
                                      ELSE job[j].promise
  /\ SameWorkers

JobStep ==
  \/ Rests \/ Shuts
  \/ \E j \in Job : Enqueues(j) \/ TurnsAway(j) \/ GivesUp(j)
  \/ \E w \in WorkerId : StartsJob(w) \/ Finishes(w) \/ FinishesAndStarts(w)

\* Queues and workers hold jobs; NoJob is never queued.
LEMMA NoJobWaits ==
  ASSUME TypeOK
  PROVE  /\ ToSet(waitingJobs) \subseteq Job
         /\ NoJob \notin ToSet(waitingJobs)
         /\ \A w \in WorkerId : worker[w].current \in Job \cup {NoJob}
<1>1. \A i \in DOMAIN waitingJobs : waitingJobs[i] \in Job
  BY DEF TypeOK
<1> QED
  BY <1>1, PoolAssumption DEF ToSet, PoolAssumption, TypeOK, WorkerRecord

\* Every job stays in one place.
LEMMA QueueStep ==
  ASSUME TypeOK, QueueInv, JobStep
  PROVE  QueueInv'
<1>0. waitingJobs \in Seq(Job)
  BY DEF TypeOK
<1>a. /\ ToSet(waitingJobs) \subseteq Job /\ NoJob \notin Job
      /\ NoJob \notin ToSet(waitingJobs)
      /\ \A w \in WorkerId : worker[w].current \in Job \cup {NoJob}
      /\ "pending" \notin Settled
  BY NoJobWaits, PoolAssumption DEF PoolAssumption, Settled, Failure
<1>1. CASE Rests
  BY <1>1 DEF Rests, SameWorkers, SameJobs, QueueInv
<1>2. CASE Shuts
  <2>1. ToSet(<<>>) = {} /\ IsInjective(<<>>)
    BY DEF ToSet, IsInjective
  <2> QED
    BY <1>2, <2>1 DEF Shuts, SameWorkers, QueueInv
<1>3. ASSUME NEW j \in Job, Enqueues(j)
      PROVE  QueueInv'
  <2>1. j \notin ToSet(waitingJobs) /\ \A w \in WorkerId : worker[w].current # j
    BY <1>3 DEF Enqueues, QueueInv
  <2>2. ToSet(waitingJobs') = ToSet(waitingJobs) \cup {j} /\ IsInjective(waitingJobs')
    BY <1>0, <1>3, <2>1, AppendSet DEF Enqueues, QueueInv
  <2> QED
    BY <1>3, <2>1, <2>2 DEF Enqueues, SameWorkers, SameJobsBut, QueueInv
<1>4. ASSUME NEW j \in Job, TurnsAway(j)
      PROVE  QueueInv'
  BY <1>4 DEF TurnsAway, SameWorkers, SameJobsBut, QueueInv
<1>5. ASSUME NEW j \in Job, GivesUp(j)
      PROVE  QueueInv'
  <2>1. IsInjective(waitingJobs)
    BY DEF QueueInv
  <2>2. ToSet(waitingJobs') = ToSet(waitingJobs) \ {j} /\ IsInjective(waitingJobs')
    BY <1>0, <1>5, <2>1, RemoveFirstSet DEF GivesUp
  <2> QED
    BY <1>5, <2>2 DEF GivesUp, SameWorkers, SameJobsBut, QueueInv
<1>6. ASSUME NEW w \in WorkerId, Hands(w)
      PROVE  /\ Head(waitingJobs) \in ToSet(waitingJobs)
             /\ ToSet(waitingJobs) = ToSet(waitingJobs') \cup {Head(waitingJobs)}
             /\ IsInjective(waitingJobs') /\ Head(waitingJobs) \notin ToSet(waitingJobs')
  <2>1. IsInjective(waitingJobs)
    BY DEF QueueInv
  <2> QED
    BY <1>0, <1>6, <2>1, TailSet DEF Hands
<1>7. ASSUME NEW w \in WorkerId, StartsJob(w)
      PROVE  QueueInv'
  <2>1. Hands(w)
    BY <1>7 DEF StartsJob
  <2> QED
    BY <1>a, <1>6, <1>7, <2>1 DEF StartsJob, Hands, SameWorkersBut, SameJobs, QueueInv
<1>8. ASSUME NEW w \in WorkerId, Finishes(w)
      PROVE  QueueInv'
  BY <1>a, <1>8 DEF Finishes, SettlesJob, SameWorkersBut, SameJobsBut, QueueInv
<1>9. ASSUME NEW w \in WorkerId, FinishesAndStarts(w)
      PROVE  QueueInv'
  <2>1. Hands(w)
    BY <1>9 DEF FinishesAndStarts
  <2> QED
    BY <1>a, <1>6, <1>9, <2>1
       DEF FinishesAndStarts, SettlesJob, Hands, SameWorkersBut, SameJobsBut, QueueInv
<1> QED
  BY <1>1, <1>2, <1>3, <1>4, <1>5, <1>7, <1>8, <1>9 DEF JobStep

\* Only a pending promise is settled.
LEMMA SettledStays ==
  ASSUME TypeOK, QueueInv, JobStep, NEW j \in Job, job[j].promise \in Settled
  PROVE  job'[j].promise = job[j].promise
<1>1. job[j].promise \notin {"none", "pending"} /\ j # NoJob
  BY PoolAssumption DEF Settled, Failure, PoolAssumption
<1>2. j \notin ToSet(waitingJobs) /\ \A w \in WorkerId : worker[w].current # j
  BY <1>1 DEF QueueInv
<1>3. \A w \in WorkerId : SettlesJob(w) => job'[j].promise = job[j].promise
  BY <1>2 DEF SettlesJob, SameJobsBut
<1>4. \A k \in Job : Enqueues(k) \/ TurnsAway(k) \/ GivesUp(k) => job'[j].promise = job[j].promise
  BY <1>1, <1>2 DEF Enqueues, TurnsAway, GivesUp, SameJobsBut
<1> QED
  BY <1>2, <1>3, <1>4 DEF JobStep, Rests, Shuts, StartsJob, Finishes, FinishesAndStarts, SameJobs

\* The service's operators on sequences are the pool's.
LEMMA ServiceOperators ==
  /\ \A s : Abstract!ToSet(s) = ToSet(s)
  /\ \A s, e : Abstract!RemoveFirst(s, e) = RemoveFirst(s, e)
<1>1. \A s : Abstract!ToSet(s) = ToSet(s)
  BY Zenon DEF Abstract!ToSet, ToSet
<1>2. \A s, e : Abstract!RemoveFirst(s, e) = RemoveFirst(s, e)
  BY Zenon DEF Abstract!RemoveFirst, RemoveFirst, Abstract!RemoveAt, RemoveAt, Abstract!SelectInSeq, SelectInSeq, Abstract!Min, Min
<1> QED
  BY <1>1, <1>2

\* The result of a job, as callers see it.
ResultOf(j) == IF job[j].promise = "pending" THEN "none" ELSE job[j].promise

\* The refinement mapping in terms of ResultOf, before and after a step.
LEMMA MappedResult ==
  /\ [j \in Job |-> IF job[j].promise = "pending" THEN "none" ELSE job[j].promise]
       = [j \in Job |-> ResultOf(j)]
  /\ [j \in Job |-> IF job[j].promise = "pending" THEN "none" ELSE job[j].promise]'
       = [j \in Job |-> ResultOf(j)']
BY DEF ResultOf

\* A step that changes one job's result changes the mapped function at that job.
LEMMA ResultChange ==
  ASSUME NEW j \in Job, NEW r,
         \A k \in Job : ResultOf(k)' = IF k = j THEN r ELSE ResultOf(k)
  PROVE  [k \in Job |-> IF job[k].promise = "pending" THEN "none" ELSE job[k].promise]'
           = [[k \in Job |-> IF job[k].promise = "pending" THEN "none" ELSE job[k].promise]
                EXCEPT ![j] = r]
<1> DEFINE old == [k \in Job |-> ResultOf(k)]
<1>1. [k \in Job |-> ResultOf(k)'] = [old EXCEPT ![j] = r]
  OBVIOUS
<1> QED
  BY <1>1, MappedResult

\* Each kind of step is a step of the service, or none.
LEMMA ServiceStep ==
  ASSUME TypeOK, QueueInv, JobStep
  PROVE  [Abstract!SNext]_(Abstract!svars)
<1>0. /\ NoJob \notin Job /\ \A w \in WorkerId : worker[w].current \in Job \cup {NoJob}
      /\ NoJob \notin ToSet(waitingJobs) /\ ToSet(waitingJobs) \subseteq Job
      /\ \A r \in Settled : r # "pending" /\ r # "none"
      /\ Settled = Failure \cup {"resolved"}
      /\ {"unavailable", "aborted"} \subseteq Settled
  BY NoJobWaits, PoolAssumption DEF PoolAssumption, Settled, Failure
<1>1. CASE Rests
  <2>1. Started' = Started
    BY <1>1 DEF Rests, SameWorkers, Started
  <2>2. \A j \in Job : ResultOf(j)' = ResultOf(j)
    BY <1>1 DEF Rests, SameJobs, ResultOf
  <2> QED
    BY <1>1, <2>1, <2>2, MappedResult DEF Rests, Abstract!svars
<1>2. CASE Shuts
  <2>1. Started' = Started
    BY <1>2 DEF Shuts, SameWorkers, Started
  <2>2. \A j \in Job : ResultOf(j)' = IF j \in ToSet(waitingJobs) THEN "unavailable" ELSE ResultOf(j)
    BY <1>2 DEF Shuts, ResultOf
  <2>3. Abstract!Shut
    BY <1>2, <2>1, <2>2, MappedResult, ServiceOperators DEF Shuts, Abstract!Shut
  <2> QED
    BY <2>3 DEF Abstract!SNext
<1>3. ASSUME NEW j \in Job, job[j].promise = "none"
      PROVE  Abstract!Fresh(j)
  BY <1>3, MappedResult, ServiceOperators DEF QueueInv, Abstract!Fresh, ResultOf, Started
<1>4. ASSUME NEW j \in Job, Enqueues(j)
      PROVE  Abstract!SNext
  <2>1. Started' = Started
    BY <1>4 DEF Enqueues, SameWorkers, Started
  <2>2. \A k \in Job : ResultOf(k)' = ResultOf(k)
    BY <1>4 DEF Enqueues, SameJobsBut, ResultOf
  <2>3. Abstract!Accept(j)
    BY <1>3, <1>4, <2>1, <2>2, MappedResult DEF Enqueues, Abstract!Accept
  <2> QED
    BY <2>3 DEF Abstract!SNext
<1>5. ASSUME NEW j \in Job, TurnsAway(j)
      PROVE  Abstract!SNext
  <2>1. Started' = Started
    BY <1>5 DEF TurnsAway, SameWorkers, Started
  <2>2. PICK r \in {"unavailable", "aborted"} :
          (r = "unavailable" => ~available) /\ job'[j].promise = r
    BY <1>5 DEF TurnsAway
  <2>3. \A k \in Job : ResultOf(k)' = IF k = j THEN r ELSE ResultOf(k)
    BY <1>5, <2>2 DEF TurnsAway, SameJobsBut, ResultOf
  <2>4. Abstract!TurnAway(j)
    BY <1>3, <1>5, <2>1, <2>2, <2>3, ResultChange DEF TurnsAway, Abstract!TurnAway
  <2> QED
    BY <2>4 DEF Abstract!SNext
<1>6. ASSUME NEW j \in Job, GivesUp(j)
      PROVE  Abstract!SNext
  <2>1. Started' = Started
    BY <1>6 DEF GivesUp, SameWorkers, Started
  <2>2. \A k \in Job : ResultOf(k)' = IF k = j THEN "aborted" ELSE ResultOf(k)
    BY <1>6 DEF GivesUp, SameJobsBut, ResultOf
  <2>3. Abstract!GiveUp(j)
    BY <1>6, <2>1, <2>2, ResultChange, ServiceOperators DEF GivesUp, Abstract!GiveUp
  <2> QED
    BY <2>3 DEF Abstract!SNext
<1>7. ASSUME NEW w \in WorkerId, Hands(w)
      PROVE  Head(waitingJobs) \in ToSet(waitingJobs)
  BY <1>7, TailSet DEF Hands, TypeOK
<1>8. ASSUME NEW w \in WorkerId, StartsJob(w)
      PROVE  Abstract!SNext
  <2>1. Started' = Started \cup {Head(waitingJobs)}
    BY <1>0, <1>7, <1>8 DEF StartsJob, Hands, SameWorkersBut, Started
  <2>2. \A k \in Job : ResultOf(k)' = ResultOf(k)
    BY <1>8 DEF StartsJob, SameJobs, ResultOf
  <2>3. Abstract!Start
    BY <1>8, <2>1, <2>2, MappedResult DEF StartsJob, Hands, Abstract!Start
  <2> QED
    BY <2>3 DEF Abstract!SNext
<1>9. ASSUME NEW w \in WorkerId, SettlesJob(w), NEW j, j = worker[w].current
      PROVE  /\ j \in Job /\ j \in Started
             /\ \E r \in Failure \cup {"resolved"} :
                  \A k \in Job : ResultOf(k)' = IF k = j THEN r ELSE ResultOf(k)
  BY <1>0, <1>9 DEF SettlesJob, SameJobsBut, ResultOf, Started
<1>10. ASSUME NEW w \in WorkerId, Finishes(w), NEW j, j = worker[w].current
       PROVE  Abstract!SNext
  <2>1. SettlesJob(w)
    BY <1>10 DEF Finishes
  <2>2. Started' = Started \ {j}
    BY <1>0, <1>10, <2>1 DEF Finishes, SettlesJob, SameWorkersBut, Started, QueueInv
  <2>3. PICK r \in Failure \cup {"resolved"} :
          \A k \in Job : ResultOf(k)' = IF k = j THEN r ELSE ResultOf(k)
    BY <1>9, <1>10, <2>1
  <2>4. j \in Job /\ j \in Started
    BY <1>9, <1>10, <2>1
  <2>5. Abstract!Finish(j)
    BY <1>10, <2>1, <2>2, <2>3, <2>4, ResultChange DEF Finishes, Abstract!Finish
  <2> QED
    BY <2>4, <2>5 DEF Abstract!SNext
<1>11. ASSUME NEW w \in WorkerId, FinishesAndStarts(w), NEW j, j = worker[w].current
       PROVE  Abstract!SNext
  <2>1. SettlesJob(w) /\ Hands(w)
    BY <1>11 DEF FinishesAndStarts
  <2>2. Started' = (Started \ {j}) \cup {Head(waitingJobs)}
    BY <1>0, <1>7, <1>11, <2>1 DEF Hands, SettlesJob, SameWorkersBut, Started, QueueInv
  <2>3. PICK r \in Failure \cup {"resolved"} :
          \A k \in Job : ResultOf(k)' = IF k = j THEN r ELSE ResultOf(k)
    BY <1>9, <1>11, <2>1
  <2>4. j \in Job /\ j \in Started
    BY <1>9, <1>11, <2>1
  <2>5. Abstract!Finish(j)
    BY <1>11, <2>1, <2>2, <2>3, <2>4, ResultChange DEF Hands, Abstract!Finish
  <2> QED
    BY <2>4, <2>5 DEF Abstract!SNext
<1> QED
  BY <1>1, <1>2, <1>4, <1>5, <1>6, <1>8, <1>10, <1>11 DEF JobStep

---------------------------------------------------------------------------
\* What the helpers do to the jobs of the workers and to the promises.
LEMMA HelpersAndJobs ==
  ASSUME NEW W \in Workers, NEW w \in WorkerId
  PROVE  /\ \A v \in WorkerId : /\ Kill(W, w)[v].current = W[v].current
                                /\ Reclaim(W, w)[v].current = W[v].current
                                /\ RejectReady(W, w)[v].current = W[v].current
         /\ \A v \in WorkerId : /\ Kill(W, w)[v].ready = W[v].ready
                                /\ Reclaim(W, w)[v].ready = W[v].ready
                                /\ RejectReady(W, w)[v].ready = "pending" => W[v].ready = "pending"
         /\ \A j : /\ Clear(W, w, j)[w].current = IF W[w].current = j THEN NoJob ELSE W[w].current
                   /\ \A v \in WorkerId \ {w} : Clear(W, w, j)[v] = W[v]
                   /\ Clear(W, w, j)[w].ready = W[w].ready
BY DEF Kill, Reclaim, RejectReady, Clear, Workers, WorkerRecord

\* Settling a job gives it its outcome and touches no other job.
LEMMA SettleJobs ==
  ASSUME NEW J \in Jobs, NEW j \in Job, NEW r
  PROVE  /\ Settle(J, j, r)[j].promise = r
         /\ \A k \in Job \ {j} : Settle(J, j, r)[k] = J[k]
         /\ r = "resolved" => Settle(J, j, r)[j].bytes = J[j].bytes
BY DEF Settle, Jobs, JobRecord, NewJob

\* startJob gives the worker the job, with its output cleared, and no promise moves.
LEMMA StartJobJobs ==
  ASSUME NEW W \in Workers, NEW J \in Jobs, NEW w \in WorkerId, NEW j \in Job,
         StartJob(W, J, w, j)
  PROVE  /\ worker'[w].current = j /\ worker'[w].ready = W[w].ready
         /\ \A v \in WorkerId \ {w} : worker'[v] = W[v]
         /\ \A k \in Job : job'[k].promise = J[k].promise
         /\ \A k \in Job \ {j} : job'[k] = J[k]
         /\ job'[j].ends = {} /\ job'[j].bytes = {}
BY DEF StartJob, Jobs, JobRecord, Workers, WorkerRecord, NewJob

\* Going out of service turns the waiting jobs away, if there are any.
LEMMA MarkUnavailableJobs ==
  ASSUME SafetyInv, MarkUnavailable(job)
  PROVE  Rests \/ Shuts
<1>0. TypeOK /\ worker \in Workers /\ job \in Jobs /\ available \in BOOLEAN
      /\ (~available => waitingJobs = <<>>) /\ ToSet(<<>>) = {}
  BY DEF SafetyInv, TypeOK, Workers, Jobs, ShutdownLeavesNothing, ToSet
<1>1. SameWorkers
  BY <1>0, HelpersAndJobs DEF MarkUnavailable, SameWorkers
<1>2. \A j \in Job : job'[j].promise = IF j \in ToSet(waitingJobs) THEN "unavailable"
                                        ELSE job[j].promise
  BY <1>0, SettleJobs DEF MarkUnavailable
<1>3. available' = FALSE /\ waitingJobs' = <<>>
  BY DEF MarkUnavailable
<1>4. CASE available
  BY <1>1, <1>2, <1>3, <1>4 DEF Shuts
<1>5. CASE ~available
  BY <1>0, <1>1, <1>2, <1>3, <1>5 DEF Rests, SameJobs
<1> QED
  BY <1>4, <1>5

\* What a call of the pool's interface does is a step of the abstract service.
LEMMA InterfaceJobs ==
  ASSUME SafetyInv, QueueInv,
         \/ \E j \in Job : Run(j) \/ Abort(j)
         \/ Warm \/ CloseIdleWorkers \/ Close
  PROVE  JobStep
<1> USE DEF pool, shutdown, os
<1>0. /\ TypeOK /\ worker \in Workers /\ job \in Jobs /\ NoJob \notin Job
      /\ {"unavailable", "aborted"} \subseteq Settled
  BY PoolAssumption DEF SafetyInv, TypeOK, Workers, Jobs, PoolAssumption, Settled, Failure
<1>1. ASSUME NEW j \in Job, Run(j)
      PROVE  JobStep
  <2>1. SameWorkers /\ available' = available /\ job[j].promise = "none"
    BY <1>1 DEF Run, SameWorkers
  <2>2. CASE ~available \/ j \in aborted
    <3>1. \E r \in {"unavailable", "aborted"} :
            job' = Settle(job, j, r) /\ (r = "unavailable" => ~available)
      BY <1>1, <2>2 DEF Run
    <3>2. TurnsAway(j)
      BY <1>0, <1>1, <2>1, <2>2, <3>1, SettleJobs DEF Run, TurnsAway, SameJobsBut
    <3> QED
      BY <3>2 DEF JobStep
  <2>3. CASE available /\ j \notin aborted
    <3>1. job' = Settle(job, j, "pending") /\ waitingJobs' = Append(waitingJobs, j)
      BY <1>1, <2>3 DEF Run
    <3>2. Enqueues(j)
      BY <1>0, <2>1, <2>3, <3>1, SettleJobs DEF Enqueues, SameJobsBut
    <3> QED
      BY <3>2 DEF JobStep
  <2> QED
    BY <2>2, <2>3
<1>2. ASSUME NEW j \in Job, Abort(j)
      PROVE  JobStep
  <2>1. CASE j \in ToSet(waitingJobs)
    <3>1. GivesUp(j)
      BY <1>0, <1>2, <2>1, SettleJobs DEF Abort, WithoutWaiting, GivesUp, SameWorkers, SameJobsBut
    <3> QED
      BY <3>1 DEF JobStep
  <2>2. CASE j \notin ToSet(waitingJobs)
    <3>1. CASE UNCHANGED <<worker, job>>
      <4>1. Rests
        BY <1>2, <2>2, <3>1 DEF Abort, Rests, SameWorkers, SameJobs
      <4> QED
        BY <4>1 DEF JobStep
    <3>2. ASSUME NEW w \in WorkerId, worker[w].current = j, UNCHANGED waitingJobs,
                 worker' = Reclaim(Clear(worker, w, j), w), job' = Settle(job, j, "aborted")
          PROVE  JobStep
      <4>1. worker'[w].current = NoJob /\ SameWorkersBut(w)
        BY <1>0, <3>2, ClearType, HelpersAndJobs DEF SameWorkersBut
      <4>2. SettlesJob(w)
        BY <1>0, <3>2, SettleJobs DEF SettlesJob, SameJobsBut
      <4>3. Finishes(w)
        BY <1>2, <3>2, <4>1, <4>2 DEF Abort, Finishes
      <4> QED
        BY <4>3 DEF JobStep
    <3> QED
      BY <1>2, <2>2, <3>1, <3>2 DEF Abort
  <2> QED
    BY <2>1, <2>2
<1>3. CASE Warm
  BY <1>3 DEF Warm, JobStep, Rests, SameWorkers, SameJobs
<1>4. CASE CloseIdleWorkers
  <2>1. Rests
    BY <1>0, <1>4, HelpersAndJobs DEF CloseIdleWorkers, Rests, SameWorkers, SameJobs
  <2> QED
    BY <2>1 DEF JobStep
<1>5. CASE Close
  BY <1>5, MarkUnavailableJobs DEF Close, JobStep
<1> QED
  BY <1>1, <1>2, <1>3, <1>4, <1>5

\* The worker that createWorker adds has no job, and may be gone already.
LEMMA NewWorkerShape ==
  ASSUME TypeOK, NEW w \in WorkerId, NEW rest, CreateWorker(w, rest)
  PROVE  /\ worker'[w].current = NoJob
         /\ \A v \in WorkerId \ {w} : worker'[v] = worker[v]
         /\ workers' \in {workers, workers \cup {w}}
         /\ stack' \in {rest, <<Frame("dispatch", NoWorker)>> \o rest}
         /\ micro' \in {micro, Append(micro, Reaction("bootFailed", w, NoJob))}
<1>1. /\ NewWorker.current = NoJob
      /\ \A ready, isReady, booted, isDead :
           [NewWorker EXCEPT !.ready = ready, !.isReady = isReady,
                             !.booted = booted, !.isDead = isDead].current = NoJob
  BY DEF NewWorker
<1>2. CASE ~HasPrespawned
  BY <1>1, <1>2 DEF CreateWorker, TypeOK
<1>3. CASE HasPrespawned
  <2>1. PICK report \in {"nothing", "ready", "failed"}, exited \in BOOLEAN :
          LET ready == CASE report = "ready" -> "resolved"
                         [] report = "failed" \/ (report = "nothing" /\ exited) -> "rejected"
                         [] OTHER -> "pending"
          IN /\ worker' = [worker EXCEPT ![w] =
                  [NewWorker EXCEPT !.ready = ready, !.isReady = report = "ready",
                                    !.booted = report # "nothing", !.isDead = exited]]
             /\ workers' = IF exited THEN workers ELSE workers \cup {w}
             /\ micro' = IF ready = "rejected"
                         THEN Append(micro, Reaction("bootFailed", w, NoJob)) ELSE micro
             /\ stack' = IF exited THEN <<Frame("dispatch", NoWorker)>> \o rest ELSE rest
    BY <1>3 DEF CreateWorker
  <2> DEFINE ready == CASE report = "ready" -> "resolved"
                        [] report = "failed" \/ (report = "nothing" /\ exited) -> "rejected"
                        [] OTHER -> "pending"
             record == [NewWorker EXCEPT !.ready = ready, !.isReady = report = "ready",
                                         !.booted = report # "nothing", !.isDead = exited]
  <2>2. worker' = [worker EXCEPT ![w] = record]
    BY <2>1
  <2>3. record.current = NoJob
    BY <1>1
  <2> HIDE DEF ready, record
  <2>4. worker'[w].current = NoJob /\ \A v \in WorkerId \ {w} : worker'[v] = worker[v]
    BY <2>2, <2>3 DEF TypeOK
  <2> QED
    BY <2>1, <2>4
<1> QED
  BY <1>2, <1>3

\* The worker of an "assign" or "release" frame.
LEMMA TopFrame ==
  ASSUME TypeOK, NEW kind \in {"assign", "release"}, Top(kind)
  PROVE  stack # <<>> /\ Head(stack).w \in WorkerId /\ stack[1] = Head(stack) /\ 1 \in DOMAIN stack
<1>1. stack # <<>> /\ Head(stack).kind = kind /\ stack \in Seq(FrameRecord)
  BY DEF Top, TypeOK, Stacks
<1>2. Head(stack) \in FrameRecord
  BY <1>1, SequenceTypes
<1>3. Len(stack) \in Nat \ {0} /\ DOMAIN stack = 1 .. Len(stack)
  BY <1>1, EmptySeq, LenProperties
<1> QED
  BY <1>1, <1>2, <1>3 DEF FrameRecord

\* startJob and releaseWorker move the first waiting job, if they do anything.
LEMMA StartJobStep ==
  ASSUME SafetyInv, NEW w \in WorkerId, worker[w].current = NoJob, waitingJobs # <<>>,
         StartJob(worker, job, w, Head(waitingJobs)), waitingJobs' = Tail(waitingJobs),
         UNCHANGED available
  PROVE  StartsJob(w)
<1>1. /\ TypeOK /\ worker \in Workers /\ job \in Jobs /\ Head(waitingJobs) \in Job /\ available
  BY SequenceTypes DEF SafetyInv, TypeOK, Workers, Jobs, ShutdownLeavesNothing
<1>2. worker'[w].current = Head(waitingJobs) /\ SameWorkersBut(w) /\ SameJobs
  BY <1>1, StartJobJobs DEF SameWorkersBut, SameJobs
<1> QED
  BY <1>1, <1>2 DEF StartsJob, Hands

\* So is each synchronous step of dispatchWaiting and warm,
LEMMA SynchronousJobs ==
  ASSUME SafetyInv, FreeInv, Synchronous
  PROVE  JobStep
<1> USE DEF pool, shutdown, os
<1>0. TypeOK /\ worker \in Workers /\ job \in Jobs
  BY DEF SafetyInv, TypeOK, Workers, Jobs
<1>1. CASE DispatchReturn
  BY <1>1 DEF DispatchReturn, JobStep, Rests, SameWorkers, SameJobs
<1>2. CASE DispatchToIdleWorker
  <2>1. Last(idleWorkers) \in ToSet(idleWorkers) /\ Last(idleWorkers) \in WorkerId
    BY <1>0, <1>2, FrontSet, SequenceTypes DEF DispatchToIdleWorker, TypeOK
  <2>2. worker[Last(idleWorkers)].current = NoJob
    BY <2>1 DEF FreeInv, Free
  <2>3. StartsJob(Last(idleWorkers))
    BY <1>2, <2>1, <2>2, StartJobStep DEF DispatchToIdleWorker
  <2> QED
    BY <2>1, <2>3 DEF JobStep
<1>3. CASE AssignToNewWorker
  <2>1. CASE waitingJobs = <<>>
    BY <1>3, <2>1 DEF AssignToNewWorker, JobStep, Rests, SameWorkers, SameJobs
  <2>2. CASE waitingJobs # <<>>
    <3>1. Head(stack).w \in WorkerId /\ OnStack(stack, Head(stack).w)
      BY <1>0, <1>3, TopFrame DEF AssignToNewWorker, OnStack
    <3>2. worker[Head(stack).w].current = NoJob
      BY <3>1 DEF FreeInv, Free
    <3>3. StartsJob(Head(stack).w)
      BY <1>3, <2>2, <3>1, <3>2, StartJobStep DEF AssignToNewWorker
    <3> QED
      BY <3>1, <3>3 DEF JobStep
  <2> QED
    BY <2>1, <2>2
<1>4. CASE WarmReturn
  BY <1>4 DEF WarmReturn, JobStep, Rests, SameWorkers, SameJobs
<1>5. CASE ReleaseNewWorker
  <2>1. Head(stack).w \in WorkerId /\ OnStack(stack, Head(stack).w)
    BY <1>0, <1>5, TopFrame DEF ReleaseNewWorker, OnStack
  <2>2. worker[Head(stack).w].current = NoJob
    BY <2>1 DEF FreeInv, Free
  <2>3. CASE waitingJobs # <<>> /\ ~worker[Head(stack).w].isDead
    <3>1. StartsJob(Head(stack).w)
      BY <1>5, <2>1, <2>2, <2>3, StartJobStep DEF ReleaseNewWorker, ReleaseWorker
    <3> QED
      BY <2>1, <3>1 DEF JobStep
  <2>4. CASE waitingJobs = <<>> \/ worker[Head(stack).w].isDead
    <3>1. SameWorkers /\ UNCHANGED <<waitingJobs, job, available>>
      BY <1>0, <1>5, <2>4 DEF ReleaseNewWorker, ReleaseWorker, SameWorkers, Workers, WorkerRecord
    <3> QED
      BY <3>1 DEF JobStep, Rests, SameJobs
  <2> QED
    BY <2>3, <2>4
<1>6. ASSUME NEW w \in WorkerId, NEW rest, CreateWorker(w, rest)
      PROVE  JobStep
  <2>1. worker[w].current = NoJob /\ UNCHANGED <<waitingJobs, job, available>>
    BY <1>6 DEF CreateWorker, Unused
  <2>2. SameWorkers
    BY <1>0, <1>6, <2>1, NewWorkerShape DEF SameWorkers
  <2> QED
    BY <2>1, <2>2 DEF JobStep, Rests, SameJobs
<1> QED
  BY <1>1, <1>2, <1>3, <1>4, <1>5, <1>6 DEF Synchronous, DispatchToNewWorker, WarmOne

\* each promise reaction,
LEMMA MicrotaskJobs ==
  ASSUME SafetyInv, Microtask
  PROVE  JobStep
<1> USE DEF pool, shutdown, os
<1>0. /\ TypeOK /\ worker \in Workers /\ job \in Jobs /\ NoJob \notin Job
      /\ "unavailable" \in Settled
  BY PoolAssumption DEF SafetyInv, TypeOK, Workers, Jobs, PoolAssumption, Settled, Failure
<1>1. ASSUME NEW w \in WorkerId, NEW j \in Job, worker[w].current = j,
             \/ worker' = Clear(worker, w, j)
             \/ worker' = Kill(Clear(worker, w, j), w),
             job' = Settle(job, j, "unavailable"), UNCHANGED <<waitingJobs, available>>
      PROVE  JobStep
  <2>1. worker'[w].current = NoJob /\ SameWorkersBut(w)
    BY <1>0, <1>1, ClearType, HelpersAndJobs DEF SameWorkersBut
  <2>2. SettlesJob(w)
    BY <1>0, <1>1, SettleJobs DEF SettlesJob, SameJobsBut
  <2> QED
    BY <1>1, <2>1, <2>2 DEF Finishes, JobStep
<1>2. ASSUME UNCHANGED <<worker, job, waitingJobs, available>>
      PROVE  JobStep
  BY <1>2 DEF JobStep, Rests, SameWorkers, SameJobs
<1>3. CASE OnBootFailed
  BY <1>2, <1>3, MarkUnavailableJobs DEF OnBootFailed, JobStep
<1>4. CASE OnReadyRejected
  <2>1. Head(micro).w \in WorkerId /\ Head(micro).j \in Job
    <3>1. Head(micro) \in ReactionRecord /\ Head(micro).kind = "failReady"
      BY <1>0, <1>4, SequenceTypes DEF OnReadyRejected, Reacting, TypeOK
    <3> QED
      BY <3>1 DEF ReactionRecord
  <2> QED
    BY <1>1, <1>2, <1>4, <2>1 DEF OnReadyRejected, StillCurrent
<1>5. CASE OnReadySend
  BY <1>2, <1>5 DEF OnReadySend
<1>6. ASSUME NEW w \in WorkerId, NEW j \in Job, SendFailed(w, j)
      PROVE  JobStep
  BY <1>1, <1>2, <1>6 DEF SendFailed, StillCurrent
<1> QED
  BY <1>3, <1>4, <1>5, <1>6 DEF Microtask

\* and each event of a worker process.
LEMMA WorkerEventJobs ==
  ASSUME SafetyInv, NEW w \in WorkerId, WorkerEvent(w)
  PROVE  JobStep
<1> USE DEF pool, shutdown, os
<1>0. /\ TypeOK /\ worker \in Workers /\ job \in Jobs /\ NoJob \notin Job
      /\ worker[w].current \in Job \cup {NoJob}
      /\ {"timeout", "resolved", "spawnFailed"} \subseteq Settled
  BY PoolAssumption
     DEF SafetyInv, TypeOK, Workers, WorkerRecord, Jobs, PoolAssumption, Settled, Failure
<1>1. ASSUME SameWorkers, UNCHANGED <<waitingJobs, available>>, job' = job
      PROVE  JobStep
  BY <1>1 DEF JobStep, Rests, SameJobs
<1>2. CASE BootReady(w)
  <2>1. SameWorkers
    BY <1>0, <1>2 DEF BootReady, SameWorkers, Workers, WorkerRecord
  <2> QED
    BY <1>1, <1>2, <2>1 DEF BootReady
<1>3. CASE BootFails(w)
  <2> DEFINE V == RejectReady(worker, w)
  <2>1. worker' = [V EXCEPT ![w].booted = TRUE] /\ V \in Workers
        /\ \A v \in WorkerId : V[v].current = worker[v].current
    BY <1>0, <1>3, RejectReadyType, HelpersAndJobs DEF BootFails
  <2> HIDE DEF V
  <2>2. SameWorkers
    BY <2>1 DEF SameWorkers, Workers, WorkerRecord
  <2> QED
    BY <1>1, <1>3, <2>2 DEF BootFails
<1>4. CASE ReadyTimeout(w)
  <2>1. SameWorkers
    BY <1>0, <1>4, RejectReadyType, HelpersAndJobs DEF ReadyTimeout, SameWorkers
  <2> QED
    BY <1>1, <1>4, <2>1 DEF ReadyTimeout
<1>5. CASE IdleTimeout(w)
  <2>1. SameWorkers
    BY <1>0, <1>5, HelpersAndJobs DEF IdleTimeout, SameWorkers
  <2> QED
    BY <1>1, <1>5, <2>1 DEF IdleTimeout
<1>6. CASE JobTimeout(w)
  <2>1. worker'[w].current = NoJob /\ SameWorkersBut(w)
    BY <1>0, <1>6, ClearType, HelpersAndJobs DEF JobTimeout, SameWorkersBut
  <2>2. SettlesJob(w)
    BY <1>0, <1>6, SettleJobs DEF JobTimeout, SettlesJob, SameJobsBut
  <2> QED
    BY <1>6, <2>1, <2>2 DEF JobTimeout, Finishes, JobStep
<1>7. CASE ProcessFinishesJob(w)
  BY <1>1, <1>7 DEF ProcessFinishesJob, SameWorkers
<1>8. CASE OutputOverflow(w)
  <2>1. SameWorkers
    BY <1>0, <1>8, HelpersAndJobs DEF OutputOverflow, SameWorkers
  <2>2. SameJobs
    BY <1>0, <1>8 DEF OutputOverflow, SameJobs, Jobs, JobRecord
  <2> QED
    BY <1>8, <2>1, <2>2 DEF OutputOverflow, Rests, JobStep
<1>9. ASSUME NEW s \in Stream, WorkerData(w, s)
      PROVE  JobStep
  <2>1. CASE UNCHANGED <<worker, waitingJobs, idleWorkers, micro>>
             /\ \A k \in Job : job'[k].promise = job[k].promise
    BY <1>9, <2>1 DEF WorkerData, Rests, SameWorkers, SameJobs, JobStep
  <2>2. ASSUME worker[w].current \in Job,
               NEW J \in Jobs, NEW result \in {"resolved", "spawnFailed"},
               \A k \in Job : J[k].promise = job[k].promise,
               ReleaseWorker(Clear(worker, w, worker[w].current),
                             Settle(J, worker[w].current, result), w)
        PROVE  JobStep
    <3> DEFINE j == worker[w].current
               W == Clear(worker, w, j)
               K == Settle(J, j, result)
    <3>1. /\ W \in Workers /\ W[w].current = NoJob
          /\ \A v \in WorkerId \ {w} : W[v] = worker[v]
      BY <1>0, <2>2, ClearType, HelpersAndJobs
    <3>2. /\ K \in Jobs /\ K[j].promise = result
          /\ \A k \in Job \ {j} : K[k].promise = job[k].promise
      BY <1>0, <2>2, SettleType, SettleJobs
    <3>3. ReleaseWorker(W, K, w) /\ available' = available
      BY <1>9, <2>2 DEF WorkerData
    <3> HIDE DEF W, K
    <3>4. CASE waitingJobs # <<>> /\ ~W[w].isDead
      <4>1. StartJob(W, K, w, Head(waitingJobs)) /\ waitingJobs' = Tail(waitingJobs)
        BY <3>3, <3>4 DEF ReleaseWorker
      <4>2. Head(waitingJobs) \in Job /\ available
        BY <1>0, <3>4, SequenceTypes DEF TypeOK, SafetyInv, ShutdownLeavesNothing
      <4>3. /\ worker'[w].current = Head(waitingJobs) /\ SameWorkersBut(w)
            /\ \A k \in Job : job'[k].promise = K[k].promise
        BY <3>1, <3>2, <4>1, <4>2, StartJobJobs DEF SameWorkersBut
      <4>4. SettlesJob(w)
        BY <1>0, <2>2, <3>2, <4>3 DEF SettlesJob, SameJobsBut
      <4> QED
        BY <3>3, <3>4, <4>1, <4>2, <4>3, <4>4 DEF Hands, FinishesAndStarts, JobStep
    <3>5. CASE waitingJobs = <<>> \/ W[w].isDead
      <4>1. worker'[w].current = NoJob /\ SameWorkersBut(w) /\ job' = K /\ UNCHANGED waitingJobs
        BY <3>1, <3>3, <3>5 DEF ReleaseWorker, SameWorkersBut, Workers, WorkerRecord
      <4>2. SettlesJob(w)
        BY <1>0, <2>2, <3>2, <4>1 DEF SettlesJob, SameJobsBut
      <4> QED
        BY <3>3, <4>1, <4>2 DEF Finishes, JobStep
    <3> QED
      BY <3>4, <3>5
  <2> QED
    BY <1>0, <1>9, <2>1, <2>2, DataOutcome
<1>10. ASSUME NEW how \in ExitError, WorkerClose(w, how)
       PROVE  JobStep
  <2>1. CloseError(w, how) \in Settled
    BY <1>10, PoolAssumption DEF CloseError, Settled, Failure, PoolAssumption
  <2>2. worker'[w].current = NoJob /\ SameWorkersBut(w) /\ UNCHANGED <<waitingJobs, available>>
    BY <1>0, <1>10 DEF WorkerClose, SameWorkersBut, Workers, WorkerRecord, NewWorker
  <2>3. CASE worker[w].current = NoJob
    BY <1>10, <2>2, <2>3 DEF WorkerClose, SameWorkersBut, SameWorkers, SameJobs, Rests, JobStep
  <2>4. CASE worker[w].current # NoJob
    <3>1. worker[w].current \in Job /\ job' = Settle(job, worker[w].current, CloseError(w, how))
      BY <1>0, <1>10, <2>4 DEF WorkerClose
    <3>2. SettlesJob(w)
      BY <1>0, <2>1, <2>4, <3>1, SettleJobs DEF SettlesJob, SameJobsBut
    <3> QED
      BY <2>2, <3>2 DEF Finishes, JobStep
  <2> QED
    BY <2>3, <2>4
<1> QED
  BY <1>2, <1>3, <1>4, <1>5, <1>6, <1>7, <1>8, <1>9, <1>10 DEF WorkerEvent

\* Every step moves the jobs in one of these ways, or in none.
LEMMA JobSteps ==
  ASSUME SafetyInv, QueueInv, FreeInv, [Next]_vars
  PROVE  JobStep
<1>1. CASE UNCHANGED vars
  BY <1>1 DEF vars, pool, JobStep, Rests, SameWorkers, SameJobs
<1> QED
  BY <1>1, InterfaceJobs, SynchronousJobs, MicrotaskJobs, WorkerEventJobs DEF Next

---------------------------------------------------------------------------
\* Pushing a frame and returning from one.
LEMMA FramesMove ==
  ASSUME NEW s \in Seq(FrameRecord), OneFrameEach(s)
  PROVE  /\ s # <<>> =>
              /\ OneFrameEach(Tail(s))
              /\ \A w \in WorkerId : OnStack(Tail(s), w) => OnStack(s, w)
              /\ \A w \in WorkerId : Head(s).w = w => ~OnStack(Tail(s), w)
         /\ \A f \in FrameRecord : f.w = NoWorker \/ ~OnStack(s, f.w) =>
              /\ OneFrameEach(<<f>> \o s)
              /\ \A w \in WorkerId : OnStack(<<f>> \o s, w) <=> f.w = w \/ OnStack(s, w)
<1>0. DOMAIN s = 1 .. Len(s) /\ Len(s) \in Nat /\ NoWorker \notin WorkerId
  BY LenProperties, PoolAssumption DEF PoolAssumption
<1>1. ASSUME s # <<>>
      PROVE  /\ OneFrameEach(Tail(s))
             /\ \A w \in WorkerId : OnStack(Tail(s), w) => OnStack(s, w)
             /\ \A w \in WorkerId : Head(s).w = w => ~OnStack(Tail(s), w)
  <2> DEFINE t == Tail(s)
  <2>1. /\ DOMAIN t = 1 .. Len(s) - 1 /\ Head(s) = s[1] /\ 1 \in DOMAIN s
        /\ \A i \in 1 .. Len(s) - 1 : t[i] = s[i + 1]
    BY <1>0, <1>1, HeadTailProperties, LenProperties, EmptySeq
  <2> HIDE DEF t
  <2>2. \A i \in DOMAIN t : i + 1 \in DOMAIN s /\ t[i] = s[i + 1] /\ i + 1 # 1 /\ i \in Int
    BY <1>0, <2>1
  <2>3. \A a, b \in DOMAIN t : a + 1 = b + 1 => a = b
    BY <2>2
  <2>4. OneFrameEach(t)
    BY <2>2, <2>3 DEF OneFrameEach
  <2>5. \A w \in WorkerId : Head(s).w = w => ~OnStack(t, w)
    BY <1>0, <2>1, <2>2 DEF OneFrameEach, OnStack
  <2> QED
    BY <2>2, <2>4, <2>5 DEF OnStack, t
<1>2. ASSUME NEW f \in FrameRecord, f.w = NoWorker \/ ~OnStack(s, f.w)
      PROVE  /\ OneFrameEach(<<f>> \o s)
             /\ \A w \in WorkerId : OnStack(<<f>> \o s, w) <=> f.w = w \/ OnStack(s, w)
  <2> DEFINE t == <<f>> \o s
  <2>1. /\ DOMAIN t = 1 .. Len(s) + 1 /\ t[1] = f
        /\ \A i \in 1 .. Len(s) : t[i + 1] = s[i]
    BY ConsElements
  <2> HIDE DEF t
  <2>2. \A i \in DOMAIN t : i = 1 \/ (i - 1 \in DOMAIN s /\ t[i] = s[i - 1] /\ i \in Int)
    <3>1. \A i \in DOMAIN t : i = 1 \/ (i - 1 \in 1 .. Len(s) /\ (i - 1) + 1 = i /\ i \in Int)
      BY <1>0, <2>1
    <3> QED
      BY <1>0, <2>1, <3>1
  <2>3. \A i \in DOMAIN s : i + 1 \in DOMAIN t /\ t[i + 1] = s[i]
    BY <1>0, <2>1
  <2>4. 1 \in DOMAIN t
    BY <1>0, <2>1
  <2>5. \A w \in WorkerId : OnStack(t, w) <=> f.w = w \/ OnStack(s, w)
    BY <2>1, <2>2, <2>3, <2>4 DEF OnStack
  <2>6. ASSUME NEW a \in DOMAIN t, NEW b \in DOMAIN t, t[a].w = t[b].w, t[a].w # NoWorker
        PROVE  a = b
    <3>1. CASE a # 1 /\ b # 1
      <4>1. a - 1 = b - 1
        BY <2>2, <2>6, <3>1 DEF OneFrameEach
      <4> QED
        BY <2>2, <3>1, <4>1
    <3>2. CASE a = 1 \/ b = 1
      BY <1>2, <2>1, <2>2, <2>6, <3>2 DEF OnStack
    <3> QED
      BY <3>1, <3>2
  <2> QED
    BY <2>5, <2>6 DEF OneFrameEach, t
<1> QED
  BY <1>1, <1>2

\* A stack with one frame, or none, in which no worker waits.
LEMMA NobodyWaits ==
  /\ OneFrameEach(<<>>) /\ \A w \in WorkerId : ~OnStack(<<>>, w)
  /\ \A kind : /\ OneFrameEach(<<Frame(kind, NoWorker)>>)
               /\ \A w \in WorkerId : ~OnStack(<<Frame(kind, NoWorker)>>, w)
BY PoolAssumption DEF OneFrameEach, OnStack, Frame, PoolAssumption

\* A step that frees no worker and hands no job to a free one.
LEMMA FreeShrinks ==
  ASSUME FreeInv, IsInjective(idleWorkers'), ToSet(idleWorkers') \subseteq ToSet(idleWorkers),
         ToSet(idleWorkers') \subseteq workers', OneFrameEach(stack'),
         \A w \in WorkerId : OnStack(stack', w) => OnStack(stack, w),
         \A w \in WorkerId : Free(w)' => worker'[w].current \in {worker[w].current, NoJob}
  PROVE  FreeInv' /\ \A w \in WorkerId : Free(w)' => Free(w)
<1>1. \A w \in WorkerId : Free(w)' => Free(w)
  BY DEF Free
<1> QED
  BY <1>1 DEF FreeInv

\* releaseWorker frees at most the worker it was called for.
LEMMA ReleaseFrees ==
  ASSUME TypeOK, LiveWorkers, FreeInv, workers' = workers,
         NEW W \in Workers, NEW J \in Jobs, NEW w \in WorkerId, ReleaseWorker(W, J, w),
         W[w].current = NoJob, W[w].isDead = worker[w].isDead,
         \A v \in WorkerId \ {w} : W[v] = worker[v],
         w \notin ToSet(idleWorkers), ~OnStack(stack', w), OneFrameEach(stack'),
         \A v \in WorkerId : OnStack(stack', v) => OnStack(stack, v)
  PROVE  FreeInv' /\ \A v \in WorkerId : Free(v)' => Free(v) \/ v = w
<1>1. CASE W[w].isDead
  BY <1>1 DEF ReleaseWorker, FreeInv, Free
<1>2. CASE ~W[w].isDead /\ waitingJobs # <<>>
  <2>1. StartJob(W, J, w, Head(waitingJobs)) /\ Head(waitingJobs) \in Job
        /\ idleWorkers' = idleWorkers
    BY <1>2, SequenceTypes DEF ReleaseWorker, TypeOK
  <2>2. \A v \in WorkerId \ {w} : worker'[v] = worker[v]
    BY <2>1, StartJobJobs
  <2> QED
    BY <2>1, <2>2 DEF FreeInv, Free
<1>3. CASE ~W[w].isDead /\ waitingJobs = <<>>
  <2>1. idleWorkers' = Append(idleWorkers, w) /\ idleWorkers \in Seq(WorkerId)
    BY <1>3 DEF ReleaseWorker, TypeOK
  <2>2. ToSet(idleWorkers') = ToSet(idleWorkers) \cup {w} /\ IsInjective(idleWorkers')
    BY <2>1, AppendSet DEF FreeInv
  <2>3. \A v \in WorkerId : worker'[v].current = W[v].current
    BY <1>3 DEF ReleaseWorker, Workers, WorkerRecord
  <2>4. w \in workers
    BY <1>3 DEF LiveWorkers
  <2> QED
    BY <2>2, <2>3, <2>4 DEF FreeInv, Free
<1> QED
  BY <1>1, <1>2, <1>3

FreesNone == \A w \in WorkerId : Free(w)' => Free(w)

\* No call of the interface frees a worker.
LEMMA FreeInterface ==
  ASSUME TypeOK, FreeInv, \/ \E j \in Job : Run(j) \/ Abort(j)
                          \/ Warm \/ CloseIdleWorkers \/ Close
  PROVE  FreeInv' /\ FreesNone
<1> USE DEF pool, shutdown, os
<1>0. worker \in Workers
  BY DEF TypeOK, Workers
<1>1. /\ OneFrameEach(stack') /\ workers' = workers
      /\ \A w \in WorkerId : OnStack(stack', w) => OnStack(stack, w)
  <2>1. stack' \in {stack, <<Frame("dispatch", NoWorker)>>, <<Frame("warm", NoWorker)>>}
    BY DEF Run, Abort, Warm, CloseIdleWorkers, Close
  <2>2. workers' = workers
    BY DEF Run, Abort, Warm, CloseIdleWorkers, Close
  <2> QED
    BY <2>1, <2>2, NobodyWaits DEF FreeInv
<1>2. \A w \in WorkerId : worker'[w].current \in {worker[w].current, NoJob}
  <2>1. ASSUME NEW j \in Job, Abort(j)
        PROVE  \A w \in WorkerId : worker'[w].current \in {worker[w].current, NoJob}
    BY <1>0, <2>1, ClearType, HelpersAndJobs DEF Abort
  <2>2. ASSUME CloseIdleWorkers
        PROVE  \A w \in WorkerId : worker'[w].current \in {worker[w].current, NoJob}
    BY <1>0, <2>2, HelpersAndJobs DEF CloseIdleWorkers
  <2>3. ASSUME Close
        PROVE  \A w \in WorkerId : worker'[w].current \in {worker[w].current, NoJob}
    BY <1>0, <2>3, HelpersAndJobs DEF Close, MarkUnavailable
  <2> QED
    BY <2>1, <2>2, <2>3 DEF Run, Warm
<1>3. idleWorkers' = idleWorkers \/ idleWorkers' = <<>>
  BY DEF Run, Abort, Warm, CloseIdleWorkers, Close, MarkUnavailable
<1>4. IsInjective(idleWorkers') /\ ToSet(idleWorkers') \subseteq ToSet(idleWorkers)
      /\ ToSet(idleWorkers') \subseteq workers'
  <2>1. IsInjective(<<>>) /\ ToSet(<<>>) = {}
    BY DEF IsInjective, ToSet
  <2> QED
    BY <1>1, <1>3, <2>1 DEF FreeInv
<1> QED
  BY <1>1, <1>2, <1>4, FreeShrinks DEF FreesNone

\* A new worker waits in the frame of its creator.
LEMMA FreeCreate ==
  ASSUME TypeOK, FreeInv, NEW w \in WorkerId, NEW kind \in {"assign", "release"},
         CreateWorker(w, <<Frame(kind, w)>> \o stack)
  PROVE  FreeInv' /\ \A v \in WorkerId : Free(v)' => Free(v) \/ v = w
<1>0. /\ stack \in Seq(FrameRecord) /\ Frame(kind, w) \in FrameRecord /\ Frame(kind, w).w = w
      /\ Frame("dispatch", NoWorker) \in FrameRecord /\ Frame("dispatch", NoWorker).w = NoWorker
      /\ NoWorker \notin WorkerId
  BY PoolAssumption DEF TypeOK, Stacks, Frame, FrameRecord, PoolAssumption
<1>1. /\ idleWorkers' = idleWorkers /\ w \notin workers /\ ~OnStack(stack, w)
  BY DEF CreateWorker, Unused, OnStack
<1> DEFINE rest == <<Frame(kind, w)>> \o stack
<1>2. /\ rest \in Seq(FrameRecord) /\ OneFrameEach(rest)
      /\ \A v \in WorkerId : OnStack(rest, v) <=> v = w \/ OnStack(stack, v)
  <2>1. OneFrameEach(stack)
    BY DEF FreeInv
  <2> QED
    BY <1>0, <1>1, <2>1, FramesMove, ConsElements
<1>3. stack' \in {rest, <<Frame("dispatch", NoWorker)>> \o rest}
  BY NewWorkerShape
<1> HIDE DEF rest
<1>4. /\ OneFrameEach(stack')
      /\ \A v \in WorkerId : OnStack(stack', v) <=> v = w \/ OnStack(stack, v)
  <2>1. OneFrameEach(<<Frame("dispatch", NoWorker)>> \o rest)
        /\ \A v \in WorkerId : OnStack(<<Frame("dispatch", NoWorker)>> \o rest, v) <=> OnStack(rest, v)
    <3>1. \A f \in FrameRecord : f.w = NoWorker =>
            /\ OneFrameEach(<<f>> \o rest)
            /\ \A v \in WorkerId : OnStack(<<f>> \o rest, v) <=> f.w = v \/ OnStack(rest, v)
      BY <1>2, FramesMove
    <3> QED
      BY <1>0, <3>1
  <2>2. CASE stack' = rest
    BY <1>2, <2>2
  <2>3. CASE stack' = <<Frame("dispatch", NoWorker)>> \o rest
    BY <1>2, <2>1, <2>3
  <2> QED
    BY <1>3, <2>2, <2>3
<1>5. /\ worker'[w].current = NoJob /\ \A v \in WorkerId \ {w} : worker'[v] = worker[v]
      /\ workers \subseteq workers'
  BY NewWorkerShape
<1> QED
  BY <1>1, <1>4, <1>5 DEF FreeInv, Free

\* The synchronous steps free none but the worker they have just created, whose
\* channels are empty.
LEMMA FreeSynchronous ==
  ASSUME SafetyInv, FreeInv, Synchronous
  PROVE  FreeInv' /\ \A v \in WorkerId : Free(v)' => Free(v) \/ (v \notin workers /\ Unsent(v)')
<1> USE DEF pool, shutdown, os
<1>0. /\ TypeOK /\ worker \in Workers /\ job \in Jobs /\ LiveWorkers
      /\ stack \in Seq(FrameRecord) /\ OneFrameEach(stack)
  BY DEF SafetyInv, TypeOK, Workers, Jobs, Stacks, FreeInv
<1>a. stack # <<>> =>
        /\ OneFrameEach(Tail(stack)) /\ Tail(stack) \in Seq(FrameRecord)
        /\ \A w \in WorkerId : OnStack(Tail(stack), w) => OnStack(stack, w)
        /\ \A w \in WorkerId : Head(stack).w = w => ~OnStack(Tail(stack), w)
  BY <1>0, FramesMove, SequenceTypes
<1>1. CASE DispatchReturn \/ WarmReturn
  <2>1. stack # <<>> /\ stack' = Tail(stack) /\ UNCHANGED <<idleWorkers, workers, worker>>
    BY <1>1 DEF DispatchReturn, WarmReturn, Top
  <2> QED
    BY <1>a, <2>1, FreeShrinks DEF FreeInv
<1>2. CASE DispatchToIdleWorker
  <2>1. PICK w \in WorkerId :
          /\ w = Last(idleWorkers) /\ Head(waitingJobs) \in Job
          /\ ToSet(idleWorkers) = ToSet(Front(idleWorkers)) \cup {w}
          /\ IsInjective(Front(idleWorkers)) /\ w \notin ToSet(Front(idleWorkers))
    BY <1>0, <1>2, FrontSet, SequenceTypes DEF DispatchToIdleWorker, TypeOK, FreeInv
  <2>2. /\ idleWorkers' = Front(idleWorkers) /\ UNCHANGED <<stack, workers>>
        /\ StartJob(worker, job, w, Head(waitingJobs))
    BY <1>2, <2>1 DEF DispatchToIdleWorker
  <2>3. \A v \in WorkerId \ {w} : worker'[v] = worker[v]
    BY <1>0, <2>1, <2>2, StartJobJobs
  <2>4. ~Free(w)'
    BY <2>1, <2>2 DEF Free, FreeInv
  <2>5. \A v \in WorkerId : Free(v)' => worker'[v].current \in {worker[v].current, NoJob}
    BY <2>3, <2>4
  <2> QED
    BY <1>0, <2>1, <2>2, <2>5, FreeShrinks DEF FreeInv
<1>3. CASE AssignToNewWorker
  <2>1. stack # <<>> /\ Head(stack).w \in WorkerId /\ OnStack(stack, Head(stack).w)
        /\ UNCHANGED <<idleWorkers, workers>>
    BY <1>0, <1>3, TopFrame DEF AssignToNewWorker, OnStack
  <2>2. CASE waitingJobs = <<>>
    <3>1. Tail(stack) # <<>> /\ stack' = Tail(Tail(stack)) /\ worker' = worker
      BY <1>0, <1>3, <2>2, StackType DEF AssignToNewWorker, TypeOK, Top
    <3>2. /\ OneFrameEach(stack')
          /\ \A w \in WorkerId : OnStack(stack', w) => OnStack(stack, w)
      BY <1>a, <2>1, <3>1, FramesMove
    <3> QED
      BY <2>1, <3>1, <3>2, FreeShrinks DEF FreeInv
  <2>3. CASE waitingJobs # <<>>
    <3>0. PICK w \in WorkerId : w = Head(stack).w
      BY <2>1
    <3>1. /\ StartJob(worker, job, w, Head(waitingJobs)) /\ Head(waitingJobs) \in Job
          /\ stack' = Tail(stack)
      BY <1>0, <1>3, <2>3, <3>0, SequenceTypes DEF AssignToNewWorker, TypeOK
    <3>2. \A v \in WorkerId \ {w} : worker'[v] = worker[v]
      BY <1>0, <3>1, StartJobJobs
    <3>3. ~Free(w)'
      BY <1>a, <2>1, <3>0, <3>1 DEF Free, FreeInv
    <3>4. \A v \in WorkerId : Free(v)' => worker'[v].current \in {worker[v].current, NoJob}
      BY <3>2, <3>3
    <3> QED
      BY <1>a, <2>1, <3>1, <3>4, FreeShrinks DEF FreeInv
  <2> QED
    BY <2>2, <2>3
<1>4. CASE ReleaseNewWorker
  <2>1. stack # <<>> /\ Head(stack).w \in WorkerId /\ OnStack(stack, Head(stack).w)
        /\ workers' = workers /\ stack' = Tail(stack)
        /\ ReleaseWorker(worker, job, Head(stack).w)
    BY <1>0, <1>4, TopFrame DEF ReleaseNewWorker, OnStack
  <2>2. Free(Head(stack).w) /\ worker[Head(stack).w].current = NoJob
        /\ Head(stack).w \notin ToSet(idleWorkers)
    BY <2>1 DEF Free, FreeInv
  <2> QED
    BY <1>0, <1>a, <2>1, <2>2, ReleaseFrees
<1>5. ASSUME NEW w \in WorkerId, NEW kind \in {"assign", "release"},
             CreateWorker(w, <<Frame(kind, w)>> \o stack)
      PROVE  FreeInv' /\ \A v \in WorkerId : Free(v)' => Free(v) \/ (v \notin workers /\ Unsent(v)')
  <2>1. w \notin workers /\ inbox'[w] = <<>> /\ pipe'[w] = NoPipe
    BY <1>0, <1>5 DEF CreateWorker, Unused, TypeOK
  <2> QED
    BY <1>0, <1>5, <2>1, FreeCreate DEF Unsent
<1> QED
  BY <1>1, <1>2, <1>3, <1>4, <1>5 DEF Synchronous, DispatchToNewWorker, WarmOne

\* The reactions free no worker.
LEMMA FreeMicrotask ==
  ASSUME TypeOK, FreeInv, Microtask
  PROVE  FreeInv' /\ FreesNone
<1> USE DEF pool, shutdown, os
<1>0. worker \in Workers
  BY DEF TypeOK, Workers
<1>1. UNCHANGED <<idleWorkers, workers, stack>>
  BY DEF Microtask, OnBootFailed, OnReadyRejected, OnReadySend, SendFailed
<1>2. \A w \in WorkerId : worker'[w].current \in {worker[w].current, NoJob}
  <2>1. CASE OnBootFailed
    BY <1>0, <2>1, HelpersAndJobs DEF OnBootFailed, MarkUnavailable
  <2>2. CASE OnReadyRejected
    <3>1. Head(micro).w \in WorkerId
      <4>1. Head(micro) \in ReactionRecord
        BY <2>2, SequenceTypes DEF OnReadyRejected, Reacting, TypeOK
      <4> QED
        BY <4>1 DEF ReactionRecord
    <3> QED
      BY <1>0, <2>2, <3>1, HelpersAndJobs DEF OnReadyRejected
  <2>3. ASSUME NEW w \in WorkerId, NEW j \in Job, SendFailed(w, j)
        PROVE  \A v \in WorkerId : worker'[v].current \in {worker[v].current, NoJob}
    BY <1>0, <2>3, ClearType, HelpersAndJobs DEF SendFailed
  <2> QED
    BY <2>1, <2>2, <2>3 DEF Microtask, OnReadySend
<1> QED
  BY <1>1, <1>2, FreeShrinks DEF FreeInv, FreesNone

\* An event of a worker frees no other worker.
LEMMA FreeWorkerEvent ==
  ASSUME SafetyInv, FreeInv, NEW w \in WorkerId, WorkerEvent(w)
  PROVE  FreeInv' /\ \A v \in WorkerId : Free(v)' => Free(v) \/ v = w
<1> USE DEF pool, shutdown, os
<1>0. /\ TypeOK /\ worker \in Workers /\ job \in Jobs /\ LiveWorkers
      /\ worker[w].current \in Job \cup {NoJob} /\ NoJob \notin Job
  BY PoolAssumption DEF SafetyInv, TypeOK, Workers, WorkerRecord, Jobs, PoolAssumption
<1>1. ASSUME UNCHANGED <<idleWorkers, workers, stack>>,
             \A v \in WorkerId : worker'[v].current \in {worker[v].current, NoJob}
      PROVE  FreeInv' /\ FreesNone
  BY <1>1, FreeShrinks DEF FreeInv, FreesNone
<1>2. ASSUME BootReady(w) \/ BootFails(w) \/ ReadyTimeout(w) \/ IdleTimeout(w)
             \/ ProcessFinishesJob(w) \/ OutputOverflow(w) \/ JobTimeout(w)
      PROVE  FreeInv' /\ FreesNone
  <2>1. UNCHANGED <<idleWorkers, workers, stack>>
    BY <1>2 DEF BootReady, BootFails, ReadyTimeout, IdleTimeout, ProcessFinishesJob,
         OutputOverflow, JobTimeout
  <2>2. \A v \in WorkerId : worker'[v].current \in {worker[v].current, NoJob}
    <3>1. CASE BootReady(w)
      BY <1>0, <3>1 DEF BootReady, Workers, WorkerRecord
    <3>2. CASE BootFails(w)
      <4> DEFINE V == RejectReady(worker, w)
      <4>1. worker' = [V EXCEPT ![w].booted = TRUE] /\ V \in Workers
            /\ \A v \in WorkerId : V[v].current = worker[v].current
        BY <1>0, <3>2, RejectReadyType, HelpersAndJobs DEF BootFails
      <4> HIDE DEF V
      <4> QED
        BY <4>1 DEF Workers, WorkerRecord
    <3>3. CASE ReadyTimeout(w)
      BY <1>0, <3>3, RejectReadyType, HelpersAndJobs DEF ReadyTimeout
    <3>4. CASE IdleTimeout(w) \/ OutputOverflow(w)
      BY <1>0, <3>4, HelpersAndJobs DEF IdleTimeout, OutputOverflow
    <3>5. CASE JobTimeout(w)
      BY <1>0, <3>5, ClearType, HelpersAndJobs DEF JobTimeout
    <3>6. CASE ProcessFinishesJob(w)
      BY <3>6 DEF ProcessFinishesJob
    <3> QED
      BY <1>2, <3>1, <3>2, <3>3, <3>4, <3>5, <3>6
  <2> QED
    BY <1>1, <2>1, <2>2
<1>3. ASSUME NEW s \in Stream, WorkerData(w, s)
      PROVE  FreeInv' /\ \A v \in WorkerId : Free(v)' => Free(v) \/ v = w
  <2>1. UNCHANGED <<workers, stack>>
    BY <1>3 DEF WorkerData
  <2>2. CASE UNCHANGED <<worker, idleWorkers>>
    BY <1>1, <2>1, <2>2 DEF FreesNone
  <2>3. ASSUME worker[w].current \in Job, NEW J \in Jobs, NEW result \in {"resolved", "spawnFailed"},
               ReleaseWorker(Clear(worker, w, worker[w].current),
                             Settle(J, worker[w].current, result), w)
        PROVE  FreeInv' /\ \A v \in WorkerId : Free(v)' => Free(v) \/ v = w
    <3> DEFINE W == Clear(worker, w, worker[w].current)
               K == Settle(J, worker[w].current, result)
    <3>1. /\ W \in Workers /\ W[w].current = NoJob
          /\ \A v \in WorkerId \ {w} : W[v] = worker[v]
      BY <1>0, ClearType, HelpersAndJobs
    <3>2. W[w].isDead = worker[w].isDead
      BY <1>0 DEF Clear, Workers, WorkerRecord
    <3>3. K \in Jobs
      BY <2>3, SettleType DEF Settled, Failure
    <3>4. ~Free(w) /\ w \notin ToSet(idleWorkers) /\ ~OnStack(stack', w) /\ OneFrameEach(stack')
      BY <1>0, <2>1, <2>3 DEF FreeInv, Free
    <3>5. ReleaseWorker(W, K, w)
      BY <2>3
    <3> HIDE DEF W, K
    <3> QED
      BY <1>0, <2>1, <3>1, <3>2, <3>3, <3>4, <3>5, ReleaseFrees
  <2> QED
    BY <1>0, <1>3, <2>2, <2>3, DataOutcome
<1>4. ASSUME NEW how \in ExitError, WorkerClose(w, how)
      PROVE  FreeInv' /\ FreesNone
  <2>1. /\ idleWorkers' = RemoveFirst(idleWorkers, w) /\ idleWorkers \in Seq(WorkerId)
        /\ workers' = workers \ {w} /\ stack' = <<Frame("dispatch", NoWorker)>>
    BY <1>0, <1>4 DEF WorkerClose, WithoutIdle, AfterClose, TypeOK
  <2>2. IsInjective(idleWorkers') /\ ToSet(idleWorkers') = ToSet(idleWorkers) \ {w}
    BY <2>1, RemoveFirstSet DEF FreeInv
  <2>3. \A v \in WorkerId : worker'[v].current \in {worker[v].current, NoJob}
    BY <1>0, <1>4 DEF WorkerClose, NewWorker, Workers
  <2> QED
    BY <2>1, <2>2, <2>3, NobodyWaits, FreeShrinks DEF FreeInv, FreesNone
<1> QED
  BY <1>2, <1>3, <1>4 DEF WorkerEvent, FreesNone

---------------------------------------------------------------------------
\* The job a worker keeps has its channels and its output untouched by a step.
Kept(w, j) ==
  /\ worker[w].current = j /\ inbox'[w] = inbox[w] /\ pipe'[w] = pipe[w]
  /\ job'[j].ends = job[j].ends /\ job'[j].bytes = job[j].bytes
  /\ job[j].didKillForSize => job'[j].didKillForSize
  /\ worker'[w].ready = "pending" => worker[w].ready = "pending"

FreeChannels == \A w \in WorkerId : Free(w)' \/ w \notin workers' => Unsent(w)'
OutputsKept ==
  \A j \in Job : job'[j].promise = "resolved" =>
    job[j].promise = "resolved" /\ job'[j].bytes = job[j].bytes

\* A step that lets no job's bytes move.
ChannelStep ==
  /\ FreeChannels
  /\ \A w \in WorkerId, j \in Job :
       worker'[w].current = j => Untouched(w, j)' \/ Kept(w, j)
  /\ OutputsKept

\* A job whose worker has booted is running, has printed, or went over its limit.
Served(w, j) ==
  /\ job[j].didKillForSize \/ Running(w, j) \/ Printed(w, j)
  /\ worker[w].ready # "pending"

\* A job that keeps its channels keeps its place in ChannelInv, and one that has
\* just been served has one.
LEMMA ChannelsMove ==
  ASSUME ChannelInv, FreeChannels,
         \A w \in WorkerId, j \in Job :
           worker'[w].current = j => Untouched(w, j)' \/ Kept(w, j) \/ Served(w, j)'
  PROVE  ChannelInv'
<1>1. ASSUME NEW w \in WorkerId, NEW j \in Job, Kept(w, j)
      PROVE  /\ Untouched(w, j) => Untouched(w, j)'
             /\ Running(w, j) => Running(w, j)'
             /\ Printed(w, j) => Printed(w, j)'
  BY <1>1 DEF Kept, Untouched, Unsent, Running, Printed
<1>2. ASSUME NEW w \in WorkerId, NEW j \in Job, worker'[w].current = j, Kept(w, j)
      PROVE  /\ ~job'[j].didKillForSize => Untouched(w, j)' \/ Running(w, j)' \/ Printed(w, j)'
             /\ worker'[w].ready = "pending" => Untouched(w, j)'
  BY <1>1, <1>2 DEF ChannelInv, Kept
<1> QED
  BY <1>2 DEF FreeChannels, ChannelInv, Served

\* Steps that move no bytes keep ChannelInv and leave outputs as they are.
LEMMA ChannelsKept ==
  ASSUME ChannelInv, OwnOutputOnly, ChannelStep
  PROVE  ChannelInv' /\ OwnOutputOnly'
<1>1. OwnOutputOnly'
  BY DEF OwnOutputOnly, ChannelStep, OutputsKept
<1> QED
  BY <1>1, ChannelsMove DEF ChannelStep

\* A step that starts no job and frees no worker.
LEMMA ChannelsRest ==
  ASSUME ChannelInv, FreesNone, UNCHANGED <<workers, inbox, pipe>>,
         \A w \in WorkerId : worker'[w].current \in {worker[w].current, NoJob},
         \A w \in WorkerId : worker'[w].ready = "pending" => worker[w].ready = "pending",
         \A w \in WorkerId, j \in Job : worker'[w].current = j => job'[j] = job[j],
         OutputsKept
  PROVE  ChannelStep
<1>1. FreeChannels
  BY DEF FreeChannels, FreesNone, Unsent, ChannelInv
<1>2. NoJob \notin Job
  BY PoolAssumption DEF PoolAssumption
<1> QED
  BY <1>1, <1>2 DEF ChannelStep, Kept

\* startJob on a worker whose channels are empty.
LEMMA ChannelsStart ==
  ASSUME NEW W \in Workers, NEW J \in Jobs, NEW w \in WorkerId, NEW j \in Job,
         StartJob(W, J, w, j), Unsent(w)',
         \A v \in WorkerId \ {w} :
           /\ W[v] = worker[v] /\ inbox'[v] = inbox[v] /\ pipe'[v] = pipe[v]
           /\ \A k \in Job : worker[v].current = k => k # j /\ J[k] = job[k]
  PROVE  \A v \in WorkerId, k \in Job :
           worker'[v].current = k => Untouched(v, k)' \/ Kept(v, k)
<1>1. /\ worker'[w].current = j
      /\ \A v \in WorkerId \ {w} : worker'[v] = worker[v]
      /\ \A k \in Job \ {j} : job'[k] = J[k]
      /\ job'[j].ends = {} /\ job'[j].bytes = {}
  BY StartJobJobs
<1>2. Untouched(w, j)'
  BY <1>1 DEF Untouched
<1>3. ASSUME NEW v \in WorkerId \ {w}, NEW k \in Job, worker'[v].current = k
      PROVE  Kept(v, k)
  BY <1>1, <1>3 DEF Kept
<1> QED
  BY <1>1, <1>2, <1>3

\* A job in a worker is pending and waits nowhere else.
LEMMA CurrentJob ==
  ASSUME QueueInv, NEW w \in WorkerId, NEW j \in Job, worker[w].current = j
  PROVE  /\ job[j].promise = "pending" /\ j \notin ToSet(waitingJobs)
         /\ \A v \in WorkerId : worker[v].current = j => v = w
<1> QED
  BY PoolAssumption DEF QueueInv, PoolAssumption

\* Taking the pool out of service moves no byte.
LEMMA ChannelsUnavailable ==
  ASSUME TypeOK, QueueInv, ChannelInv, FreesNone, UNCHANGED <<workers, inbox, pipe>>,
         MarkUnavailable(job)
  PROVE  ChannelStep
<1>0. worker \in Workers /\ job \in Jobs
  BY DEF TypeOK, Workers, Jobs
<1>1. \A w \in WorkerId : /\ worker'[w].current = worker[w].current
                          /\ worker'[w].ready = worker[w].ready
  BY <1>0, HelpersAndJobs DEF MarkUnavailable
<1>2. \A j \in Job : /\ j \notin ToSet(waitingJobs) => job'[j] = job[j]
                     /\ j \in ToSet(waitingJobs) => job'[j].promise = "unavailable"
  BY <1>0, SettleJobs DEF MarkUnavailable
<1>3. \A w \in WorkerId, j \in Job : worker[w].current = j => job'[j] = job[j]
  BY <1>2, CurrentJob
<1>4. OutputsKept
  BY <1>2 DEF OutputsKept
<1> QED
  BY <1>1, <1>3, <1>4, ChannelsRest

\* Calls of the interface move no bytes.
LEMMA ChannelsInterface ==
  ASSUME TypeOK, QueueInv, FreeInv, ChannelInv,
         \/ \E j \in Job : Run(j) \/ Abort(j)
         \/ Warm \/ CloseIdleWorkers \/ Close
  PROVE  ChannelStep
<1> USE DEF pool, shutdown, os
<1>0. worker \in Workers /\ job \in Jobs
  BY DEF TypeOK, Workers, Jobs
<1>1. FreesNone /\ UNCHANGED <<workers, inbox, pipe>>
  BY FreeInterface DEF Run, Abort, Warm, CloseIdleWorkers, Close
<1>2. ASSUME NEW j \in Job, NEW r \in {"unavailable", "aborted", "pending"},
             job' = Settle(job, j, r)
      PROVE  OutputsKept /\ \A k \in Job \ {j} : job'[k] = job[k]
  BY <1>0, <1>2, SettleJobs DEF OutputsKept
<1>3. ASSUME NEW j \in Job, Run(j)
      PROVE  ChannelStep
  <2>1. worker' = worker /\ job[j].promise = "none"
        /\ \E r \in {"unavailable", "aborted", "pending"} : job' = Settle(job, j, r)
    BY <1>3 DEF Run
  <2>2. OutputsKept /\ \A k \in Job \ {j} : job'[k] = job[k]
    BY <1>2, <2>1
  <2>3. \A w \in WorkerId : worker[w].current # j
    BY <2>1, CurrentJob
  <2> QED
    BY <1>1, <2>1, <2>2, <2>3, ChannelsRest
<1>4. ASSUME NEW j \in Job, Abort(j)
      PROVE  ChannelStep
  <2>1. CASE UNCHANGED <<worker, job>>
    BY <1>1, <2>1, ChannelsRest DEF OutputsKept
  <2>2. CASE j \in ToSet(waitingJobs)
    <3>1. worker' = worker /\ job' = Settle(job, j, "aborted")
      BY <1>4, <2>2 DEF Abort
    <3>2. OutputsKept /\ \A k \in Job \ {j} : job'[k] = job[k]
      BY <1>2, <3>1
    <3>3. \A w \in WorkerId : worker[w].current # j
      BY <2>2, CurrentJob
    <3> QED
      BY <1>1, <3>1, <3>2, <3>3, ChannelsRest
  <2>3. ASSUME NEW w \in WorkerId, worker[w].current = j,
               worker' = Reclaim(Clear(worker, w, j), w), job' = Settle(job, j, "aborted")
        PROVE  ChannelStep
    <3>1. OutputsKept /\ \A k \in Job \ {j} : job'[k] = job[k]
      BY <1>2, <2>3
    <3>2. /\ worker'[w].current = NoJob
          /\ \A v \in WorkerId \ {w} : worker'[v].current = worker[v].current
          /\ \A v \in WorkerId : worker'[v].ready = worker[v].ready
      BY <1>0, <2>3, ClearType, HelpersAndJobs
    <3>3. \A v \in WorkerId \ {w} : worker[v].current # j
      BY <2>3, CurrentJob
    <3>4. \A v \in WorkerId, k \in Job : worker'[v].current = k => job'[k] = job[k]
      BY <3>1, <3>2, <3>3, PoolAssumption DEF PoolAssumption
    <3> QED
      BY <1>1, <3>1, <3>2, <3>4, ChannelsRest
  <2> QED
    BY <1>4, <2>1, <2>2, <2>3 DEF Abort
<1>5. CASE Warm
  BY <1>1, <1>5, ChannelsRest DEF Warm, OutputsKept
<1>6. CASE CloseIdleWorkers
  <2>1. job' = job /\ \A w \in WorkerId : /\ worker'[w].current = worker[w].current
                                          /\ worker'[w].ready = worker[w].ready
    BY <1>0, <1>6, HelpersAndJobs DEF CloseIdleWorkers
  <2> QED
    BY <1>1, <2>1, ChannelsRest DEF OutputsKept
<1>7. CASE Close
  BY <1>0, <1>1, <1>7, ChannelsUnavailable DEF Close
<1> QED
  BY <1>3, <1>4, <1>5, <1>6, <1>7

\* A free worker that is not dead takes the first job that waits.
LEMMA ChannelsHand ==
  ASSUME TypeOK, QueueInv, ChannelInv, FreeChannels, waitingJobs # <<>>,
         NEW w \in WorkerId, Free(w), worker[w].current = NoJob,
         StartJob(worker, job, w, Head(waitingJobs)), UNCHANGED <<inbox, pipe>>
  PROVE  ChannelStep
<1>0. worker \in Workers /\ job \in Jobs
  BY DEF TypeOK, Workers, Jobs
<1>1. PICK j \in Job : j = Head(waitingJobs)
  BY SequenceTypes DEF TypeOK
<1>2. j \in ToSet(waitingJobs)
  BY <1>1, TailSet DEF TypeOK
<1>3. job[j].promise = "pending" /\ \A v \in WorkerId : worker[v].current # j
  BY <1>2 DEF QueueInv
<1>4. StartJob(worker, job, w, j)
  BY <1>1
<1>5. OutputsKept
  BY <1>0, <1>3, <1>4, StartJobJobs DEF OutputsKept
<1>6. Unsent(w)'
  BY DEF ChannelInv, Unsent
<1> QED
  <2>1. \A v \in WorkerId, k \in Job : worker'[v].current = k => Untouched(v, k)' \/ Kept(v, k)
    BY <1>0, <1>3, <1>4, <1>6, ChannelsStart
  <2> QED
    BY <1>5, <2>1 DEF ChannelStep

\* The synchronous steps start jobs on workers whose channels are empty.
LEMMA ChannelsSynchronous ==
  ASSUME SafetyInv, QueueInv, FreeInv, ChannelInv, Synchronous
  PROVE  ChannelStep
<1> USE DEF pool, shutdown, os
<1>0. TypeOK /\ worker \in Workers /\ job \in Jobs
  BY DEF SafetyInv, TypeOK, Workers, Jobs
<1>1. /\ FreeInv'
      /\ \A v \in WorkerId : Free(v)' => Free(v) \/ (v \notin workers /\ Unsent(v)')
  BY FreeSynchronous
<1>2. ASSUME UNCHANGED <<workers, inbox, pipe>>
      PROVE  FreeChannels
  BY <1>1, <1>2 DEF FreeChannels, Unsent, ChannelInv
<1>3. ASSUME UNCHANGED <<workers, inbox, pipe, worker, job>>
      PROVE  ChannelStep
  <2>1. FreeChannels
    BY <1>2, <1>3
  <2> QED
    BY <1>3, <2>1 DEF ChannelStep, Kept, OutputsKept
<1>4. CASE DispatchReturn \/ WarmReturn
  BY <1>3, <1>4 DEF DispatchReturn, WarmReturn
<1>5. CASE DispatchToIdleWorker
  <2>1. PICK w \in WorkerId : w = Last(idleWorkers) /\ w \in ToSet(idleWorkers)
    BY <1>0, <1>5, FrontSet, SequenceTypes DEF DispatchToIdleWorker, TypeOK
  <2>2. Free(w) /\ worker[w].current = NoJob
    BY <2>1 DEF Free, FreeInv
  <2>3. /\ StartJob(worker, job, w, Head(waitingJobs)) /\ waitingJobs # <<>>
        /\ UNCHANGED <<workers, inbox, pipe>>
    BY <1>5, <2>1 DEF DispatchToIdleWorker
  <2> QED
    BY <1>0, <1>2, <2>2, <2>3, ChannelsHand
<1>6. ASSUME AssignToNewWorker \/ ReleaseNewWorker
      PROVE  \E w \in WorkerId : w = Head(stack).w /\ Free(w) /\ worker[w].current = NoJob
  <2>1. PICK w \in WorkerId : w = Head(stack).w /\ OnStack(stack, w)
    BY <1>0, <1>6, TopFrame DEF AssignToNewWorker, ReleaseNewWorker, OnStack
  <2> QED
    BY <2>1 DEF Free, FreeInv
<1>7. CASE AssignToNewWorker
  <2>0. UNCHANGED <<workers, inbox, pipe>>
    BY <1>7 DEF AssignToNewWorker
  <2>1. CASE waitingJobs = <<>>
    BY <1>3, <1>7, <2>0, <2>1 DEF AssignToNewWorker
  <2>2. CASE waitingJobs # <<>>
    <3>1. PICK w \in WorkerId : w = Head(stack).w /\ Free(w) /\ worker[w].current = NoJob
      BY <1>6, <1>7
    <3>2. StartJob(worker, job, w, Head(waitingJobs))
      BY <1>7, <2>2, <3>1 DEF AssignToNewWorker
    <3> QED
      BY <1>0, <1>2, <2>0, <2>2, <3>1, <3>2, ChannelsHand
  <2> QED
    BY <2>1, <2>2
<1>8. CASE ReleaseNewWorker
  <2>0. UNCHANGED <<workers, inbox, pipe>>
    BY <1>8 DEF ReleaseNewWorker
  <2>1. PICK w \in WorkerId : w = Head(stack).w /\ Free(w) /\ worker[w].current = NoJob
    BY <1>6, <1>8
  <2>2. ReleaseWorker(worker, job, w)
    BY <1>8, <2>1 DEF ReleaseNewWorker
  <2>3. CASE waitingJobs # <<>> /\ ~worker[w].isDead
    BY <1>0, <1>2, <2>0, <2>1, <2>2, <2>3, ChannelsHand DEF ReleaseWorker
  <2>4. CASE waitingJobs = <<>> \/ worker[w].isDead
    <3>1. job' = job /\ \A v \in WorkerId : /\ worker'[v].current = worker[v].current
                                            /\ worker'[v].ready = worker[v].ready
      BY <1>0, <2>2, <2>4 DEF ReleaseWorker, Workers, WorkerRecord
    <3>2. FreeChannels
      BY <1>2, <2>0
    <3> QED
      BY <2>0, <3>1, <3>2 DEF ChannelStep, Kept, OutputsKept
  <2> QED
    BY <2>3, <2>4
<1>9. ASSUME NEW w \in WorkerId, NEW rest, CreateWorker(w, rest)
      PROVE  ChannelStep
  <2>1. /\ worker'[w].current = NoJob /\ Unsent(w)' /\ job' = job
        /\ \A v \in WorkerId \ {w} : worker'[v] = worker[v]
        /\ workers' \in {workers, workers \cup {w}}
        /\ \A v \in WorkerId \ {w} : inbox'[v] = inbox[v] /\ pipe'[v] = pipe[v]
    BY <1>0, <1>9, NewWorkerShape DEF CreateWorker, TypeOK, Unsent
  <2>2. FreeChannels
    BY <1>1, <2>1 DEF FreeChannels, Unsent, ChannelInv
  <2> QED
    BY <2>1, <2>2, PoolAssumption DEF ChannelStep, Kept, OutputsKept, PoolAssumption
<1> QED
  BY <1>4, <1>5, <1>7, <1>8, <1>9 DEF Synchronous, DispatchToNewWorker, WarmOne

---------------------------------------------------------------------------
\* The reactions, but for the one that sends a job.
LEMMA ChannelsMicrotask ==
  ASSUME SafetyInv, QueueInv, FreeInv, ChannelInv, Microtask, inbox' = inbox
  PROVE  ChannelStep
<1> USE DEF pool, shutdown, os
<1>0. /\ TypeOK /\ worker \in Workers /\ job \in Jobs /\ NoJob \notin Job
  BY PoolAssumption DEF SafetyInv, TypeOK, Workers, Jobs, PoolAssumption
<1>1. FreesNone /\ UNCHANGED <<workers, pipe>>
  BY <1>0, FreeMicrotask DEF Microtask, OnBootFailed, OnReadyRejected, OnReadySend, SendFailed
<1>2. ASSUME NEW w \in WorkerId, NEW j \in Job, worker[w].current = j,
             \/ worker' = Clear(worker, w, j)
             \/ worker' = Kill(Clear(worker, w, j), w),
             job' = Settle(job, j, "unavailable")
      PROVE  ChannelStep
  <2>1. /\ worker'[w].current = NoJob
        /\ \A v \in WorkerId \ {w} : worker'[v].current = worker[v].current
        /\ \A v \in WorkerId : worker'[v].ready = worker[v].ready
    BY <1>0, <1>2, ClearType, HelpersAndJobs
  <2>2. OutputsKept /\ \A k \in Job \ {j} : job'[k] = job[k]
    BY <1>0, <1>2, SettleJobs DEF OutputsKept
  <2>3. \A v \in WorkerId \ {w} : worker[v].current # j
    BY <1>2, CurrentJob
  <2>4. \A v \in WorkerId, k \in Job : worker'[v].current = k => job'[k] = job[k]
    BY <1>0, <2>1, <2>2, <2>3
  <2> QED
    BY <1>1, <2>1, <2>2, <2>4, ChannelsRest
<1>3. ASSUME UNCHANGED <<worker, job>>
      PROVE  ChannelStep
  BY <1>1, <1>3, ChannelsRest DEF OutputsKept
<1>4. CASE OnBootFailed
  BY <1>0, <1>1, <1>3, <1>4, ChannelsUnavailable DEF OnBootFailed
<1>5. CASE OnReadyRejected
  <2>1. PICK w \in WorkerId, j \in Job : w = Head(micro).w /\ j = Head(micro).j
    <3>1. Head(micro) \in ReactionRecord /\ Head(micro).kind = "failReady"
      BY <1>0, <1>5, SequenceTypes DEF OnReadyRejected, Reacting, TypeOK
    <3> QED
      BY <3>1 DEF ReactionRecord
  <2> QED
    BY <1>2, <1>3, <1>5, <2>1 DEF OnReadyRejected, StillCurrent
<1>6. CASE OnReadySend
  BY <1>3, <1>6 DEF OnReadySend
<1>7. ASSUME NEW w \in WorkerId, NEW j \in Job, SendFailed(w, j)
      PROVE  ChannelStep
  BY <1>2, <1>3, <1>7 DEF SendFailed, StillCurrent
<1> QED
  BY <1>4, <1>5, <1>6, <1>7 DEF Microtask

\* The reaction that sends a job: the worker has booted, and nothing of the job
\* has reached it.
LEMMA ChannelsSend ==
  ASSUME SafetyInv, FreeInv, ChannelInv, SendInv, OwnOutputOnly, OnReadySend
  PROVE  ChannelInv' /\ OwnOutputOnly'
<1> USE DEF pool, shutdown, os
<1>0. TypeOK /\ NoJob \notin Job
  BY PoolAssumption DEF SafetyInv, PoolAssumption
<1>1. UNCHANGED <<workers, idleWorkers, stack, worker, job, pipe>>
  BY DEF OnReadySend
<1>2. OwnOutputOnly'
  BY <1>1 DEF OwnOutputOnly
<1>3. PICK w \in WorkerId, j \in Job :
        /\ w = Head(micro).w /\ j = Head(micro).j
        /\ Head(micro) \in ToSet(micro) /\ Head(micro).kind = "send"
  <2>1. /\ Head(micro) \in ReactionRecord /\ Head(micro).kind = "send"
        /\ Head(micro) \in ToSet(micro)
    BY <1>0, SequenceTypes, TailSet DEF OnReadySend, Reacting, TypeOK
  <2> QED
    BY <2>1 DEF ReactionRecord
<1>4. CASE inbox' = inbox
  <2>1. FreeChannels
    BY <1>1, <1>4 DEF FreeChannels, ChannelInv, Free, Unsent
  <2> QED
    BY <1>1, <1>2, <1>4, <2>1, ChannelsMove DEF Kept
<1>5. CASE inbox' # inbox
  <2>1. w \in workers /\ worker[w].current = j /\ inbox' = [inbox EXCEPT ![w] = Append(@, j)]
    BY <1>3, <1>5 DEF OnReadySend, StillCurrent
  <2>2. worker[w].ready # "pending"
    <3>1. Head(micro) = micro[1] /\ 1 \in DOMAIN micro
      <4>1. micro # <<>> /\ micro \in Seq(ReactionRecord)
        BY <1>0 DEF OnReadySend, Reacting, TypeOK
      <4> QED
        BY <4>1, EmptySeq, LenProperties
    <3> QED
      BY <1>3, <2>1, <3>1 DEF SafetyInv, SendsAfterBoot, LiveWorkers
  <2>3. Untouched(w, j) /\ worker[w].ready # "pending"
    BY <1>3, <2>1, <2>2 DEF SendInv
  <2>4. /\ inbox'[w] = <<j>> /\ \A v \in WorkerId \ {w} : inbox'[v] = inbox[v]
    <3>1. Append(<<>>, j) = <<j>>
      OBVIOUS
    <3> QED
      BY <1>0, <2>1, <2>3, <3>1 DEF Untouched, Unsent, TypeOK
  <2>5. Running(w, j)'
    BY <1>1, <2>3, <2>4 DEF Running, Untouched, Unsent
  <2>6. ~Free(w) /\ \A v \in WorkerId : Free(v)' <=> Free(v)
    BY <1>0, <1>1, <2>1 DEF Free, FreeInv
  <2>7. FreeChannels
    BY <1>1, <2>1, <2>4, <2>6 DEF FreeChannels, ChannelInv, Unsent
  <2>8. ASSUME NEW v \in WorkerId, NEW k \in Job, worker'[v].current = k
        PROVE  Kept(v, k) \/ Served(v, k)'
    <3>1. CASE v = w
      BY <1>1, <2>1, <2>3, <2>5, <2>8, <3>1 DEF Served
    <3>2. CASE v # w
      BY <1>1, <2>4, <2>8, <3>2 DEF Kept
    <3> QED
      BY <3>1, <3>2
  <2> QED
    BY <1>2, <2>7, <2>8, ChannelsMove
<1> QED
  BY <1>2, <1>4, <1>5

---------------------------------------------------------------------------
\* A worker that has something to say has booted and is not free.
LEMMA BusyChannel ==
  ASSUME TypeOK, ChannelInv, NEW w \in WorkerId, ~Unsent(w)
  PROVE  /\ ~Free(w) /\ w \in workers
         /\ \A j \in Job : worker[w].current = j =>
              /\ worker[w].ready # "pending"
              /\ job[j].didKillForSize \/ Running(w, j) \/ Printed(w, j)
BY DEF ChannelInv, Untouched

\* What a job's worker says next is the marker of that job.
LEMMA DataRead ==
  ASSUME TypeOK, ChannelInv, NEW w \in WorkerId, NEW s \in Stream, pipe[w][s] # <<>>,
         NEW j \in Job, worker[w].current = j, ~job[j].didKillForSize
  PROVE  /\ Printed(w, j) /\ s \notin job[j].ends /\ Head(pipe[w][s]) = j
         /\ Tail(pipe[w][s]) = <<>> /\ worker[w].ready # "pending"
<1>1. pipe[w] # NoPipe
  BY DEF NoPipe
<1>2. Printed(w, j) /\ worker[w].ready # "pending"
  BY <1>1, BusyChannel DEF Unsent, Running
<1>3. pipe[w][s] = <<j>> /\ s \notin job[j].ends
  BY <1>2 DEF Printed
<1>4. Head(<<j>>) = j /\ Tail(<<j>>) = <<>>
  OBVIOUS
<1> QED
  BY <1>2, <1>3, <1>4

\* The process of a worker ends the job it was sent.
LEMMA ChannelsFinish ==
  ASSUME TypeOK, ChannelInv, OwnOutputOnly, NEW w \in WorkerId, ProcessFinishesJob(w)
  PROVE  ChannelInv' /\ OwnOutputOnly'
<1> USE DEF pool, shutdown, os
<1>1. /\ UNCHANGED <<workers, idleWorkers, stack, worker, job>> /\ inbox[w] # <<>>
      /\ inbox' = [inbox EXCEPT ![w] = Tail(@)]
      /\ pipe' = [pipe EXCEPT ![w] = [s \in Stream |-> Append(@[s], Head(inbox[w]))]]
  BY DEF ProcessFinishesJob
<1>2. /\ ~Free(w) /\ w \in workers
      /\ \A j \in Job : worker[w].current = j =>
           /\ worker[w].ready # "pending"
           /\ job[j].didKillForSize \/ Running(w, j)
  BY <1>1, BusyChannel DEF Unsent, Printed
<1>3. \A v \in WorkerId \ {w} : inbox'[v] = inbox[v] /\ pipe'[v] = pipe[v]
  BY <1>1 DEF TypeOK
<1>4. FreeChannels
  <2>1. \A v \in WorkerId : Free(v)' <=> Free(v)
    BY <1>1 DEF Free
  <2> QED
    BY <1>1, <1>2, <1>3, <2>1 DEF FreeChannels, ChannelInv, Unsent
<1>5. ASSUME NEW j \in Job, Running(w, j)
      PROVE  Printed(w, j)'
  <2>1. Tail(<<j>>) = <<>> /\ Head(<<j>>) = j /\ Append(<<>>, j) = <<j>>
    OBVIOUS
  <2>2. inbox[w] = <<j>> /\ pipe[w] = NoPipe
    BY <1>5 DEF Running
  <2>3. inbox'[w] = <<>>
    BY <1>1, <2>1, <2>2 DEF TypeOK
  <2>4. pipe'[w] = [s \in Stream |-> <<j>>]
    <3>1. pipe'[w] = [s \in Stream |-> Append(pipe[w][s], j)]
      BY <1>1, <2>1, <2>2 DEF TypeOK
    <3> QED
      BY <2>1, <2>2, <3>1 DEF NoPipe
  <2>5. pipe'[w] = [s \in Stream |-> IF s \in job'[j].ends THEN <<>> ELSE <<j>>]
    BY <1>1, <1>5, <2>4 DEF Running
  <2>6. {} # Stream
    BY DEF Stream
  <2> QED
    BY <1>1, <1>5, <2>3, <2>5, <2>6 DEF Printed, Running
<1>6. ASSUME NEW v \in WorkerId, NEW k \in Job, worker'[v].current = k
      PROVE  Kept(v, k) \/ Served(v, k)'
  <2>1. CASE v = w
    BY <1>1, <1>2, <1>5, <1>6, <2>1 DEF Served
  <2>2. CASE v # w
    BY <1>1, <1>3, <1>6, <2>2 DEF Kept
  <2> QED
    BY <2>1, <2>2
<1>7. OwnOutputOnly'
  BY <1>1 DEF OwnOutputOnly
<1> QED
  BY <1>4, <1>6, <1>7, ChannelsMove

\* A marker that does not complete the job.
LEMMA ChannelsData ==
  ASSUME TypeOK, QueueInv, ChannelInv, OwnOutputOnly, NEW w \in WorkerId, NEW s \in Stream,
         pipe[w][s] # <<>>, pipe' = [pipe EXCEPT ![w][s] = Tail(@)],
         UNCHANGED <<workers, idleWorkers, stack, worker, inbox>>,
         NEW j \in Job \cup {NoJob}, j = worker[w].current,
         \/ (j = NoJob \/ job[j].didKillForSize) /\ job' = job
         \/ /\ j # NoJob /\ ~job[j].didKillForSize
            /\ job'[j].bytes = job[j].bytes \cup {Head(pipe[w][s])}
            /\ Head(pipe[w][s]) = j => job'[j].ends = job[j].ends \cup {s}
            /\ job'[j].ends # Stream /\ job'[j].promise = job[j].promise
            /\ \A k \in Job \ {j} : job'[k] = job[k]
  PROVE  ChannelInv' /\ OwnOutputOnly'
<1>0. NoJob \notin Job /\ job \in Jobs
  BY PoolAssumption DEF PoolAssumption, TypeOK, Jobs
<1>1. \A v \in WorkerId \ {w} : pipe'[v] = pipe[v]
  BY DEF TypeOK
<1>2. /\ ~Free(w) /\ w \in workers
      /\ \A k \in Job : worker[w].current = k => worker[w].ready # "pending"
  BY BusyChannel DEF Unsent, NoPipe
<1>3. FreeChannels
  <2>1. \A v \in WorkerId : Free(v)' <=> Free(v)
    BY DEF Free
  <2> QED
    BY <1>1, <1>2, <2>1 DEF FreeChannels, ChannelInv, Unsent
<1>4. CASE j = NoJob \/ job[j].didKillForSize
  <2>1. job' = job
    BY <1>4
  <2>2. ASSUME NEW v \in WorkerId, NEW k \in Job, worker'[v].current = k
        PROVE  Kept(v, k) \/ Served(v, k)'
    <3>1. CASE v = w
      BY <1>0, <1>2, <1>4, <2>1, <2>2, <3>1 DEF Served
    <3>2. CASE v # w
      BY <1>1, <2>1, <2>2, <3>2 DEF Kept
    <3> QED
      BY <3>1, <3>2
  <2> QED
    BY <1>3, <2>1, <2>2, ChannelsMove DEF OwnOutputOnly
<1>5. CASE j # NoJob /\ ~job[j].didKillForSize
  <2>0. j \in Job
    BY <1>5
  <2>1. /\ Printed(w, j) /\ s \notin job[j].ends /\ Head(pipe[w][s]) = j
        /\ Tail(pipe[w][s]) = <<>>
    BY <1>5, <2>0, DataRead
  <2>2. /\ job'[j].ends = job[j].ends \cup {s} /\ job'[j].ends # Stream
        /\ job'[j].bytes = {j} /\ job'[j].promise = job[j].promise
        /\ \A k \in Job \ {j} : job'[k] = job[k]
    <3>1. job[j].bytes \cup {j} = {j}
      BY <2>1 DEF Printed
    <3> QED
      BY <1>5, <2>1, <3>1
  <2>3. pipe'[w] = [t \in Stream |-> IF t \in job'[j].ends THEN <<>> ELSE <<j>>]
    <3>1. pipe'[w] = [pipe[w] EXCEPT ![s] = <<>>]
      BY <2>1 DEF TypeOK
    <3> QED
      BY <2>1, <2>2, <3>1 DEF Printed
  <2>4. Printed(w, j)'
    BY <2>1, <2>2, <2>3 DEF Printed
  <2>5. ASSUME NEW v \in WorkerId, NEW k \in Job, worker'[v].current = k
        PROVE  Kept(v, k) \/ Served(v, k)'
    <3>1. CASE v = w
      BY <1>2, <2>4, <2>5, <3>1 DEF Served
    <3>2. CASE v # w
      <4>1. k # j
        BY <2>0, <2>5, <3>2, CurrentJob
      <4> QED
        BY <1>1, <2>2, <2>5, <3>2, <4>1 DEF Kept
    <3> QED
      BY <3>1, <3>2
  <2>6. OwnOutputOnly'
    <3>1. job[j].promise = "pending"
      BY <2>0, CurrentJob
    <3> QED
      BY <2>2, <3>1 DEF OwnOutputOnly
  <2> QED
    BY <1>3, <2>5, <2>6, ChannelsMove
<1> QED
  BY <1>4, <1>5

\* The records of the jobs after a chunk was collected for job j.
Collect(C, j, from, ends) == [C EXCEPT ![j].bytes = @ \cup {from}, ![j].ends = ends]

\* collectStdout and collectStderr change the output of that job only.
LEMMA Collected ==
  ASSUME NEW C \in Jobs, NEW j \in Job, NEW from \in Job, NEW ends \in SUBSET Stream
  PROVE  LET J == Collect(C, j, from, ends)
         IN  /\ J \in Jobs /\ J[j].bytes = C[j].bytes \cup {from} /\ J[j].ends = ends
             /\ J[j].promise = C[j].promise /\ \A k \in Job \ {j} : J[k] = C[k]
<1>1. C[j] \in JobRecord /\ C[j].bytes \cup {from} \in SUBSET Job
  BY DEF Jobs, JobRecord
<1>2. PICK b \in SUBSET Job : b = C[j].bytes \cup {from}
  BY <1>1
<1>3. LET J == [C EXCEPT ![j].bytes = b, ![j].ends = ends]
      IN  /\ J \in Jobs /\ J[j].bytes = b /\ J[j].ends = ends
          /\ J[j].promise = C[j].promise /\ \A k \in Job \ {j} : J[k] = C[k]
  BY <1>1 DEF Jobs, JobRecord
<1> QED
  BY <1>2, <1>3 DEF Collect

\* The last marker completes the job, and both pipes are empty then.
LEMMA ChannelsComplete ==
  ASSUME SafetyInv, QueueInv, FreeInv, ChannelInv, OwnOutputOnly,
         NEW w \in WorkerId, NEW s \in Stream, WorkerData(w, s),
         pipe[w][s] # <<>>, pipe' = [pipe EXCEPT ![w][s] = Tail(@)],
         UNCHANGED <<workers, inbox>>,
         NEW j \in Job, j = worker[w].current, ~job[j].didKillForSize,
         NEW ends, ends = (IF Head(pipe[w][s]) = j THEN job[j].ends \cup {s} ELSE job[j].ends),
         ends = Stream, NEW J \in Jobs, NEW result \in {"resolved", "spawnFailed"},
         J[j].bytes = job[j].bytes \cup {Head(pipe[w][s])},
         \A k \in Job \ {j} : J[k] = job[k],
         ReleaseWorker(Clear(worker, w, j), Settle(J, j, result), w)
  PROVE  /\ ChannelInv' /\ OwnOutputOnly'
         /\ \A v \in WorkerId, k \in Job : worker'[v].current = k => Untouched(v, k)' \/ Kept(v, k)
<1>0. /\ NoJob \notin Job /\ TypeOK /\ job \in Jobs /\ worker \in Workers
      /\ "resolved" \in Settled /\ "spawnFailed" \in Settled
  BY PoolAssumption DEF PoolAssumption, SafetyInv, TypeOK, Jobs, Workers, Settled, Failure
<1>1. /\ Printed(w, j) /\ s \notin job[j].ends /\ Head(pipe[w][s]) = j
      /\ Tail(pipe[w][s]) = <<>> /\ job[j].promise = "pending"
      /\ \A v \in WorkerId \ {w} : worker[v].current # j
  BY <1>0, DataRead, CurrentJob
<1>2. Unsent(w)' /\ \A v \in WorkerId \ {w} : pipe'[v] = pipe[v]
  <2>1. \A t \in Stream : t = s \/ t \in job[j].ends
    BY <1>1
  <2>2. pipe[w] = [t \in Stream |-> IF t \in job[j].ends THEN <<>> ELSE <<j>>] /\ inbox[w] = <<>>
    BY <1>1 DEF Printed
  <2>3. pipe'[w] = [pipe[w] EXCEPT ![s] = <<>>] /\ \A v \in WorkerId \ {w} : pipe'[v] = pipe[v]
    BY <1>0, <1>1 DEF TypeOK
  <2>4. pipe'[w] = [t \in Stream |-> <<>>]
    BY <2>1, <2>2, <2>3
  <2> QED
    BY <2>2, <2>3, <2>4 DEF Unsent, NoPipe
<1>3. FreeChannels
  <2>1. FreeInv' /\ \A v \in WorkerId : Free(v)' => Free(v) \/ v = w
    BY FreeWorkerEvent DEF WorkerEvent
  <2> QED
    BY <1>2, <2>1 DEF FreeChannels, ChannelInv, Unsent
<1> DEFINE W == Clear(worker, w, j)
           K == Settle(J, j, result)
<1>5. /\ W \in Workers /\ W[w].current = NoJob
      /\ \A v \in WorkerId \ {w} : W[v] = worker[v]
  BY <1>0, ClearType, HelpersAndJobs
<1>6. /\ K \in Jobs /\ K[j].promise = result /\ (result = "resolved" => K[j].bytes = {j})
      /\ \A k \in Job \ {j} : K[k] = job[k]
  <2>1. job[j].bytes \cup {j} = {j}
    BY <1>1 DEF Printed
  <2>2. J[j].bytes = {j}
    BY <1>1, <2>1
  <2>3. result \in Settled \cup {"pending"}
    BY <1>0
  <2>4. K \in Jobs
    BY <2>3, SettleType
  <2>5. /\ K[j].promise = result /\ (result = "resolved" => K[j].bytes = J[j].bytes)
        /\ \A k \in Job \ {j} : K[k] = J[k]
    BY SettleJobs
  <2> QED
    BY <2>2, <2>4, <2>5
<1>7. ReleaseWorker(W, K, w)
  OBVIOUS
<1> HIDE DEF W, K
<1>8. CASE waitingJobs # <<>> /\ ~W[w].isDead
  <2>1. PICK h \in Job : h = Head(waitingJobs) /\ h \in ToSet(waitingJobs)
    BY <1>0, <1>8, TailSet, SequenceTypes DEF TypeOK
  <2>2. /\ StartJob(W, K, w, h) /\ job[h].promise = "pending" /\ h # j
        /\ \A v \in WorkerId : worker[v].current # h
    BY <1>7, <1>8, <2>1 DEF ReleaseWorker, QueueInv
  <2>3. \A v \in WorkerId, k \in Job : worker'[v].current = k => Untouched(v, k)' \/ Kept(v, k)
    BY <1>1, <1>2, <1>5, <1>6, <2>2, ChannelsStart
  <2>4. /\ \A k \in Job : job'[k].promise = K[k].promise
        /\ \A k \in Job \ {h} : job'[k] = K[k]
    BY <1>5, <1>6, <2>2, StartJobJobs
  <2>5. OwnOutputOnly'
    BY <1>6, <2>2, <2>4 DEF OwnOutputOnly
  <2> QED
    BY <1>3, <2>3, <2>5, ChannelsMove
<1>9. CASE waitingJobs = <<>> \/ W[w].isDead
  <2>1. job' = K /\ worker'[w].current = NoJob
        /\ \A v \in WorkerId \ {w} : worker'[v] = worker[v]
    BY <1>5, <1>7, <1>9 DEF ReleaseWorker, Workers, WorkerRecord
  <2>2. \A v \in WorkerId, k \in Job : worker'[v].current = k => Kept(v, k)
    BY <1>0, <1>1, <1>2, <1>6, <2>1 DEF Kept
  <2>3. OwnOutputOnly'
    BY <1>6, <2>1 DEF OwnOutputOnly
  <2> QED
    BY <1>3, <2>2, <2>3, ChannelsMove
<1> QED
  BY <1>8, <1>9

\* The events that neither move a byte nor end a job with its output.
LEMMA ChannelsEvent ==
  ASSUME SafetyInv, QueueInv, FreeInv, ChannelInv, NEW w \in WorkerId,
         \/ BootReady(w) \/ BootFails(w) \/ ReadyTimeout(w) \/ IdleTimeout(w) \/ JobTimeout(w)
         \/ OutputOverflow(w) \/ \E how \in ExitError : WorkerClose(w, how)
  PROVE  ChannelStep
<1> USE DEF pool, shutdown, os
<1>0. /\ TypeOK /\ worker \in Workers /\ job \in Jobs /\ NoJob \notin Job
      /\ worker[w].current \in Job \cup {NoJob}
  BY PoolAssumption DEF SafetyInv, TypeOK, Workers, WorkerRecord, Jobs, PoolAssumption
<1>1. ASSUME UNCHANGED <<workers, idleWorkers, stack, inbox, pipe, job>>,
             \A v \in WorkerId : worker'[v].current = worker[v].current,
             \A v \in WorkerId : worker'[v].ready = "pending" => worker[v].ready = "pending"
      PROVE  ChannelStep
  BY <1>1, ChannelsRest DEF FreesNone, Free, OutputsKept
<1>2. CASE BootReady(w)
  <2>1. /\ \A v \in WorkerId : worker'[v].current = worker[v].current
        /\ \A v \in WorkerId : worker'[v].ready = "pending" => worker[v].ready = "pending"
    BY <1>0, <1>2 DEF BootReady, Workers, WorkerRecord
  <2> QED
    BY <1>1, <1>2, <2>1 DEF BootReady
<1>3. CASE BootFails(w)
  <2> DEFINE V == RejectReady(worker, w)
  <2>1. /\ worker' = [V EXCEPT ![w].booted = TRUE] /\ V \in Workers
        /\ \A v \in WorkerId : V[v].current = worker[v].current
        /\ \A v \in WorkerId : V[v].ready = "pending" => worker[v].ready = "pending"
    BY <1>0, <1>3, RejectReadyType, HelpersAndJobs DEF BootFails
  <2> HIDE DEF V
  <2>2. \A v \in WorkerId : worker'[v].current = V[v].current /\ worker'[v].ready = V[v].ready
    BY <2>1 DEF Workers, WorkerRecord
  <2> QED
    BY <1>1, <1>3, <2>1, <2>2 DEF BootFails
<1>4. CASE ReadyTimeout(w)
  <2> DEFINE V == RejectReady(worker, w)
  <2>1. /\ worker' = Kill(V, w) /\ V \in Workers
        /\ \A v \in WorkerId : V[v].current = worker[v].current
        /\ \A v \in WorkerId : V[v].ready = "pending" => worker[v].ready = "pending"
    BY <1>0, <1>4, RejectReadyType, HelpersAndJobs DEF ReadyTimeout
  <2> HIDE DEF V
  <2>2. \A v \in WorkerId : worker'[v].current = V[v].current /\ worker'[v].ready = V[v].ready
    BY <2>1, HelpersAndJobs
  <2> QED
    BY <1>1, <1>4, <2>1, <2>2 DEF ReadyTimeout
<1>5. CASE IdleTimeout(w)
  BY <1>0, <1>1, <1>5, HelpersAndJobs DEF IdleTimeout
<1>6. CASE JobTimeout(w)
  <2>1. PICK j \in Job : j = worker[w].current
    BY <1>0, <1>6 DEF JobTimeout
  <2>2. worker' = Reclaim(Clear(worker, w, j), w) /\ job' = Settle(job, j, "timeout")
    BY <1>6, <2>1 DEF JobTimeout
  <2>3. /\ worker'[w].current = NoJob
        /\ \A v \in WorkerId \ {w} : worker'[v].current = worker[v].current
        /\ \A v \in WorkerId : worker'[v].ready = worker[v].ready
    BY <1>0, <2>1, <2>2, ClearType, HelpersAndJobs
  <2>4. OutputsKept /\ \A k \in Job \ {j} : job'[k] = job[k]
    BY <1>0, <2>2, SettleJobs DEF OutputsKept
  <2>5. \A v \in WorkerId, k \in Job : worker'[v].current = k => job'[k] = job[k]
    BY <1>0, <2>1, <2>3, <2>4, CurrentJob
  <2>6. FreesNone
    BY <1>6 DEF JobTimeout, FreesNone, Free
  <2> QED
    BY <1>6, <2>3, <2>4, <2>5, <2>6, ChannelsRest DEF JobTimeout
<1>7. CASE OutputOverflow(w)
  <2>1. PICK j \in Job : j = worker[w].current
    BY <1>0, <1>7 DEF OutputOverflow
  <2>2. /\ \A k \in Job \ {j} : job'[k] = job[k]
        /\ job'[j].ends = job[j].ends /\ job'[j].bytes = job[j].bytes
        /\ job'[j].promise = job[j].promise /\ job'[j].didKillForSize
    BY <1>0, <1>7, <2>1 DEF OutputOverflow, Jobs, JobRecord
  <2>3. \A v \in WorkerId : worker'[v].current = worker[v].current /\ worker'[v].ready = worker[v].ready
    BY <1>0, <1>7, HelpersAndJobs DEF OutputOverflow
  <2>4. FreeChannels
    BY <1>7 DEF OutputOverflow, FreeChannels, Free, Unsent, ChannelInv
  <2>5. \A v \in WorkerId, k \in Job : worker'[v].current = k => Kept(v, k)
    BY <1>7, <2>2, <2>3 DEF OutputOverflow, Kept
  <2>6. OutputsKept
    BY <2>2 DEF OutputsKept
  <2> QED
    BY <2>4, <2>5, <2>6 DEF ChannelStep
<1>8. ASSUME NEW how \in ExitError, WorkerClose(w, how)
      PROVE  ChannelStep
  <2>1. /\ worker'[w].current = NoJob /\ \A v \in WorkerId \ {w} : worker'[v] = worker[v]
        /\ inbox'[w] = <<>> /\ pipe'[w] = NoPipe /\ workers' = workers \ {w}
        /\ \A v \in WorkerId \ {w} : inbox'[v] = inbox[v] /\ pipe'[v] = pipe[v]
    BY <1>0, <1>8 DEF WorkerClose, NewWorker, Workers, TypeOK
  <2>2. FreeChannels
    <3>1. \A v \in WorkerId : Free(v)' => Free(v) \/ v = w
      BY <1>8, FreeWorkerEvent DEF WorkerEvent
    <3> QED
      BY <2>1, <3>1 DEF FreeChannels, ChannelInv, Unsent
  <2>3. CASE worker[w].current = NoJob
    <3>1. job' = job
      BY <1>8, <2>3 DEF WorkerClose
    <3> QED
      BY <1>0, <2>1, <2>2, <3>1 DEF ChannelStep, Kept, OutputsKept
  <2>4. CASE worker[w].current # NoJob
    <3>1. PICK j \in Job : j = worker[w].current
      BY <1>0, <2>4
    <3>2. PICK r \in Failure : r = CloseError(w, how)
      BY <1>8, PoolAssumption DEF CloseError, Failure, PoolAssumption
    <3>3. job' = Settle(job, j, r) /\ r # "resolved"
      BY <1>0, <1>8, <3>1, <3>2 DEF WorkerClose, Failure
    <3>4. OutputsKept /\ \A k \in Job \ {j} : job'[k] = job[k]
      BY <1>0, <3>3, SettleJobs DEF OutputsKept
    <3>5. \A v \in WorkerId, k \in Job : worker'[v].current = k => k # j /\ Kept(v, k)
      BY <1>0, <2>1, <3>1, <3>4, CurrentJob DEF Kept
    <3> QED
      BY <2>2, <3>4, <3>5 DEF ChannelStep
  <2> QED
    BY <2>3, <2>4
<1> QED
  BY <1>2, <1>3, <1>4, <1>5, <1>6, <1>7, <1>8

\* Data from a worker goes to the job it has, whose own output it is: a job with
\* both streams ended has all of its bytes and nobody else's.
LEMMA ChannelsWorkerData ==
  ASSUME SafetyInv, QueueInv, FreeInv, ChannelInv, OwnOutputOnly,
         NEW w \in WorkerId, NEW s \in Stream, WorkerData(w, s)
  PROVE  /\ ChannelInv' /\ OwnOutputOnly'
         /\ \/ micro' = micro
            \/ \A v \in WorkerId, k \in Job :
                 worker'[v].current = k => Untouched(v, k)' \/ Kept(v, k)
<1> USE DEF pool, shutdown, os
<1>0. /\ TypeOK /\ job \in Jobs /\ worker[w].current \in Job \cup {NoJob} /\ NoJob \notin Job
  BY PoolAssumption DEF SafetyInv, TypeOK, WorkerRecord, Jobs, PoolAssumption
<1>1. PICK j \in Job \cup {NoJob} : j = worker[w].current
  BY <1>0
<1>2. PICK from \in Job : from = Head(pipe[w][s])
  BY <1>0, SequenceTypes DEF WorkerData, TypeOK
<1>3. PICK ends : ends = IF from = j THEN job[j].ends \cup {s} ELSE job[j].ends
  OBVIOUS
<1> DEFINE J == Collect(job, j, from, ends)
<1>4. /\ pipe[w][s] # <<>> /\ pipe' = [pipe EXCEPT ![w][s] = Tail(@)]
      /\ UNCHANGED <<workers, stack, inbox>>
  BY DEF WorkerData
<1>5. \/ /\ UNCHANGED <<worker, idleWorkers, micro>>
         /\ \/ j = NoJob /\ job' = job
            \/ j # NoJob /\ job[j].didKillForSize /\ job' = job
            \/ j # NoJob /\ ~job[j].didKillForSize /\ ends # Stream /\ job' = J
      \/ /\ j # NoJob /\ ~job[j].didKillForSize /\ ends = Stream
         /\ \E result \in {"resolved", "spawnFailed"} :
              ReleaseWorker(Clear(worker, w, j), Settle(J, j, result), w)
  BY <1>1, <1>2, <1>3 DEF WorkerData, JobEnded, Collect
<1>a. ASSUME j # NoJob
      PROVE  /\ J \in Jobs /\ J[j].bytes = job[j].bytes \cup {from} /\ J[j].ends = ends
             /\ J[j].promise = job[j].promise /\ \A k \in Job \ {j} : J[k] = job[k]
  <2>1. j \in Job /\ job[j].ends \cup {s} \in SUBSET Stream
    BY <1>0, <1>a DEF Jobs, JobRecord
  <2>2. ends \in SUBSET Stream
    BY <1>3, <2>1
  <2> QED
    BY <1>0, <2>1, <2>2, Collected
<1> HIDE DEF J
<1>6. CASE \/ j = NoJob /\ job' = job
           \/ j # NoJob /\ job[j].didKillForSize /\ job' = job
           \/ j # NoJob /\ ~job[j].didKillForSize /\ ends # Stream /\ job' = J
  <2>1. ASSUME UNCHANGED <<worker, idleWorkers, micro>>
        PROVE  ChannelInv' /\ OwnOutputOnly'
    <3>1. \/ (j = NoJob \/ job[j].didKillForSize) /\ job' = job
          \/ /\ j # NoJob /\ ~job[j].didKillForSize
             /\ job'[j].bytes = job[j].bytes \cup {Head(pipe[w][s])}
             /\ Head(pipe[w][s]) = j => job'[j].ends = job[j].ends \cup {s}
             /\ job'[j].ends # Stream /\ job'[j].promise = job[j].promise
             /\ \A k \in Job \ {j} : job'[k] = job[k]
      BY <1>a, <1>2, <1>3, <1>6
    <3>2. UNCHANGED <<workers, idleWorkers, stack, worker, inbox>>
      BY <1>4, <2>1
    <3> QED
      BY <1>0, <1>1, <1>4, <3>1, <3>2, ChannelsData
  <2> QED
    BY <1>5, <1>6, <2>1
<1>7. ASSUME j # NoJob, ~job[j].didKillForSize, ends = Stream,
             NEW result \in {"resolved", "spawnFailed"},
             ReleaseWorker(Clear(worker, w, j), Settle(J, j, result), w)
      PROVE  /\ ChannelInv' /\ OwnOutputOnly'
             /\ \A v \in WorkerId, k \in Job :
                  worker'[v].current = k => Untouched(v, k)' \/ Kept(v, k)
  <2>1. j \in Job
    BY <1>7
  <2> QED
    BY <1>a, <1>1, <1>2, <1>3, <1>4, <1>7, <2>1, ChannelsComplete
<1> QED
  BY <1>5, <1>6, <1>7

---------------------------------------------------------------------------
\* A job that was taken from the queue does not come back to it, and a worker's
\* new job comes from it.
LEMMA JobsAdvance ==
  ASSUME TypeOK, QueueInv, JobStep
  PROVE  /\ \A j \in Job : j \notin ToSet(waitingJobs) /\ job[j].promise # "none" =>
              j \notin ToSet(waitingJobs') /\ job'[j].promise # "none"
         /\ \A w \in WorkerId, j \in Job : worker'[w].current = j =>
              worker[w].current = j \/ j \in ToSet(waitingJobs)
<1>0. /\ waitingJobs \in Seq(Job) /\ IsInjective(waitingJobs) /\ NoJob \notin Job
      /\ {"unavailable", "aborted"} \subseteq Settled /\ "none" \notin Settled
  BY PoolAssumption DEF TypeOK, QueueInv, PoolAssumption, Settled, Failure
<1>1. CASE Rests
  BY <1>1 DEF Rests, SameWorkers, SameJobs
<1>2. CASE Shuts
  BY <1>2 DEF Shuts, SameWorkers, ToSet
<1>3. ASSUME NEW k \in Job, Enqueues(k)
      PROVE  /\ ToSet(waitingJobs') = ToSet(waitingJobs) \cup {k} /\ SameWorkers /\ SameJobsBut(k)
             /\ job[k].promise = "none"
  BY <1>0, <1>3, AppendSet DEF Enqueues
<1>4. ASSUME NEW k \in Job, GivesUp(k)
      PROVE  /\ ToSet(waitingJobs') = ToSet(waitingJobs) \ {k} /\ SameWorkers /\ SameJobsBut(k)
             /\ k \in ToSet(waitingJobs)
  BY <1>0, <1>4, RemoveFirstSet DEF GivesUp
<1>5. ASSUME NEW w \in WorkerId, Hands(w)
      PROVE  /\ ToSet(waitingJobs') \subseteq ToSet(waitingJobs) /\ SameWorkersBut(w)
             /\ worker'[w].current \in ToSet(waitingJobs)
  BY <1>0, <1>5, TailSet DEF Hands
<1>6. ASSUME NEW w \in WorkerId, SettlesJob(w)
      PROVE  \A j \in Job : job[j].promise # "none" => job'[j].promise # "none"
  BY <1>0, <1>6 DEF SettlesJob, SameJobsBut
<1>7. ASSUME NEW k \in Job, Enqueues(k) \/ GivesUp(k) \/ TurnsAway(k)
      PROVE  /\ \A j \in Job : j \notin ToSet(waitingJobs) /\ job[j].promise # "none" =>
                  j \notin ToSet(waitingJobs') /\ job'[j].promise # "none"
             /\ SameWorkers
  BY <1>3, <1>4, <1>7 DEF TurnsAway, SameJobsBut
<1>8. ASSUME NEW w \in WorkerId, StartsJob(w) \/ Finishes(w) \/ FinishesAndStarts(w)
      PROVE  /\ ToSet(waitingJobs') \subseteq ToSet(waitingJobs) /\ SameWorkersBut(w)
             /\ worker'[w].current \in ToSet(waitingJobs) \cup {NoJob}
             /\ \A j \in Job : job[j].promise # "none" => job'[j].promise # "none"
  BY <1>5, <1>6, <1>8 DEF StartsJob, Finishes, FinishesAndStarts, SameJobs
<1> QED
  BY <1>0, <1>1, <1>2, <1>7, <1>8 DEF JobStep, SameWorkers, SameWorkersBut

\* The reactions that were queued before a step.
LEMMA OldSends ==
  ASSUME TypeOK, QueueInv, SendInv, JobStep, NEW r \in ToSet(micro), r.kind # "bootFailed"
  PROVE  /\ r.w \in WorkerId /\ r.j \in Job
         /\ r.j \notin ToSet(waitingJobs') /\ job'[r.j].promise # "none"
         /\ r.kind = "send" /\ worker'[r.w].current = r.j =>
              worker[r.w].current = r.j /\ Untouched(r.w, r.j)
<1>1. r \in ReactionRecord
  BY DEF TypeOK, ToSet
<1>2. r.w \in WorkerId /\ r.j \in Job
  BY <1>1 DEF ReactionRecord
<1> QED
  BY <1>2, JobsAdvance DEF SendInv

\* Taking the first reaction, or appending one for a job without one, leaves at
\* most one send per job.
LEMMA SendsOnceMoves ==
  ASSUME NEW m \in Seq(ReactionRecord), SendsOnce(m)
  PROVE  /\ m # <<>> => SendsOnce(Tail(m))
         /\ m # <<>> /\ Head(m).kind = "send" =>
              \A q \in ToSet(Tail(m)) : q.kind = "send" => q.j # Head(m).j
         /\ \A r \in ReactionRecord :
              (r.kind = "send" => \A q \in ToSet(m) : q.kind = "send" => q.j # r.j) =>
                SendsOnce(Append(m, r))
<1>1. ASSUME m # <<>>
      PROVE  /\ SendsOnce(Tail(m))
             /\ Head(m).kind = "send" => \A q \in ToSet(Tail(m)) : q.kind = "send" => q.j # Head(m).j
  <2> DEFINE t == Tail(m)
  <2>1. /\ DOMAIN t = 1 .. Len(m) - 1 /\ Head(m) = m[1] /\ DOMAIN m = 1 .. Len(m)
        /\ \A i \in 1 .. Len(m) - 1 : t[i] = m[i + 1]
    BY <1>1, HeadTailProperties, LenProperties
  <2> HIDE DEF t
  <2>2. Len(m) \in Nat \ {0}
    BY <1>1, EmptySeq, LenProperties
  <2>3. 1 \in DOMAIN m /\ \A i \in DOMAIN t : i \in Nat /\ i + 1 \in DOMAIN m /\ i + 1 # 1 /\ t[i] = m[i + 1]
    BY <2>1, <2>2
  <2>4. \A a, b \in DOMAIN t : a + 1 = b + 1 => a = b
    BY <2>3
  <2> QED
    BY <2>1, <2>3, <2>4 DEF SendsOnce, ToSet, t
<1>2. ASSUME NEW r \in ReactionRecord,
             r.kind = "send" => \A q \in ToSet(m) : q.kind = "send" => q.j # r.j
      PROVE  SendsOnce(Append(m, r))
  <2> DEFINE t == Append(m, r)
  <2>1. /\ DOMAIN t = 1 .. Len(m) + 1 /\ t[Len(m) + 1] = r /\ DOMAIN m = 1 .. Len(m)
        /\ \A i \in 1 .. Len(m) : t[i] = m[i]
    BY AppendProperties, LenProperties
  <2> HIDE DEF t
  <2>2. Len(m) \in Nat
    BY LenProperties
  <2>3. \A i \in DOMAIN t : i = Len(m) + 1 \/ (i \in DOMAIN m /\ t[i] = m[i] /\ t[i] \in ToSet(m))
    BY <2>1, <2>2 DEF ToSet
  <2> QED
    BY <1>2, <2>1, <2>3 DEF SendsOnce, t
<1> QED
  BY <1>1, <1>2

\* A reaction a step may queue.
NewReaction(r) ==
  r.kind # "bootFailed" =>
    /\ r.j \notin ToSet(waitingJobs') /\ job'[r.j].promise # "none"
    /\ r.kind = "send" => Untouched(r.w, r.j)'

\* Reactions that were queued for a job and new ones for started jobs keep SendInv.
LEMMA SendsMove ==
  ASSUME TypeOK, QueueInv, SendInv, JobStep, SendsOnce(micro'),
         \A r \in ToSet(micro') : r \in ToSet(micro) \/ NewReaction(r),
         \A r \in ToSet(micro') :
           /\ r \in ToSet(micro) /\ r.kind = "send"
           /\ worker[r.w].current = r.j /\ worker'[r.w].current = r.j /\ Untouched(r.w, r.j)
           => Untouched(r.w, r.j)'
  PROVE  SendInv'
<1>1. ASSUME NEW r \in ToSet(micro'), r.kind # "bootFailed"
      PROVE  /\ r.j \notin ToSet(waitingJobs') /\ job'[r.j].promise # "none"
             /\ r.kind = "send" /\ worker'[r.w].current = r.j => Untouched(r.w, r.j)'
  <2>1. CASE r \in ToSet(micro)
    BY <1>1, <2>1, OldSends
  <2>2. CASE NewReaction(r)
    BY <1>1, <2>2 DEF NewReaction
  <2> QED
    BY <2>1, <2>2
<1> QED
  BY <1>1 DEF SendInv

\* A step that queues no reaction and moves no bytes keeps SendInv.
LEMMA SendsKept ==
  ASSUME TypeOK, QueueInv, SendInv, JobStep, micro' = micro \/ (micro # <<>> /\ micro' = Tail(micro)),
         \A w \in WorkerId, j \in Job :
           worker'[w].current = j => Untouched(w, j)' \/ Kept(w, j)
  PROVE  SendInv'
<1>0. micro \in Seq(ReactionRecord) /\ SendsOnce(micro)
  BY DEF TypeOK, SendInv
<1>1. SendsOnce(micro') /\ ToSet(micro') \subseteq ToSet(micro)
  <2>1. CASE micro' = micro
    BY <1>0, <2>1
  <2>2. CASE micro # <<>> /\ micro' = Tail(micro)
    <3>1. SendsOnce(Tail(micro)) /\ ToSet(Tail(micro)) \subseteq ToSet(micro)
      BY <1>0, <2>2, SendsOnceMoves, TailSet
    <3> QED
      BY <2>2, <3>1
  <2> QED
    BY <2>1, <2>2
<1>2. ASSUME NEW r \in ToSet(micro'), r.kind = "send", worker'[r.w].current = r.j,
             Untouched(r.w, r.j)
      PROVE  Untouched(r.w, r.j)'
  <2>1. r.w \in WorkerId /\ r.j \in Job
    BY <1>1, <1>2, OldSends
  <2> QED
    BY <1>2, <2>1 DEF Kept, Untouched, Unsent
<1> QED
  BY <1>1, <1>2, SendsMove

\* So does one that queues a reaction for a job that has none.
LEMMA SendsQueued ==
  ASSUME TypeOK, QueueInv, SendInv, JobStep,
         NEW r \in ReactionRecord, micro' = Append(micro, r), NewReaction(r),
         r.kind = "send" => \A q \in ToSet(micro) : q.kind = "send" => q.j # r.j,
         \A w \in WorkerId, j \in Job :
           worker'[w].current = j => Untouched(w, j)' \/ Kept(w, j)
  PROVE  SendInv'
<1>0. micro \in Seq(ReactionRecord) /\ SendsOnce(micro)
  BY DEF TypeOK, SendInv
<1>1. SendsOnce(micro') /\ ToSet(micro') = ToSet(micro) \cup {r}
  BY <1>0, SendsOnceMoves, AppendSet
<1>2. ASSUME NEW q \in ToSet(micro), q.kind = "send", worker'[q.w].current = q.j,
             Untouched(q.w, q.j)
      PROVE  Untouched(q.w, q.j)'
  <2>1. q.w \in WorkerId /\ q.j \in Job
    BY <1>2, OldSends
  <2> QED
    BY <1>2, <2>1 DEF Kept, Untouched, Unsent
<1> QED
  BY <1>1, <1>2, SendsMove

\* startJob queues the reaction of the job it takes from the queue.
LEMMA SendsStart ==
  ASSUME TypeOK, QueueInv, SendInv, JobStep, waitingJobs # <<>>, waitingJobs' = Tail(waitingJobs),
         NEW W \in Workers, NEW J \in Jobs, NEW w \in WorkerId, StartJob(W, J, w, Head(waitingJobs)),
         \A k \in Job : job[k].promise = "pending" /\ worker[w].current # k => J[k].promise = "pending",
         \A v \in WorkerId, k \in Job :
           worker'[v].current = k => Untouched(v, k)' \/ Kept(v, k)
  PROVE  SendInv'
<1>1. PICK j \in Job : j = Head(waitingJobs) /\ j \in ToSet(waitingJobs) /\ j \notin ToSet(waitingJobs')
  BY SequenceTypes, TailSet DEF TypeOK, QueueInv
<1>2. StartJob(W, J, w, j) /\ job[j].promise = "pending" /\ worker[w].current # j
  BY <1>1 DEF QueueInv
<1>3. worker'[w].current = j /\ job'[j].promise = "pending"
  BY <1>2, StartJobJobs
<1>4. Untouched(w, j)'
  BY <1>2, <1>3 DEF Kept
<1>5. \A q \in ToSet(micro) : q.kind = "send" => q.j # j
  BY <1>1 DEF SendInv
<1>6. ASSUME NEW kind \in {"send", "failReady"}, micro' = Append(micro, Reaction(kind, w, j))
      PROVE  SendInv'
  <2>1. PICK r \in ReactionRecord : r = Reaction(kind, w, j) /\ r.w = w /\ r.j = j
    <3>1. Reaction(kind, w, j) \in ReactionRecord
      BY DEF ReactionRecord, Reaction
    <3>2. Reaction(kind, w, j).w = w /\ Reaction(kind, w, j).j = j
      BY DEF Reaction
    <3> QED
      BY <3>1, <3>2
  <2>2. NewReaction(r)
    BY <1>1, <1>3, <1>4, <2>1 DEF NewReaction
  <2>3. micro' = Append(micro, r)
    BY <1>6, <2>1
  <2> QED
    BY <1>5, <2>1, <2>2, <2>3, SendsQueued
<1>7. \/ micro' = micro
      \/ \E kind \in {"send", "failReady"} : micro' = Append(micro, Reaction(kind, w, j))
  <2>1. W[w].ready \in {"pending", "resolved", "rejected"}
    BY DEF Workers, WorkerRecord
  <2> QED
    BY <1>2, <2>1 DEF StartJob
<1> QED
  BY <1>6, <1>7, SendsKept

\* The synchronous steps queue the send of the job they start, and only that.
LEMMA SendsSynchronous ==
  ASSUME SafetyInv, QueueInv, FreeInv, ChannelInv, SendInv, Synchronous
  PROVE  SendInv'
<1> USE DEF pool, shutdown, os
<1>0. TypeOK /\ worker \in Workers /\ job \in Jobs /\ JobStep
  BY SynchronousJobs DEF SafetyInv, TypeOK, Workers, Jobs
<1>1. \A v \in WorkerId, k \in Job : worker'[v].current = k => Untouched(v, k)' \/ Kept(v, k)
  BY ChannelsSynchronous DEF ChannelStep
<1>2. CASE DispatchReturn \/ WarmReturn
  BY <1>0, <1>1, <1>2, SendsKept DEF DispatchReturn, WarmReturn
<1>3. CASE DispatchToIdleWorker
  <2>1. PICK w \in WorkerId : w = Last(idleWorkers)
    BY <1>0, <1>3, SequenceTypes DEF DispatchToIdleWorker, TypeOK
  <2>2. StartJob(worker, job, w, Head(waitingJobs))
    BY <1>3, <2>1 DEF DispatchToIdleWorker
  <2> QED
    BY <1>0, <1>1, <1>3, <2>2, SendsStart DEF DispatchToIdleWorker
<1>4. CASE AssignToNewWorker
  <2>1. CASE waitingJobs = <<>>
    BY <1>0, <1>1, <1>4, <2>1, SendsKept DEF AssignToNewWorker
  <2>2. CASE waitingJobs # <<>>
    <3>1. PICK w \in WorkerId : w = Head(stack).w
      BY <1>0, <1>4, TopFrame DEF AssignToNewWorker
    <3>2. StartJob(worker, job, w, Head(waitingJobs))
      BY <1>4, <2>2, <3>1 DEF AssignToNewWorker
    <3> QED
      BY <1>0, <1>1, <1>4, <2>2, <3>2, SendsStart DEF AssignToNewWorker
  <2> QED
    BY <2>1, <2>2
<1>5. CASE ReleaseNewWorker
  <2>1. PICK w \in WorkerId : w = Head(stack).w
    BY <1>0, <1>5, TopFrame DEF ReleaseNewWorker
  <2>2. ReleaseWorker(worker, job, w)
    BY <1>5, <2>1 DEF ReleaseNewWorker
  <2>3. CASE waitingJobs # <<>> /\ ~worker[w].isDead
    BY <1>0, <1>1, <2>2, <2>3, SendsStart DEF ReleaseWorker
  <2>4. CASE waitingJobs = <<>> \/ worker[w].isDead
    BY <1>0, <1>1, <2>2, <2>4, SendsKept DEF ReleaseWorker
  <2> QED
    BY <2>3, <2>4
<1>6. ASSUME NEW w \in WorkerId, NEW rest, CreateWorker(w, rest)
      PROVE  SendInv'
  <2>1. CASE micro' = micro
    BY <1>0, <1>1, <2>1, SendsKept
  <2>2. CASE micro' = Append(micro, Reaction("bootFailed", w, NoJob))
    <3>1. PICK r \in ReactionRecord : r = Reaction("bootFailed", w, NoJob) /\ r.kind = "bootFailed"
      <4>1. Reaction("bootFailed", w, NoJob) \in ReactionRecord
        BY DEF Reaction, ReactionRecord
      <4>2. Reaction("bootFailed", w, NoJob).kind = "bootFailed"
        BY DEF Reaction
      <4> QED
        BY <4>1, <4>2
    <3>2. NewReaction(r) /\ micro' = Append(micro, r)
      BY <2>2, <3>1 DEF NewReaction
    <3> QED
      BY <1>0, <1>1, <3>1, <3>2, SendsQueued
  <2> QED
    BY <1>0, <1>6, <2>1, <2>2, NewWorkerShape
<1> QED
  BY <1>2, <1>3, <1>4, <1>5, <1>6 DEF Synchronous, DispatchToNewWorker, WarmOne

\* A reaction is taken from the queue before it runs, so a job is sent once.
LEMMA SendsMicrotask ==
  ASSUME SafetyInv, QueueInv, FreeInv, ChannelInv, SendInv, Microtask
  PROVE  SendInv'
<1> USE DEF pool, shutdown, os
<1>0. TypeOK /\ JobStep /\ SendsOnce(micro)
  BY MicrotaskJobs DEF SafetyInv, SendInv
<1>1. micro' = micro \/ (micro # <<>> /\ micro' = Tail(micro))
  BY DEF Microtask, OnBootFailed, OnReadyRejected, OnReadySend, SendFailed, Reacting
<1>2. CASE inbox' = inbox
  BY <1>0, <1>1, <1>2, SendsKept, ChannelsMicrotask DEF ChannelStep
<1>3. CASE inbox' # inbox
  <2>1. OnReadySend
    BY <1>3 DEF Microtask, OnBootFailed, OnReadyRejected, SendFailed
  <2>2. PICK w \in WorkerId, j \in Job :
          w = Head(micro).w /\ j = Head(micro).j /\ Head(micro).kind = "send"
    <3>1. Head(micro) \in ReactionRecord /\ Head(micro).kind = "send"
      BY <1>0, <2>1, SequenceTypes DEF OnReadySend, Reacting, TypeOK
    <3> QED
      BY <3>1 DEF ReactionRecord
  <2>3. /\ worker[w].current = j /\ UNCHANGED <<worker, job, pipe>>
        /\ inbox' = [inbox EXCEPT ![w] = Append(@, j)] /\ micro # <<>> /\ micro' = Tail(micro)
    BY <1>3, <2>1, <2>2 DEF OnReadySend, StillCurrent, Reacting
  <2>4. /\ SendsOnce(micro') /\ ToSet(micro') \subseteq ToSet(micro)
        /\ \A q \in ToSet(micro') : q.kind = "send" => q.j # j
    <3>1. /\ SendsOnce(Tail(micro)) /\ ToSet(Tail(micro)) \subseteq ToSet(micro)
          /\ \A q \in ToSet(Tail(micro)) : q.kind = "send" => q.j # Head(micro).j
      BY <1>0, <2>2, <2>3, SendsOnceMoves, TailSet DEF TypeOK
    <3> QED
      BY <2>2, <2>3, <3>1
  <2>5. ASSUME NEW r \in ToSet(micro'), r.kind = "send", worker[r.w].current = r.j,
               Untouched(r.w, r.j)
        PROVE  Untouched(r.w, r.j)'
    <3>1. r.w \in WorkerId /\ r.w # w
      BY <1>0, <2>3, <2>4, <2>5, OldSends
    <3> QED
      BY <1>0, <2>3, <2>5, <3>1 DEF Untouched, Unsent, TypeOK
  <2> QED
    BY <1>0, <2>4, <2>5, SendsMove
<1> QED
  BY <1>2, <1>3

\* The event of a worker settles its boot, and the reactions to that are the
\* first ones in the queue.
LEMMA SendsWorkerEvent ==
  ASSUME SafetyInv, QueueInv, FreeInv, ChannelInv, SendInv, OwnOutputOnly,
         NEW w \in WorkerId, WorkerEvent(w)
  PROVE  SendInv'
<1> USE DEF pool, shutdown, os
<1>0. /\ TypeOK /\ worker \in Workers /\ job \in Jobs /\ NoJob \notin Job /\ JobStep
      /\ worker[w].current \in Job \cup {NoJob}
  BY PoolAssumption, WorkerEventJobs
     DEF SafetyInv, TypeOK, Workers, WorkerRecord, Jobs, PoolAssumption
<1>1. micro = <<>> /\ ToSet(<<>>) = {}
  <2>1. Quiet
    BY DEF WorkerEvent, BootReady, BootFails, ReadyTimeout, IdleTimeout, JobTimeout,
         ProcessFinishesJob, OutputOverflow, WorkerData, WorkerClose
  <2>2. DOMAIN <<>> = {}
    OBVIOUS
  <2> QED
    BY <2>1, <2>2 DEF Quiet, ToSet
<1>2. ASSUME micro' = micro
      PROVE  SendInv'
  BY <1>1, <1>2 DEF SendInv
<1>3. CASE IdleTimeout(w) \/ JobTimeout(w) \/ ProcessFinishesJob(w) \/ OutputOverflow(w)
  BY <1>2, <1>3 DEF IdleTimeout, JobTimeout, ProcessFinishesJob, OutputOverflow
<1>4. CASE BootReady(w)
  <2>1. CASE worker[w].ready = "pending" /\ worker[w].current # NoJob
    <3>1. PICK j \in Job : j = worker[w].current
      BY <1>0, <2>1
    <3>2. PICK r \in ReactionRecord : r = Reaction("send", w, j) /\ r.w = w /\ r.j = j
      <4>1. Reaction("send", w, j) \in ReactionRecord
        BY DEF Reaction, ReactionRecord
      <4>2. Reaction("send", w, j).w = w /\ Reaction("send", w, j).j = j
        BY DEF Reaction
      <4> QED
        BY <4>1, <4>2
    <3>3. micro' = Append(micro, r) /\ UNCHANGED <<waitingJobs, job, inbox, pipe>>
      <4>1. Append(<<>>, r) = <<r>>
        OBVIOUS
      <4> QED
        BY <1>1, <1>4, <2>1, <3>1, <3>2, <4>1 DEF BootReady
    <3>4. Untouched(w, j)'
      BY <2>1, <3>1, <3>3 DEF ChannelInv, Untouched, Unsent
    <3>5. NewReaction(r)
      BY <3>1, <3>2, <3>3, <3>4, CurrentJob DEF NewReaction
    <3>6. ChannelStep
      BY <1>4, ChannelsEvent
    <3> QED
      BY <1>0, <1>1, <3>3, <3>5, <3>6, SendsQueued DEF ChannelStep
  <2>2. CASE ~(worker[w].ready = "pending" /\ worker[w].current # NoJob)
    BY <1>1, <1>2, <1>4, <2>2 DEF BootReady
  <2> QED
    BY <2>1, <2>2
<1>5. ASSUME BootFails(w) \/ ReadyTimeout(w) \/ \E how \in ExitError : WorkerClose(w, how)
      PROVE  SendInv'
  <2>1. micro' = RejectionReactions(worker, w) /\ UNCHANGED waitingJobs
    BY <1>5 DEF BootFails, ReadyTimeout, WorkerClose
  <2>2. CASE worker[w].ready # "pending"
    BY <1>1, <1>2, <2>1, <2>2 DEF RejectionReactions
  <2>3. CASE worker[w].ready = "pending" /\ worker[w].current = NoJob
    <3>1. micro' = <<Reaction("bootFailed", w, NoJob)>>
      <4>1. \A x : <<x>> \o <<>> = <<x>>
        OBVIOUS
      <4> QED
        BY <2>1, <2>3, <4>1 DEF RejectionReactions
    <3>2. SendsOnce(micro') /\ \A r \in ToSet(micro') : r.kind = "bootFailed"
      BY <3>1 DEF SendsOnce, ToSet, Reaction
    <3> QED
      BY <3>2 DEF SendInv
  <2>4. CASE worker[w].ready = "pending" /\ worker[w].current # NoJob
    <3>1. PICK j \in Job : j = worker[w].current
      BY <1>0, <2>4
    <3>2. PICK q \in ReactionRecord : q = Reaction("bootFailed", w, NoJob) /\ q.kind = "bootFailed"
      <4>1. Reaction("bootFailed", w, NoJob) \in ReactionRecord
        BY DEF Reaction, ReactionRecord
      <4>2. Reaction("bootFailed", w, NoJob).kind = "bootFailed"
        BY DEF Reaction
      <4> QED
        BY <4>1, <4>2
    <3>3. PICK r \in ReactionRecord :
            r = Reaction("failReady", w, j) /\ r.kind = "failReady" /\ r.j = j
      <4>1. Reaction("failReady", w, j) \in ReactionRecord
        BY DEF Reaction, ReactionRecord
      <4>2. Reaction("failReady", w, j).kind = "failReady" /\ Reaction("failReady", w, j).j = j
        BY DEF Reaction
      <4> QED
        BY <4>1, <4>2
    <3>4. \A i \in DOMAIN micro' : micro'[i] = q \/ micro'[i] = r
      <4>1. micro' = <<q>> \o <<r>>
        BY <2>1, <2>4, <3>1, <3>2, <3>3 DEF RejectionReactions
      <4>2. <<r>> \in Seq(ReactionRecord) /\ Len(<<r>>) = 1 /\ <<r>>[1] = r
        OBVIOUS
      <4>3. DOMAIN micro' = 1 .. 1 + 1 /\ micro'[1] = q /\ micro'[1 + 1] = r
        BY <4>1, <4>2, ConsElements
      <4> QED
        BY <4>3
    <3>6. SendsOnce(micro') /\
          \A x \in ToSet(micro') : x.kind # "send" /\ (x.kind # "bootFailed" => x.j = j)
      BY <3>2, <3>3, <3>4 DEF SendsOnce, ToSet
    <3>5. j \notin ToSet(waitingJobs') /\ job'[j].promise # "none"
      BY <1>0, <2>1, <3>1, CurrentJob, JobsAdvance
    <3> QED
      BY <3>5, <3>6 DEF SendInv
  <2> QED
    BY <2>2, <2>3, <2>4
<1>6. ASSUME NEW s \in Stream, WorkerData(w, s)
      PROVE  SendInv'
  <2>1. CASE micro' = micro
    BY <1>2, <2>1
  <2>2. CASE micro' # micro
    <3>1. \A v \in WorkerId, k \in Job : worker'[v].current = k => Untouched(v, k)' \/ Kept(v, k)
      BY <1>6, <2>2, ChannelsWorkerData
    <3>2. PICK j \in Job : j = worker[w].current
      BY <1>0, <1>6, <2>2 DEF WorkerData
    <3>3. PICK J \in Jobs, result \in {"resolved", "spawnFailed"} :
            /\ \A k \in Job : J[k].promise = job[k].promise
            /\ ReleaseWorker(Clear(worker, w, j), Settle(J, j, result), w)
      BY <1>0, <1>6, <2>2, <3>2, DataOutcome
    <3> DEFINE W == Clear(worker, w, j)
               K == Settle(J, j, result)
    <3>4. W \in Workers /\ K \in Jobs /\ \A k \in Job \ {j} : K[k] = J[k]
      <4>1. result \in Settled \cup {"pending"}
        BY DEF Settled, Failure
      <4>2. K \in Jobs
        BY <4>1, SettleType
      <4>3. \A k \in Job \ {j} : K[k] = J[k]
        BY SettleJobs
      <4> QED
        BY <1>0, <4>2, <4>3, ClearType
    <3>5. ReleaseWorker(W, K, w)
      BY <3>3
    <3> HIDE DEF W, K
    <3>6. /\ waitingJobs # <<>> /\ waitingJobs' = Tail(waitingJobs)
          /\ StartJob(W, K, w, Head(waitingJobs))
      BY <2>2, <3>5 DEF ReleaseWorker
    <3>7. \A k \in Job : job[k].promise = "pending" /\ worker[w].current # k => K[k].promise = "pending"
      BY <3>2, <3>3, <3>4
    <3> QED
      BY <1>0, <3>1, <3>4, <3>6, <3>7, SendsStart
  <2> QED
    BY <2>1, <2>2
<1> QED
  BY <1>3, <1>4, <1>5, <1>6 DEF WorkerEvent

---------------------------------------------------------------------------
\* dispatchWaiting stays on the stack until it returns.
LEMMA DispatchStays ==
  ASSUME NEW s \in Seq(FrameRecord)
  PROVE  /\ s # <<>> /\ Dispatching(s) => Head(s).kind = "dispatch" \/ Dispatching(Tail(s))
         /\ s # <<>> /\ Head(s).kind = "dispatch" => Dispatching(s)
         /\ \A f \in FrameRecord : Dispatching(s) => Dispatching(<<f>> \o s)
<1>0. DOMAIN s = 1 .. Len(s) /\ Len(s) \in Nat
  BY LenProperties
<1>1. ASSUME s # <<>>
      PROVE  /\ Dispatching(s) => Head(s).kind = "dispatch" \/ Dispatching(Tail(s))
             /\ Head(s).kind = "dispatch" => Dispatching(s)
  <2> DEFINE t == Tail(s)
  <2>1. /\ DOMAIN t = 1 .. Len(s) - 1 /\ Head(s) = s[1] /\ 1 \in DOMAIN s
        /\ \A i \in 1 .. Len(s) - 1 : t[i] = s[i + 1]
    BY <1>0, <1>1, HeadTailProperties, LenProperties, EmptySeq
  <2> HIDE DEF t
  <2>2. \A i \in DOMAIN s : i = 1 \/ (i - 1 \in DOMAIN t /\ t[i - 1] = s[i])
    BY <1>0, <2>1
  <2> QED
    BY <2>1, <2>2 DEF Dispatching, t
<1>2. ASSUME NEW f \in FrameRecord, Dispatching(s)
      PROVE  Dispatching(<<f>> \o s)
  <2> DEFINE t == <<f>> \o s
  <2>1. DOMAIN t = 1 .. Len(s) + 1 /\ \A i \in 1 .. Len(s) : t[i + 1] = s[i]
    BY ConsElements
  <2> HIDE DEF t
  <2>2. \A i \in DOMAIN s : i + 1 \in DOMAIN t /\ t[i + 1] = s[i]
    BY <1>0, <2>1
  <2> QED
    BY <1>2, <2>2 DEF Dispatching, t
<1> QED
  BY <1>1, <1>2

\* A step that leaves the workers alone and makes nobody wait keeps WakeupInv.
LEMMA WakeupKept ==
  ASSUME WakeupInv, UNCHANGED <<workers, idleWorkers>>,
         available' /\ waitingJobs' # <<>> => available /\ waitingJobs # <<>>,
         Dispatching(stack) => Dispatching(stack')
  PROVE  WakeupInv'
BY DEF WakeupInv

\* startJob and releaseWorker make no job wait.
LEMMA WakeupRelease ==
  ASSUME WakeupInv, NEW W, NEW J, NEW w, ReleaseWorker(W, J, w),
         UNCHANGED <<workers, available>>, Dispatching(stack) => Dispatching(stack')
  PROVE  WakeupInv'
<1>1. CASE idleWorkers' = idleWorkers /\ (waitingJobs' # <<>> => waitingJobs # <<>>)
  BY <1>1, WakeupKept
<1>2. CASE waitingJobs' = <<>>
  BY <1>2 DEF WakeupInv
<1> QED
  BY <1>1, <1>2 DEF ReleaseWorker

\* dispatchWaiting stops only when nobody waits or no slot is left.
LEMMA WakeupSynchronous ==
  ASSUME SafetyInv, FreeInv, WakeupInv, Synchronous
  PROVE  WakeupInv'
<1> USE DEF pool, shutdown, os
<1>0. /\ stack \in Seq(FrameRecord) /\ TypeOK
      /\ Cardinality(workers) \in Nat /\ Cardinality(workers) <= MaxWorkers /\ MaxWorkers \in Nat
  BY PoolAssumption, FS_CardinalityType
     DEF SafetyInv, TypeOK, Stacks, WorkersBounded, WorkerLimit, PoolAssumption
<1>1. \A kind : Top(kind) /\ kind # "dispatch" =>
        stack # <<>> /\ (Dispatching(stack) => Dispatching(Tail(stack)))
  BY <1>0, DispatchStays DEF Top
<1>2. Top("dispatch") => Dispatching(stack)
  BY <1>0, DispatchStays DEF Top
<1>3. CASE DispatchReturn
  <2>1. \/ waitingJobs' = <<>> \/ ~available'
        \/ idleWorkers' = <<>> /\ ~(Cardinality(workers) < MaxWorkers) /\ workers' = workers
    BY <1>3 DEF DispatchReturn, HasRoom
  <2>2. ~(Cardinality(workers) < MaxWorkers) => Cardinality(workers) = MaxWorkers
    BY <1>0
  <2> QED
    BY <2>1, <2>2 DEF WakeupInv
<1>4. CASE DispatchToIdleWorker
  BY <1>2, <1>4 DEF DispatchToIdleWorker, WakeupInv
<1>5. CASE AssignToNewWorker
  <2>1. CASE waitingJobs = <<>>
    BY <1>5, <2>1 DEF AssignToNewWorker, WakeupInv
  <2>2. CASE waitingJobs # <<>>
    <3>1. Dispatching(stack) => Dispatching(stack')
      BY <1>1, <1>5, <2>2 DEF AssignToNewWorker
    <3> QED
      BY <1>5, <2>2, <3>1, WakeupKept DEF AssignToNewWorker
  <2> QED
    BY <2>1, <2>2
<1>6. CASE WarmReturn
  <2>1. Dispatching(stack) => Dispatching(stack')
    BY <1>1, <1>6 DEF WarmReturn
  <2> QED
    BY <1>6, <2>1, WakeupKept DEF WarmReturn
<1>7. CASE ReleaseNewWorker
  <2>1. Dispatching(stack) => Dispatching(stack')
    BY <1>1, <1>7 DEF ReleaseNewWorker
  <2> QED
    BY <1>7, <2>1, WakeupRelease DEF ReleaseNewWorker
<1>8. ASSUME NEW w \in WorkerId, NEW kind \in {"assign", "release"},
             CreateWorker(w, <<Frame(kind, w)>> \o stack),
             Dispatching(stack) \/ ~available \/ waitingJobs = <<>>
      PROVE  WakeupInv'
  <2>1. Frame(kind, w) \in FrameRecord /\ Frame("dispatch", NoWorker) \in FrameRecord
    BY DEF Frame, FrameRecord
  <2> DEFINE rest == <<Frame(kind, w)>> \o stack
  <2>2. rest \in Seq(FrameRecord) /\ (Dispatching(stack) => Dispatching(rest))
    BY <1>0, <2>1, DispatchStays, ConsElements
  <2>3. stack' \in {rest, <<Frame("dispatch", NoWorker)>> \o rest}
    BY <1>0, <1>8, NewWorkerShape
  <2> HIDE DEF rest
  <2>4. Dispatching(stack) => Dispatching(<<Frame("dispatch", NoWorker)>> \o rest)
    BY <2>1, <2>2, DispatchStays
  <2>5. Dispatching(stack) => Dispatching(stack')
    BY <2>2, <2>3, <2>4
  <2> QED
    BY <1>8, <2>5 DEF CreateWorker, WakeupInv
<1>9. ASSUME NEW w \in WorkerId, DispatchToNewWorker(w)
      PROVE  WakeupInv'
  BY <1>2, <1>8, <1>9 DEF DispatchToNewWorker
<1>10. ASSUME NEW w \in WorkerId, WarmOne(w)
       PROVE  WakeupInv'
  <2>1. Cardinality(workers) # MaxWorkers
    BY <1>0, <1>10 DEF WarmOne, HasRoom
  <2> QED
    BY <1>8, <1>10, <2>1 DEF WarmOne, WakeupInv
<1> QED
  BY <1>3, <1>4, <1>5, <1>6, <1>7, <1>9, <1>10 DEF Synchronous

\* Every step keeps WakeupInv: whoever queues a job or frees a slot dispatches.
LEMMA WakeupStep ==
  ASSUME SafetyInv, FreeInv, WakeupInv, [Next]_vars
  PROVE  WakeupInv'
<1> USE DEF pool, shutdown, os
<1>0. TypeOK /\ Dispatching(<<Frame("dispatch", NoWorker)>>) /\ ~Dispatching(<<>>)
  BY DEF SafetyInv, Dispatching, Frame
<1>1. CASE UNCHANGED vars
  BY <1>1, WakeupKept DEF vars
<1>2. CASE Microtask
  <2>1. CASE OnBootFailed
    <3>1. /\ UNCHANGED <<workers, idleWorkers, stack>>
          /\ ~available' \/ UNCHANGED <<waitingJobs, available>>
      BY <2>1 DEF OnBootFailed, MarkUnavailable
    <3> QED
      BY <3>1, WakeupKept
  <2>2. CASE ~OnBootFailed
    <3>1. UNCHANGED <<workers, idleWorkers, stack, waitingJobs, available>>
      BY <1>2, <2>2 DEF Microtask, OnReadyRejected, OnReadySend, SendFailed
    <3> QED
      BY <3>1, WakeupKept
  <2> QED
    BY <2>1, <2>2
<1>3. ASSUME NEW w \in WorkerId, WorkerEvent(w)
      PROVE  WakeupInv'
  <2>1. ASSUME NEW s \in Stream, WorkerData(w, s)
        PROVE  WakeupInv'
    BY <1>0, <2>1, DataOutcome, WakeupKept, WakeupRelease DEF WorkerData
  <2>2. ASSUME NEW how \in ExitError, WorkerClose(w, how)
        PROVE  WakeupInv'
    BY <1>0, <2>2 DEF WorkerClose, AfterClose, WakeupInv
  <2>3. CASE \/ BootReady(w) \/ BootFails(w) \/ ReadyTimeout(w) \/ IdleTimeout(w)
             \/ JobTimeout(w) \/ ProcessFinishesJob(w) \/ OutputOverflow(w)
    BY <2>3, WakeupKept DEF BootReady, BootFails, ReadyTimeout, IdleTimeout, JobTimeout,
         ProcessFinishesJob, OutputOverflow
  <2> QED
    BY <1>3, <2>1, <2>2, <2>3 DEF WorkerEvent
<1>4. ASSUME NEW j \in Job, Run(j)
      PROVE  WakeupInv'
  <2>1. CASE stack' = <<Frame("dispatch", NoWorker)>>
    BY <1>0, <2>1 DEF WakeupInv
  <2>2. CASE UNCHANGED <<waitingJobs, stack>>
    BY <1>4, <2>2, WakeupKept DEF Run
  <2> QED
    BY <1>4, <2>1, <2>2 DEF Run
<1>5. ASSUME NEW j \in Job, Abort(j)
      PROVE  WakeupInv'
  <2>1. waitingJobs' # <<>> => waitingJobs # <<>>
    BY <1>5 DEF Abort, ToSet
  <2> QED
    BY <1>5, <2>1, WakeupKept DEF Abort
<1>6. CASE Warm
  BY <1>0, <1>6 DEF Warm, WakeupInv
<1>7. CASE CloseIdleWorkers
  BY <1>0, <1>7 DEF CloseIdleWorkers, WakeupInv
<1>8. CASE Close
  BY <1>8 DEF Close, MarkUnavailable, WakeupInv
<1> QED
  BY <1>1, <1>2, <1>3, <1>4, <1>5, <1>6, <1>7, <1>8, WakeupSynchronous DEF Next

---------------------------------------------------------------------------
\* The conjuncts of the invariant, one by one, for the steps of the pool.
LEMMA FreeStep ==
  ASSUME SafetyInv, FreeInv, [Next]_vars
  PROVE  FreeInv'
<1>0. TypeOK
  BY DEF SafetyInv
<1>1. CASE UNCHANGED vars
  BY <1>1 DEF vars, pool, FreeInv, Free
<1> QED
  BY <1>0, <1>1, FreeInterface, FreeSynchronous, FreeMicrotask, FreeWorkerEvent DEF Next

\* Every step keeps the channels of workers and jobs in step.
LEMMA ChannelsStep ==
  ASSUME SafetyInv, QueueInv, FreeInv, ChannelInv, SendInv, OwnOutputOnly, [Next]_vars
  PROVE  ChannelInv' /\ OwnOutputOnly'
<1>0. TypeOK
  BY DEF SafetyInv
<1>1. CASE UNCHANGED vars
  <2>1. /\ UNCHANGED <<worker, workers, job, inbox, pipe>>
        /\ idleWorkers' = idleWorkers
        /\ micro' = micro
        /\ stack' = stack
    BY <1>1 DEF vars, pool, os
  <2>2. OwnOutputOnly'
    BY <2>1 DEF OwnOutputOnly
  <2>3. FreeChannels
    BY <2>1 DEF FreeChannels, ChannelInv, Free, Unsent
  <2>4. \A w \in WorkerId, j \in Job : worker'[w].current = j => Kept(w, j)
    BY <2>1 DEF Kept
  <2>5. ChannelInv'
    BY <2>3, <2>4, ChannelsMove
  <2> QED
    BY <2>2, <2>5
<1>2. CASE Microtask
  <2>1. CASE inbox' = inbox
    BY <1>2, <2>1, ChannelsMicrotask, ChannelsKept
  <2>2. CASE inbox' # inbox
    <3>1. OnReadySend
      BY <1>2, <2>2 DEF Microtask, OnBootFailed, OnReadyRejected, SendFailed, os
    <3> QED
      BY <3>1, ChannelsSend
  <2> QED
    BY <2>1, <2>2
<1>3. ASSUME NEW w \in WorkerId, WorkerEvent(w)
      PROVE  ChannelInv' /\ OwnOutputOnly'
  BY <1>0, <1>3, ChannelsEvent, ChannelsKept, ChannelsFinish, ChannelsWorkerData DEF WorkerEvent
<1> QED
  BY <1>0, <1>1, <1>2, <1>3, ChannelsInterface, ChannelsSynchronous, ChannelsKept DEF Next

\* Every step keeps the queued reactions in step with the jobs.
LEMMA SendsStep ==
  ASSUME SafetyInv, QueueInv, FreeInv, ChannelInv, SendInv, OwnOutputOnly, [Next]_vars
  PROVE  SendInv'
<1>0. TypeOK
  BY DEF SafetyInv
<1>1. CASE UNCHANGED vars
  BY <1>1 DEF vars, pool, os, SendInv, Unsent, Untouched
<1>2. CASE (\E j \in Job : Run(j) \/ Abort(j)) \/ Warm \/ CloseIdleWorkers \/ Close
  <2>1. ChannelStep /\ JobStep
    BY <1>0, <1>2, ChannelsInterface, InterfaceJobs
  <2>2. micro' = micro
    BY <1>2 DEF Run, Abort, Warm, CloseIdleWorkers, Close
  <2> QED
    BY <1>0, <2>1, <2>2, SendsKept DEF ChannelStep
<1> QED
  BY <1>1, <1>2, SendsSynchronous, SendsMicrotask, SendsWorkerEvent DEF Next

\* In the initial state nothing waits, runs or has been sent.
LEMMA JobsInit ==
  ASSUME Init
  PROVE  JobsInv
<1>1. /\ waitingJobs = <<>> /\ idleWorkers = <<>> /\ stack = <<>> /\ micro = <<>> /\ workers = {}
      /\ \A w \in WorkerId : worker[w].current = NoJob /\ inbox[w] = <<>> /\ pipe[w] = NoPipe
      /\ \A j \in Job : job[j].promise = "none"
  BY DEF Init, NewWorker, NewJob
<1>2. DOMAIN <<>> = {} /\ ToSet(<<>>) = {} /\ IsInjective(<<>>)
  <2>1. DOMAIN <<>> = {}
    OBVIOUS
  <2> QED
    BY <2>1 DEF ToSet, IsInjective
<1>3. NoJob \notin Job
  BY PoolAssumption DEF PoolAssumption
<1>4. QueueInv
  BY <1>1, <1>2, <1>3 DEF QueueInv
<1>5. FreeInv
  BY <1>1, <1>2, NobodyWaits DEF FreeInv, Free
<1>6. ChannelInv
  BY <1>1, <1>3 DEF ChannelInv, Unsent
<1>7. SendInv
  BY <1>1, <1>2 DEF SendInv, SendsOnce
<1>8. WakeupInv /\ OwnOutputOnly
  BY <1>1 DEF WakeupInv, OwnOutputOnly
<1> QED
  BY <1>4, <1>5, <1>6, <1>7, <1>8 DEF JobsInv

\* The inductive invariant of the jobs, on top of the one of the processes.
THEOREM JobsInvariance == Spec => [](SafetyInv /\ JobsInv)
<1>1. Init => JobsInv
  BY JobsInit
<1>2. SafetyInv /\ JobsInv /\ [Next]_vars => JobsInv'
  <2> SUFFICES ASSUME SafetyInv, JobsInv, [Next]_vars
               PROVE  JobsInv'
    OBVIOUS
  <2>1. TypeOK /\ JobStep
    BY JobSteps DEF SafetyInv, JobsInv
  <2>2. QueueInv' /\ FreeInv' /\ WakeupInv'
    BY <2>1, QueueStep, FreeStep, WakeupStep DEF JobsInv
  <2>3. ChannelInv' /\ OwnOutputOnly' /\ SendInv'
    BY ChannelsStep, SendsStep DEF JobsInv
  <2> QED
    BY <2>2, <2>3 DEF JobsInv
<1> QED
  BY <1>1, <1>2, SafetyInvariance, PTL DEF Spec

\* A job whose promise is pending is in exactly one place, the waiting queue or
\* one worker, and every other job in none.
THEOREM JobsAreInOnePlace == Spec => []JobInOnePlace
<1>1. SafetyInv /\ JobsInv => JobInOnePlace
  <2> SUFFICES ASSUME SafetyInv, JobsInv, NEW j \in Job
               PROVE  Cardinality(Holders(j)) = IF job[j].promise = "pending" THEN 1 ELSE 0
    BY DEF JobInOnePlace
  <2>0. QueueInv
    BY DEF JobsInv
  <2>1. CASE job[j].promise # "pending"
    <3>1. j \notin ToSet(waitingJobs) /\ \A w \in WorkerId : worker[w].current # j
      BY <2>0, <2>1 DEF QueueInv
    <3>2. Holders(j) = {}
      BY <3>1 DEF Holders, ToSet
    <3> QED
      BY <2>1, <3>2, FS_EmptySet
  <2>2. ASSUME NEW i \in DOMAIN waitingJobs, waitingJobs[i] = j
        PROVE  Holders(j) = {<<"queue", i>>}
    <3>1. j \in ToSet(waitingJobs)
      BY <2>2 DEF ToSet
    <3>2. \A w \in WorkerId : worker[w].current # j
      BY <2>0, <3>1 DEF QueueInv
    <3>3. \A k \in DOMAIN waitingJobs : waitingJobs[k] = j => k = i
      BY <2>0, <2>2 DEF QueueInv, IsInjective
    <3> QED
      BY <2>2, <3>2, <3>3 DEF Holders
  <2>3. ASSUME NEW w \in WorkerId, worker[w].current = j
        PROVE  Holders(j) = {<<"worker", w>>}
    <3>1. j \notin ToSet(waitingJobs) /\ \A v \in WorkerId : worker[v].current = j => v = w
      BY <2>0, <2>3, CurrentJob
    <3> QED
      BY <2>3, <3>1 DEF Holders, ToSet
  <2>4. CASE job[j].promise = "pending"
    <3>1. \E h : Holders(j) = {h}
      BY <2>0, <2>2, <2>3, <2>4 DEF QueueInv, ToSet
    <3> QED
      BY <2>4, <3>1, FS_Singleton
  <2> QED
    BY <2>1, <2>4
<1> QED
  BY <1>1, JobsInvariance, PTL

\* Between handlers jobs wait only for a worker slot.
THEOREM NoWakeupIsLost == Spec => []NoLostWakeup
<1>1. SafetyInv /\ JobsInv => NoLostWakeup
  BY DEF JobsInv, WakeupInv, Dispatching, NoLostWakeup
<1> QED
  BY <1>1, JobsInvariance, PTL

\* A resolved job was given its own bytes and no other job's.
THEOREM OutputIsOwn == Spec => []OwnOutputOnly
<1>1. SafetyInv /\ JobsInv => OwnOutputOnly
  BY DEF JobsInv
<1> QED
  BY <1>1, JobsInvariance, PTL

\* The outcome of a job never changes.
THEOREM OutcomesStand == Spec => SettledOnce
<1>1. SafetyInv /\ JobsInv /\ [Next]_vars =>
        [\A j \in Job : job[j].promise \in Settled => job'[j].promise = job[j].promise]_vars
  <2> SUFFICES ASSUME SafetyInv, JobsInv, [Next]_vars
               PROVE  \A j \in Job : job[j].promise \in Settled => job'[j].promise = job[j].promise
    OBVIOUS
  <2>1. TypeOK /\ QueueInv /\ JobStep
    BY JobSteps DEF SafetyInv, JobsInv
  <2> QED
    BY <2>1, SettledStays
<1> QED
  BY <1>1, JobsInvariance, PTL DEF Spec, SettledOnce

\* The pool implements the service callers rely on: a queue that starts jobs in
\* order and settles each of them once.
THEOREM PoolImplementsService == Spec => ImplementsService
<1>1. Init => Abstract!SInit
  <2> SUFFICES ASSUME Init
               PROVE  Abstract!SInit
    OBVIOUS
  <2>1. /\ available = TRUE /\ waitingJobs = <<>>
        /\ \A w \in WorkerId : worker[w].current = NoJob
        /\ \A j \in Job : job[j].promise = "none"
    BY DEF Init, NewWorker, NewJob
  <2>2. Started = {}
    BY <2>1 DEF Started
  <2>3. [j \in Job |-> IF job[j].promise = "pending" THEN "none" ELSE job[j].promise]
        = [j \in Job |-> "none"]
    BY <2>1
  <2> QED
    BY <2>1, <2>2, <2>3 DEF Abstract!SInit
<1>2. SafetyInv /\ JobsInv /\ [Next]_vars => [Abstract!SNext]_(Abstract!svars)
  <2> SUFFICES ASSUME SafetyInv, JobsInv, [Next]_vars
               PROVE  [Abstract!SNext]_(Abstract!svars)
    OBVIOUS
  <2>1. TypeOK /\ QueueInv /\ JobStep
    BY JobSteps DEF SafetyInv, JobsInv
  <2> QED
    BY <2>1, ServiceStep
<1> QED
  BY <1>1, <1>2, JobsInvariance, PTL DEF Spec, ImplementsService, Abstract!SSpec
=============================================================================
