------------------------- MODULE OxlintJobsProofs -------------------------
(***************************************************************************)
(* What a job that may change from the pool to a process of its own leaves *)
(* behind, for any number of jobs and every way of failing.                *)
(***************************************************************************)
EXTENDS OxlintJobs, SequenceLemmas

Shapes ==
  /\ queue \in Seq(Job)
  /\ stage \in [Job -> Stages]
  /\ child \in [Job -> {"none", "alive", "dying", "closed"}]
  /\ outcome \in [Job -> Outcomes \cup {"none", "unavailable"}]
  /\ result \in [Job -> Outcomes \cup {"none", "unavailable"}]
  /\ listener \subseteq Job /\ timer \subseteq Job

\* The pool has a job in one place, so that one it has settled stays settled.
Queued(j) == \E i \in DOMAIN queue : queue[i] = j
QueueOnce == \A a, b \in DOMAIN queue : queue[a] = queue[b] => a = b
PoolInv ==
  /\ QueueOnce
  /\ \A j \in Job :
       /\ j \in started => ~Queued(j) /\ result[j] = "none"
       /\ Queued(j) => result[j] = "none"
       /\ stage[j] = "new" => result[j] = "none" /\ j \notin started /\ ~Queued(j)

\* A process belongs to a job the pool does not have, and it lives only while the
\* job listens for the abort.
ProcessInv ==
  \A j \in Job :
    /\ stage[j] \in {"new", "pooled"} => child[j] = "none" /\ outcome[j] = "none"
    /\ child[j] # "none" => result[j] \in {"none", "unavailable"} /\ j \notin started /\ ~Queued(j)
    /\ stage[j] = "timing" => child[j] = "closed"
    /\ child[j] = "alive" => j \in listener
    /\ j \in listener => outcome[j] = "none" /\ child[j] \in {"alive", "dying"}
    /\ j \in timer => child[j] \in {"alive", "dying"}

IInv == Shapes /\ PoolInv /\ ProcessInv

---------------------------------------------------------------------------
\* What the queue holds after each operation of the pool on it.
LEMMA QueueSteps ==
  ASSUME queue \in Seq(Job), QueueOnce
  PROVE  /\ \A j : j \in ToSet(queue) <=> Queued(j)
         /\ \A j \in Job : queue' = Append(queue, j) /\ ~Queued(j) =>
              /\ queue' \in Seq(Job) /\ QueueOnce'
              /\ \A k : Queued(k)' <=> Queued(k) \/ k = j
         /\ \A j \in Job : queue' = RemoveFirst(queue, j) =>
              /\ queue' \in Seq(Job) /\ QueueOnce'
              /\ \A k : Queued(k)' <=> Queued(k) /\ k # j
         /\ queue # <<>> /\ queue' = Tail(queue) =>
              /\ queue' \in Seq(Job) /\ QueueOnce' /\ Head(queue) \in Job /\ Queued(Head(queue))
              /\ \A k : Queued(k)' <=> Queued(k) /\ k # Head(queue)
<1>1. \A j : j \in ToSet(queue) <=> Queued(j)
  BY DEF ToSet, Queued
<1>2. DOMAIN queue = 1 .. Len(queue) /\ Len(queue) \in Nat
  BY LenProperties
<1>3. ASSUME NEW j \in Job, queue' = Append(queue, j), ~Queued(j)
      PROVE  /\ queue' \in Seq(Job) /\ QueueOnce'
             /\ \A k : Queued(k)' <=> Queued(k) \/ k = j
  <2>1. /\ queue' \in Seq(Job) /\ Len(queue') = Len(queue) + 1
        /\ \A i \in 1 .. Len(queue) : queue'[i] = queue[i]
        /\ queue'[Len(queue) + 1] = j
    BY <1>3, AppendProperties
  <2>2. DOMAIN queue' = 1 .. Len(queue) + 1
    BY <2>1, LenProperties
  <2> QED
    BY <1>2, <1>3, <2>1, <2>2 DEF Queued, QueueOnce
<1>4. ASSUME NEW j \in Job, queue' = RemoveFirst(queue, j)
      PROVE  /\ queue' \in Seq(Job) /\ QueueOnce'
             /\ \A k : Queued(k)' <=> Queued(k) /\ k # j
  <2>1. queue' \in Seq(Job)
    BY <1>4, SequenceTypes
  <2>2. CASE \A i \in DOMAIN queue : queue[i] # j
    <3>1. queue' = queue
      BY <1>4, <2>2, RemoveFirstCases
    <3> QED
      BY <2>1, <2>2, <3>1 DEF Queued, QueueOnce
  <2>3. CASE \E i \in DOMAIN queue : queue[i] = j
    <3>1. PICK i \in DOMAIN queue : queue[i] = j /\ queue' = RemoveAt(queue, i)
      BY <1>4, <2>3, RemoveFirstCases
    <3>2. \A a, b \in DOMAIN queue : queue[a] = queue[b] => a = b
      BY DEF QueueOnce
    <3>3. /\ \A a, b \in DOMAIN queue' : queue'[a] = queue'[b] => a = b
          /\ \A x : (\E a \in DOMAIN queue' : queue'[a] = x)
                       <=> (\E a \in DOMAIN queue : queue[a] = x) /\ x # queue[i]
      <4>1. \A r : r = RemoveAt(queue, i) =>
              /\ \A a, b \in DOMAIN r : r[a] = r[b] => a = b
              /\ \A x : (\E a \in DOMAIN r : r[a] = x)
                           <=> (\E a \in DOMAIN queue : queue[a] = x) /\ x # queue[i]
        BY <3>2, RemoveAtOnce, Zenon
      <4>2. queue' = RemoveAt(queue, i)
        BY <3>1
      <4> HIDE DEF QueueOnce
      <4> QED
        BY <4>1, <4>2
    <3>4. QueueOnce'
      BY <3>3 DEF QueueOnce
    <3>5. \A k : Queued(k)' <=> Queued(k) /\ k # j
      BY <3>1, <3>3 DEF Queued
    <3> QED
      BY <2>1, <3>4, <3>5
  <2> QED
    BY <2>2, <2>3
<1>5. ASSUME queue # <<>>, queue' = Tail(queue)
      PROVE  /\ queue' \in Seq(Job) /\ QueueOnce' /\ Head(queue) \in Job /\ Queued(Head(queue))
             /\ \A k : Queued(k)' <=> Queued(k) /\ k # Head(queue)
  <2>1. /\ Head(queue) \in Job /\ queue' \in Seq(Job) /\ Head(queue) = queue[1]
        /\ Len(queue') = Len(queue) - 1 /\ Len(queue) >= 1
        /\ \A i \in 1 .. Len(queue) - 1 : queue'[i] = queue[i + 1]
    <3>1. Len(queue) \in Nat \ {0}
      BY <1>5, <1>2, EmptySeq
    <3> QED
      BY <1>5, <3>1, HeadTailProperties
  <2>2. DOMAIN queue' = 1 .. Len(queue) - 1
    BY <2>1, LenProperties
  <2>3. \A k, i : i \in DOMAIN queue /\ queue[i] = k /\ k # Head(queue) => i - 1 \in DOMAIN queue' /\ queue'[i - 1] = k
    BY <1>2, <2>1, <2>2
  <2>4. \A i \in DOMAIN queue' : i + 1 \in DOMAIN queue /\ queue'[i] = queue[i + 1] /\ i + 1 # 1
    BY <1>2, <2>1, <2>2
  <2>5. \A k : Queued(k) /\ k # Head(queue) => Queued(k)'
    BY <2>3 DEF Queued
  <2>6. \A k : Queued(k)' => Queued(k) /\ k # Head(queue)
    BY <1>2, <2>1, <2>4 DEF Queued, QueueOnce
  <2>7. QueueOnce'
    <3> SUFFICES ASSUME NEW a \in DOMAIN queue', NEW b \in DOMAIN queue', queue'[a] = queue'[b]
                 PROVE  a = b
      BY DEF QueueOnce
    <3>1. a + 1 = b + 1
      BY <2>4 DEF QueueOnce
    <3> QED
      BY <3>1, <2>2
  <2>8. Queued(Head(queue))
    BY <1>2, <2>1 DEF Queued
  <2> QED
    BY <2>1, <2>5, <2>6, <2>7, <2>8
<1> QED
  BY <1>1, <1>3, <1>4, <1>5

\* A step of a process leaves the pool alone.
LEMMA QuietPool ==
  ASSUME UNCHANGED pool, PoolInv, \A j \in Job : stage'[j] = "new" => stage[j] = "new"
  PROVE  PoolInv' /\ \A j \in Job : Queued(j)' <=> Queued(j)
BY DEF pool, PoolInv, QueueOnce, Queued

\* The operators on sequences of the instance of the pool are those of this module.
LEMMA PoolSequences == \A j : Pool!ToSet(queue) = ToSet(queue) /\ Pool!RemoveFirst(queue, j) = RemoveFirst(queue, j)
BY DEF Pool!ToSet, ToSet, Pool!RemoveFirst, RemoveFirst, Pool!RemoveAt, RemoveAt,
       Pool!SelectInSeq, SelectInSeq, Pool!Min, Min

\* A step of the pool, which leaves processes and callers alone.
LEMMA PoolSteps ==
  ASSUME IInv, PoolStep
  PROVE  IInv'
<1> USE DEF IInv, PoolStep, process
<1>0. \A j : j \in ToSet(queue) <=> Queued(j)
  BY QueueSteps DEF Shapes, PoolInv
<1>1. CASE Pool!Start
  <2>1. /\ queue' \in Seq(Job) /\ QueueOnce' /\ Head(queue) \in Job /\ Queued(Head(queue))
        /\ \A k : Queued(k)' <=> Queued(k) /\ k # Head(queue)
    BY <1>1, QueueSteps DEF Pool!Start, Shapes, PoolInv
  <2>2. started' = started \cup {Head(queue)} /\ result' = result
    BY <1>1 DEF Pool!Start
  <2>3. Shapes'
    BY <2>1, <2>2 DEF Shapes
  <2>4. PoolInv'
    BY <2>1, <2>2 DEF PoolInv
  <2>5. ProcessInv'
    BY <2>1, <2>2 DEF ProcessInv
  <2> QED
    BY <2>3, <2>4, <2>5
<1>2. CASE Pool!Shut
  <2>1. queue' = <<>> /\ started' = started
        /\ result' = [j \in Job |-> IF Queued(j) THEN "unavailable" ELSE result[j]]
    BY <1>0, <1>2, PoolSequences DEF Pool!Shut
  <2>2. \A k : ~Queued(k)'
    BY <2>1 DEF Queued
  <2>3. queue' \in Seq(Job) /\ QueueOnce'
    BY <2>1 DEF QueueOnce
  <2>4. Shapes'
    BY <2>1, <2>3 DEF Shapes, Outcomes
  <2>5. PoolInv'
    BY <2>1, <2>2, <2>3 DEF PoolInv
  <2>6. ProcessInv'
    BY <2>1, <2>2 DEF ProcessInv
  <2> QED
    BY <2>4, <2>5, <2>6
<1>3. ASSUME NEW j \in Job, Pool!Finish(j)
      PROVE  IInv'
  <2>1. /\ j \in started
        /\ \E r \in Failure \cup {"resolved"} : result' = [result EXCEPT ![j] = r]
        /\ \/ started' = started \ {j} /\ queue' = queue
           \/ /\ queue # <<>>
              /\ started' = (started \ {j}) \cup {Head(queue)}
              /\ queue' = Tail(queue)
    BY <1>3 DEF Pool!Finish
  <2>2. PICK r \in Failure \cup {"resolved"} : result' = [result EXCEPT ![j] = r]
    BY <2>1
  <2>3. CASE started' = started \ {j} /\ queue' = queue
    <3>1. QueueOnce' /\ \A k : Queued(k)' <=> Queued(k)
      BY <2>3 DEF Queued, QueueOnce, PoolInv
    <3>2. Shapes'
      BY <2>2, <2>3 DEF Shapes, Outcomes
    <3>3. PoolInv'
      BY <2>1, <2>2, <2>3, <3>1 DEF PoolInv, Shapes
    <3>4. ProcessInv'
      BY <2>1, <2>2, <2>3, <3>1 DEF ProcessInv, Shapes
    <3> QED
      BY <3>2, <3>3, <3>4
  <2>4. CASE queue # <<>> /\ started' = (started \ {j}) \cup {Head(queue)} /\ queue' = Tail(queue)
    <3>1. /\ queue' \in Seq(Job) /\ QueueOnce' /\ Head(queue) \in Job /\ Queued(Head(queue))
          /\ \A k : Queued(k)' <=> Queued(k) /\ k # Head(queue)
      BY <2>4, QueueSteps DEF Shapes, PoolInv
    <3>2. Shapes'
      BY <2>2, <2>4, <3>1 DEF Shapes, Outcomes
    <3>3. PoolInv'
      BY <2>1, <2>2, <2>4, <3>1 DEF PoolInv, Shapes
    <3>4. ProcessInv'
      BY <2>1, <2>2, <2>4, <3>1 DEF ProcessInv, Shapes
    <3> QED
      BY <3>2, <3>3, <3>4
  <2> QED
    BY <2>1, <2>3, <2>4
<1>4. ASSUME NEW j \in Job, Pool!GiveUp(j)
      PROVE  IInv'
  <2>1. /\ Queued(j) /\ started' = started
        /\ queue' = RemoveFirst(queue, j)
        /\ result' = [result EXCEPT ![j] = "aborted"]
    BY <1>0, <1>4, PoolSequences DEF Pool!GiveUp
  <2>2. /\ queue' \in Seq(Job) /\ QueueOnce'
        /\ \A k : Queued(k)' <=> Queued(k) /\ k # j
    BY <2>1, QueueSteps DEF Shapes, PoolInv
  <2>3. Shapes'
    BY <2>1, <2>2 DEF Shapes, Outcomes
  <2>4. PoolInv'
    BY <2>1, <2>2 DEF PoolInv, Shapes
  <2>5. ProcessInv'
    BY <2>1, <2>2 DEF ProcessInv, Shapes
  <2> QED
    BY <2>3, <2>4, <2>5
<1> QED
  BY <1>1, <1>2, <1>3, <1>4

\* The steps of spawnOxlint and its caller for one job.
LEMMA ProcessSteps ==
  ASSUME IInv, NEW j \in Job,
         \/ PoolAnswers(j) \/ TimerFires(j) \/ Output(j)
         \/ SpawnError(j) \/ Close(j) \/ Timings(j) \/ Abort
  PROVE  IInv'
<1> USE DEF IInv, process
<1>1. UNCHANGED pool
  BY DEF PoolAnswers, TimerFires, Output, SpawnError, Close, Timings, Abort, pool
<1>2. \A k \in Job : stage'[k] = "new" => stage[k] = "new"
  BY DEF PoolAnswers, TimerFires, Output, SpawnError, Close, Timings, Abort, Spawn, Settle, Shapes, Stages
<1>3. PoolInv' /\ \A k \in Job : Queued(k)' <=> Queued(k)
  BY <1>1, <1>2, QuietPool
<1> USE <1>1, <1>3 DEF pool
<1>4. CASE PoolAnswers(j)
  <2> USE <1>4 DEF PoolAnswers, Spawn, Settle, Armed, IsUnavailable
  <2>1. Shapes'
    BY DEF Shapes, Stages, Outcomes
  <2>2. ProcessInv'
    BY DEF ProcessInv, Shapes, PoolInv
  <2> QED
    BY <2>1, <2>2
<1>5. CASE TimerFires(j)
  <2> USE <1>5 DEF TimerFires, Settle, WithoutListener, Killed
  <2>1. Shapes'
    BY DEF Shapes, Stages, Outcomes
  <2>2. ProcessInv'
    BY DEF ProcessInv, Shapes
  <2> QED
    BY <2>1, <2>2
<1>6. CASE Output(j)
  <2> USE <1>6 DEF Output, Killed
  <2>1. Shapes'
    BY DEF Shapes
  <2>2. ProcessInv'
    BY DEF ProcessInv, Shapes
  <2> QED
    BY <2>1, <2>2
<1>7. CASE SpawnError(j)
  <2> USE <1>7 DEF SpawnError, Settle, WithoutListener
  <2>1. Shapes'
    BY DEF Shapes, Stages, Outcomes
  <2>2. ProcessInv'
    BY DEF ProcessInv, Shapes
  <2> QED
    BY <2>1, <2>2
<1>8. CASE Close(j)
  <2> USE <1>8 DEF Close, Settle, WithoutListener, Answers
  <2>1. Shapes'
    BY DEF Shapes, Stages, Outcomes
  <2>2. ProcessInv'
    BY DEF ProcessInv, Shapes
  <2> QED
    BY <2>1, <2>2
<1>9. CASE Timings(j)
  <2> USE <1>9 DEF Timings, Settle
  <2>1. Shapes'
    BY DEF Shapes, Stages, Outcomes
  <2>2. ProcessInv'
    BY DEF ProcessInv, Shapes
  <2> QED
    BY <2>1, <2>2
<1>10. CASE Abort
  <2> USE <1>10 DEF Abort, Killed
  <2>1. Shapes'
    BY DEF Shapes, Stages, Outcomes
  <2>2. ProcessInv'
    BY DEF ProcessInv, Shapes
  <2> QED
    BY <2>1, <2>2
<1> QED
  BY <1>4, <1>5, <1>6, <1>7, <1>8, <1>9, <1>10

\* A new job is queued by the pool, turned away by it, or given a process at once.
LEMMA CallStep ==
  ASSUME IInv, NEW j \in Job, Call(j)
  PROVE  IInv'
<1> USE DEF IInv, Call
<1>1. CASE ~open
  <2>1. UNCHANGED pool /\ Spawn(j)
    BY <1>1
  <2>2. \A k \in Job : stage'[k] = "new" => stage[k] = "new"
    BY <2>1 DEF Spawn, Settle, Shapes, Stages
  <2>3. PoolInv' /\ \A k \in Job : Queued(k)' <=> Queued(k)
    BY <2>1, <2>2, QuietPool
  <2>4. Shapes'
    BY <2>1 DEF Shapes, Stages, Outcomes, Spawn, Settle, Armed, pool, process
  <2>5. ProcessInv'
    BY <2>1, <2>3 DEF ProcessInv, PoolInv, Shapes, Spawn, Settle, Armed, pool, process
  <2> QED
    BY <2>3, <2>4, <2>5
<1>2. CASE open /\ Pool!Accept(j)
  <2>1. ~Queued(j) /\ result[j] = "none" /\ j \notin started
    BY DEF PoolInv
  <2>2. /\ queue' = Append(queue, j) /\ started' = started /\ result' = result
        /\ stage' = [stage EXCEPT ![j] = "pooled"] /\ UNCHANGED <<process, outcome>>
    BY <1>2 DEF Pool!Accept
  <2>3. /\ queue' \in Seq(Job) /\ QueueOnce'
        /\ \A k : Queued(k)' <=> Queued(k) \/ k = j
    BY <2>1, <2>2, QueueSteps DEF Shapes, PoolInv
  <2>4. Shapes'
    BY <2>2, <2>3 DEF Shapes, Stages, Outcomes, process
  <2>5. PoolInv'
    BY <2>1, <2>2, <2>3 DEF PoolInv, Shapes
  <2>6. ProcessInv'
    BY <2>2, <2>3 DEF ProcessInv, Shapes, process
  <2> QED
    BY <2>4, <2>5, <2>6
<1>3. CASE open /\ Pool!TurnAway(j)
  <2>1. ~Queued(j) /\ result[j] = "none" /\ j \notin started
    BY DEF PoolInv
  <2>2. /\ queue' = queue /\ started' = started
        /\ stage' = [stage EXCEPT ![j] = "pooled"] /\ UNCHANGED <<process, outcome>>
    BY <1>3 DEF Pool!TurnAway
  <2>3. PICK r \in {"unavailable", "aborted"} : result' = [result EXCEPT ![j] = r]
    BY <1>3 DEF Pool!TurnAway
  <2>4. QueueOnce' /\ \A k : Queued(k)' <=> Queued(k)
    BY <2>2 DEF QueueOnce, Queued, PoolInv
  <2>5. Shapes'
    BY <2>2, <2>3 DEF Shapes, Stages, Outcomes, process
  <2>6. PoolInv'
    BY <2>1, <2>2, <2>3, <2>4 DEF PoolInv, Shapes
  <2>7. ProcessInv'
    BY <2>1, <2>2, <2>3, <2>4 DEF ProcessInv, Shapes, process
  <2> QED
    BY <2>5, <2>6, <2>7
<1> QED
  BY <1>1, <1>2, <1>3

---------------------------------------------------------------------------
\* A job is with the pool or with a process of its own, never with both, and what
\* is armed for it is armed only as long as it is needed.
THEOREM Invariance == Spec => []IInv
<1>1. Init => IInv
  BY DEF Init, Pool!SInit, IInv, Shapes, PoolInv, ProcessInv, QueueOnce, Queued, Stages, Outcomes
<1>2. IInv /\ [Next]_vars => IInv'
  <2> SUFFICES ASSUME IInv, [Next]_vars
               PROVE  IInv'
    OBVIOUS
  <2>1. CASE UNCHANGED vars
    BY <2>1 DEF vars, pool, process, IInv, Shapes, PoolInv, ProcessInv, QueueOnce, Queued
  <2>2. CASE Abort
    <3>1. CASE Job = {}
      BY <2>2, <3>1 DEF Abort, pool, IInv, Shapes, PoolInv, ProcessInv, QueueOnce, Queued
    <3> QED
      BY <2>2, <3>1, ProcessSteps
  <2> QED
    BY <2>1, <2>2, PoolSteps, ProcessSteps, CallStep DEF Next
<1> QED
  BY <1>1, <1>2, PTL DEF Spec

\* A job gets a process only after the pool refused it or turned it away, and then it
\* is no longer with the pool.
THEOREM RefusalsComeFirst == Spec => []OnlyRefusedJobsRunAgain
<1>1. IInv => OnlyRefusedJobsRunAgain
  BY QueueSteps DEF IInv, Shapes, PoolInv, ProcessInv, OnlyRefusedJobsRunAgain
<1> QED
  BY <1>1, Invariance, PTL

\* A job that was answered leaves no listener and no running process behind, and a
\* process that has ended no timer.
THEOREM NothingStaysBehind == Spec => []NothingIsLeftBehind
<1>1. IInv => NothingIsLeftBehind
  BY DEF IInv, ProcessInv, NothingIsLeftBehind
<1> QED
  BY <1>1, Invariance, PTL
===========================================================================
