------------------------- MODULE LintBatchesProofs -------------------------
(***************************************************************************)
(* What a lint pass guarantees for any batches, any number of concurrent   *)
(* tasks and any depth of splitting, whatever fails in it.                 *)
(***************************************************************************)
EXTENDS LintBatchesProperties, SequenceLemmas, FiniteSetTheorems

Calls == [files : Seq(File), depth : 0 .. SplitMaxDepth]

TaskRecord ==
  [status : Status, work : Seq(Calls), size : Nat, didStart : BOOLEAN, budget : Budget,
   skippedCount : Nat]

Outcomes == [diagnostics : SUBSET File, dropped : SUBSET File, skipped : SUBSET File]

Shapes ==
  /\ pass \in {"main", "replay", "rescue", "done", "failed"}
  /\ batches \in Seq(Seq(File)) /\ AreDistinct(batches)
  /\ nextIndex \in 1 .. Len(batches) + 1
  /\ task \in [Task -> TaskRecord]
  /\ linted \subseteq File /\ dropped \subseteq File /\ skipped \subseteq File
  /\ oomDropped \subseteq dropped
  /\ toRescue \subseteq File
  /\ outcome \in Outcomes

IsOnce(s) == \A k, l \in DOMAIN s : s[k] = s[l] => k = l

\* The calls in progress of a task: each has files, without repetitions, and a call
\* is as deep as there are calls below it, so that they are never too many.
IsStack(w) ==
  \A i \in DOMAIN w : w[i].files # <<>> /\ IsOnce(w[i].files) /\ Len(w) - i <= w[i].depth

TaskInv ==
  \A t \in Task : /\ IsStack(task[t].work)
                  /\ task[t].work = <<>> <=> task[t].status \in {"idle", "exited"}

Settled == linted \cup dropped \cup skipped

\* A file that was handed out is in one place.
Places ==
  firstError = "none" =>
    /\ linted \cap dropped = {} /\ linted \cap skipped = {} /\ dropped \cap skipped = {}
    /\ \A t \in Task, i \in Nat, f \in File : Has(t, i, f) => f \notin Settled
    /\ \A t, u \in Task, i, j \in Nat, f \in File : Has(t, i, f) /\ Has(u, j, f) => t = u /\ i = j
    /\ \A f \in File : f \in Pulled <=> f \in Settled \/ \E t \in Task, i \in Nat : Has(t, i, f)

---------------------------------------------------------------------------
(* Sequences of files *)

\* A sequence has finitely many elements.
LEMMA FilesAreFinite ==
  ASSUME NEW S, NEW s \in Seq(S)
  PROVE  IsFiniteSet(ToSet(s)) /\ Cardinality(ToSet(s)) \in Nat /\ ToSet(s) \subseteq S
<1>1. s \in [1 .. Len(s) -> ToSet(s)] /\ Len(s) \in Nat /\ ToSet(s) \subseteq S
  BY DEF ToSet
<1>2. \A x \in ToSet(s) : \E i \in 1 .. Len(s) : s[i] = x
  BY DEF ToSet
<1>3. s \in Surjection(1 .. Len(s), ToSet(s))
  BY <1>1, <1>2 DEF Surjection
<1>4. IsFiniteSet(1 .. Len(s))
  BY <1>1, FS_Interval
<1>5. IsFiniteSet(ToSet(s))
  BY <1>3, <1>4, FS_Surjection
<1> QED
  BY <1>1, <1>5, FS_CardinalityType

\* The halves of a call have its files, each of them in one half.
LEMMA HalvesShape ==
  ASSUME NEW call \in Calls, Len(call.files) > 1, IsOnce(call.files), call.depth < SplitMaxDepth
  PROVE  \E a, b \in Calls :
           /\ Halves(call) = <<a, b>>
           /\ a.depth = call.depth + 1 /\ b.depth = call.depth + 1
           /\ a.files # <<>> /\ b.files # <<>> /\ IsOnce(a.files) /\ IsOnce(b.files)
           /\ ToSet(call.files) = ToSet(a.files) \cup ToSet(b.files)
           /\ ToSet(a.files) \cap ToSet(b.files) = {}
<1> DEFINE s == call.files
           n == Len(s)
           m == (n + 1) \div 2
           a == [files |-> SubSeq(s, 1, m), depth |-> call.depth + 1]
           b == [files |-> SubSeq(s, m + 1, n), depth |-> call.depth + 1]
<1>1. s \in Seq(File) /\ n \in Nat /\ \A k \in 1 .. n : s[k] \in File
  BY DEF Calls
<1>2. m \in 1 .. n - 1 /\ m \in Nat
  <2>1. \A k \in Nat : k > 1 => (k + 1) \div 2 \in 1 .. k - 1
    OBVIOUS
  <2>2. n \in Nat /\ n > 1
    BY <1>1
  <2> HIDE DEF n
  <2> QED
    BY <2>1, <2>2
<1>3. SplitMaxDepth \in Nat /\ call.depth \in 0 .. SplitMaxDepth
  BY BatchesAssumption DEF Calls
<1> HIDE DEF m, n, s
<1>4. /\ SubSeq(s, 1, m) \in Seq(File) /\ Len(SubSeq(s, 1, m)) = m
      /\ \A k \in 1 .. m : SubSeq(s, 1, m)[k] = s[k]
  BY <1>1, <1>2, SubSeqProperties DEF n
<1>5. /\ SubSeq(s, m + 1, n) \in Seq(File) /\ Len(SubSeq(s, m + 1, n)) = n - m
      /\ \A k \in 1 .. n - m : SubSeq(s, m + 1, n)[k] = s[m + k]
  <2>1. \A k \in m + 1 .. n : s[k] \in File
    BY <1>1, <1>2
  <2>2. /\ SubSeq(s, m + 1, n) \in Seq(File)
        /\ Len(SubSeq(s, m + 1, n)) = IF m + 1 <= n THEN n - (m + 1) + 1 ELSE 0
        /\ \A k \in 1 .. n - (m + 1) + 1 : SubSeq(s, m + 1, n)[k] = s[m + 1 + k - 1]
    BY <1>1, <1>2, <2>1, SubSeqProperties
  <2>3. \A k \in 1 .. n - m : m + 1 + k - 1 = m + k
    BY <1>1, <1>2
  <2> QED
    BY <1>1, <1>2, <2>2, <2>3
<1>6. a \in Calls /\ b \in Calls /\ a.depth = call.depth + 1 /\ b.depth = call.depth + 1
  BY <1>3, <1>4, <1>5 DEF Calls
<1>7. /\ DOMAIN s = 1 .. n /\ IsOnce(s)
      /\ DOMAIN a.files = 1 .. m /\ \A k \in 1 .. m : a.files[k] = s[k]
      /\ DOMAIN b.files = 1 .. n - m /\ \A k \in 1 .. n - m : b.files[k] = s[m + k]
  BY <1>1, <1>2, <1>4, <1>5 DEF n, s
<1>8. Halves(call) = <<a, b>>
  BY DEF Halves, m, n, s
<1>9. a.files # <<>> /\ b.files # <<>>
  <2>1. Len(a.files) > 0 /\ Len(b.files) > 0 /\ a.files \in Seq(File) /\ b.files \in Seq(File)
    BY <1>1, <1>2, <1>4, <1>5
  <2>2. \A q \in Seq(File) : Len(q) > 0 => q # <<>>
    BY EmptySeq
  <2> HIDE DEF a, b
  <2> QED
    BY <2>1, <2>2
<1> HIDE DEF a, b
<1>10. IsOnce(a.files) /\ IsOnce(b.files)
  <2>1. \A k \in 1 .. n - m : m + k \in 1 .. n
    BY <1>1, <1>2
  <2>2. \A k, l \in 1 .. n - m : m + k = m + l => k = l
    BY <1>1, <1>2
  <2> QED
    BY <1>1, <1>2, <1>7, <2>1, <2>2 DEF IsOnce
<1>11. ToSet(s) = ToSet(a.files) \cup ToSet(b.files)
  <2>1. \A k \in 1 .. n : k \in 1 .. m \/ (k - m \in 1 .. n - m /\ m + (k - m) = k)
    BY <1>1, <1>2
  <2>2. (\A k \in 1 .. m : k \in 1 .. n) /\ (\A k \in 1 .. n - m : m + k \in 1 .. n)
    BY <1>1, <1>2
  <2>3. ToSet(s) \subseteq ToSet(a.files) \cup ToSet(b.files)
    BY <1>7, <2>1 DEF ToSet
  <2>4. ToSet(a.files) \cup ToSet(b.files) \subseteq ToSet(s)
    BY <1>7, <2>2 DEF ToSet
  <2> QED
    BY <2>3, <2>4
<1>12. ToSet(a.files) \cap ToSet(b.files) = {}
  <2> SUFFICES ASSUME NEW k \in 1 .. m, NEW l \in 1 .. n - m, a.files[k] = b.files[l]
               PROVE  FALSE
    BY <1>7 DEF ToSet
  <2>1. s[k] = s[m + l] /\ k \in 1 .. n /\ m + l \in 1 .. n /\ k # m + l
    BY <1>1, <1>2, <1>7
  <2> QED
    BY <2>1, <1>7 DEF IsOnce
<1> QED
  BY <1>6, <1>8, <1>9, <1>10, <1>11, <1>12 DEF s

\* The smaller one of two numbers.
LEMMA MinOfTwo ==
  ASSUME NEW a \in Nat, NEW b \in Nat
  PROVE  Min({a, b}) \in {a, b} /\ Min({a, b}) <= a /\ Min({a, b}) <= b
<1>1. {a, b} \in SUBSET Nat /\ {a, b} # {}
  OBVIOUS
<1> QED
  BY <1>1, LeastElement

---------------------------------------------------------------------------
(* How the calls of a task change *)

Core == Shapes /\ TaskInv /\ Places

\* The calls of a task are a sequence of calls.
LEMMA TaskShape ==
  ASSUME Shapes, NEW t \in Task
  PROVE  /\ task[t] \in TaskRecord /\ task[t].work \in Seq(Calls)
         /\ Len(task[t].work) \in Nat /\ DOMAIN task[t].work = 1 .. Len(task[t].work)
         /\ \A i \in 1 .. Len(task[t].work) :
              /\ task[t].work[i] \in Calls
              /\ task[t].work[i].files \in Seq(File)
              /\ ToSet(task[t].work[i].files) \subseteq File
         /\ task[t].work # <<>> =>
              /\ Current(t) = task[t].work[1] /\ Len(task[t].work) > 0
              /\ Files(t) = ToSet(task[t].work[1].files)
              /\ Files(t) \subseteq File /\ Cardinality(Files(t)) \in Nat
<1>1. task[t] \in TaskRecord /\ task[t].work \in Seq(Calls)
  BY DEF Shapes, TaskRecord
<1>2. /\ Len(task[t].work) \in Nat /\ DOMAIN task[t].work = 1 .. Len(task[t].work)
      /\ \A i \in 1 .. Len(task[t].work) : task[t].work[i] \in Calls
  BY <1>1, LenProperties, ElementOfSeq
<1>3. \A c \in Calls : c.files \in Seq(File)
  BY DEF Calls
<1>4. \A c \in Calls : ToSet(c.files) \subseteq File /\ Cardinality(ToSet(c.files)) \in Nat
  BY <1>3, FilesAreFinite
<1>5. ASSUME task[t].work # <<>>
      PROVE  Current(t) = task[t].work[1] /\ Len(task[t].work) > 0
  BY <1>1, <1>5, EmptySeq DEF Current
<1> QED
  BY <1>1, <1>2, <1>3, <1>4, <1>5 DEF Files

\* What a task is without a batch, and with a fresh one.
LEMMA TaskStarts ==
  /\ \A status \in Status :
       /\ Rest(status) \in TaskRecord
       /\ Rest(status).work = <<>> /\ Rest(status).status = status
  /\ \A b \in Seq(File) :
       /\ Fresh(b) \in TaskRecord
       /\ Fresh(b).status = "queued" /\ Len(Fresh(b).work) = 1
       /\ Fresh(b).work[1] = [files |-> b, depth |-> 0]
<1>1. ASSUME NEW status \in Status
      PROVE  Rest(status) \in TaskRecord /\ Rest(status).work = <<>> /\ Rest(status).status = status
  <2>1. <<>> \in Seq(Calls)
    BY EmptySeq
  <2> QED
    BY <2>1 DEF Rest, TaskRecord, Budget
<1>2. ASSUME NEW b \in Seq(File)
      PROVE  /\ Fresh(b) \in TaskRecord
             /\ Fresh(b).status = "queued" /\ Len(Fresh(b).work) = 1
             /\ Fresh(b).work[1] = [files |-> b, depth |-> 0]
  <2>1. [files |-> b, depth |-> 0] \in Calls
    BY BatchesAssumption DEF Calls
  <2>2. <<[files |-> b, depth |-> 0]>> \in Seq(Calls)
    BY <2>1
  <2>3. Len(b) \in Nat
    BY LenProperties
  <2> QED
    BY <2>2, <2>3 DEF Fresh, TaskRecord, Budget, Status
<1> QED
  BY <1>1, <1>2

\* A call returns: the task goes on with the one below it.
LEMMA ReturnMoves ==
  ASSUME Shapes, TaskInv, NEW t \in Task, NEW u \in TaskRecord,
         u.work = task[t].work, u.work # <<>>, Return(t, u)
  PROVE  /\ task' \in [Task -> TaskRecord]
         /\ task'[t].work = Tail(task[t].work)
         /\ task'[t].status \in {"ready", "idle"}
         /\ \A v \in Task \ {t} : task'[v] = task[v]
         /\ TaskInv'
<1> DEFINE w == task[t].work
<1>1. w \in Seq(Calls) /\ Len(w) \in Nat /\ Len(w) > 0 /\ task \in [Task -> TaskRecord]
  BY TaskShape DEF Shapes
<1>2. /\ Tail(w) \in Seq(Calls) /\ Len(Tail(w)) = Len(w) - 1
      /\ \A i \in 1 .. Len(w) - 1 : Tail(w)[i] = w[i + 1]
  BY <1>1, HeadTailProperties
<1>3. \A q \in Seq(Calls) : Len(q) = 0 <=> q = <<>>
  BY EmptySeq
<1>4. /\ task' \in [Task -> TaskRecord]
      /\ task'[t].work = Tail(w)
      /\ task'[t].status = IF Len(w) > 1 THEN "ready" ELSE "idle"
      /\ \A v \in Task \ {t} : task'[v] = task[v]
  <2>1. CASE Len(w) > 1
    <3>1. [u EXCEPT !.status = "ready", !.work = Tail(@)] \in TaskRecord
      BY <1>2 DEF TaskRecord, Status
    <3>2. task' = [task EXCEPT ![t] = [u EXCEPT !.status = "ready", !.work = Tail(@)]]
      BY <2>1 DEF Return
    <3>3. /\ [u EXCEPT !.status = "ready", !.work = Tail(@)].work = Tail(w)
          /\ [u EXCEPT !.status = "ready", !.work = Tail(@)].status = "ready"
      BY DEF TaskRecord
    <3> QED
      BY <1>1, <2>1, <3>1, <3>2, <3>3
  <2>2. CASE ~(Len(w) > 1)
    <3>1. task' = [task EXCEPT ![t] = Rest("idle")]
      BY <2>2 DEF Return
    <3>2. Len(Tail(w)) = 0
      <4> HIDE DEF w
      <4> QED
        BY <1>1, <1>2, <2>2
    <3>3. Tail(w) = <<>>
      BY <1>2, <1>3, <3>2
    <3>4. "idle" \in Status
      BY DEF Status
    <3> QED
      BY <1>1, <2>2, <3>1, <3>3, <3>4, TaskStarts
  <2> QED
    BY <2>1, <2>2
<1>5. IsStack(Tail(w))
  <2>1. IsStack(w)
    BY DEF TaskInv
  <2>2. \A i \in 1 .. Len(w) - 1 : i + 1 \in 1 .. Len(w) /\ Len(w) - 1 - i = Len(w) - (i + 1)
    BY <1>1
  <2>3. DOMAIN Tail(w) = 1 .. Len(w) - 1 /\ DOMAIN w = 1 .. Len(w)
    BY <1>1, <1>2, LenProperties
  <2> HIDE DEF w
  <2> QED
    BY <1>2, <2>1, <2>2, <2>3 DEF IsStack
<1>6. Tail(w) = <<>> <=> Len(w) = 1
  <2> HIDE DEF w
  <2>1. Tail(w) = <<>> <=> Len(Tail(w)) = 0
    BY <1>2, <1>3
  <2> QED
    BY <1>1, <1>2, <2>1
<1>7. TaskInv'
  <2> SUFFICES ASSUME NEW v \in Task
               PROVE  /\ IsStack(task'[v].work)
                      /\ task'[v].work = <<>> <=> task'[v].status \in {"idle", "exited"}
    BY DEF TaskInv
  <2>1. CASE v = t
    <3> HIDE DEF w
    <3>1. task'[t].work = <<>> <=> ~(Len(w) > 1)
      BY <1>1, <1>4, <1>6
    <3>2. IsStack(task'[t].work)
      BY <1>4, <1>5
    <3> QED
      BY <1>4, <2>1, <3>1, <3>2
  <2>2. CASE v # t
    BY <1>4, <2>2 DEF TaskInv
  <2> QED
    BY <2>1, <2>2
<1> QED
  BY <1>4, <1>7
\* A file is in the calls of a task as long as these do not change.
LEMMA SameCalls ==
  ASSUME NEW t \in Task, task'[t].work = task[t].work
  PROVE  \A i \in Nat, f \in File : Has(t, i, f)' <=> Has(t, i, f)
BY DEF Has

\* Nothing moves.
LEMMA QuietPlaces ==
  ASSUME Places, \A t \in Task : task'[t].work = task[t].work,
         UNCHANGED <<batches, nextIndex, firstError, linted, dropped, skipped>>
  PROVE  Places'
<1>1. \A t \in Task, i \in Nat, f \in File : Has(t, i, f)' <=> Has(t, i, f)
  BY SameCalls
<1>2. Pulled' = Pulled /\ Settled' = Settled
  BY DEF Pulled, Settled
<1> QED
  BY <1>1, <1>2 DEF Places

\* The files of a call that returns are settled in one way.
LEMMA CallEnds ==
  ASSUME Shapes, Places, NEW t \in Task, task[t].work # <<>>,
         task'[t].work = Tail(task[t].work),
         \A v \in Task \ {t} : task'[v].work = task[v].work,
         UNCHANGED <<batches, nextIndex, firstError>>,
         \/ linted' = linted \cup Files(t) /\ UNCHANGED <<dropped, skipped>>
         \/ dropped' = dropped \cup Files(t) /\ UNCHANGED <<linted, skipped>>
         \/ skipped' = skipped \cup Files(t) /\ UNCHANGED <<linted, dropped>>
  PROVE  Places'
<1> DEFINE w == task[t].work
<1>1. w \in Seq(Calls) /\ Len(w) \in Nat /\ Len(w) > 0 /\ DOMAIN w = 1 .. Len(w)
  BY TaskShape
<1>2. /\ Tail(w) \in Seq(Calls) /\ Len(Tail(w)) = Len(w) - 1
      /\ \A i \in 1 .. Len(Tail(w)) : Tail(w)[i] = w[i + 1]
  BY <1>1, HeadTailProperties
<1>3. \A f \in File : f \in Files(t) <=> Has(t, 1, f)
  <2>1. Files(t) = ToSet(w[1].files) /\ 1 \in DOMAIN w
    BY <1>1, TaskShape
  <2> QED
    BY <2>1 DEF Has
<1>4. \A i \in Nat, f \in File : Has(t, i, f)' <=> i >= 1 /\ Has(t, i + 1, f)
  <2>1. DOMAIN Tail(w) = 1 .. Len(w) - 1
    BY <1>2, LenProperties
  <2>2. \A i \in Nat : i \in DOMAIN Tail(w) <=> i >= 1 /\ i + 1 \in DOMAIN w
    <3> HIDE DEF w
    <3> QED
      BY <1>1, <2>1
  <2>3. \A i \in DOMAIN Tail(w) : Tail(w)[i] = w[i + 1]
    BY <1>2, <2>1
  <2>4. \A i \in Nat, f \in File :
          Has(t, i, f)' <=> i \in DOMAIN Tail(w) /\ f \in ToSet(Tail(w)[i].files)
    BY DEF Has
  <2>5. \A i \in Nat, f \in File : Has(t, i + 1, f) <=> i + 1 \in DOMAIN w /\ f \in ToSet(w[i + 1].files)
    BY DEF Has
  <2> HIDE DEF w
  <2> QED
    BY <2>2, <2>3, <2>4, <2>5
<1>5. \A v \in Task \ {t}, i \in Nat, f \in File : Has(v, i, f)' <=> Has(v, i, f)
  BY SameCalls
<1>6. Pulled' = Pulled /\ Settled' = Settled \cup Files(t)
  BY DEF Pulled, Settled
<1>7. \A i \in Nat, f \in File : Has(t, i, f) => i >= 1
  BY <1>1 DEF Has
<1> HIDE DEF w
<1> SUFFICES ASSUME firstError = "none"
             PROVE  Places'
  BY DEF Places
<1>8. \A f \in Files(t) : f \in File /\ f \notin Settled
  <2>1. Files(t) \subseteq File
    BY TaskShape
  <2> QED
    BY <1>3, <2>1 DEF Places
<1>9. (linted \cap dropped = {} /\ linted \cap skipped = {} /\ dropped \cap skipped = {})'
  BY <1>8 DEF Places, Settled
<1>10. \A v \in Task, i \in Nat, f \in File :
         Has(v, i, f)' => \E j \in Nat : /\ Has(v, j, f)
                                         /\ v = t => j = i + 1 /\ j # 1
                                         /\ v # t => j = i
  <2> SUFFICES ASSUME NEW v \in Task, NEW i \in Nat, NEW f \in File, Has(v, i, f)'
               PROVE  \E j \in Nat : /\ Has(v, j, f)
                                     /\ v = t => j = i + 1 /\ j # 1
                                     /\ v # t => j = i
    OBVIOUS
  <2>1. CASE v = t
    <3>1. Has(t, i + 1, f) /\ i >= 1
      BY <1>4, <2>1
    <3>2. i + 1 \in Nat /\ i + 1 # 1
      BY <3>1
    <3> QED
      BY <2>1, <3>1, <3>2
  <2>2. CASE v # t
    <3>1. Has(v, i, f)
      BY <1>5, <2>2
    <3> QED
      BY <2>2, <3>1
  <2> QED
    BY <2>1, <2>2
<1>11. \A v \in Task, i \in Nat, f \in File : Has(v, i, f)' => f \notin Settled'
  <2> SUFFICES ASSUME NEW v \in Task, NEW i \in Nat, NEW f \in File, Has(v, i, f)'
               PROVE  f \notin Settled'
    OBVIOUS
  <2>1. PICK j \in Nat : Has(v, j, f) /\ (v = t => j # 1)
    BY <1>10
  <2>2. f \notin Settled
    BY <2>1 DEF Places
  <2>3. ~Has(t, 1, f)
    BY <2>1 DEF Places
  <2> QED
    BY <1>3, <1>6, <2>2, <2>3
<1>12. \A v, u \in Task, i, j \in Nat, f \in File : Has(v, i, f)' /\ Has(u, j, f)' => v = u /\ i = j
  <2> SUFFICES ASSUME NEW v \in Task, NEW u \in Task, NEW i \in Nat, NEW j \in Nat, NEW f \in File,
                      Has(v, i, f)', Has(u, j, f)'
               PROVE  v = u /\ i = j
    OBVIOUS
  <2>1. PICK k \in Nat : Has(v, k, f) /\ (v = t => k = i + 1) /\ (v # t => k = i)
    BY <1>10
  <2>2. PICK l \in Nat : Has(u, l, f) /\ (u = t => l = j + 1) /\ (u # t => l = j)
    BY <1>10
  <2>3. v = u /\ k = l
    BY <2>1, <2>2 DEF Places
  <2> QED
    BY <2>1, <2>2, <2>3
<1>13. \A f \in File : f \in Pulled' <=> f \in Settled' \/ \E v \in Task, i \in Nat : Has(v, i, f)'
  <2> SUFFICES ASSUME NEW f \in File
               PROVE  (f \in Settled' \/ \E v \in Task, i \in Nat : Has(v, i, f)')
                        <=> (f \in Settled \/ \E v \in Task, i \in Nat : Has(v, i, f))
    BY <1>6 DEF Places
  <2>1. ASSUME NEW v \in Task, NEW i \in Nat, Has(v, i, f)
        PROVE  f \in Settled' \/ \E u \in Task, j \in Nat : Has(u, j, f)'
    <3>1. CASE v # t
      BY <1>5, <2>1, <3>1
    <3>2. CASE v = t /\ i = 1
      BY <1>3, <1>6, <2>1, <3>2
    <3>3. CASE v = t /\ i > 1
      <4>1. i - 1 \in Nat /\ i - 1 >= 1 /\ (i - 1) + 1 = i
        BY <3>3
      <4>2. Has(t, i - 1, f)'
        BY <1>4, <2>1, <3>3, <4>1
      <4> QED
        BY <4>1, <4>2
    <3> QED
      BY <1>7, <2>1, <3>1, <3>2, <3>3
  <2>2. f \in Settled' => f \in Settled \/ Has(t, 1, f)
    BY <1>3, <1>6
  <2> QED
    BY <1>6, <1>10, <2>1, <2>2
<1> QED
  BY <1>9, <1>11, <1>12, <1>13 DEF Places
\* A call is replaced by its halves, the first of them to run next.
LEMMA CallSplits ==
  ASSUME Shapes, TaskInv, Places, NEW t \in Task, task[t].work # <<>>,
         Len(Current(t).files) > 1, Current(t).depth < SplitMaxDepth,
         task'[t].work = Halves(Head(task[t].work)) \o Tail(task[t].work),
         \A v \in Task \ {t} : task'[v].work = task[v].work,
         UNCHANGED <<batches, nextIndex, firstError, linted, dropped, skipped>>
  PROVE  Places' /\ task'[t].work \in Seq(Calls) /\ task'[t].work # <<>> /\ IsStack(task'[t].work)
<1> DEFINE w == task[t].work
           x == task'[t].work
<1>1. /\ w \in Seq(Calls) /\ Len(w) \in Nat /\ Len(w) > 0 /\ DOMAIN w = 1 .. Len(w)
      /\ \A i \in 1 .. Len(w) : w[i] \in Calls
  BY TaskShape
<1>2. /\ Tail(w) \in Seq(Calls) /\ Len(Tail(w)) = Len(w) - 1
      /\ \A i \in 1 .. Len(Tail(w)) : Tail(w)[i] = w[i + 1]
  BY <1>1, HeadTailProperties
<1>3. Head(w) = w[1] /\ Current(t) = w[1] /\ w[1] \in Calls /\ 1 \in DOMAIN w
  BY <1>1, TaskShape DEF Current
<1>4. IsStack(w)
  BY DEF TaskInv
<1>5. IsOnce(w[1].files) /\ Len(w) - 1 <= w[1].depth
  BY <1>3, <1>4 DEF IsStack
<1>6. PICK a, b \in Calls :
        /\ Halves(w[1]) = <<a, b>>
        /\ a.depth = w[1].depth + 1 /\ b.depth = w[1].depth + 1
        /\ a.files # <<>> /\ b.files # <<>> /\ IsOnce(a.files) /\ IsOnce(b.files)
        /\ ToSet(w[1].files) = ToSet(a.files) \cup ToSet(b.files)
        /\ ToSet(a.files) \cap ToSet(b.files) = {}
  BY <1>3, <1>5, HalvesShape
<1>7. /\ x \in Seq(Calls) /\ Len(x) = Len(w) + 1
      /\ \A i \in 1 .. Len(w) + 1 : x[i] = IF i = 1 THEN a ELSE IF i = 2 THEN b ELSE w[i - 1]
  <2>1. <<a, b>> \in Seq(Calls) /\ Len(<<a, b>>) = 2 /\ <<a, b>>[1] = a /\ <<a, b>>[2] = b
    OBVIOUS
  <2> DEFINE ab == <<a, b>>
             r == Tail(w)
  <2>2. x = ab \o r
    BY <1>3, <1>6
  <2>3. /\ ab \o r \in Seq(Calls) /\ Len(ab \o r) = Len(ab) + Len(r)
        /\ \A i \in 1 .. Len(ab) + Len(r) : (ab \o r)[i] = IF i <= Len(ab) THEN ab[i] ELSE r[i - Len(ab)]
    BY <1>2, <2>1, ConcatProperties
  <2>4. Len(ab) = 2 /\ ab[1] = a /\ ab[2] = b
    BY <2>1
  <2>5. Len(r) = Len(w) - 1 /\ \A i \in 1 .. Len(w) - 1 : r[i] = w[i + 1]
    BY <1>2
  <2> HIDE DEF ab, r, w, x
  <2>6. Len(x) = Len(w) + 1 /\ x \in Seq(Calls)
    BY <1>1, <2>2, <2>3, <2>4, <2>5
  <2>7. ASSUME NEW i \in 1 .. Len(w) + 1
        PROVE  x[i] = IF i = 1 THEN a ELSE IF i = 2 THEN b ELSE w[i - 1]
    <3>1. x[i] = IF i <= 2 THEN ab[i] ELSE r[i - 2]
      BY <1>1, <2>2, <2>3, <2>4, <2>5
    <3>2. CASE i > 2
      <4>1. i - 2 \in 1 .. Len(w) - 1 /\ (i - 2) + 1 = i - 1
        BY <1>1, <3>2
      <4> QED
        BY <2>5, <3>1, <3>2, <4>1
    <3>3. CASE ~(i > 2)
      <4>1. i = 1 \/ i = 2
        BY <1>1, <3>3
      <4> QED
        BY <2>4, <3>1, <4>1
    <3> QED
      BY <3>2, <3>3
  <2> QED
    BY <2>6, <2>7
<1>8. DOMAIN x = 1 .. Len(w) + 1 /\ x # <<>>
  <2> HIDE DEF w, x
  <2>1. Len(x) \in Nat /\ Len(x) > 0 /\ DOMAIN x = 1 .. Len(x)
    BY <1>1, <1>7, LenProperties
  <2>2. \A q \in Seq(Calls) : Len(q) > 0 => q # <<>>
    BY EmptySeq
  <2> QED
    BY <1>7, <2>1, <2>2
<1>9. \A i \in Nat, f \in File : Has(t, i, f) <=> i \in DOMAIN w /\ f \in ToSet(w[i].files)
  BY DEF Has
<1>10. \A i \in Nat, f \in File : Has(t, i, f)' <=> i \in DOMAIN x /\ f \in ToSet(x[i].files)
  BY DEF Has
<1>11. x \in Seq(Calls) /\ task'[t].work = x
  BY <1>7
<1> HIDE DEF w, x
<1>12. IsStack(x)
  <2> SUFFICES ASSUME NEW i \in 1 .. Len(w) + 1
               PROVE  x[i].files # <<>> /\ IsOnce(x[i].files) /\ Len(w) + 1 - i <= x[i].depth
    BY <1>7, <1>8 DEF IsStack
  <2>1. CASE i = 1 \/ i = 2
    <3>1. x[i] \in {a, b}
      BY <1>7, <2>1
    <3>2. w[1].depth \in Nat /\ x[i].depth = w[1].depth + 1
      BY <1>3, <1>6, <3>1, BatchesAssumption DEF Calls
    <3>3. Len(w) + 1 - i <= x[i].depth
      BY <1>1, <1>5, <2>1, <3>2
    <3> QED
      BY <1>6, <3>1, <3>3
  <2>2. CASE i > 2
    <3>1. i - 1 \in DOMAIN w /\ x[i] = w[i - 1] /\ Len(w) + 1 - i = Len(w) - (i - 1)
      BY <1>1, <1>7, <2>2
    <3> QED
      BY <1>4, <3>1 DEF IsStack
  <2> QED
    BY <2>1, <2>2
<1>13. ASSUME NEW i \in Nat, NEW f \in File, Has(t, i, f)'
       PROVE  \/ i \in {1, 2} /\ Has(t, 1, f) /\ f \in ToSet(IF i = 1 THEN a.files ELSE b.files)
              \/ i > 2 /\ Has(t, i - 1, f)
  <2>1. i \in 1 .. Len(w) + 1 /\ f \in ToSet(x[i].files)
    BY <1>8, <1>10, <1>13
  <2>2. CASE i = 1 \/ i = 2
    <3>1. f \in ToSet(IF i = 1 THEN a.files ELSE b.files)
      BY <1>7, <2>1, <2>2
    <3>2. f \in ToSet(w[1].files)
      BY <1>6, <2>2, <3>1
    <3> QED
      BY <1>3, <1>9, <2>2, <3>1, <3>2
  <2>3. CASE i > 2
    <3>1. i - 1 \in DOMAIN w /\ i - 1 \in Nat /\ x[i] = w[i - 1]
      BY <1>1, <1>7, <2>1, <2>3
    <3> QED
      BY <1>9, <2>1, <2>3, <3>1
  <2> QED
    BY <2>1, <2>2, <2>3
<1>14. ASSUME NEW i \in Nat, NEW f \in File, Has(t, i, f)
       PROVE  \E j \in Nat : Has(t, j, f)'
  <2>1. i \in 1 .. Len(w) /\ f \in ToSet(w[i].files)
    BY <1>1, <1>9, <1>14
  <2>2. CASE i = 1
    <3>1. 1 \in DOMAIN x /\ 2 \in DOMAIN x /\ x[1] = a /\ x[2] = b
      BY <1>1, <1>7, <1>8
    <3>2. f \in ToSet(x[1].files) \/ f \in ToSet(x[2].files)
      BY <1>6, <2>1, <2>2, <3>1
    <3> QED
      BY <1>10, <3>1, <3>2
  <2>3. CASE i > 1
    <3>1. i + 1 \in DOMAIN x /\ i + 1 \in Nat /\ i + 1 # 1 /\ i + 1 # 2 /\ (i + 1) - 1 = i
      BY <1>1, <1>8, <2>1, <2>3
    <3>2. x[i + 1] = w[i]
      BY <1>7, <1>8, <3>1
    <3> QED
      BY <1>10, <2>1, <3>1, <3>2
  <2> QED
    BY <2>1, <2>2, <2>3
<1>15. \A v \in Task \ {t}, i \in Nat, f \in File : Has(v, i, f)' <=> Has(v, i, f)
  BY SameCalls
<1>16. Pulled' = Pulled /\ Settled' = Settled
  BY DEF Pulled, Settled
<1>17. ASSUME firstError = "none"
       PROVE  Places'
  <2>1. \A v \in Task, i \in Nat, f \in File : Has(v, i, f)' => \E j \in Nat : Has(v, j, f)
    <3>1. \A i \in Nat, f \in File : Has(t, i, f)' => \E j \in Nat : Has(t, j, f)
      BY <1>13
    <3> QED
      BY <1>15, <3>1
  <2>2. ASSUME NEW v \in Task, NEW u \in Task, NEW i \in Nat, NEW j \in Nat, NEW f \in File,
               Has(v, i, f)', Has(u, j, f)'
        PROVE  v = u /\ i = j
    <3>1. v = u
      BY <1>17, <2>1, <2>2 DEF Places
    <3>2. CASE v # t
      BY <1>15, <1>17, <2>2, <3>1, <3>2 DEF Places
    <3>3. CASE v = t
      <4>1. Has(t, i, f)' /\ Has(t, j, f)'
        BY <2>2, <3>1, <3>3
      <4>2. \A k, l \in Nat : Has(t, k, f) /\ Has(t, l, f) => k = l
        BY <1>17 DEF Places
      <4>3. CASE i > 2 /\ j > 2
        <5>1. i - 1 \in Nat /\ j - 1 \in Nat /\ Has(t, i - 1, f) /\ Has(t, j - 1, f)
          BY <1>13, <4>1, <4>3
        <5>2. i - 1 = j - 1
          BY <4>2, <5>1
        <5> QED
          BY <3>1, <5>2
      <4>4. CASE i \in {1, 2} /\ j \in {1, 2}
        BY <1>6, <1>13, <3>1, <4>1, <4>4
      <4>5. ASSUME NEW k \in Nat, NEW l \in Nat, k \in {1, 2}, l > 2, Has(t, k, f)', Has(t, l, f)'
            PROVE  FALSE
        <5>1. Has(t, 1, f) /\ l - 1 \in Nat /\ Has(t, l - 1, f) /\ l - 1 # 1
          BY <1>13, <4>5
        <5> QED
          BY <4>2, <5>1
      <4>6. (i \in {1, 2} \/ i > 2) /\ (j \in {1, 2} \/ j > 2)
        BY <1>13, <4>1
      <4> QED
        BY <4>1, <4>3, <4>4, <4>5, <4>6
    <3> QED
      BY <3>2, <3>3
  <2>3. \A f \in File : (\E v \in Task, i \in Nat : Has(v, i, f)') <=> \E v \in Task, i \in Nat : Has(v, i, f)
    <3>1. \A v \in Task, i \in Nat, f \in File : Has(v, i, f) => \E j \in Nat : Has(v, j, f)'
      BY <1>14, <1>15
    <3> QED
      BY <2>1, <3>1
  <2> QED
    BY <1>16, <1>17, <2>1, <2>2, <2>3 DEF Places
<1>18. firstError # "none" => Places'
  BY DEF Places
<1> QED
  BY <1>8, <1>11, <1>12, <1>17, <1>18
---------------------------------------------------------------------------
(* The actions *)

\* The outcome reports every file, and the main pass has all batches.  In the
\* rescue one task tries one file, and no file it tries was skipped before.
OutcomeInv ==
  /\ pass \in {"main", "replay"} => batches = FileBatches
  /\ pass \in {"rescue", "done"} => AllAreReported
  /\ task[1].status = "exited" /\ firstError = "none" => nextIndex > Len(batches)
  /\ pass = "rescue" =>
       /\ toRescue \subseteq File \ outcome.skipped
       /\ \E f \in (File \ outcome.skipped) \ toRescue : batches = <<<<f>>>>
       /\ \A t \in Task \ {1} : task[t].status = "exited"
       /\ firstError # "none" => task[1].status = "exited" /\ linted = {}

IInv == Core /\ OutcomeInv

\* What was handed out of a sequence of batches before the next one was.
LEMMA PulledFiles ==
  ASSUME Shapes
  PROVE  /\ Len(batches) \in Nat /\ DOMAIN batches = 1 .. Len(batches)
         /\ \A i \in 1 .. Len(batches) : batches[i] \in Seq(File) /\ batches[i] # <<>>
                                        /\ IsOnce(batches[i]) /\ ToSet(batches[i]) \subseteq File
         /\ nextIndex > Len(batches) => Pulled = FilesOf(batches)
         /\ nextIndex <= Len(batches) => batches[nextIndex] \in Seq(File)
                                         /\ ToSet(batches[nextIndex]) \cap Pulled = {}
<1>1. Len(batches) \in Nat /\ DOMAIN batches = 1 .. Len(batches) /\ nextIndex \in 1 .. Len(batches) + 1
  BY LenProperties DEF Shapes
<1>2. \A i \in 1 .. Len(batches) : batches[i] \in Seq(File)
  BY <1>1, ElementOfSeq DEF Shapes
<1>3. \A i \in 1 .. Len(batches) : ToSet(batches[i]) \subseteq File
  BY <1>2, FilesAreFinite
<1>4. \A i \in 1 .. Len(batches) : batches[i] # <<>> /\ IsOnce(batches[i])
  BY <1>1 DEF Shapes, AreDistinct, IsOnce
<1>5. ASSUME nextIndex > Len(batches)
      PROVE  Pulled = FilesOf(batches)
  <2>1. 1 .. nextIndex - 1 = DOMAIN batches
    BY <1>1, <1>5
  <2> QED
    BY <2>1 DEF Pulled, FilesOf
<1>6. ASSUME nextIndex <= Len(batches)
      PROVE  ToSet(batches[nextIndex]) \cap Pulled = {}
  <2>1. \A i \in 1 .. nextIndex - 1 : i \in DOMAIN batches /\ i # nextIndex
    BY <1>1, <1>6
  <2>2. nextIndex \in DOMAIN batches
    BY <1>1, <1>6
  <2> QED
    BY <2>1, <2>2 DEF Shapes, AreDistinct, Pulled, ToSet
<1>7. nextIndex <= Len(batches) => nextIndex \in 1 .. Len(batches)
  BY <1>1
<1> QED
  BY <1>1, <1>2, <1>3, <1>4, <1>5, <1>6, <1>7

\* A batch is handed out: to a task or, after the deadline, to nobody.
LEMMA PullSafe ==
  ASSUME IInv, NEW t \in Task, Pull(t)
  PROVE  IInv'
<1>1. /\ task[t].status = "idle" /\ firstError = "none" /\ nextIndex <= Len(batches)
      /\ nextIndex' = nextIndex + 1
      /\ UNCHANGED <<pass, batches, firstError, linted, dropped, oomDropped, toRescue, outcome>>
  BY DEF Pull, HasNext
<1>2. /\ Shapes /\ TaskInv /\ Places /\ nextIndex \in 1 .. Len(batches) + 1 /\ Len(batches) \in Nat
      /\ task \in [Task -> TaskRecord] /\ 1 \in Task
  BY PulledFiles, BatchesAssumption DEF IInv, Core, Shapes, Task
<1>3. task[t].work = <<>>
  BY <1>1, <1>2 DEF TaskInv
<1> DEFINE batch == batches[nextIndex]
<1>4. /\ batch \in Seq(File) /\ batch # <<>> /\ IsOnce(batch) /\ ToSet(batch) \subseteq File
      /\ ToSet(batch) \cap Pulled = {}
  BY <1>1, <1>2, PulledFiles
<1>5. Pulled' = Pulled \cup ToSet(batch)
  <2>1. 1 .. nextIndex' - 1 = (1 .. nextIndex - 1) \cup {nextIndex}
    BY <1>1, <1>2
  <2> QED
    BY <1>1, <2>1 DEF Pulled
<1>6. \A i \in Nat, f \in File : ~Has(t, i, f)
  BY <1>3 DEF Has
<1>7. nextIndex' \in 1 .. Len(batches') + 1
  BY <1>1, <1>2
<1> HIDE DEF batch
<1>8. CASE IsPastDeadline
  <2>1. skipped' = skipped \cup ToSet(batch) /\ UNCHANGED task
    BY <1>8 DEF Pull, batch
  <2>2. Shapes' /\ TaskInv'
    BY <1>1, <1>2, <1>4, <1>7, <2>1 DEF Shapes, TaskInv, IsStack
  <2>3. \A v \in Task, i \in Nat, f \in File : Has(v, i, f)' <=> Has(v, i, f)
    BY <2>1, SameCalls
  <2>4. Settled' = Settled \cup ToSet(batch) /\ Settled \cap ToSet(batch) = {}
        /\ \A v \in Task, i \in Nat, f \in File : Has(v, i, f) => f \notin ToSet(batch)
    BY <1>1, <1>2, <1>4, <2>1 DEF Settled, Places
  <2>5. Places'
    BY <1>1, <1>2, <1>4, <1>5, <2>1, <2>3, <2>4 DEF Places, Settled
  <2>6. OutcomeInv'
    BY <1>1, <1>2, <2>1 DEF IInv, OutcomeInv, AllAreReported
  <2> QED
    BY <2>2, <2>5, <2>6 DEF IInv, Core
<1>9. CASE ~IsPastDeadline
  <2>1. task' = [task EXCEPT ![t] = Fresh(batch)] /\ UNCHANGED skipped
    BY <1>9 DEF Pull, batch
  <2>2. /\ Fresh(batch) \in TaskRecord
        /\ Fresh(batch).status = "queued" /\ Len(Fresh(batch).work) = 1
        /\ Fresh(batch).work[1] = [files |-> batch, depth |-> 0]
    BY <1>4, TaskStarts
  <2>3. /\ task' \in [Task -> TaskRecord] /\ task'[t] = Fresh(batch)
        /\ \A v \in Task \ {t} : task'[v] = task[v]
    BY <1>2, <2>1, <2>2
  <2>4. Fresh(batch).work \in Seq(Calls) /\ DOMAIN Fresh(batch).work = {1} /\ Fresh(batch).work # <<>>
    <3>1. Fresh(batch).work \in Seq(Calls)
      BY <2>2 DEF TaskRecord
    <3> QED
      BY <2>2, <3>1, LenProperties, EmptySeq
  <2>5. IsStack(Fresh(batch).work)
    BY <1>4, <2>2, <2>4 DEF IsStack
  <2>6. Shapes'
    BY <1>1, <1>2, <1>7, <2>1, <2>3 DEF Shapes
  <2>7. TaskInv'
    BY <1>2, <2>2, <2>3, <2>4, <2>5 DEF TaskInv
  <2>8. \A i \in Nat, f \in File : Has(t, i, f)' <=> i = 1 /\ f \in ToSet(batch)
    BY <2>2, <2>3, <2>4 DEF Has
  <2>9. \A v \in Task \ {t}, i \in Nat, f \in File : Has(v, i, f)' <=> Has(v, i, f)
    BY <2>3, SameCalls
  <2>10. Settled' = Settled /\ Settled \cap ToSet(batch) = {}
         /\ \A v \in Task, i \in Nat, f \in File : Has(v, i, f) => f \notin ToSet(batch)
    BY <1>1, <1>2, <1>4, <2>1 DEF Settled, Places
  <2>11. Places'
    <3>1. \A v \in Task, i \in Nat, f \in File : Has(v, i, f)' => f \notin Settled'
      BY <1>1, <1>2, <2>8, <2>9, <2>10 DEF Places
    <3>2. \A v, u \in Task, i, j \in Nat, f \in File : Has(v, i, f)' /\ Has(u, j, f)' => v = u /\ i = j
      BY <1>1, <1>2, <2>8, <2>9, <2>10 DEF Places
    <3>3. \A f \in File : f \in Pulled' <=> f \in Settled' \/ \E v \in Task, i \in Nat : Has(v, i, f)'
      <4> SUFFICES ASSUME NEW f \in File
                   PROVE  f \in Pulled' <=> f \in Settled' \/ \E v \in Task, i \in Nat : Has(v, i, f)'
        OBVIOUS
      <4>1. f \in Pulled <=> f \in Settled \/ \E v \in Task, i \in Nat : Has(v, i, f)
        BY <1>1, <1>2 DEF Places
      <4>2. (\E v \in Task, i \in Nat : Has(v, i, f)')
              <=> f \in ToSet(batch) \/ \E v \in Task, i \in Nat : Has(v, i, f)
        BY <1>6, <2>8, <2>9
      <4> QED
        BY <1>5, <2>10, <4>1, <4>2
    <3> QED
      BY <1>1, <1>2, <2>1, <3>1, <3>2, <3>3 DEF Places
  <2>12. OutcomeInv'
    <3>1. t # 1 => task'[1] = task[1]
      BY <1>2, <2>3
    <3>2. t = 1 => task'[1].status # "exited"
      BY <2>2, <2>3
    <3>3. pass = "rescue" => t = 1
      BY <1>1 DEF IInv, OutcomeInv
    <3>4. task'[1].status = "exited" => task[1].status = "exited"
      BY <3>1, <3>2
    <3>5. \A v \in Task \ {1} : pass = "rescue" => task'[v].status = "exited"
      BY <2>3, <3>3 DEF IInv, OutcomeInv
    <3>6. task'[1].status = "exited" => nextIndex' > Len(batches')
      BY <1>1, <1>2, <3>4 DEF IInv, OutcomeInv
    <3> QED
      BY <1>1, <3>5, <3>6 DEF IInv, OutcomeInv, AllAreReported
  <2> QED
    BY <2>6, <2>7, <2>11, <2>12 DEF IInv, Core
<1> QED
  BY <1>8, <1>9
\* While a task has calls, what is known about the pass stays true: in the rescue
\* it is the only task, and no error has ended it.
LEMMA WithinCall ==
  ASSUME IInv, NEW t \in Task, task[t].work # <<>>, UNCHANGED control,
         task'[t].status # "exited", \A v \in Task \ {t} : task'[v] = task[v]
  PROVE  OutcomeInv'
<1>1. task[t].status # "exited" /\ 1 \in Task
  BY BatchesAssumption DEF IInv, Core, TaskInv, Task
<1>2. pass = "rescue" => t = 1 /\ firstError = "none"
  BY <1>1 DEF IInv, OutcomeInv
<1>3. task'[1].status = "exited" => task[1].status = "exited"
  BY <1>1
<1> QED
  BY <1>1, <1>2, <1>3 DEF IInv, OutcomeInv, control, AllAreReported

\* A call goes on, in another state.
LEMMA CallGoesOn ==
  ASSUME IInv, NEW t \in Task, task[t].work # <<>>, task' \in [Task -> TaskRecord],
         task'[t].work = task[t].work, task'[t].status \notin {"idle", "exited"},
         \A v \in Task \ {t} : task'[v] = task[v], UNCHANGED <<control, passLocal>>
  PROVE  IInv'
<1>1. OutcomeInv'
  BY WithinCall
<1>2. Shapes' /\ TaskInv'
  BY DEF IInv, Core, Shapes, TaskInv, control, passLocal
<1>3. Places'
  BY QuietPlaces DEF IInv, Core, control, passLocal
<1> QED
  BY <1>1, <1>2, <1>3 DEF IInv, Core

\* A call returns, with its files settled.
LEMMA CallReturns ==
  ASSUME IInv, NEW t \in Task, NEW u \in TaskRecord, u.work = task[t].work, u.work # <<>>,
         Return(t, u), UNCHANGED control,
         \/ linted' = linted \cup Files(t) /\ UNCHANGED <<dropped, oomDropped, skipped>>
         \/ /\ dropped' = dropped \cup Files(t) /\ UNCHANGED <<linted, skipped>>
            /\ oomDropped' \in {oomDropped, oomDropped \cup Files(t)}
         \/ skipped' = skipped \cup Files(t) /\ UNCHANGED <<linted, dropped, oomDropped>>
  PROVE  IInv'
<1>1. Shapes /\ TaskInv /\ Places
  BY DEF IInv, Core
<1>2. /\ task' \in [Task -> TaskRecord]
      /\ task'[t].work = Tail(task[t].work)
      /\ task'[t].status \in {"ready", "idle"}
      /\ \A v \in Task \ {t} : task'[v] = task[v]
      /\ TaskInv'
  BY <1>1, ReturnMoves
<1>3. Places'
  BY <1>1, <1>2, CallEnds DEF control
<1>4. Files(t) \subseteq File
  BY <1>1, TaskShape
<1>5. Shapes'
  BY <1>1, <1>2, <1>4 DEF Shapes, control
<1>6. OutcomeInv'
  BY <1>2, WithinCall
<1> QED
  BY <1>2, <1>3, <1>5, <1>6 DEF IInv, Core

\* A call is given up because the scan ran out of time.
LEMMA SkipSafe ==
  ASSUME IInv, NEW t \in Task, task[t].work # <<>>, Skip(t), UNCHANGED control
  PROVE  IInv'
<1>1. task[t] \in TaskRecord /\ Cardinality(Files(t)) \in Nat
  BY TaskShape DEF IInv, Core
<1> DEFINE u == [task[t] EXCEPT !.skippedCount = @ + Cardinality(Files(t))]
<1>2. u \in TaskRecord /\ u.work = task[t].work
  BY <1>1 DEF TaskRecord
<1>3. Return(t, u) /\ skipped' = skipped \cup Files(t) /\ UNCHANGED <<linted, dropped, oomDropped>>
  BY DEF Skip
<1> HIDE DEF u
<1> QED
  BY <1>2, <1>3, CallReturns

\* The steps of a task that has a batch, up to the end of its job.
LEMMA BatchSteps ==
  ASSUME IInv, NEW t \in Task, EnterSecondHalf(t) \/ SpawnBatch(t) \/ JobStarts(t)
  PROVE  IInv'
<1>1. /\ Shapes /\ TaskInv /\ task[t] \in TaskRecord /\ task \in [Task -> TaskRecord]
      /\ task[t].status \in {"ready", "queued", "requested"} /\ task[t].work # <<>>
  BY TaskShape DEF IInv, Core, Shapes, TaskInv, EnterSecondHalf, SpawnBatch, JobStarts
<1>2. CASE Skip(t) /\ UNCHANGED control
  BY <1>1, <1>2, SkipSafe
<1>3. ASSUME NEW status \in {"queued", "requested"}, task' = [task EXCEPT ![t].status = status],
             UNCHANGED <<control, passLocal>>
      PROVE  IInv'
  <2>1. /\ task' \in [Task -> TaskRecord] /\ task'[t].work = task[t].work /\ task'[t].status = status
        /\ \A v \in Task \ {t} : task'[v] = task[v]
    BY <1>1, <1>3 DEF TaskRecord, Status
  <2> QED
    BY <1>1, <1>3, <2>1, CallGoesOn
<1>4. CASE JobStarts(t)
  <2>1. /\ task' = [task EXCEPT ![t].status = "running", ![t].didStart = TRUE]
        /\ UNCHANGED <<control, passLocal>>
    BY <1>4 DEF JobStarts
  <2>2. /\ task' \in [Task -> TaskRecord] /\ task'[t].work = task[t].work /\ task'[t].status = "running"
        /\ \A v \in Task \ {t} : task'[v] = task[v]
    BY <1>1, <2>1 DEF TaskRecord, Status
  <2> QED
    BY <1>1, <2>1, <2>2, CallGoesOn
<1> QED
  BY <1>2, <1>3, <1>4 DEF EnterSecondHalf, SpawnBatch

\* The job of a call succeeds or exceeds a limit.
LEMMA JobEndsSafe ==
  ASSUME IInv, NEW t \in Task, JobSucceeds(t) \/ \E isOom \in BOOLEAN : JobExceeds(t, isOom)
  PROVE  IInv'
<1>1. /\ Shapes /\ TaskInv /\ Places /\ task[t] \in TaskRecord /\ task \in [Task -> TaskRecord]
      /\ task[t].status = "running" /\ task[t].work # <<>> /\ UNCHANGED control
  BY TaskShape DEF IInv, Core, Shapes, TaskInv, JobSucceeds, JobExceeds
<1>2. CASE JobSucceeds(t)
  BY <1>1, <1>2, CallReturns DEF JobSucceeds
<1>3. ASSUME NEW isOom \in BOOLEAN, JobExceeds(t, isOom)
      PROVE  IInv'
  <2>1. CASE IsPastDeadline
    BY <1>1, <1>3, <2>1, SkipSafe DEF JobExceeds
  <2>2. CASE ~IsPastDeadline
    <3>1. PICK budget \in IF task[t].budget = "none" THEN {"running", "elapsed"} ELSE {task[t].budget} :
            IF CannotSplit(t, budget)
            THEN /\ Drop(t, isOom)
                 /\ Return(t, [task[t] EXCEPT !.budget = budget])
            ELSE /\ task' = [task EXCEPT ![t].status = "queued", ![t].budget = budget,
                                         ![t].work = Halves(Head(@)) \o Tail(@)]
                 /\ UNCHANGED <<passLocal, progress>>
      BY <1>3, <2>2 DEF JobExceeds
    <3>2. budget \in Budget
      BY <1>1 DEF TaskRecord, Budget
    <3>3. CASE CannotSplit(t, budget)
      <4> DEFINE u == [task[t] EXCEPT !.budget = budget]
      <4>1. u \in TaskRecord /\ u.work = task[t].work
        BY <1>1, <3>2 DEF TaskRecord
      <4>2. Return(t, u) /\ Drop(t, isOom)
        BY <3>1, <3>3
      <4> HIDE DEF u
      <4> QED
        BY <1>1, <4>1, <4>2, CallReturns DEF Drop
    <3>4. CASE ~CannotSplit(t, budget)
      <4> DEFINE w == Halves(Head(task[t].work)) \o Tail(task[t].work)
      <4>1. /\ task' = [task EXCEPT ![t].status = "queued", ![t].budget = budget,
                                   ![t].work = Halves(Head(@)) \o Tail(@)]
            /\ UNCHANGED passLocal
        BY <3>1, <3>4
      <4>2. task'[t] = [task[t] EXCEPT !.status = "queued", !.budget = budget, !.work = w]
        BY <1>1, <4>1
      <4>3. task'[t].work = w /\ task'[t].status = "queued"
        BY <1>1, <4>2 DEF TaskRecord
      <4>4. \A v \in Task \ {t} : task'[v] = task[v]
        BY <1>1, <4>1
      <4>5. Len(Current(t).files) > 1 /\ Current(t).depth < SplitMaxDepth
        <5>1. Current(t) \in Calls
          BY <1>1, TaskShape
        <5>2. Current(t).depth \in Int /\ SplitMaxDepth \in Int /\ Len(Current(t).files) \in Nat
          BY <5>1, BatchesAssumption DEF Calls
        <5>3. ~(Len(Current(t).files) <= 1) /\ ~(Current(t).depth >= SplitMaxDepth)
          BY <3>4 DEF CannotSplit
        <5> QED
          BY <5>2, <5>3
      <4>6. Places' /\ w \in Seq(Calls) /\ w # <<>> /\ IsStack(w)
        BY <1>1, <4>1, <4>3, <4>4, <4>5, CallSplits DEF control, passLocal
      <4> HIDE DEF w
      <4>7. task' \in [Task -> TaskRecord]
        <5>1. task'[t] \in TaskRecord
          BY <1>1, <3>2, <4>2, <4>6 DEF TaskRecord, Status
        <5>2. task' = [task EXCEPT ![t] = task'[t]]
          BY <1>1, <4>1, <4>4
        <5> QED
          BY <1>1, <5>1, <5>2
      <4>8. Shapes' /\ TaskInv'
        BY <1>1, <4>1, <4>3, <4>4, <4>6, <4>7 DEF Shapes, TaskInv, control, passLocal
      <4>9. OutcomeInv'
        BY <1>1, <4>3, <4>4, WithinCall
      <4> QED
        BY <4>6, <4>8, <4>9 DEF IInv, Core
    <3> QED
      BY <3>3, <3>4
  <2> QED
    BY <2>1, <2>2
<1> QED
  BY <1>2, <1>3

\* A task ends, with nothing left to hand out or because its batch failed.
LEMMA TaskEndsSafe ==
  ASSUME IInv, NEW t \in Task, Retire(t) \/ \E error \in {"fatal", "exhausted"} : TaskFails(t, error)
  PROVE  IInv'
<1>1. /\ Shapes /\ TaskInv /\ Places /\ task \in [Task -> TaskRecord] /\ 1 \in Task
      /\ task' = [task EXCEPT ![t] = Rest("exited")]
      /\ UNCHANGED <<pass, batches, nextIndex, passLocal, toRescue, outcome>>
  <2>1. Shapes /\ TaskInv /\ Places /\ task \in [Task -> TaskRecord] /\ 1 \in Task
    BY BatchesAssumption DEF IInv, Core, Shapes, Task
  <2>2. CASE Retire(t)
    BY <2>1, <2>2 DEF Retire, control
  <2>3. CASE \E error \in {"fatal", "exhausted"} : TaskFails(t, error)
    BY <2>1, <2>3 DEF TaskFails
  <2> QED
    BY <2>1, <2>2, <2>3
<1>2. /\ Rest("exited") \in TaskRecord /\ Rest("exited").work = <<>> /\ Rest("exited").status = "exited"
  BY TaskStarts DEF Status
<1>3. /\ task' \in [Task -> TaskRecord] /\ task'[t].work = <<>> /\ task'[t].status = "exited"
      /\ \A v \in Task \ {t} : task'[v] = task[v]
  BY <1>1, <1>2
<1>4. Shapes' /\ TaskInv'
  BY <1>1, <1>3 DEF Shapes, TaskInv, IsStack, passLocal
<1>5. CASE Retire(t)
  <2>1. UNCHANGED firstError /\ (firstError # "none" \/ nextIndex > Len(batches)) /\ task[t].work = <<>>
    <3>1. nextIndex \in Int /\ Len(batches) \in Int
      BY <1>1, PulledFiles DEF Shapes
    <3> QED
      BY <1>1, <1>5, <3>1 DEF Retire, HasNext, control, TaskInv
  <2>2. Places'
    BY <1>1, <1>3, <2>1, QuietPlaces DEF passLocal
  <2>3. OutcomeInv'
    BY <1>1, <1>3, <2>1 DEF IInv, OutcomeInv, passLocal, AllAreReported
  <2> QED
    BY <1>4, <2>2, <2>3 DEF IInv, Core
<1>6. ASSUME NEW error \in {"fatal", "exhausted"}, TaskFails(t, error)
      PROVE  IInv'
  <2>1. firstError' # "none" /\ task[t].work # <<>> /\ task[t].status # "exited"
    BY <1>1, <1>6 DEF TaskFails, TaskInv
  <2>2. Places'
    BY <2>1 DEF Places
  <2>3. ASSUME pass = "rescue"
        PROVE  t = 1 /\ linted = {}
    <3>1. t = 1 /\ firstError = "none"
      BY <2>1, <2>3 DEF IInv, OutcomeInv
    <3>2. PICK f : batches = <<<<f>>>>
      BY <2>3 DEF IInv, OutcomeInv
    <3>3. Pulled \subseteq {f}
      BY <1>1, <3>2 DEF Shapes, Pulled, ToSet
    <3>4. /\ 1 \in DOMAIN task[t].work /\ task[t].work[1].files # <<>>
          /\ task[t].work[1].files \in Seq(File) /\ ToSet(task[t].work[1].files) \subseteq File
      BY <1>1, <2>1, TaskShape DEF TaskInv, IsStack
    <3>5. task[t].work[1].files[1] \in ToSet(task[t].work[1].files)
      <4>1. \A q \in Seq(File) : q # <<>> => 1 \in DOMAIN q
        BY EmptySeq, LenProperties
      <4> QED
        BY <3>4, <4>1 DEF ToSet
    <3>6. PICK g \in File : Has(t, 1, g)
      BY <3>4, <3>5 DEF Has
    <3>7. g \in Pulled /\ g \notin Settled
      BY <1>1, <3>1, <3>6 DEF Places
    <3>8. \A h \in linted : h \in File /\ h \in Settled /\ h \in Pulled
      BY <1>1, <3>1 DEF Places, Shapes, Settled
    <3> QED
      BY <3>1, <3>3, <3>7, <3>8
  <2>4. OutcomeInv'
    BY <1>1, <1>3, <2>1, <2>3 DEF IInv, OutcomeInv, passLocal, AllAreReported
  <2> QED
    BY <1>4, <2>2, <2>4 DEF IInv, Core
<1> QED
  BY <1>5, <1>6

\* The clocks and the display change nothing that files depend on.
LEMMA ClockSteps ==
  ASSUME IInv,
         \/ DeadlinePasses \/ RescueBudgetElapses \/ ProgressTick \/ UNCHANGED vars
         \/ \E t \in Task : SplitBudgetElapses(t)
  PROVE  IInv'
<1>1. Shapes /\ TaskInv /\ Places /\ task \in [Task -> TaskRecord] /\ 1 \in Task
  BY BatchesAssumption DEF IInv, Core, Shapes, Task
<1>2. CASE UNCHANGED <<control, task, passLocal>>
  <2>1. Places'
    BY <1>1, <1>2, QuietPlaces DEF control, passLocal
  <2> QED
    BY <1>2, <2>1 DEF IInv, Core, Shapes, TaskInv, OutcomeInv, AllAreReported, control, passLocal
<1>3. ASSUME NEW t \in Task, SplitBudgetElapses(t)
      PROVE  IInv'
  <2>1. task' = [task EXCEPT ![t].budget = "elapsed"] /\ UNCHANGED <<control, passLocal>>
    BY <1>3 DEF SplitBudgetElapses
  <2>2. /\ task' \in [Task -> TaskRecord]
        /\ \A v \in Task : task'[v].work = task[v].work /\ task'[v].status = task[v].status
    BY <1>1, <2>1 DEF TaskRecord, Budget
  <2>3. Places'
    BY <1>1, <2>1, <2>2, QuietPlaces DEF control, passLocal
  <2>4. Shapes' /\ TaskInv'
    BY <1>1, <2>1, <2>2 DEF Shapes, TaskInv, control, passLocal
  <2>5. OutcomeInv'
    BY <1>1, <2>1, <2>2 DEF IInv, OutcomeInv, AllAreReported, control, passLocal
  <2> QED
    BY <2>3, <2>4, <2>5 DEF IInv, Core
<1> QED
  BY <1>2, <1>3 DEF DeadlinePasses, RescueBudgetElapses, ProgressTick, vars, control

---------------------------------------------------------------------------
(* From one pass to the next *)

TasksOf(n, b) == [t \in Task |-> Rest(IF t <= Min({n, b}) THEN "idle" ELSE "exited")]

\* The tasks of a new pass: at least the first one works, if there is any batch.
LEMMA NewTasks ==
  ASSUME NEW b \in Nat, NEW n \in Nat \ {0}
  PROVE  /\ TasksOf(n, b) \in [Task -> TaskRecord]
         /\ \A t \in Task : /\ TasksOf(n, b)[t].work = <<>>
                            /\ TasksOf(n, b)[t].status \in {"idle", "exited"}
                            /\ n = 1 /\ t # 1 => TasksOf(n, b)[t].status = "exited"
         /\ TasksOf(n, b)[1].status = "exited" => b = 0
<1> DEFINE tasks == TasksOf(n, b)
<1>1. Min({n, b}) \in {n, b} /\ Min({n, b}) <= n /\ Min({n, b}) \in Nat
  BY MinOfTwo
<1>2. \A t \in Task : t \in Nat /\ t >= 1
  BY BatchesAssumption DEF Task
<1>3. 1 \in Task
  BY BatchesAssumption DEF Task
<1>4. \A status \in {"idle", "exited"} :
        Rest(status) \in TaskRecord /\ Rest(status).work = <<>> /\ Rest(status).status = status
  BY TaskStarts DEF Status
<1>5. ASSUME NEW t \in Task
      PROVE  /\ tasks[t] \in TaskRecord
             /\ tasks[t].work = <<>> /\ tasks[t].status \in {"idle", "exited"}
             /\ n = 1 /\ t # 1 => tasks[t].status = "exited"
  <2>1. tasks[t] = Rest(IF t <= Min({n, b}) THEN "idle" ELSE "exited")
    BY DEF TasksOf
  <2>2. n = 1 /\ t # 1 => ~(t <= Min({n, b}))
    BY <1>1, <1>2
  <2> QED
    BY <1>4, <2>1, <2>2
<1>6. tasks[1].status = "exited" => b = 0
  <2>1. tasks[1] = Rest(IF 1 <= Min({n, b}) THEN "idle" ELSE "exited")
    BY <1>3 DEF TasksOf
  <2>2. ~(1 <= Min({n, b})) => b = 0
    BY <1>1
  <2> QED
    BY <1>4, <2>1, <2>2
<1> QED
  BY <1>5, <1>6 DEF TasksOf

\* A new pass has handed out nothing.
LEMMA NewPassSafe ==
  ASSUME batches' \in Seq(Seq(File)), AreDistinct(batches'), nextIndex' = 1, firstError' = "none",
         pass' \in {"main", "replay", "rescue"}, NEW n \in Nat \ {0},
         task' = TasksOf(n, Len(batches')),
         linted' = {}, dropped' = {}, oomDropped' = {}, skipped' = {},
         toRescue' \subseteq File, outcome' \in Outcomes
  PROVE  /\ Core'
         /\ task'[1].status = "exited" => nextIndex' > Len(batches')
         /\ n = 1 => \A t \in Task \ {1} : task'[t].status = "exited"
<1>1. Len(batches') \in Nat
  BY LenProperties
<1>2. /\ task' \in [Task -> TaskRecord]
      /\ \A t \in Task : /\ task'[t].work = <<>> /\ task'[t].status \in {"idle", "exited"}
                         /\ n = 1 /\ t # 1 => task'[t].status = "exited"
      /\ task'[1].status = "exited" => Len(batches') = 0
  BY <1>1, NewTasks
<1>3. Shapes'
  BY <1>1, <1>2 DEF Shapes
<1>4. DOMAIN <<>> = {}
  OBVIOUS
<1>5. TaskInv'
  BY <1>2, <1>4 DEF TaskInv, IsStack
<1>6. \A t \in Task, i \in Nat, f \in File : ~Has(t, i, f)'
  BY <1>2, <1>4 DEF Has
<1>7. Pulled' = {} /\ Settled' = {}
  <2>1. 1 .. nextIndex' - 1 = {}
    OBVIOUS
  <2> QED
    BY <2>1 DEF Pulled, Settled
<1>8. Places'
  BY <1>6, <1>7 DEF Places, Settled
<1> QED
  BY <1>1, <1>2, <1>3, <1>5, <1>8 DEF Core

\* When all tasks of a pass have ended without an error, each of its files is
\* linted, dropped or skipped, in one way.
LEMMA PassAccounts ==
  ASSUME IInv, PassSettled, firstError = "none"
  PROVE  /\ linted \cup dropped \cup skipped = FilesOf(batches)
         /\ linted \cap dropped = {} /\ linted \cap skipped = {} /\ dropped \cap skipped = {}
<1>1. Shapes /\ TaskInv /\ Places /\ OutcomeInv /\ 1 \in Task
  BY BatchesAssumption DEF IInv, Core, Task
<1>2. nextIndex > Len(batches)
  BY <1>1 DEF PassSettled, OutcomeInv
<1>3. Pulled = FilesOf(batches)
  BY <1>1, <1>2, PulledFiles
<1>4. \A t \in Task, i \in Nat, f \in File : ~Has(t, i, f)
  BY <1>1 DEF PassSettled, TaskInv, Has
<1>5. Pulled \subseteq File
  <2>1. \A i \in 1 .. nextIndex - 1 : i \in 1 .. Len(batches)
    BY <1>1, PulledFiles DEF Shapes
  <2> QED
    BY <1>1, <2>1, PulledFiles DEF Pulled
<1>6. Settled \subseteq File
  BY <1>1 DEF Shapes, Settled
<1>7. Settled = Pulled
  BY <1>1, <1>4, <1>5, <1>6 DEF Places
<1> QED
  BY <1>1, <1>3, <1>7 DEF Places, Settled

\* A file has its own path.
LEMMA OwnPath ==
  ASSUME NEW S \in SUBSET File
  PROVE  S \subseteq SamePath(S)
<1> QED
  BY DEF SamePath

\* One file is a batch by itself.
LEMMA SingleFile ==
  ASSUME NEW f \in File
  PROVE  <<<<f>>>> \in Seq(Seq(File)) /\ AreDistinct(<<<<f>>>>) /\ FilesOf(<<<<f>>>>) = {f}
<1>1. <<f>> \in Seq(File) /\ <<f>> # <<>>
  OBVIOUS
<1>2. <<<<f>>>> \in Seq(Seq(File)) /\ DOMAIN <<<<f>>>> = {1} /\ DOMAIN <<f>> = {1}
  BY <1>1
<1>3. AreDistinct(<<<<f>>>>)
  BY <1>1, <1>2 DEF AreDistinct
<1> QED
  BY <1>2, <1>3 DEF FilesOf, ToSet

\* A pass that failed is replayed or ends the scan.
LEMMA PassFailsSafe ==
  ASSUME IInv, PassFails
  PROVE  IInv'
<1>1. Shapes /\ TaskInv /\ Places /\ OutcomeInv /\ UNCHANGED <<toRescue, outcome>>
  BY DEF IInv, Core, PassFails
<1>2. CASE NewPass("replay", FileBatches, 1)
  <2>1. /\ pass' = "replay" /\ batches' = FileBatches /\ nextIndex' = 1 /\ firstError' = "none"
        /\ task' = TasksOf(1, Len(batches'))
        /\ linted' = {} /\ dropped' = {} /\ oomDropped' = {} /\ skipped' = {}
    BY <1>2 DEF NewPass, TasksOf
  <2>2. toRescue' \subseteq File /\ outcome' \in Outcomes
    BY <1>1 DEF Shapes
  <2>3. batches' \in Seq(Seq(File)) /\ AreDistinct(batches')
    BY <2>1, BatchesAssumption
  <2>4. Core' /\ (task'[1].status = "exited" => nextIndex' > Len(batches'))
    BY <2>1, <2>2, <2>3, NewPassSafe
  <2> QED
    BY <2>1, <2>4 DEF IInv, OutcomeInv
<1>3. CASE /\ pass' = "failed"
           /\ UNCHANGED <<batches, nextIndex, firstError, task, passLocal, progress>>
  <2>1. Places'
    BY <1>1, <1>3, QuietPlaces DEF passLocal
  <2>2. Shapes' /\ TaskInv'
    BY <1>1, <1>3 DEF Shapes, TaskInv, passLocal
  <2>3. OutcomeInv'
    BY <1>1, <1>3 DEF OutcomeInv
  <2> QED
    BY <2>1, <2>2, <2>3 DEF IInv, Core
<1> QED
  BY <1>2, <1>3 DEF PassFails

\* The rescue goes to a file that was not skipped, and no skipped file is left for it.
LEMMA RescueStarts ==
  ASSUME toRescue' \subseteq File \ outcome'.skipped, outcome' \in Outcomes, AllAreReported',
         NEW file \in File \ outcome'.skipped, file \notin toRescue',
         NewPass("rescue", <<<<file>>>>, 1)
  PROVE  IInv'
<1>1. /\ pass' = "rescue" /\ batches' = <<<<file>>>> /\ nextIndex' = 1 /\ firstError' = "none"
      /\ task' = TasksOf(1, Len(batches'))
      /\ linted' = {} /\ dropped' = {} /\ oomDropped' = {} /\ skipped' = {}
  BY DEF NewPass, TasksOf
<1>3. batches' \in Seq(Seq(File)) /\ AreDistinct(batches') /\ toRescue' \subseteq File
  BY <1>1, SingleFile
<1>4. /\ Core' /\ (task'[1].status = "exited" => nextIndex' > Len(batches'))
      /\ \A t \in Task \ {1} : task'[t].status = "exited"
  BY <1>1, <1>3, NewPassSafe
<1>5. OutcomeInv'
  BY <1>1, <1>4 DEF OutcomeInv
<1> QED
  BY <1>4, <1>5 DEF IInv

\* A pass that completed is reported, or its report goes on to the rescue.
LEMMA PassCompletesSafe ==
  ASSUME IInv, PassCompletes
  PROVE  IInv'
<1>1. /\ Shapes /\ TaskInv /\ Places /\ OutcomeInv /\ PassSettled /\ firstError = "none"
      /\ batches = FileBatches
      /\ outcome' = [diagnostics |-> linted, dropped |-> dropped, skipped |-> skipped]
  BY DEF IInv, Core, PassCompletes, OutcomeInv
<1>2. /\ linted \cup dropped \cup skipped = File
      /\ linted \cap dropped = {} /\ linted \cap skipped = {} /\ dropped \cap skipped = {}
  BY <1>1, PassAccounts DEF File
<1>3. /\ outcome'.diagnostics = linted /\ outcome'.dropped = dropped /\ outcome'.skipped = skipped
      /\ outcome' \in Outcomes
  BY <1>1 DEF Shapes, Outcomes
<1>4. AllAreReported'
  <2>1. linted \subseteq SamePath(linted)
    BY <1>1, OwnPath DEF Shapes
  <2> QED
    BY <1>2, <1>3, <2>1 DEF AllAreReported
<1>5. ASSUME NEW file \in oomDropped,
             toRescue' = oomDropped \ {file} /\ NewPass("rescue", <<<<file>>>>, 1)
      PROVE  IInv'
  <2>1. /\ file \in File \ outcome'.skipped /\ file \notin toRescue'
        /\ toRescue' \subseteq File \ outcome'.skipped
    BY <1>1, <1>2, <1>3, <1>5 DEF Shapes
  <2> QED
    BY <1>3, <1>4, <1>5, <2>1, RescueStarts
<1>6. CASE /\ pass' = "done"
           /\ UNCHANGED <<batches, nextIndex, firstError, task, passLocal, progress, toRescue,
                          rescueElapsed>>
  <2>1. Places'
    BY <1>1, <1>6, QuietPlaces DEF passLocal
  <2>2. Shapes' /\ TaskInv'
    BY <1>1, <1>3, <1>6 DEF Shapes, TaskInv, passLocal
  <2>3. OutcomeInv'
    BY <1>1, <1>4, <1>6 DEF OutcomeInv
  <2> QED
    BY <2>1, <2>2, <2>3 DEF IInv, Core
<1> QED
  BY <1>5, <1>6 DEF PassCompletes

\* What the rescue takes from the dropped files are those of the path it linted.
LEMMA RescueIsExact ==
  ASSUME IInv, pass = "rescue", PassSettled
  PROVE  Rescued = SamePath(linted) /\ linted \subseteq File \ outcome.skipped
<1>1. OutcomeInv
  BY DEF IInv
<1>2. PICK f \in (File \ outcome.skipped) \ toRescue : batches = <<<<f>>>>
  BY <1>1 DEF OutcomeInv
<1>3. SamePath({}) = {}
  BY DEF SamePath
<1>4. FilesOf(batches) = {f}
  BY <1>2, SingleFile
<1>5. CASE firstError = "none"
  <2>1. /\ linted \cup dropped \cup skipped = {f}
        /\ linted \cap dropped = {} /\ linted \cap skipped = {} /\ dropped \cap skipped = {}
    BY <1>4, <1>5, PassAccounts
  <2> QED
    BY <1>2, <1>3, <1>4, <1>5, <2>1 DEF Rescued
<1>6. CASE firstError # "none"
  BY <1>1, <1>3, <1>6 DEF OutcomeInv, Rescued
<1> QED
  BY <1>5, <1>6

\* The rescue goes from one file to the next.
LEMMA RescueNextSafe ==
  ASSUME IInv, RescueNext
  PROVE  IInv'
<1>1. /\ Shapes /\ TaskInv /\ Places /\ OutcomeInv /\ PassSettled /\ pass = "rescue"
      /\ outcome' = [outcome EXCEPT !.diagnostics = @ \cup linted, !.dropped = @ \ Rescued]
  BY DEF IInv, Core, RescueNext
<1>2. Rescued = SamePath(linted) /\ linted \subseteq File \ outcome.skipped
  BY <1>1, RescueIsExact
<1>3. outcome \in Outcomes /\ AllAreReported /\ toRescue \subseteq File \ outcome.skipped
  BY <1>1 DEF Shapes, OutcomeInv
<1>4. /\ outcome'.diagnostics = outcome.diagnostics \cup linted
      /\ outcome'.dropped = outcome.dropped \ SamePath(linted)
      /\ outcome'.skipped = outcome.skipped /\ outcome' \in Outcomes
  BY <1>1, <1>2, <1>3 DEF Outcomes
<1>5. AllAreReported'
  <2>1. linted \subseteq SamePath(linted)
    BY <1>2, OwnPath
  <2>2. SamePath(outcome.diagnostics \cup linted) = SamePath(outcome.diagnostics) \cup SamePath(linted)
    BY DEF SamePath
  <2>3. SamePath(outcome.diagnostics)' = SamePath(outcome.diagnostics) \cup SamePath(linted)
    BY <1>4, <2>2 DEF SamePath
  <2> QED
    BY <1>2, <1>3, <1>4, <2>1, <2>3 DEF AllAreReported
<1>6. ASSUME NEW file \in toRescue,
             toRescue' = toRescue \ {file} /\ NewPass("rescue", <<<<file>>>>, 1)
      PROVE  IInv'
  BY <1>3, <1>4, <1>5, <1>6, RescueStarts
<1>7. CASE /\ pass' = "done"
           /\ UNCHANGED <<batches, nextIndex, firstError, task, passLocal, progress, toRescue>>
  <2>1. Places'
    BY <1>1, <1>7, QuietPlaces DEF passLocal
  <2>2. Shapes' /\ TaskInv'
    BY <1>1, <1>4, <1>7 DEF Shapes, TaskInv, passLocal
  <2>3. OutcomeInv'
    BY <1>1, <1>5, <1>7 DEF OutcomeInv
  <2> QED
    BY <2>1, <2>2, <2>3 DEF IInv, Core
<1> QED
  BY <1>6, <1>7 DEF RescueNext

---------------------------------------------------------------------------
(* The theorems *)

\* A scan starts with all its batches to hand out.
LEMMA InitSafe == Init => IInv
<1> SUFFICES ASSUME Init
             PROVE  IInv
  OBVIOUS
<1>1. /\ pass = "main" /\ batches = FileBatches /\ nextIndex = 1 /\ firstError = "none"
      /\ task = TasksOf(Concurrency, Len(batches))
      /\ linted = {} /\ dropped = {} /\ oomDropped = {} /\ skipped = {} /\ toRescue = {}
      /\ outcome = [diagnostics |-> {}, dropped |-> {}, skipped |-> {}]
  BY DEF Init, TasksOf
<1>2. batches \in Seq(Seq(File)) /\ AreDistinct(batches) /\ Len(batches) \in Nat
  BY <1>1, BatchesAssumption, LenProperties
<1>3. /\ task \in [Task -> TaskRecord]
      /\ \A t \in Task : task[t].work = <<>> /\ task[t].status \in {"idle", "exited"}
      /\ task[1].status = "exited" => Len(batches) = 0
  BY <1>1, <1>2, NewTasks, BatchesAssumption
<1>4. Shapes
  BY <1>1, <1>2, <1>3 DEF Shapes, Outcomes
<1>5. DOMAIN <<>> = {}
  OBVIOUS
<1>6. TaskInv
  BY <1>3, <1>5 DEF TaskInv, IsStack
<1>7. \A t \in Task, i \in Nat, f \in File : ~Has(t, i, f)
  BY <1>3, <1>5 DEF Has
<1>8. Pulled = {} /\ Settled = {}
  <2>1. 1 .. nextIndex - 1 = {}
    BY <1>1
  <2> QED
    BY <1>1, <2>1 DEF Pulled, Settled
<1>9. Places
  BY <1>7, <1>8 DEF Places, Settled
<1>10. OutcomeInv
  BY <1>1, <1>2, <1>3 DEF OutcomeInv
<1> QED
  BY <1>4, <1>6, <1>9, <1>10 DEF IInv, Core

\* The induction step: whatever a task, the clocks or the orchestration do.
LEMMA NextSafe == IInv /\ [Next]_vars => IInv'
<1> SUFFICES ASSUME IInv, [Next]_vars
             PROVE  IInv'
  OBVIOUS
<1>1. ASSUME NEW t \in Task, TaskStep(t)
      PROVE  IInv'
  BY <1>1, PullSafe, TaskEndsSafe, BatchSteps, JobEndsSafe DEF TaskStep
<1>2. CASE Orchestrate
  BY <1>2, PassFailsSafe, PassCompletesSafe, RescueNextSafe DEF Orchestrate
<1> QED
  BY <1>1, <1>2, ClockSteps DEF Next

\* In every state of every scan.
THEOREM Invariance == Spec => []IInv
<1> QED
  BY InitSafe, NextSafe, PTL DEF Spec

\* The bookkeeping of every pass keeps its shape.
THEOREM TypeCorrect == Spec => []TypeOK
<1> DEFINE Known == firstError \in {"none", "fatal", "exhausted"}
<1>1. Init => Known
  BY DEF Init
<1>2. ASSUME Known, [Next]_vars
      PROVE  Known'
  <2>1. ASSUME NEW t \in Task, TaskStep(t) \/ SplitBudgetElapses(t)
        PROVE  Known'
    BY <1>2, <2>1 DEF TaskStep, Pull, Retire, EnterSecondHalf, SpawnBatch, JobStarts, JobSucceeds,
                      JobExceeds, TaskFails, SplitBudgetElapses, control
  <2>2. CASE Orchestrate
    BY <1>2, <2>2 DEF Orchestrate, PassFails, PassCompletes, RescueNext, NewPass
  <2>3. CASE DeadlinePasses \/ RescueBudgetElapses \/ ProgressTick \/ UNCHANGED vars
    BY <1>2, <2>3 DEF DeadlinePasses, RescueBudgetElapses, ProgressTick, control, vars
  <2> QED
    BY <1>2, <2>1, <2>2, <2>3 DEF Next
<1>3. ASSUME IInv, Known
      PROVE  TypeOK
  <2>1. ASSUME NEW t \in Task
        PROVE  /\ task[t].status \in Status /\ task[t].budget \in Budget
               /\ task[t].work = <<>> <=> task[t].status \in {"idle", "exited"}
               /\ \A i \in DOMAIN task[t].work : task[t].work[i].depth \in 0 .. SplitMaxDepth
    BY <1>3, TaskShape DEF IInv, Core, TaskInv, TaskRecord, Calls
  <2>2. \A S \in {linted, dropped, skipped, outcome.diagnostics, outcome.dropped} : S \subseteq File
    BY <1>3 DEF IInv, Core, Shapes, Outcomes
  <2> QED
    BY <1>3, <2>1, <2>2 DEF IInv, Core, Shapes, TypeOK
<1> QED
  BY <1>1, <1>2, <1>3, Invariance, PTL DEF Spec

\* A file in a call of a task is in one of its first SplitMaxDepth + 1 calls.
LEMMA CallsAreBounded ==
  ASSUME IInv, NEW t \in Task, NEW i, NEW f, Has(t, i, f)
  PROVE  i \in 1 .. SplitMaxDepth + 1 /\ f \in File
<1> DEFINE w == task[t].work
<1>1. /\ Len(w) \in Nat /\ i \in 1 .. Len(w) /\ 1 \in 1 .. Len(w)
      /\ w[1] \in Calls /\ ToSet(w[i].files) \subseteq File
  BY TaskShape DEF Has, IInv, Core
<1>2. Len(w) - 1 <= w[1].depth
  BY <1>1, TaskShape DEF IInv, Core, TaskInv, IsStack
<1>3. w[1].depth \in 0 .. SplitMaxDepth /\ SplitMaxDepth \in Nat
  BY <1>1, BatchesAssumption DEF Calls
<1>4. f \in File
  BY <1>1 DEF Has
<1> HIDE DEF w
<1> QED
  BY <1>1, <1>2, <1>3, <1>4

\* A set whose elements are all the same has one element or none.
LEMMA AtMostOne ==
  ASSUME NEW S, \A x, y \in S : x = y
  PROVE  Cardinality(S) = IF S = {} THEN 0 ELSE 1
<1>1. CASE S = {}
  BY <1>1, FS_EmptySet
<1>2. CASE S # {}
  <2>1. PICK x \in S : TRUE
    BY <1>2
  <2>2. S = {x}
    BY <2>1
  <2>3. Cardinality({x}) = 1
    BY FS_Singleton
  <2> QED
    BY <1>2, <2>2, <2>3
<1> QED
  BY <1>1, <1>2

\* Being in one place, in the words of the invariant and counted.
LEMMA OnePlace == IInv => FilesInOnePlace
<1> SUFFICES ASSUME IInv, firstError = "none", NEW f \in File
             PROVE  Accounts(f) = IF f \in Pulled THEN 1 ELSE 0
  BY DEF FilesInOnePlace
<1> DEFINE Hows == {how \in {"linted", "dropped", "skipped"} : f \in Results[how]}
           Spots == {p \in Task \X (1 .. SplitMaxDepth + 1) : Has(p[1], p[2], f)}
<1>1. /\ linted \cap dropped = {} /\ linted \cap skipped = {} /\ dropped \cap skipped = {}
      /\ \A t \in Task, i \in Nat : Has(t, i, f) => f \notin Settled
      /\ \A t, u \in Task, i, j \in Nat : Has(t, i, f) /\ Has(u, j, f) => t = u /\ i = j
      /\ f \in Pulled <=> f \in Settled \/ \E t \in Task, i \in Nat : Has(t, i, f)
  BY DEF IInv, Core, Places
<1>2. Cardinality(Hows) = IF f \in Settled THEN 1 ELSE 0
  <2>1. Results["linted"] = linted /\ Results["dropped"] = dropped /\ Results["skipped"] = skipped
    BY DEF Results
  <2>2. \A x, y \in Hows : x = y
    BY <1>1, <2>1
  <2>3. Hows = {} <=> f \notin Settled
    BY <2>1 DEF Settled
  <2> HIDE DEF Hows
  <2> QED
    BY <2>2, <2>3, AtMostOne
<1>3. Cardinality(Spots) = IF \E t \in Task, i \in Nat : Has(t, i, f) THEN 1 ELSE 0
  <2>1. ASSUME NEW p \in Spots
        PROVE  /\ p = <<p[1], p[2]>> /\ p[1] \in Task /\ p[2] \in Nat /\ Has(p[1], p[2], f)
    BY BatchesAssumption
  <2>2. \A p, q \in Spots : p = q
    BY <1>1, <2>1
  <2>3. ASSUME NEW t \in Task, NEW i \in Nat, Has(t, i, f)
        PROVE  <<t, i>> \in Spots
    BY <2>3, CallsAreBounded
  <2>4. Spots = {} <=> ~ \E t \in Task, i \in Nat : Has(t, i, f)
    BY <2>1, <2>3
  <2> HIDE DEF Spots
  <2> QED
    BY <2>2, <2>4, AtMostOne
<1>4. Accounts(f) = Cardinality(Hows) + Cardinality(Spots)
  BY DEF Accounts
<1> HIDE DEF Hows, Spots
<1> QED
  BY <1>1, <1>2, <1>3, <1>4

\* No file is lost, linted twice or reported twice, however batches split and fail.
THEOREM FilesStayInOnePlace == Spec => []FilesInOnePlace
<1> QED
  BY Invariance, OnePlace, PTL

\* A pass that is done reports every file, with results or by name, and a source as
\* analyzed only with results of one of its paths.
THEOREM ReportsAreComplete == Spec => []AnalyzedFilesHaveResults
<1>1. ASSUME IInv, pass = "done"
      PROVE  AllAreReported /\ Analyzed \subseteq {SourceOf[f] : f \in outcome.diagnostics}
  <2>1. AllAreReported /\ outcome.diagnostics \subseteq File
    BY <1>1 DEF IInv, OutcomeInv, Core, Shapes, Outcomes
  <2>2. ASSUME NEW f \in File \ SamePath(outcome.dropped \cup outcome.skipped)
        PROVE  \E g \in outcome.diagnostics : SourceOf[f] = SourceOf[g]
    <3>1. f \notin outcome.dropped \cup outcome.skipped
      BY <2>2 DEF SamePath
    <3>2. PICK g \in outcome.diagnostics : PathOf[f] = PathOf[g]
      BY <2>1, <3>1 DEF AllAreReported, SamePath
    <3> QED
      BY <2>1, <3>2, PathsAssumption
  <2> QED
    BY <2>1, <2>2 DEF Analyzed
<1>2. IInv => AnalyzedFilesHaveResults
  BY <1>1 DEF AnalyzedFilesHaveResults
<1> QED
  BY <1>2, Invariance, PTL

\* A pass ends only after all of its tasks have.
THEOREM PassesOutliveProcesses == Spec => NoProcessOutlivesItsPass
<1>1. ASSUME [Next]_vars, NEW t \in Task, task[t].status \in {"queued", "requested", "running"}
      PROVE  pass' = pass /\ batches' = batches
  <2>1. ~PassSettled
    BY <1>1 DEF PassSettled
  <2>2. ~Orchestrate
    BY <2>1 DEF Orchestrate, PassFails, PassCompletes, RescueNext
  <2>3. ASSUME NEW u \in Task, TaskStep(u)
        PROVE  pass' = pass /\ batches' = batches
    BY <2>3 DEF TaskStep, Pull, Retire, EnterSecondHalf, SpawnBatch, JobStarts, JobSucceeds,
                JobExceeds, TaskFails, control
  <2> QED
    BY <1>1, <2>2, <2>3
       DEF Next, DeadlinePasses, RescueBudgetElapses, ProgressTick, SplitBudgetElapses, control, vars
<1>2. [Next]_vars => [\A t \in Task : task[t].status \in {"queued", "requested", "running"} =>
                        pass' = pass /\ batches' = batches]_vars
  BY <1>1
<1> QED
  BY <1>2, PTL DEF Spec, NoProcessOutlivesItsPass

\* The rescue takes files from the dropped ones, and only those that it linted.
THEOREM RescueImproves == Spec => RescueOnlyImproves
<1> DEFINE Better == pass = "rescue" =>
                       /\ pass' # "failed"
                       /\ outcome.diagnostics \subseteq outcome'.diagnostics
                       /\ outcome'.dropped \subseteq outcome.dropped
                       /\ outcome'.skipped = outcome.skipped
<1>1. ASSUME IInv, [Next]_vars, pass = "rescue"
      PROVE  Better
  <2>1. outcome \in Outcomes
    BY <1>1 DEF IInv, Core, Shapes
  <2>2. CASE Orchestrate
    <3>1. RescueNext
      BY <1>1, <2>2 DEF Orchestrate, PassFails, PassCompletes
    <3>2. outcome' = [outcome EXCEPT !.diagnostics = @ \cup linted, !.dropped = @ \ Rescued]
      BY <3>1 DEF RescueNext
    <3>3. pass' \in {"done", "rescue"}
      BY <3>1 DEF RescueNext, NewPass
    <3> QED
      BY <2>1, <3>2, <3>3 DEF Outcomes
  <2>3. ASSUME pass' = pass, outcome' = outcome
        PROVE  Better
    BY <1>1, <2>3
  <2>4. ASSUME NEW t \in Task, TaskStep(t)
        PROVE  pass' = pass /\ outcome' = outcome
    BY <2>4 DEF TaskStep, Pull, Retire, EnterSecondHalf, SpawnBatch, JobStarts, JobSucceeds,
                JobExceeds, TaskFails, control
  <2>5. CASE \/ DeadlinePasses \/ RescueBudgetElapses \/ ProgressTick \/ UNCHANGED vars
             \/ \E t \in Task : SplitBudgetElapses(t)
    BY <2>3, <2>5 DEF DeadlinePasses, RescueBudgetElapses, ProgressTick, SplitBudgetElapses, control, vars
  <2> QED
    BY <1>1, <2>2, <2>3, <2>4, <2>5 DEF Next
<1>2. IInv /\ [Next]_vars => [Better]_vars
  BY <1>1
<1> QED
  BY <1>2, Invariance, PTL DEF Spec, RescueOnlyImproves

---------------------------------------------------------------------------
(* The signal that every batch was started *)

\* The tasks with a batch that did not report its start yet.
Waiting == {t \in Task : task[t].work # <<>> /\ ~task[t].didStart}

\* Each start that was reported is that of a batch of its own that was handed out.
Signals ==
  pass = "main" =>
    /\ startedBatches \in Nat
    /\ startedBatches + Cardinality(Waiting) <= nextIndex - 1
    /\ allStarted => startedBatches >= Len(batches)

\* There are finitely many tasks.
LEMMA WaitingIsFinite ==
  /\ IsFiniteSet(Waiting) /\ Cardinality(Waiting) \in Nat
  /\ \A S \in SUBSET Waiting : Cardinality(S) \in Nat /\ Cardinality(S) <= Cardinality(Waiting)
<1>1. IsFiniteSet(Task)
  BY BatchesAssumption, FS_Interval DEF Task
<1>2. IsFiniteSet(Waiting)
  BY <1>1, FS_Subset DEF Waiting
<1> QED
  BY <1>2, FS_Subset, FS_CardinalityType

\* No start is reported, and no task begins to wait for one.
LEMMA SignalsStay ==
  ASSUME IInv, Signals, pass = "main", UNCHANGED <<batches, nextIndex, signals>>,
         \A t \in Task : task'[t].work # <<>> /\ ~task'[t].didStart
                           => task[t].work # <<>> /\ ~task[t].didStart
  PROVE  Signals'
<1>1. Waiting' \in SUBSET Waiting
  BY DEF Waiting
<1>2. Cardinality(Waiting') <= Cardinality(Waiting) /\ Cardinality(Waiting') \in Nat
  BY <1>1, WaitingIsFinite
<1>3. nextIndex \in Int
  BY PulledFiles DEF IInv, Core, Shapes
<1> QED
  BY <1>2, <1>3, WaitingIsFinite DEF Signals, signals

\* A call that returns leaves its batch as started as it was.
LEMMA ReturnStays ==
  ASSUME IInv, NEW t \in Task, NEW u, Return(t, u), u.didStart = task[t].didStart,
         u \in TaskRecord, task[t].work # <<>>
  PROVE  \A v \in Task : task'[v].work # <<>> /\ ~task'[v].didStart
                           => task[v].work # <<>> /\ ~task[v].didStart
<1>1. task \in [Task -> TaskRecord]
  BY DEF IInv, Core, Shapes
<1>2. CASE Len(u.work) > 1
  <2>1. task' = [task EXCEPT ![t] = [u EXCEPT !.status = "ready", !.work = Tail(@)]]
    BY <1>2 DEF Return
  <2>2. [u EXCEPT !.status = "ready", !.work = Tail(@)].didStart = task[t].didStart
    BY DEF TaskRecord
  <2> QED
    BY <1>1, <2>1, <2>2
<1>3. CASE ~(Len(u.work) > 1)
  <2>1. task' = [task EXCEPT ![t] = Rest("idle")]
    BY <1>3 DEF Return
  <2>2. Rest("idle").work = <<>>
    BY DEF Rest
  <2> QED
    BY <1>1, <2>1, <2>2
<1> QED
  BY <1>2, <1>3

\* So does a call that is given up.
LEMMA SkipStays ==
  ASSUME IInv, NEW t \in Task, Skip(t), task[t].work # <<>>
  PROVE  \A v \in Task : task'[v].work # <<>> /\ ~task'[v].didStart
                           => task[v].work # <<>> /\ ~task[v].didStart
<1>1. task[t] \in TaskRecord /\ Cardinality(Files(t)) \in Nat
  BY TaskShape DEF IInv, Core
<1> DEFINE u == [task[t] EXCEPT !.skippedCount = @ + Cardinality(Files(t))]
<1>2. u \in TaskRecord
  BY <1>1 DEF TaskRecord
<1>3. u.didStart = task[t].didStart
  BY <1>1, Zenon DEF TaskRecord
<1>4. Return(t, u)
  BY DEF Skip
<1> HIDE DEF u
<1> QED
  BY <1>2, <1>3, <1>4, ReturnStays

\* A start that is reported leaves the signal true only when enough were.
LEMMA ReportIsCounted ==
  ASSUME Signals, pass = "main", ReportBatchStarted, UNCHANGED batches, Len(batches) \in Nat
  PROVE  /\ startedBatches' \in Nat /\ startedBatches' = startedBatches + 1
         /\ allStarted' => startedBatches' >= Len(batches')
<1>1. startedBatches \in Nat /\ startedBatches' = startedBatches + 1
  BY DEF Signals, ReportBatchStarted
<1>2. ASSUME allStarted'
      PROVE  allStarted \/ startedBatches + 1 >= Len(batches)
  BY <1>2, Zenon DEF ReportBatchStarted
<1>3. ASSUME allStarted
      PROVE  startedBatches >= Len(batches)
  BY <1>3 DEF Signals
<1> QED
  BY <1>1, <1>2, <1>3

\* A batch is handed out: it waits for its start, or is reported at once.
LEMMA PullSignals ==
  ASSUME IInv, Signals, pass = "main", NEW t \in Task, Pull(t)
  PROVE  Signals'
<1>1. /\ nextIndex \in Nat /\ nextIndex' = nextIndex + 1 /\ UNCHANGED <<pass, batches>>
      /\ Len(batches) \in Nat /\ task \in [Task -> TaskRecord]
  BY PulledFiles DEF Pull, IInv, Core, Shapes
<1>2. CASE ReportBatchStarted /\ UNCHANGED task
  <2>1. Waiting' = Waiting
    BY <1>2 DEF Waiting
  <2>2. startedBatches + Cardinality(Waiting) <= nextIndex - 1 /\ startedBatches \in Nat
    BY DEF Signals
  <2>3. /\ startedBatches' \in Nat /\ startedBatches' = startedBatches + 1
        /\ allStarted' => startedBatches' >= Len(batches')
    BY <1>1, <1>2, ReportIsCounted
  <2>4. startedBatches' + Cardinality(Waiting') <= nextIndex' - 1
    BY <1>1, <2>1, <2>2, <2>3, WaitingIsFinite
  <2> QED
    BY <2>3, <2>4 DEF Signals
<1>3. CASE task' = [task EXCEPT ![t] = Fresh(batches[nextIndex])] /\ UNCHANGED signals
  <2>1. Waiting' \subseteq Waiting \cup {t}
    BY <1>1, <1>3 DEF Waiting
  <2>2. /\ IsFiniteSet(Waiting \cup {t}) /\ Cardinality(Waiting \cup {t}) \in Nat
        /\ Cardinality(Waiting \cup {t}) <= Cardinality(Waiting) + 1
    BY WaitingIsFinite, FS_AddElement, FS_CardinalityType
  <2>3. Cardinality(Waiting') <= Cardinality(Waiting \cup {t}) /\ Cardinality(Waiting') \in Nat
    BY <2>1, <2>2, FS_Subset, FS_CardinalityType
  <2> QED
    BY <1>1, <1>3, <2>2, <2>3, WaitingIsFinite DEF Signals, signals
<1> QED
  BY <1>2, <1>3 DEF Pull

\* The first job of a batch reports the start, those of its halves do not.
LEMMA StartSignals ==
  ASSUME IInv, Signals, pass = "main", NEW t \in Task, JobStarts(t)
  PROVE  Signals'
<1>1. /\ nextIndex \in Nat /\ UNCHANGED <<pass, batches, nextIndex>>
      /\ Len(batches) \in Nat /\ task \in [Task -> TaskRecord] /\ task[t].work # <<>>
      /\ task' = [task EXCEPT ![t].status = "running", ![t].didStart = TRUE]
  BY PulledFiles DEF JobStarts, IInv, Core, Shapes, TaskInv, control
<1>2. /\ task'[t].didStart = TRUE
      /\ \A v \in Task \ {t} : task'[v] = task[v]
  BY <1>1 DEF TaskRecord
<1>3. CASE task[t].didStart
  <2>1. UNCHANGED signals
    BY <1>3 DEF JobStarts
  <2> QED
    BY <1>1, <1>2, <2>1, SignalsStay
<1>4. CASE ~task[t].didStart
  <2>1. ReportBatchStarted
    BY <1>4 DEF JobStarts
  <2>2. Waiting' \subseteq Waiting \ {t} /\ t \in Waiting
    BY <1>1, <1>2, <1>4 DEF Waiting
  <2>3. /\ IsFiniteSet(Waiting \ {t}) /\ Cardinality(Waiting \ {t}) \in Nat
        /\ Cardinality(Waiting \ {t}) = Cardinality(Waiting) - 1
    BY <2>2, WaitingIsFinite, FS_RemoveElement, FS_CardinalityType
  <2>4. Cardinality(Waiting') <= Cardinality(Waiting \ {t}) /\ Cardinality(Waiting') \in Nat
    BY <2>2, <2>3, FS_Subset, FS_CardinalityType
  <2>5. startedBatches + Cardinality(Waiting) <= nextIndex - 1 /\ startedBatches \in Nat
    BY DEF Signals
  <2>6. /\ startedBatches' \in Nat /\ startedBatches' = startedBatches + 1
        /\ allStarted' => startedBatches' >= Len(batches')
    BY <1>1, <2>1, ReportIsCounted
  <2>7. startedBatches' + Cardinality(Waiting') <= nextIndex' - 1
    BY <1>1, <2>3, <2>4, <2>5, <2>6, WaitingIsFinite
  <2> QED
    BY <2>6, <2>7 DEF Signals
<1> QED
  BY <1>3, <1>4

\* All other steps of a task report no start.
LEMMA OtherSignals ==
  ASSUME IInv, Signals, pass = "main", NEW t \in Task,
         \/ Retire(t) \/ EnterSecondHalf(t) \/ SpawnBatch(t) \/ JobSucceeds(t)
         \/ \E isOom \in BOOLEAN : JobExceeds(t, isOom)
         \/ \E error \in {"fatal", "exhausted"} : TaskFails(t, error)
         \/ SplitBudgetElapses(t)
  PROVE  Signals'
<1>1. task \in [Task -> TaskRecord] /\ task[t] \in TaskRecord /\ TaskInv
  BY DEF IInv, Core, Shapes
<1>2. UNCHANGED <<batches, nextIndex, signals>>
  BY DEF Retire, EnterSecondHalf, SpawnBatch, JobSucceeds, JobExceeds, TaskFails,
         SplitBudgetElapses, control
<1> DEFINE Stays == \A v \in Task : task'[v].work # <<>> /\ ~task'[v].didStart
                                      => task[v].work # <<>> /\ ~task[v].didStart
<1>3. ASSUME Skip(t), task[t].work # <<>>
      PROVE  Stays
  BY <1>3, SkipStays
<1>4. ASSUME Retire(t) \/ \E error \in {"fatal", "exhausted"} : TaskFails(t, error)
      PROVE  Stays
  <2>1. task' = [task EXCEPT ![t] = Rest("exited")]
    BY <1>4 DEF Retire, TaskFails
  <2> QED
    BY <1>1, <2>1 DEF Rest
<1>5. ASSUME EnterSecondHalf(t) \/ SpawnBatch(t)
      PROVE  Stays
  <2>1. task[t].work # <<>>
    BY <1>1, <1>5 DEF EnterSecondHalf, SpawnBatch, TaskInv
  <2>2. \/ Skip(t)
        \/ task' = [task EXCEPT ![t].status = "queued"]
        \/ task' = [task EXCEPT ![t].status = "requested"]
    BY <1>5 DEF EnterSecondHalf, SpawnBatch
  <2> QED
    BY <1>1, <1>3, <2>1, <2>2 DEF TaskRecord
<1>6. ASSUME JobSucceeds(t)
      PROVE  Stays
  <2>1. task[t].work # <<>> /\ Return(t, task[t])
    BY <1>1, <1>6 DEF JobSucceeds, TaskInv
  <2> QED
    BY <1>1, <2>1, ReturnStays
<1>7. ASSUME NEW isOom \in BOOLEAN, JobExceeds(t, isOom)
      PROVE  Stays
  <2>1. task[t].work # <<>>
    BY <1>1, <1>7 DEF JobExceeds, TaskInv
  <2>2. CASE IsPastDeadline
    BY <1>3, <1>7, <2>1, <2>2 DEF JobExceeds
  <2>3. CASE ~IsPastDeadline
    <3>1. PICK budget \in IF task[t].budget = "none" THEN {"running", "elapsed"}
                          ELSE {task[t].budget} :
            \/ Return(t, [task[t] EXCEPT !.budget = budget])
            \/ task' = [task EXCEPT ![t].status = "queued", ![t].budget = budget,
                                    ![t].work = Halves(Head(@)) \o Tail(@)]
      BY <1>7, <2>3 DEF JobExceeds
    <3>2. budget \in Budget
      BY <1>1 DEF TaskRecord, Budget
    <3>3. /\ [task[t] EXCEPT !.budget = budget] \in TaskRecord
          /\ [task[t] EXCEPT !.budget = budget].didStart = task[t].didStart
      BY <1>1, <3>2 DEF TaskRecord
    <3>4. CASE Return(t, [task[t] EXCEPT !.budget = budget])
      BY <2>1, <3>3, <3>4, ReturnStays
    <3>5. CASE task' = [task EXCEPT ![t].status = "queued", ![t].budget = budget,
                                    ![t].work = Halves(Head(@)) \o Tail(@)]
      <4>1. task'[t].didStart = task[t].didStart /\ \A v \in Task \ {t} : task'[v] = task[v]
        BY <1>1, <3>5 DEF TaskRecord
      <4> QED
        BY <2>1, <4>1
    <3> QED
      BY <3>1, <3>4, <3>5
  <2> QED
    BY <2>2, <2>3
<1>8. ASSUME SplitBudgetElapses(t)
      PROVE  Stays
  <2>1. task' = [task EXCEPT ![t].budget = "elapsed"]
    BY <1>8 DEF SplitBudgetElapses
  <2> QED
    BY <1>1, <2>1 DEF TaskRecord
<1> HIDE DEF Stays
<1>9. Stays
  BY <1>4, <1>5, <1>6, <1>7, <1>8
<1> QED
  BY <1>2, <1>9, SignalsStay DEF Stays

\* In the first pass the signal is sent only when every batch was handed to a task.
THEOREM SignalIsHonest == Spec => []SignalFollowsMainPass
<1>1. Init => Signals
  <2> SUFFICES ASSUME Init
               PROVE  Signals
    OBVIOUS
  <2>1. \A t \in Task : task[t].work = <<>>
    BY DEF Init, Rest
  <2>2. Waiting = {}
    BY <2>1 DEF Waiting
  <2> QED
    BY <2>2, FS_EmptySet DEF Signals, Init
<1>2. ASSUME IInv, Signals, [Next]_vars
      PROVE  Signals'
  <2>1. CASE pass' # "main"
    BY <2>1 DEF Signals
  <2>2. CASE pass' = "main"
    <3>1. ~Orchestrate
      BY <2>2 DEF Orchestrate, PassFails, PassCompletes, RescueNext, NewPass
    <3>2. pass = "main"
      BY <1>2, <2>2, <3>1
         DEF Next, TaskStep, Pull, Retire, EnterSecondHalf, SpawnBatch, JobStarts, JobSucceeds,
             JobExceeds, TaskFails, DeadlinePasses, RescueBudgetElapses, ProgressTick,
             SplitBudgetElapses, control, vars
    <3>3. ASSUME NEW t \in Task, TaskStep(t) \/ SplitBudgetElapses(t)
          PROVE  Signals'
      BY <1>2, <3>2, <3>3, PullSignals, StartSignals, OtherSignals DEF TaskStep
    <3>4. CASE DeadlinePasses \/ RescueBudgetElapses \/ ProgressTick \/ UNCHANGED vars
      <4>1. UNCHANGED <<batches, nextIndex, signals, task>>
        BY <3>4 DEF DeadlinePasses, RescueBudgetElapses, ProgressTick, control, vars
      <4> QED
        BY <1>2, <3>2, <4>1, SignalsStay
    <3> QED
      BY <1>2, <3>1, <3>3, <3>4 DEF Next
  <2> QED
    BY <2>1, <2>2
<1>3. ASSUME IInv, Signals
      PROVE  SignalFollowsMainPass
  <2>1. nextIndex \in Int /\ Len(batches) \in Int
    BY <1>3, PulledFiles DEF IInv, Core, Shapes
  <2> QED
    BY <1>3, <2>1, WaitingIsFinite DEF Signals, SignalFollowsMainPass
<1> QED
  BY <1>1, <1>2, <1>3, Invariance, PTL DEF Spec

---------------------------------------------------------------------------
(* What the display shows *)

\* The tasks with a batch.
Busy == {t \in Task : task[t].work # <<>>}

Display == [started : Nat, scanned : Int, displayed : 0 .. Total]

\* The files a busy task has on loan, those of its batch, were handed out to it
\* alone; no more files were scanned than were handed out and are not on loan.
Loans(lent) ==
  /\ \A t \in Busy : /\ lent[t] # {} /\ lent[t] \subseteq Pulled
                     /\ Cardinality(lent[t]) = task[t].size
  /\ \A t, u \in Busy : t # u => lent[t] \cap lent[u] = {}
  /\ progress.scanned <= Cardinality(Pulled \ UNION {lent[t] : t \in Busy})

\* What the display shows follows what was scanned, or creeps up below the total.
DisplayInv ==
  /\ progress \in Display
  /\ pass = "rescue" => progress.displayed = 0
  /\ pass = "main" =>
       /\ progress.displayed = Total => progress.scanned = Total
       /\ \E lent \in [Task -> SUBSET File] : Loans(lent)

\* There are finitely many files.
LEMMA FilesAreCounted ==
  /\ IsFiniteSet(File) /\ Total \in Nat
  /\ \A S \in SUBSET File : /\ IsFiniteSet(S) /\ Cardinality(S) \in 0 .. Total
                            /\ Cardinality(S) = Total => S = File
<1> DEFINE sets == {ToSet(FileBatches[i]) : i \in DOMAIN FileBatches}
           f == [i \in DOMAIN FileBatches |-> ToSet(FileBatches[i])]
<1>1. /\ Len(FileBatches) \in Nat /\ DOMAIN FileBatches = 1 .. Len(FileBatches)
      /\ \A i \in 1 .. Len(FileBatches) : FileBatches[i] \in Seq(File)
  BY BatchesAssumption, LenProperties, ElementOfSeq
<1>2. IsFiniteSet(DOMAIN FileBatches)
  BY <1>1, FS_Interval
<1>3. f \in Surjection(DOMAIN FileBatches, sets)
  BY DEF Surjection
<1>4. IsFiniteSet(sets)
  BY <1>2, <1>3, FS_Surjection
<1>5. \A T \in sets : IsFiniteSet(T)
  BY <1>1, FilesAreFinite
<1>6. File = UNION sets
  BY DEF File, FilesOf
<1>7. IsFiniteSet(File)
  BY <1>4, <1>5, <1>6, FS_UNION
<1> QED
  BY <1>7, FS_Subset, FS_CardinalityType DEF Total

\* A batch has as many files as it is long.
LEMMA BatchSize ==
  ASSUME NEW b \in Seq(File), b # <<>>, IsOnce(b)
  PROVE  ToSet(b) # {} /\ ToSet(b) \subseteq File /\ Cardinality(ToSet(b)) = Len(b)
<1>1. /\ Len(b) \in Nat /\ Len(b) > 0 /\ DOMAIN b = 1 .. Len(b) /\ b \in [1 .. Len(b) -> ToSet(b)]
      /\ ToSet(b) \subseteq File
  BY LenProperties, EmptySeq DEF ToSet
<1>2. b \in Bijection(1 .. Len(b), ToSet(b))
  <2>1. \A i, j \in 1 .. Len(b) : b[i] = b[j] => i = j
    BY <1>1 DEF IsOnce
  <2>2. \A f \in ToSet(b) : \E i \in 1 .. Len(b) : b[i] = f
    BY <1>1 DEF ToSet
  <2> QED
    BY <1>1, <2>1, <2>2 DEF Bijection, Injection, IsInjective, Surjection
<1>3. IsFiniteSet(1 .. Len(b)) /\ Cardinality(1 .. Len(b)) = Len(b)
  BY <1>1, FS_Interval
<1>4. Cardinality(ToSet(b)) = Len(b)
  BY <1>2, <1>3, FS_Bijection DEF ExistsBijection
<1>5. 1 \in DOMAIN b
  BY <1>1
<1> QED
  BY <1>1, <1>4, <1>5 DEF ToSet

\* The larger one of two numbers.
LEMMA MaxOfTwo ==
  ASSUME NEW a \in Int, NEW b \in Int
  PROVE  Max({a, b}) \in {a, b} /\ Max({a, b}) >= a /\ Max({a, b}) >= b
<1>1. \E x \in {a, b} : \A y \in {a, b} : x >= y
  <2>1. CASE a >= b
    BY <2>1
  <2>2. CASE b >= a
    BY <2>2
  <2> QED
    BY <2>1, <2>2
<1> QED
  BY <1>1 DEF Max

\* Only files of the scan were handed out.
LEMMA PulledIsPart ==
  ASSUME Shapes
  PROVE  Pulled \subseteq File
<1>1. \A i \in 1 .. nextIndex - 1 : i \in 1 .. Len(batches)
  BY PulledFiles DEF Shapes
<1> QED
  BY <1>1, PulledFiles DEF Pulled

\* As long as a file is on loan, not all were scanned.
LEMMA LoansAreOpen ==
  ASSUME Shapes, NEW lent \in [Task -> SUBSET File], Loans(lent), NEW t \in Busy, progress \in Display
  PROVE  /\ progress.scanned < Total
         /\ progress.scanned + task[t].size
              <= Cardinality(Pulled \ UNION {lent[u] : u \in Busy \ {t}})
         /\ progress.scanned + task[t].size <= Total
<1> DEFINE rest == Pulled \ UNION {lent[u] : u \in Busy}
           more == Pulled \ UNION {lent[u] : u \in Busy \ {t}}
<1>1. more = rest \cup lent[t] /\ rest \cap lent[t] = {} /\ lent[t] # {}
  BY DEF Loans
<1>2. more \subseteq File /\ rest \subseteq File /\ lent[t] \subseteq File
  BY PulledIsPart DEF Loans
<1>3. /\ IsFiniteSet(rest) /\ IsFiniteSet(lent[t])
      /\ Cardinality(rest) \in Nat /\ Cardinality(lent[t]) \in Nat /\ Cardinality(more) <= Total
      /\ Total \in Nat /\ Cardinality({}) = 0
  BY <1>2, FilesAreCounted, FS_EmptySet
<1>4. Cardinality(more) = Cardinality(rest) + Cardinality(lent[t])
  <2> HIDE DEF rest, more
  <2>1. Cardinality(rest \cup lent[t])
          = Cardinality(rest) + Cardinality(lent[t]) - Cardinality(rest \cap lent[t])
    BY <1>3, FS_Union
  <2>2. Cardinality(rest \cap lent[t]) = 0 /\ Cardinality(more) = Cardinality(rest \cup lent[t])
    BY <1>1, <1>3, Zenon
  <2> QED
    BY <1>3, <2>1, <2>2
<1>5. Cardinality(lent[t]) # 0
  BY <1>1, <1>3, FS_EmptySet
<1>6. progress.scanned <= Cardinality(rest) /\ progress.scanned \in Int /\ Cardinality(lent[t]) = task[t].size
  BY DEF Loans, Display
<1> HIDE DEF rest, more
<1>7. progress.scanned < Total /\ progress.scanned + task[t].size <= Cardinality(more)
      /\ progress.scanned + task[t].size <= Total
  BY <1>3, <1>4, <1>5, <1>6
<1> QED
  BY <1>7 DEF more

\* Within a pass what is displayed does not go back.
Grows == pass' = pass => progress'.displayed >= progress.displayed

\* No batch is done: nothing more was scanned, and the display creeps at most.
LEMMA LoansStay ==
  ASSUME DisplayInv, pass' = pass, Busy' \subseteq Busy,
         \A t \in Busy' : task'[t].size = task[t].size, Pulled \subseteq Pulled', Pulled' \subseteq File,
         progress' \in Display, progress'.scanned = progress.scanned,
         \/ progress'.displayed = progress.displayed
         \/ pass # "rescue" /\ progress'.displayed < Total
  PROVE  DisplayInv'
<1>1. CASE pass = "main"
  <2>1. PICK lent \in [Task -> SUBSET File] : Loans(lent)
    BY <1>1 DEF DisplayInv
  <2> DEFINE rest == Pulled \ UNION {lent[t] : t \in Busy}
             more == Pulled' \ UNION {lent[t] : t \in Busy'}
  <2>2. rest \subseteq more
    <3> SUFFICES ASSUME NEW f \in Pulled, \A t \in Busy : f \notin lent[t]
                 PROVE  f \in Pulled' /\ \A t \in Busy' : f \notin lent[t]
      OBVIOUS
    <3> QED
      OBVIOUS
  <2>3. more \subseteq File
    OBVIOUS
  <2>4. IsFiniteSet(more)
    BY <2>3, FilesAreCounted
  <2>5. Cardinality(rest) <= Cardinality(more) /\ Cardinality(rest) \in Nat /\ Cardinality(more) \in Nat
    BY <2>2, <2>4, FS_Subset, FS_CardinalityType
  <2>6. progress.scanned <= Cardinality(rest) /\ progress.scanned \in Int
    BY <2>1 DEF Loans, DisplayInv, Display
  <2>7. progress'.scanned <= Cardinality(more)
    <3> HIDE DEF rest, more
    <3> QED
      BY <2>5, <2>6
  <2>8. Loans(lent)'
    BY <2>1, <2>7 DEF Loans
  <2>9. progress'.displayed = Total => progress'.scanned = Total
    BY <1>1, FilesAreCounted DEF DisplayInv, Display
  <2> QED
    BY <1>1, <2>8, <2>9 DEF DisplayInv
<1>2. CASE pass # "main"
  BY <1>2 DEF DisplayInv
<1> QED
  BY <1>1, <1>2

\* What the display shows after a batch: no less than before, and the total only
\* if everything was scanned.
LEMMA ScannedShows ==
  ASSUME progress \in Display, NEW u \in TaskRecord
  PROVE  /\ Scanned(u) \in Display
         /\ Scanned(u).scanned = progress.scanned + u.size - u.skippedCount
         /\ Scanned(u).displayed >= progress.displayed
         /\ pass = "rescue" => Scanned(u).displayed = progress.displayed
         /\ progress.displayed < Total /\ Scanned(u).scanned <= Total /\ Scanned(u).displayed = Total =>
              Scanned(u).scanned = Total
<1> DEFINE n == progress.scanned + u.size - u.skippedCount
           d == IF pass # "rescue" /\ u.didStart THEN Min({Max({progress.displayed, n}), Total})
                ELSE progress.displayed
<1>1. n \in Int /\ progress.displayed \in 0 .. Total /\ Total \in Nat
  BY FilesAreCounted DEF Display, TaskRecord
<1>2. Scanned(u) = [progress EXCEPT !.scanned = n, !.displayed = d]
  BY DEF Scanned
<1> HIDE DEF n
<1>3. /\ Max({progress.displayed, n}) >= progress.displayed /\ Max({progress.displayed, n}) >= n
      /\ Max({progress.displayed, n}) \in {progress.displayed, n}
      /\ Max({progress.displayed, n}) \in Nat
  <2>1. progress.displayed \in Int /\ progress.displayed >= 0
    BY <1>1
  <2>2. /\ Max({progress.displayed, n}) >= progress.displayed /\ Max({progress.displayed, n}) >= n
        /\ Max({progress.displayed, n}) \in {progress.displayed, n}
    BY <1>1, <2>1, MaxOfTwo, Zenon
  <2> QED
    BY <1>1, <2>1, <2>2
<1>4. /\ Min({Max({progress.displayed, n}), Total}) \in {Max({progress.displayed, n}), Total}
      /\ Min({Max({progress.displayed, n}), Total}) <= Max({progress.displayed, n})
      /\ Min({Max({progress.displayed, n}), Total}) <= Total
  BY <1>1, <1>3, MinOfTwo
<1>5. /\ d \in 0 .. Total /\ d >= progress.displayed
      /\ pass = "rescue" => d = progress.displayed
      /\ progress.displayed < Total /\ n <= Total /\ d = Total => n = Total
  BY <1>1, <1>3, <1>4
<1> HIDE DEF d
<1>6. Scanned(u) \in Display /\ Scanned(u).scanned = n /\ Scanned(u).displayed = d
  BY <1>1, <1>2, <1>5 DEF Display
<1> QED
  BY <1>5, <1>6 DEF n

\* A call returns, and maybe with it the batch.
LEMMA ReturnShows ==
  ASSUME IInv, DisplayInv, NEW t \in Task, NEW u \in TaskRecord, u.work = task[t].work,
         u.work # <<>>, u.size = task[t].size, Return(t, u), UNCHANGED control
  PROVE  DisplayInv' /\ Grows
<1>1. /\ Shapes /\ task \in [Task -> TaskRecord] /\ t \in Busy /\ progress \in Display
      /\ pass' = pass /\ Pulled' = Pulled /\ Pulled \subseteq File
  BY PulledIsPart DEF IInv, Core, Shapes, Busy, DisplayInv, control, Pulled
<1>2. CASE Len(u.work) > 1
  <2>1. /\ task' = [task EXCEPT ![t] = [u EXCEPT !.status = "ready", !.work = Tail(@)]]
        /\ UNCHANGED progress
    BY <1>2 DEF Return
  <2>2. [u EXCEPT !.status = "ready", !.work = Tail(@)].size = task[t].size
    BY DEF TaskRecord
  <2>3. Busy' \subseteq Busy /\ \A v \in Busy' : task'[v].size = task[v].size
    BY <1>1, <2>1, <2>2 DEF Busy
  <2> QED
    BY <1>1, <2>1, <2>3, LoansStay DEF Grows, Display
<1>3. CASE ~(Len(u.work) > 1)
  <2>1. task' = [task EXCEPT ![t] = Rest("idle")] /\ progress' = Scanned(u)
    BY <1>3 DEF Return
  <2>2. Rest("idle").work = <<>>
    BY DEF Rest
  <2>3. Busy' = Busy \ {t} /\ \A v \in Busy' : task'[v].size = task[v].size
    BY <1>1, <2>1, <2>2 DEF Busy
  <2>4. /\ progress' \in Display /\ progress'.scanned = progress.scanned + u.size - u.skippedCount
        /\ progress'.displayed >= progress.displayed
        /\ pass = "rescue" => progress'.displayed = progress.displayed
        /\ progress.displayed < Total /\ progress'.scanned <= Total /\ progress'.displayed = Total =>
             progress'.scanned = Total
    BY <1>1, <2>1, ScannedShows
  <2>5. Grows
    BY <2>4 DEF Grows
  <2>6. CASE pass = "main"
    <3>1. PICK lent \in [Task -> SUBSET File] : Loans(lent)
      BY <2>6 DEF DisplayInv
    <3> DEFINE more == Pulled \ UNION {lent[v] : v \in Busy \ {t}}
    <3>2. /\ progress.scanned < Total
          /\ progress.scanned + u.size <= Cardinality(more)
          /\ progress.scanned + u.size <= Total
      BY <1>1, <3>1, LoansAreOpen
    <3>3. u.size \in Nat /\ u.skippedCount \in Nat /\ progress.scanned \in Int /\ Total \in Nat
          /\ progress.displayed \in 0 .. Total
      BY <1>1, FilesAreCounted DEF TaskRecord, Display
    <3>4. Cardinality(more) \in Nat
      BY <1>1, PulledIsPart, FilesAreCounted
    <3>5. progress'.scanned <= Cardinality(more) /\ progress'.scanned <= Total
      <4> HIDE DEF more
      <4> QED
        BY <2>4, <3>2, <3>3, <3>4
    <3>6. progress.displayed < Total
      BY <2>6, <3>2, <3>3 DEF DisplayInv
    <3>7. progress'.displayed = Total => progress'.scanned = Total
      BY <2>4, <3>5, <3>6
    <3>8. Loans(lent)'
      BY <1>1, <2>3, <3>1, <3>5 DEF Loans
    <3> QED
      BY <1>1, <2>4, <2>5, <2>6, <3>7, <3>8 DEF DisplayInv
  <2>7. CASE pass # "main"
    BY <1>1, <2>4, <2>5, <2>7 DEF DisplayInv
  <2> QED
    BY <2>6, <2>7
<1> QED
  BY <1>2, <1>3

\* A batch is handed out: it is on loan, or is skipped at once.
LEMMA PullShows ==
  ASSUME IInv, DisplayInv, NEW t \in Task, Pull(t)
  PROVE  DisplayInv' /\ Grows
<1> DEFINE batch == batches[nextIndex]
<1>1. /\ Shapes /\ task \in [Task -> TaskRecord] /\ progress \in Display /\ Pulled \subseteq File
      /\ task[t].work = <<>> /\ nextIndex \in 1 .. Len(batches) /\ Len(batches) \in Nat
      /\ nextIndex' = nextIndex + 1 /\ UNCHANGED <<pass, batches, progress>>
  BY PulledIsPart, PulledFiles DEF IInv, Core, Shapes, TaskInv, DisplayInv, Pull, HasNext
<1>2. batch \in Seq(File) /\ batch # <<>> /\ IsOnce(batch) /\ ToSet(batch) \cap Pulled = {}
  BY <1>1, PulledFiles
<1>3. ToSet(batch) # {} /\ ToSet(batch) \subseteq File /\ Cardinality(ToSet(batch)) = Len(batch)
  BY <1>2, BatchSize
<1>4. Pulled' = Pulled \cup ToSet(batch)
  <2>1. 1 .. nextIndex' - 1 = (1 .. nextIndex - 1) \cup {nextIndex}
    BY <1>1
  <2> QED
    BY <1>1, <2>1 DEF Pulled
<1>5. Grows
  BY <1>1 DEF Grows, Display
<1>6. CASE UNCHANGED task
  <2>1. Busy' \subseteq Busy /\ \A v \in Busy' : task'[v].size = task[v].size
    BY <1>6 DEF Busy
  <2>2. Pulled \subseteq Pulled' /\ Pulled' \subseteq File
    BY <1>1, <1>3, <1>4
  <2> QED
    BY <1>1, <1>5, <2>1, <2>2, LoansStay
<1>7. CASE task' = [task EXCEPT ![t] = Fresh(batch)]
  <2>1. Fresh(batch).size = Len(batch) /\ Fresh(batch).work # <<>>
    BY DEF Fresh
  <2>2. /\ Busy' = Busy \cup {t} /\ t \notin Busy /\ task'[t].size = Len(batch)
        /\ \A v \in Busy : task'[v] = task[v]
    BY <1>1, <1>7, <2>1 DEF Busy
  <2>3. CASE pass = "main"
    <3>1. PICK old \in [Task -> SUBSET File] : Loans(old)
      BY <2>3 DEF DisplayInv
    <3> DEFINE lent == [old EXCEPT ![t] = ToSet(batch)]
    <3>2. /\ lent \in [Task -> SUBSET File] /\ lent[t] = ToSet(batch)
          /\ \A v \in Busy : lent[v] = old[v] /\ old[v] \subseteq Pulled
      BY <1>3, <2>2, <3>1 DEF Loans, Busy
    <3> HIDE DEF lent, batch
    <3>3. Pulled' \ UNION {lent[v] : v \in Busy'} = Pulled \ UNION {old[v] : v \in Busy}
      <4>1. \A f \in Pulled' : (\A v \in Busy' : f \notin lent[v])
                                <=> f \notin ToSet(batch) /\ \A v \in Busy : f \notin old[v]
        BY <2>2, <3>2
      <4>2. \A f : f \in Pulled' /\ f \notin ToSet(batch) <=> f \in Pulled
        BY <1>2, <1>4
      <4> QED
        BY <4>1, <4>2
    <3>4. \A v \in Busy' : /\ lent[v] # {} /\ lent[v] \subseteq Pulled'
                           /\ Cardinality(lent[v]) = task'[v].size
      BY <1>3, <1>4, <2>2, <3>1, <3>2 DEF Loans
    <3>5. \A v, u \in Busy' : v # u => lent[v] \cap lent[u] = {}
      BY <1>2, <2>2, <3>1, <3>2 DEF Loans
    <3>6. \E l \in [Task -> SUBSET File] : Loans(l)'
      <4>1. progress'.scanned <= Cardinality(Pulled' \ UNION {lent[v] : v \in Busy'})
        BY <1>1, <3>1, <3>3 DEF Loans
      <4> QED
        BY <3>2, <3>4, <3>5, <4>1 DEF Loans
    <3> QED
      BY <1>1, <1>5, <2>3, <3>6 DEF DisplayInv
  <2>4. CASE pass # "main"
    BY <1>1, <1>5, <2>4 DEF DisplayInv
  <2> QED
    BY <2>3, <2>4
<1> QED
  BY <1>6, <1>7 DEF Pull

\* A call is given up.
LEMMA SkipShows ==
  ASSUME IInv, DisplayInv, NEW t \in Task, task[t].work # <<>>, Skip(t), UNCHANGED control
  PROVE  DisplayInv' /\ Grows
<1>1. task[t] \in TaskRecord /\ Cardinality(Files(t)) \in Nat
  BY TaskShape DEF IInv, Core
<1> DEFINE u == [task[t] EXCEPT !.skippedCount = @ + Cardinality(Files(t))]
<1>2. u \in TaskRecord /\ u.work = task[t].work /\ u.size = task[t].size
  BY <1>1 DEF TaskRecord
<1>3. Return(t, u)
  BY DEF Skip
<1> HIDE DEF u
<1> QED
  BY <1>2, <1>3, ReturnShows

\* A task moves within its batch, ends, or nothing changes for it.
LEMMA QuietShows ==
  ASSUME IInv, DisplayInv, UNCHANGED <<pass, batches, nextIndex>>,
         \A v \in Task : task'[v].work = <<>> \/ (task[v].work # <<>> /\ task'[v].size = task[v].size),
         progress' \in Display, progress'.scanned = progress.scanned,
         \/ progress'.displayed = progress.displayed
         \/ /\ pass # "rescue" /\ progress'.displayed < Total
            /\ progress'.displayed >= progress.displayed
  PROVE  DisplayInv' /\ Grows
<1>1. Busy' \subseteq Busy /\ \A v \in Busy' : task'[v].size = task[v].size
  BY DEF Busy
<1>2. Pulled' = Pulled /\ Pulled \subseteq File
  BY PulledIsPart DEF Pulled, IInv, Core
<1>3. Grows
  BY DEF Grows, DisplayInv, Display
<1> QED
  BY <1>1, <1>2, <1>3, LoansStay

\* The steps of a task after it was given a batch.
LEMMA TaskShows ==
  ASSUME IInv, DisplayInv, NEW t \in Task,
         \/ Retire(t) \/ EnterSecondHalf(t) \/ SpawnBatch(t) \/ JobStarts(t) \/ JobSucceeds(t)
         \/ \E isOom \in BOOLEAN : JobExceeds(t, isOom)
         \/ \E error \in {"fatal", "exhausted"} : TaskFails(t, error)
         \/ SplitBudgetElapses(t)
  PROVE  DisplayInv' /\ Grows
<1>1. task \in [Task -> TaskRecord] /\ task[t] \in TaskRecord /\ TaskInv /\ progress \in Display
  BY DEF IInv, Core, Shapes, DisplayInv
<1>2. UNCHANGED <<pass, batches, nextIndex>>
  BY DEF Retire, EnterSecondHalf, SpawnBatch, JobStarts, JobSucceeds, JobExceeds, TaskFails,
         SplitBudgetElapses, control
<1> DEFINE Quiet == \A v \in Task : \/ task'[v].work = <<>>
                                    \/ task[v].work # <<>> /\ task'[v].size = task[v].size
<1>3. ASSUME Quiet, UNCHANGED progress
      PROVE  DisplayInv' /\ Grows
  BY <1>1, <1>2, <1>3, QuietShows
<1>4. CASE Retire(t) \/ \E error \in {"fatal", "exhausted"} : TaskFails(t, error)
  <2>1. task' = [task EXCEPT ![t] = Rest("exited")] /\ UNCHANGED progress
    BY <1>4 DEF Retire, TaskFails
  <2>2. Rest("exited").work = <<>>
    BY DEF Rest
  <2>3. Quiet
    BY <1>1, <2>1, <2>2
  <2> QED
    BY <1>3, <2>1, <2>3
<1>5. CASE EnterSecondHalf(t) \/ SpawnBatch(t)
  <2>1. task[t].work # <<>> /\ UNCHANGED control
    BY <1>1, <1>5 DEF EnterSecondHalf, SpawnBatch, TaskInv
  <2>2. ASSUME NEW status, task' = [task EXCEPT ![t].status = status], UNCHANGED progress
        PROVE  DisplayInv' /\ Grows
    <3>1. Quiet
      BY <1>1, <2>1, <2>2 DEF TaskRecord
    <3> QED
      BY <1>3, <2>2, <3>1
  <2> QED
    BY <1>5, <2>1, <2>2, SkipShows DEF EnterSecondHalf, SpawnBatch
<1>6. CASE JobStarts(t)
  <2>1. /\ task' = [task EXCEPT ![t].status = "running", ![t].didStart = TRUE] /\ task[t].work # <<>>
        /\ UNCHANGED progress \/ progress' = [progress EXCEPT !.started = @ + task[t].size]
    BY <1>1, <1>6 DEF JobStarts, TaskInv
  <2>2. Quiet
    BY <1>1, <2>1 DEF TaskRecord
  <2>3. /\ progress' \in Display /\ progress'.scanned = progress.scanned
        /\ progress'.displayed = progress.displayed
    BY <1>1, <2>1 DEF Display, TaskRecord
  <2> QED
    BY <1>2, <2>2, <2>3, QuietShows
<1>7. CASE JobSucceeds(t)
  <2>1. task[t].work # <<>> /\ Return(t, task[t]) /\ UNCHANGED control
    BY <1>1, <1>7 DEF JobSucceeds, TaskInv
  <2> QED
    BY <1>1, <2>1, ReturnShows
<1>8. ASSUME NEW isOom \in BOOLEAN, JobExceeds(t, isOom)
      PROVE  DisplayInv' /\ Grows
  <2>1. task[t].work # <<>> /\ UNCHANGED control
    BY <1>1, <1>8 DEF JobExceeds, TaskInv
  <2>2. CASE IsPastDeadline
    BY <1>8, <2>1, <2>2, SkipShows DEF JobExceeds
  <2>3. CASE ~IsPastDeadline
    <3>1. PICK budget \in IF task[t].budget = "none" THEN {"running", "elapsed"}
                          ELSE {task[t].budget} :
            \/ Return(t, [task[t] EXCEPT !.budget = budget])
            \/ /\ task' = [task EXCEPT ![t].status = "queued", ![t].budget = budget,
                                       ![t].work = Halves(Head(@)) \o Tail(@)]
               /\ UNCHANGED progress
      BY <1>8, <2>3 DEF JobExceeds
    <3>2. budget \in Budget
      BY <1>1 DEF TaskRecord, Budget
    <3>3. CASE Return(t, [task[t] EXCEPT !.budget = budget])
      <4> DEFINE u == [task[t] EXCEPT !.budget = budget]
      <4>1. u \in TaskRecord /\ u.work = task[t].work /\ u.size = task[t].size
        BY <1>1, <3>2 DEF TaskRecord
      <4>2. Return(t, u)
        BY <3>3
      <4> HIDE DEF u
      <4> QED
        BY <2>1, <4>1, <4>2, ReturnShows
    <3>4. CASE /\ task' = [task EXCEPT ![t].status = "queued", ![t].budget = budget,
                                       ![t].work = Halves(Head(@)) \o Tail(@)]
               /\ UNCHANGED progress
      <4>1. task'[t].size = task[t].size /\ \A v \in Task \ {t} : task'[v] = task[v]
        BY <1>1, <3>4 DEF TaskRecord
      <4>2. \A v \in Task \ {t} : task'[v].work = <<>> \/ task[v].work # <<>>
        BY <4>1
      <4>3. Quiet
        BY <2>1, <4>1, <4>2
      <4> QED
        BY <1>3, <3>4, <4>3
    <3> QED
      BY <3>1, <3>3, <3>4
  <2> QED
    BY <2>2, <2>3
<1>9. CASE SplitBudgetElapses(t)
  <2>1. /\ task' = [task EXCEPT ![t].budget = "elapsed"] /\ UNCHANGED progress
        /\ task'[t].work = task[t].work /\ task'[t].size = task[t].size
    BY <1>1, <1>9 DEF SplitBudgetElapses, TaskRecord
  <2>2. Quiet
    BY <1>1, <2>1
  <2> QED
    BY <1>3, <2>1, <2>2
<1> QED
  BY <1>4, <1>5, <1>6, <1>7, <1>8, <1>9

\* Another pass starts with an empty display; the last one leaves it as it is.
LEMMA PassShows ==
  ASSUME IInv, DisplayInv, Orchestrate
  PROVE  DisplayInv' /\ Grows
<1>1. progress \in Display /\ (pass = "rescue" => progress.displayed = 0) /\ Total \in Nat
  BY FilesAreCounted DEF DisplayInv
<1>2. CASE pass' \in {"done", "failed"} /\ UNCHANGED progress
  BY <1>1, <1>2 DEF DisplayInv, Grows, Display
<1>3. CASE /\ pass' \in {"replay", "rescue"}
           /\ progress' = [started |-> 0, scanned |-> 0, displayed |-> 0]
           /\ pass' = pass => pass = "rescue"
  <2>1. progress' \in Display /\ progress'.displayed = 0
    BY <1>1, <1>3 DEF Display
  <2> QED
    BY <1>1, <1>3, <2>1 DEF DisplayInv, Grows
<1>4. CASE PassFails
  <2>1. pass \in {"main", "replay"} /\ (NewPass("replay", FileBatches, 1) => pass = "main")
    BY <1>4 DEF PassFails, NewPass
  <2> QED
    BY <1>2, <1>3, <1>4, <2>1 DEF PassFails, NewPass
<1>5. CASE PassCompletes
  BY <1>2, <1>3, <1>5 DEF PassCompletes, NewPass, NeedsRescue
<1>6. CASE RescueNext
  BY <1>2, <1>3, <1>6 DEF RescueNext, NewPass
<1> QED
  BY <1>4, <1>5, <1>6 DEF Orchestrate

\* The displayed count never goes back within a pass, and in the first pass it
\* reaches the number of all files only when all were scanned.
THEOREM DisplayIsHonest == Spec => ProgressIsHonest
<1> DEFINE Honest ==
      /\ pass' = pass => progress'.displayed >= progress.displayed
      /\ progress'.displayed = Total /\ pass' = "main" => progress'.scanned = Total
<1>1. Init => DisplayInv
  <2> SUFFICES ASSUME Init
               PROVE  DisplayInv
    OBVIOUS
  <2>1. /\ progress = [started |-> 0, scanned |-> 0, displayed |-> 0] /\ pass = "main" /\ nextIndex = 1
        /\ \A t \in Task : task[t].work = <<>>
    BY DEF Init, Rest
  <2>2. progress \in Display /\ progress.scanned = 0 /\ progress.displayed = 0
    BY <2>1, FilesAreCounted DEF Display
  <2>3. Busy = {} /\ Pulled = {}
    BY <2>1 DEF Busy, Pulled
  <2>4. Loans([t \in Task |-> {}])
    <3>1. 0 <= Cardinality(Pulled \ UNION {[u \in Task |-> {}][t] : t \in Busy})
      BY <2>3, FS_EmptySet
    <3> QED
      BY <2>2, <2>3, <3>1 DEF Loans
  <2>5. [t \in Task |-> {}] \in [Task -> SUBSET File]
    OBVIOUS
  <2> QED
    BY <2>1, <2>2, <2>4, <2>5 DEF DisplayInv
<1>2. ASSUME IInv, DisplayInv, [Next]_vars
      PROVE  DisplayInv' /\ Grows
  <2>1. CASE DeadlinePasses \/ RescueBudgetElapses \/ ProgressTick \/ UNCHANGED vars
    <3>1. UNCHANGED <<pass, batches, nextIndex, task>>
      BY <2>1 DEF DeadlinePasses, RescueBudgetElapses, ProgressTick, control, vars
    <3>2. /\ progress' \in Display /\ progress'.scanned = progress.scanned
          /\ \/ progress'.displayed = progress.displayed
             \/ /\ pass # "rescue" /\ progress'.displayed < Total
                /\ progress'.displayed >= progress.displayed
      <4>1. progress \in Display /\ Total \in Nat
        BY <1>2, FilesAreCounted DEF DisplayInv
      <4>2. CASE UNCHANGED progress
        BY <4>1, <4>2
      <4>3. CASE ProgressTick
        <5>1. /\ progress' = [progress EXCEPT !.displayed = @ + 1] /\ pass # "rescue"
              /\ progress.displayed < Min({progress.started, Total - 1})
          BY <4>3 DEF ProgressTick
        <5>2. progress.displayed < Total - 1
          <6>1. CASE Total = 0
            <7>1. Min({progress.started, -1}) \in {progress.started, -1} /\ Min({progress.started, -1}) <= -1
              <8>1. \E x \in {progress.started, -1} : \A y \in {progress.started, -1} : x <= y
                BY <4>1 DEF Display
              <8> QED
                BY <8>1 DEF Min
            <7> QED
              BY <4>1, <5>1, <6>1, <7>1 DEF Display
          <6>2. CASE Total # 0
            <7>1. Total - 1 \in Nat /\ progress.started \in Nat
              BY <4>1, <6>2 DEF Display
            <7>2. Min({progress.started, Total - 1}) <= Total - 1
                  /\ Min({progress.started, Total - 1}) \in {progress.started, Total - 1}
              BY <7>1, MinOfTwo
            <7> QED
              BY <4>1, <5>1, <7>1, <7>2 DEF Display
          <6> QED
            BY <6>1, <6>2
        <5> QED
          BY <4>1, <5>1, <5>2 DEF Display
      <4> QED
        BY <2>1, <4>2, <4>3 DEF DeadlinePasses, RescueBudgetElapses, vars
    <3>3. \A v \in Task : task'[v].work = <<>> \/ (task[v].work # <<>> /\ task'[v].size = task[v].size)
      BY <3>1
    <3> QED
      BY <1>2, <3>1, <3>2, <3>3, QuietShows
  <2>2. ASSUME NEW t \in Task, TaskStep(t) \/ SplitBudgetElapses(t)
        PROVE  DisplayInv' /\ Grows
    BY <1>2, <2>2, PullShows, TaskShows DEF TaskStep
  <2> QED
    BY <1>2, <2>1, <2>2, PassShows DEF Next
<1>3. ASSUME DisplayInv', Grows
      PROVE  Honest
  BY <1>3 DEF DisplayInv, Grows
<1>4. IInv /\ DisplayInv /\ [Next]_vars => DisplayInv' /\ [Honest]_vars
  BY <1>2, <1>3
<1> QED
  BY <1>1, <1>4, Invariance, PTL DEF Spec, ProgressIsHonest
=============================================================================
