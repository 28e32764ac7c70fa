------------------------- MODULE WorkerSlotsProofs -------------------------
(***************************************************************************)
(* The worker slots keep their promises for any set of tasks and any       *)
(* number of slots.                                                        *)
(***************************************************************************)
EXTENDS WorkerSlots, SequenceLemmas, FiniteSetTheorems

LEMMA TypeStep ==
  ASSUME TypeOK, [Next]_vars
  PROVE  TypeOK'
<1> USE DEF TypeOK, Phase
<1>1. ASSUME NEW t \in Task, Run(t)
      PROVE  TypeOK'
  <2>1. availableSlotCount' \in Nat
    BY <1>1 DEF Run, HasFreeSlot
  <2>2. waiters' \in Seq(Task)
    BY <1>1, AppendProperties DEF Run
  <2>3. phase' \in [Task -> Phase] /\ aborted' \subseteq Task
    BY <1>1 DEF Run
  <2> QED
    BY <2>1, <2>2, <2>3
<1>2. ASSUME NEW t \in Task, Abort(t)
      PROVE  TypeOK'
  <2>1. waiters' \in Seq(Task)
    BY <1>2, RemoveAtElements DEF Abort, RemoveWaiter
  <2> QED
    BY <1>2, <2>1 DEF Abort
<1>3. ASSUME NEW t \in Task, Begin(t)
      PROVE  TypeOK'
  BY <1>3 DEF Begin
<1>4. ASSUME NEW t \in Task, Finish(t)
      PROVE  TypeOK'
  BY <1>4 DEF Finish, ReleaseSlot, NextWaiter
<1>5. CASE UNCHANGED vars
  BY <1>5 DEF vars
<1> QED
  BY <1>1, <1>2, <1>3, <1>4, <1>5 DEF Next

\* The module's data keep their types: in particular the number of free slots
\* never becomes negative.
THEOREM TypeCorrect == Spec => []TypeOK
<1>1. Init => TypeOK
  BY SlotAssumption DEF Init, TypeOK, Phase
<1>2. TypeOK /\ [Next]_vars => TypeOK'
  BY TypeStep
<1> QED
  BY <1>1, <1>2, PTL DEF Spec

---------------------------------------------------------------------------
\* The inductive invariant.  SlotsConserved alone is not inductive: a hand-over
\* keeps the sum only because the head of the queue holds no slot yet, which
\* WaitersAreQueued says; and a newcomer takes a free slot without a look at
\* the queue, which is fair only while NoSlotIdles holds.
IInv == TypeOK /\ SlotsConserved /\ WaitersAreQueued /\ NoSlotIdles

LEMMA RunStep ==
  ASSUME IInv, NEW t \in Task, Run(t)
  PROVE  (SlotsConserved /\ WaitersAreQueued /\ NoSlotIdles)'
<1> USE DEF IInv, TypeOK, Phase
<1>1. CASE t \in aborted
  <2>1. Holders' = Holders
    BY <1>1 DEF Run, Holders
  <2> QED
    BY <1>1, <2>1 DEF Run, SlotsConserved, WaitersAreQueued, NoSlotIdles
<1>2. CASE t \notin aborted /\ HasFreeSlot
  <2>1. Holders' = Holders \cup {t} /\ t \notin Holders
    BY <1>2 DEF Run, Holders
  <2>2. /\ IsFiniteSet(Holders')
        /\ Cardinality(Holders') = Cardinality(Holders) + 1
    BY <2>1, FS_AddElement DEF SlotsConserved
  <2>3. availableSlotCount' = availableSlotCount - 1
    BY <1>2 DEF Run
  <2>4. SlotsConserved'
    BY <2>2, <2>3, FS_CardinalityType, SlotAssumption DEF SlotsConserved
  <2>5. WaitersAreQueued' /\ NoSlotIdles'
    BY <1>2 DEF Run, WaitersAreQueued, NoSlotIdles, HasFreeSlot
  <2> QED
    BY <2>4, <2>5
<1>3. CASE t \notin aborted /\ ~HasFreeSlot
  <2>1. /\ waiters' = Append(waiters, t)
        /\ phase' = [phase EXCEPT ![t] = "waiting"]
        /\ availableSlotCount' = availableSlotCount /\ availableSlotCount = 0
        /\ phase[t] = "new"
    BY <1>3 DEF Run, HasFreeSlot
  <2>2. Holders' = Holders
    BY <2>1 DEF Holders
  <2>3. SlotsConserved' /\ NoSlotIdles'
    BY <2>1, <2>2 DEF SlotsConserved, NoSlotIdles
  <2>4. /\ Len(waiters') = Len(waiters) + 1
        /\ \A i \in 1 .. Len(waiters) : waiters'[i] = waiters[i]
        /\ waiters'[Len(waiters) + 1] = t
        /\ waiters' \in Seq(Task) /\ Len(waiters) \in Nat
    BY <2>1, AppendProperties
  <2>5. \A i \in DOMAIN waiters : waiters[i] # t
    BY <2>1 DEF WaitersAreQueued
  <2>6. \A i, k \in DOMAIN waiters' : waiters'[i] = waiters'[k] => i = k
    BY <2>4, <2>5 DEF WaitersAreQueued
  <2>7. ASSUME NEW u \in Task
        PROVE  phase'[u] = "waiting" <=> \E i \in DOMAIN waiters' : waiters'[i] = u
    <3>1. (\E i \in DOMAIN waiters' : waiters'[i] = u)
            <=> u = t \/ \E i \in DOMAIN waiters : waiters[i] = u
      BY <2>4
    <3> QED
      BY <2>1, <3>1 DEF WaitersAreQueued
  <2>8. WaitersAreQueued'
    BY <2>6, <2>7 DEF WaitersAreQueued
  <2> QED
    BY <2>3, <2>8
<1> QED
  BY <1>1, <1>2, <1>3

LEMMA AbortStep ==
  ASSUME IInv, NEW t \in Task, Abort(t)
  PROVE  (SlotsConserved /\ WaitersAreQueued /\ NoSlotIdles)'
<1> USE DEF IInv, TypeOK, Phase
<1>1. CASE phase[t] # "waiting"
  <2>1. Holders' = Holders
    BY <1>1 DEF Abort, Holders
  <2> QED
    BY <1>1, <2>1 DEF Abort, SlotsConserved, WaitersAreQueued, NoSlotIdles
<1>2. CASE phase[t] = "waiting"
  <2>1. Holders' = Holders /\ availableSlotCount' = availableSlotCount
    BY <1>2 DEF Abort, Holders
  <2>2. PICK i \in DOMAIN waiters : waiters[i] = t /\ waiters' = RemoveAt(waiters, i)
    BY <1>2 DEF Abort, RemoveWaiter
  <2>3. SlotsConserved' /\ NoSlotIdles'
    BY <2>1, <2>2 DEF SlotsConserved, NoSlotIdles
  <2>4. /\ \A a, b \in DOMAIN waiters' : waiters'[a] = waiters'[b] => a = b
        /\ \A x : (\E a \in DOMAIN waiters' : waiters'[a] = x)
                    <=> (\E a \in DOMAIN waiters : waiters[a] = x) /\ x # t
    BY <2>2, RemoveAtOnce DEF WaitersAreQueued
  <2>5. phase' = [phase EXCEPT ![t] = "rejected"]
    BY <1>2 DEF Abort
  <2>6. WaitersAreQueued'
    BY <2>4, <2>5 DEF WaitersAreQueued
  <2> QED
    BY <2>3, <2>6
<1> QED
  BY <1>1, <1>2

LEMMA FinishStep ==
  ASSUME IInv, NEW t \in Task, Finish(t)
  PROVE  (SlotsConserved /\ WaitersAreQueued /\ NoSlotIdles)'
<1> USE DEF IInv, TypeOK, Phase
<1>0. t \in Holders /\ IsFiniteSet(Holders \ {t})
      /\ Cardinality(Holders \ {t}) = Cardinality(Holders) - 1
      /\ Cardinality(Holders) \in Nat
  BY FS_RemoveElement, FS_CardinalityType DEF Finish, Holders, SlotsConserved
<1>1. CASE waiters = <<>>
  <2>1. Holders' = Holders \ {t}
    BY <1>1 DEF Finish, Holders
  <2>2. availableSlotCount' = availableSlotCount + 1 /\ waiters' = waiters
    BY <1>1 DEF Finish, ReleaseSlot
  <2>3. SlotsConserved'
    BY <1>0, <2>1, <2>2, SlotAssumption DEF SlotsConserved
  <2>4. WaitersAreQueued' /\ NoSlotIdles'
    BY <1>1, <2>2 DEF Finish, WaitersAreQueued, NoSlotIdles
  <2> QED
    BY <2>3, <2>4
<1>2. CASE waiters # <<>>
  <2> DEFINE n == Head(waiters)
  <2>1. /\ waiters' = Tail(waiters)
        /\ availableSlotCount' = availableSlotCount
        /\ phase' = [phase EXCEPT ![t] = "done", ![n] = "granted"]
        /\ phase[t] = "running"
    BY <1>2 DEF Finish, ReleaseSlot, NextWaiter
  <2>2. 1 \in DOMAIN waiters /\ n = waiters[1] /\ n \in Task
    BY <1>2
  <2>3. phase[n] = "waiting" /\ n # t
    BY <2>1, <2>2 DEF WaitersAreQueued
  <2>4. Holders' = (Holders \ {t}) \cup {n} /\ n \notin Holders \ {t}
    BY <2>1, <2>2, <2>3 DEF Holders
  <2>5. IsFiniteSet(Holders') /\ Cardinality(Holders') = Cardinality(Holders)
    <3> DEFINE H == Holders \ {t}
    <3>1. IsFiniteSet(H) /\ n \notin H /\ Holders' = H \cup {n}
      BY <1>0, <2>4
    <3> HIDE DEF H, n
    <3>2. IsFiniteSet(H \cup {n}) /\ Cardinality(H \cup {n}) = Cardinality(H) + 1
      BY <3>1, FS_AddElement
    <3> QED
      BY <1>0, <3>1, <3>2 DEF H
  <2>6. SlotsConserved'
    BY <2>1, <2>5 DEF SlotsConserved
  <2>7. NoSlotIdles'
    BY <1>2, <2>1 DEF NoSlotIdles
  <2>8. /\ waiters' \in Seq(Task) /\ Len(waiters') = Len(waiters) - 1
        /\ \A i \in 1 .. Len(waiters) - 1 : waiters'[i] = waiters[i + 1]
        /\ Len(waiters) \in Nat
    BY <1>2, <2>1, HeadTailProperties
  <2>9. ASSUME NEW i \in DOMAIN waiters', NEW k \in DOMAIN waiters', waiters'[i] = waiters'[k]
        PROVE  i = k
    <3>1. i \in 1 .. Len(waiters) - 1 /\ k \in 1 .. Len(waiters) - 1
      BY <2>8
    <3>2. i + 1 \in DOMAIN waiters /\ k + 1 \in DOMAIN waiters
          /\ waiters[i + 1] = waiters[k + 1]
      BY <3>1, <2>8, <2>9
    <3>3. i + 1 = k + 1
      BY <3>2 DEF WaitersAreQueued
    <3> QED
      BY <3>1, <3>3
  <2>10. ASSUME NEW u \in Task
         PROVE  phase'[u] = "waiting" <=> \E i \in DOMAIN waiters' : waiters'[i] = u
    <3>1. phase'[u] = "waiting" <=> phase[u] = "waiting" /\ u # n
      BY <2>1, <2>2, <2>3
    <3>2. ASSUME NEW i \in DOMAIN waiters', waiters'[i] = u
          PROVE  phase[u] = "waiting" /\ u # n
      <4>1. i + 1 \in DOMAIN waiters /\ waiters[i + 1] = u /\ i + 1 # 1
        BY <2>8, <3>2
      <4> QED
        BY <4>1, <2>2 DEF WaitersAreQueued
    <3>3. ASSUME phase[u] = "waiting", u # n
          PROVE  \E i \in DOMAIN waiters' : waiters'[i] = u
      <4>1. PICK k \in DOMAIN waiters : waiters[k] = u
        BY <3>3 DEF WaitersAreQueued
      <4>2. k # 1
        BY <4>1, <3>3, <2>2
      <4>3. k - 1 \in DOMAIN waiters' /\ waiters'[k - 1] = u
        BY <4>1, <4>2, <2>8
      <4> QED
        BY <4>3
    <3> QED
      BY <3>1, <3>2, <3>3
  <2>11. WaitersAreQueued'
    BY <2>9, <2>10 DEF WaitersAreQueued
  <2> QED
    BY <2>6, <2>7, <2>11
<1> QED
  BY <1>1, <1>2

THEOREM Invariance == Spec => []IInv
<1>1. Init => IInv
  <2> SUFFICES ASSUME Init PROVE IInv
    OBVIOUS
  <2>1. TypeOK
    BY SlotAssumption DEF Init, TypeOK, Phase
  <2>2. Holders = {}
    BY DEF Init, Holders
  <2>3. SlotsConserved
    BY <2>2, FS_EmptySet, SlotAssumption DEF Init, SlotsConserved
  <2> QED
    BY <2>1, <2>3 DEF Init, IInv, WaitersAreQueued, NoSlotIdles
<1>2. IInv /\ [Next]_vars => IInv'
  <2> SUFFICES ASSUME IInv, [Next]_vars PROVE IInv'
    OBVIOUS
  <2>1. TypeOK'
    BY TypeStep DEF IInv
  <2>2. ASSUME NEW t \in Task, Begin(t)
        PROVE  (SlotsConserved /\ WaitersAreQueued /\ NoSlotIdles)'
    <3>1. Holders' = Holders
      BY <2>2 DEF Begin, Holders, IInv, TypeOK
    <3> QED
      BY <2>2, <3>1 DEF Begin, IInv, TypeOK, SlotsConserved, WaitersAreQueued, NoSlotIdles
  <2>3. CASE UNCHANGED vars
    <3>1. Holders' = Holders
      BY <2>3 DEF vars, Holders
    <3> QED
      BY <2>1, <2>3, <3>1 DEF vars, IInv, SlotsConserved, WaitersAreQueued, NoSlotIdles
  <2> QED
    BY <2>1, <2>2, <2>3, RunStep, AbortStep, FinishStep DEF Next, IInv
<1> QED
  BY <1>1, <1>2, PTL DEF Spec

\* No slot is ever lost or made up: free slots and holders add up to the number
\* of slots.
THEOREM SlotsAreConserved == Spec => []SlotsConserved
BY Invariance, PTL DEF IInv

\* The queue holds exactly the tasks that wait, each once.
THEOREM WaitersStayQueued == Spec => []WaitersAreQueued
BY Invariance, PTL DEF IInv

\* A slot is free only when nobody waits.
THEOREM SlotsNeverIdle == Spec => []NoSlotIdles
BY Invariance, PTL DEF IInv

\* A slot goes to the task at the head of the queue, and to a newcomer only when
\* the queue is empty.
THEOREM InOrder == Spec => FirstComeFirstServed
<1> DEFINE Fair == \A t \in Task : phase[t] # "granted" /\ phase'[t] = "granted" =>
                     IF waiters = <<>> THEN phase[t] = "new" ELSE t = waiters[1]
<1>1. IInv /\ [Next]_vars => [Fair]_vars
  <2> SUFFICES ASSUME IInv, Next PROVE Fair
    OBVIOUS
  <2> USE DEF IInv, TypeOK, Phase
  <2>1. ASSUME NEW t \in Task, Run(t) PROVE Fair
    BY <2>1 DEF Run, HasFreeSlot, NoSlotIdles
  <2>2. ASSUME NEW t \in Task, Abort(t) PROVE Fair
    BY <2>2 DEF Abort
  <2>3. ASSUME NEW t \in Task, Begin(t) PROVE Fair
    BY <2>3 DEF Begin
  <2>4. ASSUME NEW t \in Task, Finish(t) PROVE Fair
    <3>1. CASE waiters = <<>>
      BY <2>4, <3>1 DEF Finish
    <3>2. CASE waiters # <<>>
      <4>1. Head(waiters) = waiters[1]
        BY <3>2
      <4> QED
        BY <2>4, <3>2, <4>1 DEF Finish, NextWaiter
    <3> QED
      BY <3>1, <3>2
  <2> QED
    BY <2>1, <2>2, <2>3, <2>4 DEF Next
<1> QED
  BY <1>1, Invariance, PTL DEF Spec, FirstComeFirstServed

---------------------------------------------------------------------------
\* Each step of the slots is a step of the semaphore or invisible in it.
LEMMA SemaphoreStep ==
  ASSUME IInv, [Next]_vars
  PROVE  [Abstract!SNext]_(Abstract!svars)
<1> USE DEF IInv, TypeOK, Phase
<1>1. \A t \in Task : t \in ToSet(waiters) <=> phase[t] = "waiting"
  BY DEF WaitersAreQueued, ToSet
<1>2. Cardinality(Holders) \in Nat /\ availableSlotCount + Cardinality(Holders) = SlotCount
  BY FS_CardinalityType DEF SlotsConserved
<1>3. ASSUME NEW t \in Task, Run(t)
      PROVE  Abstract!SNext \/ UNCHANGED Abstract!svars
  <2>1. Abstract!Outside(t)
    BY <1>1, <1>3 DEF Run, Abstract!Outside, Abstract!ToSet, ToSet, Holders
  <2>2. CASE t \in aborted
    <3>1. Holders' = Holders /\ waiters' = waiters
      BY <1>3, <2>2 DEF Run, Holders
    <3> QED
      BY <3>1 DEF Abstract!svars
  <2>3. CASE t \notin aborted /\ HasFreeSlot
    <3>1. Holders' = Holders \cup {t} /\ waiters' = waiters
      BY <1>3, <2>3 DEF Run, Holders
    <3>2. waiters = <<>> /\ Cardinality(Holders) < SlotCount
      BY <1>2, <2>3, SlotAssumption DEF HasFreeSlot, NoSlotIdles
    <3>3. Abstract!Enter(t)
      BY <2>1, <3>1, <3>2 DEF Abstract!Enter, Abstract!Cardinality, Cardinality
    <3> QED
      BY <3>3 DEF Abstract!SNext
  <2>4. CASE t \notin aborted /\ ~HasFreeSlot
    <3>1. Holders' = Holders /\ waiters' = Append(waiters, t)
      BY <1>3, <2>4 DEF Run, Holders
    <3>2. Cardinality(Holders) = SlotCount
      BY <1>2, <2>4, SlotAssumption DEF HasFreeSlot
    <3>3. Abstract!Join(t)
      BY <2>1, <3>1, <3>2 DEF Abstract!Join, Abstract!Cardinality, Cardinality
    <3> QED
      BY <3>3 DEF Abstract!SNext
  <2> QED
    BY <2>2, <2>3, <2>4
<1>4. ASSUME NEW t \in Task, Abort(t)
      PROVE  Abstract!SNext \/ UNCHANGED Abstract!svars
  <2>1. Holders' = Holders
    BY <1>4 DEF Abort, Holders
  <2>2. CASE phase[t] = "waiting"
    <3>1. Abstract!Withdraw(t)
      BY <1>4, <2>1, <2>2 DEF Abort, RemoveWaiter, Abstract!Withdraw, Abstract!RemoveAt, RemoveAt
    <3> QED
      BY <3>1 DEF Abstract!SNext
  <2>3. CASE phase[t] # "waiting"
    BY <1>4, <2>1, <2>3 DEF Abort, Abstract!svars
  <2> QED
    BY <2>2, <2>3
<1>5. ASSUME NEW t \in Task, Begin(t)
      PROVE  UNCHANGED Abstract!svars
  BY <1>5 DEF Begin, Holders, Abstract!svars
<1>6. ASSUME NEW t \in Task, Finish(t)
      PROVE  Abstract!SNext
  <2>1. t \in Holders
    BY <1>6 DEF Finish, Holders
  <2>2. CASE waiters = <<>>
    <3>1. Holders' = Holders \ {t} /\ waiters' = waiters
      BY <1>6, <2>2 DEF Finish, ReleaseSlot, Holders
    <3> QED
      BY <2>1, <2>2, <3>1 DEF Abstract!Leave, Abstract!SNext
  <2>3. CASE waiters # <<>>
    <3> DEFINE n == Head(waiters)
    <3>1. waiters' = Tail(waiters) /\ phase' = [phase EXCEPT ![t] = "done", ![n] = "granted"]
      BY <1>6, <2>3 DEF Finish, ReleaseSlot, NextWaiter
    <3>2. 1 \in DOMAIN waiters /\ n = waiters[1] /\ n \in Task
      BY <2>3
    <3>3. phase[n] = "waiting" /\ n # t
      BY <1>6, <3>2 DEF WaitersAreQueued, Finish
    <3>4. Holders' = (Holders \ {t}) \cup {n}
      BY <3>1, <3>2, <3>3 DEF Holders
    <3> QED
      BY <2>1, <2>3, <3>1, <3>4 DEF Abstract!Leave, Abstract!SNext
  <2> QED
    BY <2>2, <2>3
<1>7. CASE UNCHANGED vars
  BY <1>7 DEF vars, Holders, Abstract!svars
<1> QED
  BY <1>3, <1>4, <1>5, <1>6, <1>7 DEF Next

\* The slots implement the semaphore, for any tasks and any number of slots:
\* freeing a slot and handing it over cannot be told apart from one step.
THEOREM SlotsImplementSemaphore == Spec => ImplementsSemaphore
<1>1. Init => Abstract!SInit
  BY DEF Init, Holders, Abstract!SInit
<1>2. IInv /\ [Next]_vars => [Abstract!SNext]_(Abstract!svars)
  BY SemaphoreStep
<1> QED
  BY <1>1, <1>2, Invariance, PTL DEF Spec, ImplementsSemaphore, Abstract!SSpec
=============================================================================
