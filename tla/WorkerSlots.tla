---------------------------- MODULE WorkerSlots ----------------------------
(***************************************************************************)
(* createWorkerSlots (utils/create-worker-slots.ts): a counting semaphore  *)
(* whose free slots are handed to the first waiter directly, so that a     *)
(* newcomer cannot overtake it.  One scan invocation shares one instance   *)
(* between the lint batches of all its projects.                           *)
(***************************************************************************)
EXTENDS Naturals, Sequences, FiniteSets, SequencesExt

CONSTANTS Task,       \* calls of run()
          SlotCount   \* input.slotCount

ASSUME SlotAssumption == SlotCount \in Nat \ {0}

VARIABLES
  availableSlotCount,
  waiters,   \* tasks whose acquireSlot promise is pending, in order
  phase,     \* how far the call of run(task) has come
  aborted    \* tasks whose abortSignal has fired

vars == <<availableSlotCount, waiters, phase, aborted>>

\* granted: acquireSlot has returned or its waiter was resolved, and the
\* reaction that calls the task is still queued.
Phase == {"new", "waiting", "granted", "running", "done", "rejected"}

Init ==
  /\ availableSlotCount = SlotCount
  /\ waiters = <<>>
  /\ phase = [t \in Task |-> "new"]
  /\ aborted = {}

\* Wrong variants, used only to check that the properties notice the bug.
CountsEveryRelease ==
  /\ availableSlotCount' = availableSlotCount + 1
  /\ IF waiters = <<>> THEN UNCHANGED waiters ELSE waiters' = Tail(waiters)
ReleasesWithoutHandOver ==
  availableSlotCount' = availableSlotCount + 1 /\ UNCHANGED waiters
LastWaiter == waiters[Len(waiters)]

HasFreeSlot == availableSlotCount > 0

\* The waiter that gets the next free slot.
NextWaiter == Head(waiters)

\* releaseSlot
ReleaseSlot ==
  IF waiters = <<>> THEN availableSlotCount' = availableSlotCount + 1 /\ UNCHANGED waiters
  ELSE waiters' = Tail(waiters) /\ UNCHANGED availableSlotCount

RemoveWaiter(t) ==
  \E i \in DOMAIN waiters : waiters[i] = t /\ waiters' = RemoveAt(waiters, i)

\* run(task): acquireSlot up to its first suspension.
Run(t) ==
  /\ phase[t] = "new"
  /\ \/ /\ t \in aborted
        /\ phase' = [phase EXCEPT ![t] = "rejected"]
        /\ UNCHANGED <<availableSlotCount, waiters>>
     \/ /\ t \notin aborted /\ HasFreeSlot
        /\ availableSlotCount' = availableSlotCount - 1
        /\ phase' = [phase EXCEPT ![t] = "granted"]
        /\ UNCHANGED waiters
     \/ /\ t \notin aborted /\ ~HasFreeSlot
        /\ waiters' = Append(waiters, t)
        /\ phase' = [phase EXCEPT ![t] = "waiting"]
        /\ UNCHANGED availableSlotCount
  /\ UNCHANGED aborted

\* onAbort is attached only while the task waits.
Abort(t) ==
  /\ t \notin aborted
  /\ aborted' = aborted \cup {t}
  /\ IF phase[t] = "waiting"
     THEN RemoveWaiter(t) /\ phase' = [phase EXCEPT ![t] = "rejected"]
     ELSE UNCHANGED <<waiters, phase>>
  /\ UNCHANGED availableSlotCount

Begin(t) ==
  /\ phase[t] = "granted"
  /\ phase' = [phase EXCEPT ![t] = "running"]
  /\ UNCHANGED <<availableSlotCount, waiters, aborted>>

\* The task settles, either way; the finally block releases its slot.
Finish(t) ==
  /\ phase[t] = "running"
  /\ ReleaseSlot
  /\ phase' = IF waiters = <<>> THEN [phase EXCEPT ![t] = "done"]
              ELSE [phase EXCEPT ![t] = "done", ![NextWaiter] = "granted"]
  /\ UNCHANGED aborted

Next == \E t \in Task : Run(t) \/ Abort(t) \/ Begin(t) \/ Finish(t)

Spec == Init /\ [][Next]_vars

\* Reactions run, and every task settles: an oxlint job has a timeout.
Fairness == \A t \in Task : WF_vars(Begin(t)) /\ WF_vars(Finish(t))
FairSpec == Spec /\ Fairness

---------------------------------------------------------------------------
TypeOK ==
  /\ availableSlotCount \in Nat
  /\ waiters \in Seq(Task)
  /\ phase \in [Task -> Phase]
  /\ aborted \subseteq Task

Holders == {t \in Task : phase[t] \in {"granted", "running"}}

\* Every slot is either counted as free or held by exactly one task: no
\* rejection, abort or hand-over loses a slot or makes up another one.
SlotsConserved ==
  /\ IsFiniteSet(Holders)
  /\ availableSlotCount + Cardinality(Holders) = SlotCount

\* The queue holds the waiting tasks, each once.
WaitersAreQueued ==
  /\ \A i, k \in DOMAIN waiters : waiters[i] = waiters[k] => i = k
  /\ \A t \in Task : phase[t] = "waiting" <=> \E i \in DOMAIN waiters : waiters[i] = t

\* A slot is never free while somebody waits for one.
NoSlotIdles == waiters # <<>> => availableSlotCount = 0

\* Whoever is granted a slot was first in the queue, or found no queue at all.
FirstComeFirstServed ==
  [][\A t \in Task : phase[t] # "granted" /\ phase'[t] = "granted" =>
       IF waiters = <<>> THEN phase[t] = "new" ELSE t = waiters[1]]_vars

\* run() implements the semaphore: whatever the order of calls, aborts and
\* settling tasks, a slot that is freed is the next waiter's in the same step,
\* and counting and hand-over never let more tasks in than there are slots.
Abstract == INSTANCE FifoSemaphore WITH holders <- Holders, line <- waiters
ImplementsSemaphore == Abstract!SSpec

\* A waiting task gets its slot unless it is aborted.
WaitersServed == \A t \in Task : phase[t] = "waiting" ~> phase[t] \in {"running", "rejected"}
=============================================================================
