--------------------------- MODULE FifoSemaphore ---------------------------
(***************************************************************************)
(* What the tasks of a scan are promised by the worker slots: at most      *)
(* SlotCount of them hold a slot; whoever finds all slots taken stands in  *)
(* line, may leave the line from any place, and receives a slot in the     *)
(* very step that frees one, in the order of the line.                     *)
(***************************************************************************)
EXTENDS Naturals, Sequences, FiniteSets, SequencesExt

CONSTANTS Task, SlotCount

VARIABLES
  holders,  \* tasks that have a slot
  line      \* tasks that wait for one, in order

svars == <<holders, line>>

SInit == holders = {} /\ line = <<>>

Outside(t) == t \notin holders /\ t \notin ToSet(line)

\* A newcomer never overtakes the line.
Enter(t) ==
  /\ Outside(t)
  /\ line = <<>>
  /\ Cardinality(holders) < SlotCount
  /\ holders' = holders \cup {t}
  /\ UNCHANGED line

Join(t) ==
  /\ Outside(t)
  /\ Cardinality(holders) = SlotCount
  /\ line' = Append(line, t)
  /\ UNCHANGED holders

Withdraw(t) ==
  /\ \E i \in DOMAIN line : line[i] = t /\ line' = RemoveAt(line, i)
  /\ UNCHANGED holders

\* The slot that is freed goes to the first in line, if there is one.
Leave(t) ==
  /\ t \in holders
  /\ \/ line = <<>> /\ holders' = holders \ {t} /\ UNCHANGED line
     \/ /\ line # <<>>
        /\ holders' = (holders \ {t}) \cup {Head(line)}
        /\ line' = Tail(line)

SNext == \E t \in Task : Enter(t) \/ Join(t) \/ Withdraw(t) \/ Leave(t)

SSpec == SInit /\ [][SNext]_svars
=============================================================================
