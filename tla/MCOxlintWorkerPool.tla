------------------------ MODULE MCOxlintWorkerPool ------------------------
(* Instances of the worker pool for TLC. *)
EXTENDS OxlintWorkerPoolProperties

\* createWorker always finds an identity: the live workers, the one whose close
\* event is being handled and the adopted children that turned out dead in the
\* same handler are all that can be referred to at once.
ASSUME EnoughIdentities ==
  Cardinality(WorkerId) >= MaxWorkers + 1 + MaxPrespawned

Symmetry == Permutations(Job) \cup Permutations(WorkerId)
=============================================================================
