--------------------------- MODULE MCWorkerSlots ---------------------------
(* Instances of the worker slots for TLC. *)
EXTENDS WorkerSlots
=============================================================================
