SPECIFICATION Spec
CONSTANTS
  Job = {j1, j2}
  WorkerId = {w1, w2, w3, w4}
  NoJob = NoJob
  NoWorker = NoWorker
  MaxWorkers = 2
  MaxPrespawned = 1
  ExitError = {"killed"}
INVARIANTS WorkerLimit OwnOutputOnly ReclaimKeepsPoolAvailable ShutdownLeavesNothing JobInOnePlace NoLostWakeup
PROPERTIES SettledOnce ImplementsService
SYMMETRY Symmetry
CHECK_DEADLOCK FALSE
