SPECIFICATION Spec
CONSTANTS
  Job = {j1, j2}
  WorkerId = {w1, w2, w3}
  NoJob = NoJob
  NoWorker = NoWorker
  MaxWorkers = 2
  MaxPrespawned = 0
  ExitError = {"killed"}
PROPERTIES UnavailablePoolFailsNoJob
SYMMETRY Symmetry
CHECK_DEADLOCK FALSE
