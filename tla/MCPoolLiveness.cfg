SPECIFICATION FairSpec
CONSTANTS
  Job = {j1, j2}
  WorkerId = {w1, w2}
  NoJob = NoJob
  NoWorker = NoWorker
  MaxWorkers = 1
  MaxPrespawned = 0
  ExitError = {"killed"}
PROPERTIES EveryJobSettles CloseReaps
CHECK_DEADLOCK FALSE
