SPECIFICATION FairSpec
CONSTANTS
  Job = {j1, j2, j3}
  Failure <- MCFailure
INVARIANTS OnlyRefusedJobsRunAgain NothingIsLeftBehind
PROPERTIES EveryCallIsAnswered
CHECK_DEADLOCK FALSE
