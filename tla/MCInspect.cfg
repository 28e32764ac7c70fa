SPECIFICATION FairSpec
CONSTANTS
  Inputs <- MCInputs
  MaxFindings = 1
  None = None
INVARIANTS NothingAfterTheScan ReportIsWhole ScoreIsHonest OnlyWholeScansAreKept
PROPERTIES EveryScanEnds SiblingsGetMetadata
CHECK_DEADLOCK FALSE
