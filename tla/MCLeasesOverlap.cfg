SPECIFICATION FairSpec
CONSTANTS
  outer = outer
  inner = inner
  f1 = f1
  f2 = f2
  Root = {outer, inner}
  File = {f2}
  FilesOf <- Nested
  Scan = {s1, s2, s3}
  MaxEdits = 0
  MaxCrashes = 1
  MaxFailures = 0
  None = None
INVARIANTS LeasesAreCounted NoDirectiveIsVisible RecoveryIsComplete
CHECK_DEADLOCK FALSE
PROPERTIES InitializationsEnd
