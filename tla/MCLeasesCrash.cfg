SPECIFICATION Spec
CONSTANTS
  outer = outer
  inner = inner
  f1 = f1
  f2 = f2
  Root = {outer, inner}
  File = {f1, f2}
  FilesOf <- Nested
  Scan = {s1, s2}
  MaxEdits = 1
  MaxCrashes = 1
  MaxFailures = 1
  None = None
INVARIANTS NothingIsLost FilesAreRestored
SYMMETRY Symmetry
CHECK_DEADLOCK FALSE
