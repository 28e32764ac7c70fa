SPECIFICATION Spec
CONSTANTS
  a = a  b = b  config = config  old = old  new = new  Missing = Missing
  Runs = {p1, p2}
  Rulesets = {r1, r2}
  Sources <- MCSources
  OtherPaths = {config}
  Contents = {old, new}
  Imports <- MCImports
  Chunks = {k1}
  InitialTree <- MCTree
  MaxEntries = 2
  MaxRulesets = 1
  MaxScans = 2
  MaxEdits = 2
SYMMETRY Symmetry
CHECK_DEADLOCK FALSE
INVARIANTS FileCacheIsSound SidecarIsSound ReportIsFresh
PROPERTIES FreshSidecarEntriesAreKept
