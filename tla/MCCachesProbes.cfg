SPECIFICATION Spec
CONSTANTS
  a = a  b = b  config = config  old = old  new = new  Missing = Missing
  Runs = {p1}
  Rulesets = {r1}
  Sources <- MCSources
  OtherPaths = {config}
  Contents = {old, new}
  Imports <- MCImports
  Chunks = {k1}
  InitialTree <- MCTree
  MaxEntries = 4
  MaxRulesets = 1
  MaxScans = 3
  MaxEdits = 0
CHECK_DEADLOCK FALSE
PROPERTIES ProbeSetsAreIdentical
