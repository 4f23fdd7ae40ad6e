SPECIFICATION Spec
CONSTANTS
  Keys = {1, 2, 3}
  Vals = {v1}
  NoVal = NoVal
  MaxLevel = 2
  MaxNodes = 3
  Searchers = {s1}
INVARIANTS
  MissedWasMissing
CHECK_DEADLOCK FALSE
