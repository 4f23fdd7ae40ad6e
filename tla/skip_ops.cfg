SPECIFICATION Spec
CONSTANTS
  Keys = {1, 2, 3}
  Vals = {v1}
  NoVal = NoVal
  MaxLevel = 2
  MaxNodes = 3
  Searchers = {s1}
INVARIANTS
  TypeOK
  ChainsSorted
  LevelsNested
  CountIsExact
  FoundWasThere
PROPERTIES
  ImplementsSortedMap
CHECK_DEADLOCK FALSE
