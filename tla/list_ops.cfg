CONSTANTS
  Strings <- MCStrings
  Numbers <- MCNumbers
  IntMax = 268435455
  MaxBytes = 214
  NumEleUnknown = 2
  MaxEntries = 3
SPECIFICATION Spec
INVARIANTS TypeOK BackwardIsForward NumeleIsCount ContentsAreKept PointerIsAtEntry
