CONSTANTS
  Registers = 16384
  Indices = {100, 321, 392, 400}
  Counts = {3}
  MaxBytes = 21
SPECIFICATION Spec
INVARIANT EveryRegisterHasARun
CHECK_DEADLOCK FALSE
