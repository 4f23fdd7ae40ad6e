CONSTANTS
  Registers = 186
  Indices = {0, 2, 100, 133, 139}
  Counts = {3, 7}
  MaxBytes = 143
  FewBytes = 16
  ManyBytes = 138
SPECIFICATION MCSpec
INVARIANT TypeOK
PROPERTIES SetIsRead KeepsCounts
CHECK_DEADLOCK FALSE
