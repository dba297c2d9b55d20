SPECIFICATION MCSpec
CONSTANTS
  x1 = x1
  x2 = x2
  x3 = x3
  x4 = x4
  NewTables = {x1, x2, x3, x4}
  RawLimits <- Asked
  DefaultLimit = 1
  MaxLimit = 2
  MaxTime = 3
INVARIANTS TypeOK PagesMissNothing RepeatsBounded
SYMMETRY AnyOrder
