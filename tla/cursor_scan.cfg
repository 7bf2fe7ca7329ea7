\* Two cursors, one of them tailable, take turns on a connection that breaks and comes back.
SPECIFICATION Spec
CONSTANTS
  k1 = k1  k2 = k2
  Cursors <- McTwo
  Tailable <- McOne
  Limits <- McOneBatchToo
  Queries <- McNoQueryToo
  InitRows <- McSomeRows
  FaultKinds <- McBreaks
  MaxRows = 3
  MaxBatch = 2
  MaxFaults = 1
INVARIANTS
  TypeOK
  NoGap
PROPERTIES
  Promise
CHECK_DEADLOCK FALSE
