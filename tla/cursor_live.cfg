\* A connection that holds; the server refuses a query, fails in a result or forgets a cursor.
SPECIFICATION FairSpec
CONSTANTS
  k1 = k1  k2 = k2
  Cursors <- McTwo
  Tailable <- McOne
  Limits <- McAllOrTwo
  Queries <- McValid
  InitRows <- McFewRows
  FaultKinds <- McServerFails
  MaxRows = 2
  MaxBatch = 2
  MaxFaults = 1
INVARIANTS
  NoneLeftOnServer
  ExhaustedIsFinal
PROPERTIES
  TailCatchesUp
  ScanEnds
CHECK_DEADLOCK FALSE
