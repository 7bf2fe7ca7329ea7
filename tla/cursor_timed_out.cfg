\* The server forgets a cursor.
SPECIFICATION Spec
CONSTANTS
  k1 = k1  k2 = k2
  Cursors <- McOne
  Tailable <- McNone
  Limits <- McAll
  Queries <- McValid
  InitRows <- McAnyRows
  FaultKinds <- McExpire
  MaxRows = 4
  MaxBatch = 2
  MaxFaults = 1
INVARIANTS
  EndIsEnd
CHECK_DEADLOCK FALSE
