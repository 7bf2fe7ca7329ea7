\* A connection that breaks while an index is created.
SPECIFICATION Spec
CONSTANTS
  w1 = w1  w2 = w2  w3 = w3  NoWrite = NoWrite  Null = Null
  Writes <- McTwo
  Refused <- McSecond
  Socks = {1}
  FaultKinds <- McBreaks
  MaxFaults = 1
  Inputs <- McFine
  Concerns <- McAcked
  Careful = TRUE
  MaxCalls = 2
INVARIANTS
  CreatedIndexIsDone
CHECK_DEADLOCK FALSE
