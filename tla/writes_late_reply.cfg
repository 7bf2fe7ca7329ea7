\* An application that goes on after a timeout.
SPECIFICATION Spec
CONSTANTS
  w1 = w1  w2 = w2  w3 = w3  NoWrite = NoWrite  Null = Null
  Writes <- McTwo
  Refused <- McSecond
  Socks = {1}
  FaultKinds <- McTimeouts
  MaxFaults = 1
  Inputs <- McFine
  Concerns <- McAcked
  Careful = FALSE
  MaxCalls = 3
INVARIANTS
  AckedIsDone
CHECK_DEADLOCK FALSE
