\* An application that reconnects after doubtful calls.
SPECIFICATION Spec
CONSTANTS
  w1 = w1  w2 = w2  w3 = w3  NoWrite = NoWrite  Null = Null
  Writes <- McTwo
  Refused <- McSecond
  Socks = {1, 2, 3}
  FaultKinds <- McFaults
  MaxFaults = 2
  Inputs <- McInputs
  Concerns <- McConcerns
  Careful = TRUE
  MaxCalls = 4
INVARIANTS
  TypeOK
  TrustedReplyIsOwn
  LastErrorSpeaks
PROPERTIES
  AckPromise
CHECK_DEADLOCK FALSE
