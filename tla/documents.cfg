\* Documents of Lua tables, BCON arrays and C programs; two threads that make ids.
SPECIFICATION FairSpec
CONSTANTS
  t1 = t1  t2 = t2
  Threads = {t1, t2}
  IncFunc = FALSE
  Randoms <- McRandoms
  MaxTime = 2
  InitialSize = 8
  StackSize = 2
  IntMax = 127
  Behind <- McBehind
  MaxNs = 6
  Assignments <- McAssignments
  MaxBson = 90
  CNames <- McNames
  CTexts <- McTexts
  MaxCalls = 3
  MaxIds = 2
INVARIANTS
  TypeOK InBuffer SentReadable ReadInside IdsAreUnique SentIffLegal RoundTrip BconArrayKeys
PROPERTIES
  JobsEnd
