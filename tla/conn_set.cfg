\* One replica set connection, a seed outside the set, every kind of fault.
SPECIFICATION FairSpec
CONSTANTS
  c1 = c1  c2 = c2  h1 = h1  h2 = h2  h3 = h3
  NoName = "none"  NoHost = NoHost  NoConn = NoConn
  Conns <- McOneConn
  ReplConns <- McOneConn
  Hosts <- McMixedHosts
  UnixHosts = {}
  Target <- McTarget
  Seeds <- McMixedSeeds
  ConnSet <- McRightName
  NodeSet <- McMixedSet
  HostList <- McMixedList
  Retry <- McReconnect
  FaultKinds <- McAllFaults
  Fds = {1, 2, 3}
  MaxFaults = 3
  MaxHosts = 2
INVARIANTS
  TypeOK
  OwnDescriptor
  PrimaryFound
  CalmFindsPrimary
  ConnectedToPrimary
  NoPrimaryClosed
  NoLeak
  TimeoutApplied
  ErrorHasReason
PROPERTIES
  CallsReturn
CHECK_DEADLOCK FALSE
