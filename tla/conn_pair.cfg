\* Two threads, each with a connection to a server of its own.
SPECIFICATION Spec
CONSTANTS
  c1 = c1  c2 = c2  h1 = h1  h2 = h2  h3 = h3
  NoName = "none"  NoHost = NoHost  NoConn = NoConn
  Conns <- McTwoConns
  ReplConns = {}
  Hosts <- McHosts
  UnixHosts <- McUnix
  Target <- McTargets
  Seeds <- McSeeds
  ConnSet <- McRightName
  NodeSet <- McNodeSet
  HostList <- McHostList
  Retry <- McReconnect
  FaultKinds <- McAllFaults
  Fds = {1, 2}
  MaxFaults = 1
  MaxHosts = 2
INVARIANTS
  OwnDescriptor
PROPERTIES
  CheckedIsOwn
CHECK_DEADLOCK FALSE
