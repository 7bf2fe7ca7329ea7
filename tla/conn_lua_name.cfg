\* The set name the Lua binding passes.
SPECIFICATION Spec
CONSTANTS
  c1 = c1  c2 = c2  h1 = h1  h2 = h2  h3 = h3
  NoName = "none"  NoHost = NoHost  NoConn = NoConn
  Conns <- McOneConn
  ReplConns <- McOneConn
  Hosts <- McHosts
  UnixHosts = {}
  Target <- McTarget
  Seeds <- McSeeds
  ConnSet <- McLuaName
  NodeSet <- McNodeSet
  HostList <- McHostList
  Retry <- McReconnect
  FaultKinds <- McQuiet
  Fds = {1, 2, 3}
  MaxFaults = 0
  MaxHosts = 2
INVARIANTS
  ConnectedToPrimary
CHECK_DEADLOCK FALSE
