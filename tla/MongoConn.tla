------------------------------ MODULE MongoConn ------------------------------
(***************************************************************************)
(* The connection object of the C driver (mongo.c, env.c): connecting to   *)
(* one server, discovering the primary of a replica set, disconnecting,    *)
(* reconnecting and destroying, over the process's descriptor table and    *)
(* over servers that fail, come back and change role.                      *)
(*                                                                         *)
(* Every connection object is used by one thread.  The threads share the   *)
(* descriptor table, so a step of one is interleaved with the steps of the *)
(* others wherever a call waits for the network or closes a descriptor.    *)
(* Descriptor 0 is the process's standard input: the driver uses the value *)
(* 0 for "no socket".                                                      *)
(***************************************************************************)
EXTENDS Integers, Sequences, FiniteSets

CONSTANTS
  Conns,        \* the connection objects
  ReplConns,    \* those set up by mongo_replica_set_init
  Hosts,        \* the servers
  UnixHosts,    \* those reached through a unix domain socket (negative port)
  Target,       \* [Conns -> Hosts]: the host given to mongo_client
  Seeds,        \* [Conns -> Seq(Hosts)]: the seeds added to the connection
  ConnSet,      \* [Conns -> names]: the set name given to the connection
  NodeSet,      \* [Hosts -> names]: the setName a server reports, or NoName
  HostList,     \* [Hosts -> Seq(Hosts)]: the hosts a server reports
  NoName,
  NoHost,
  NoConn,
  Fds,          \* the descriptors the process may open
  Retry,        \* the calls by which the application connects again
  FaultKinds,   \* the faults and role changes that happen
  MaxFaults,    \* bound: faults and role changes in a behaviour
  MaxHosts      \* bound: a replica set is asked again only under this length

ASSUME ConnsAssumption == ReplConns \subseteq Conns /\ NoConn \notin Conns
ASSUME FdsAssumption == Fds \subseteq Nat \ {0}
ASSUME HostsAssumption ==
  /\ UnixHosts \subseteq Hosts /\ NoHost \notin Hosts
  /\ Target \in [Conns -> Hosts]
  /\ Seeds \in [Conns -> Seq(Hosts)]
  /\ HostList \in [Hosts -> Seq(Hosts)]
ASSUME RetryAssumption == Retry \subseteq {"reconnect", "replicaSetClient"}
ASSUME FaultsAssumption ==
  FaultKinds \subseteq {"refuse", "timeout", "fail", "restart", "elect",
                       "stepDown", "drop"}
ASSUME BoundsAssumption == MaxFaults \in Nat /\ MaxHosts \in Nat

VARIABLES
  conn,     \* the fields of each mongo object
  ctl,      \* where each thread is, and how its last call returned
  fd,       \* the process's descriptor table
  up,       \* the servers that accept connections
  masters,  \* the servers that answer ismaster with true
  faults    \* faults and role changes so far

vars == <<conn, ctl, fd, up, masters, faults>>

Errors == {"SUCCESS", "CONN_FAIL", "ADDR_FAIL", "NOT_MASTER", "BAD_SET_NAME",
           "NO_PRIMARY", "IO_ERROR", "COMMAND_FAILED"}

ConnRecord == [sock : Fds \cup {0}, connected : BOOLEAN, err : Errors,
               hosts : Seq(Hosts), primaryConnected : BOOLEAN,
               primary : Hosts \cup {NoHost}, opTimeout : BOOLEAN]

Points == {"new", "idle", "checkMaster", "seed", "checkSeed",
           "host", "checkHost", "closeHost", "dial", "destroyed"}

Calls == {"none", "init", "client", "replicaSetClient", "reconnect",
          "checkConnection", "operation", "disconnect", "setOpTimeout",
          "destroy"}

\* "calm" says that no server failed or changed role since the call began, and
\* "sawMaster" names the server that last answered ismaster with true.
CtlRecord == [pc : Points, node : Nat \ {0}, call : Calls,
              res : {"none", "OK", "ERROR"}, calm : BOOLEAN,
              sawMaster : Hosts \cup {NoHost}]

FdRecord == [owner : Conns \cup {NoConn}, peer : Hosts \cup {NoHost},
             live : BOOLEAN, timed : BOOLEAN]

FreeFd == [owner |-> NoConn, peer |-> NoHost, live |-> FALSE, timed |-> FALSE]

NewConn == [sock |-> 0, connected |-> FALSE, err |-> "SUCCESS", hosts |-> <<>>,
            primaryConnected |-> FALSE, primary |-> NoHost,
            opTimeout |-> FALSE]

NewCtl == [pc |-> "new", node |-> 1, call |-> "none", res |-> "none",
           calm |-> TRUE, sawMaster |-> NoHost]

TypeOK ==
  /\ conn \in [Conns -> ConnRecord]
  /\ ctl \in [Conns -> CtlRecord]
  /\ fd \in [Fds -> FdRecord]
  /\ up \in SUBSET Hosts
  /\ masters \in SUBSET Hosts
  /\ faults \in Nat

Init ==
  /\ conn = [c \in Conns |-> NewConn]
  /\ ctl = [c \in Conns |-> NewCtl]
  /\ fd = [f \in Fds |-> FreeFd]
  /\ up = Hosts
  /\ masters \in {{}} \cup {{h} : h \in Hosts}
  /\ faults = 0

-----------------------------------------------------------------------------
(***************************************************************************)
(* The operating system                                                    *)
(***************************************************************************)

Free == {f \in Fds : fd[f].owner = NoConn}

\* Mutant: the close is forgotten.
CloseForgotten(table, f) == table

\* close(): whoever opened the descriptor, it is closed; on a closed
\* descriptor, and on 0 which no server is behind, nothing happens here.
Close(table, f) == [g \in Fds |-> IF g = f THEN FreeFd ELSE table[g]]

\* Mutant: the operation timeout is not set on a new socket.
OpensUntimed(c, h, f) ==
  /\ h \in up
  /\ f \in Free /\ \A g \in Free : f <= g
  /\ fd' = [fd EXCEPT ![f] =
              [owner |-> c, peer |-> h, live |-> TRUE, timed |-> FALSE]]

\* mongo_env_socket_connect succeeds on the lowest free descriptor.
Opens(c, h, f) ==
  /\ h \in up
  /\ f \in Free /\ \A g \in Free : f <= g
  /\ fd' = [fd EXCEPT ![f] =
              [owner |-> c, peer |-> h, live |-> TRUE,
               timed |-> conn[c].opTimeout /\ h \notin UnixHosts]]

\* ... or fails, with the error it leaves in conn->err: none of its own when
\* the socket() of a unix domain connection fails.
FailsWith(c, h, e) ==
  \/ h \in UnixHosts /\ Free = {} /\ e = conn[c].err
  \/ h \in UnixHosts /\ Free # {} /\ h \notin up /\ e = "CONN_FAIL"
  \/ h \notin UnixHosts /\ Free = {} /\ e \in {"CONN_FAIL", "ADDR_FAIL"}
  \/ h \notin UnixHosts /\ h \notin up /\ e \in {"CONN_FAIL", "ADDR_FAIL"}

Fault(kind) == /\ kind \in FaultKinds
               /\ faults < MaxFaults /\ faults' = faults + 1

Open(c) == conn[c].sock \in Fds /\ fd[conn[c].sock].owner # NoConn

Live(c) == Open(c) /\ fd[conn[c].sock].live

Peer(c) == fd[conn[c].sock].peer

\* One request and its reply on conn->sock.  "refused" is a reply with ok:0,
\* "noDocument" one in which mongo_find_one finds no document (an $err, no row, or
\* a length it does not believe), "io" a failed send or recv, "epipe" the failed
\* send that also clears conn->connected.  A live server answers, unless the
\* receive timeout expires.
Answers == {"ok", "refused", "noDocument", "io", "epipe"}

Answer(c, a) ==
  \/ a = "ok" /\ Live(c) /\ UNCHANGED faults
  \/ a \in {"refused", "noDocument"} /\ Live(c) /\ Fault("refuse")
  \/ a = "io" /\ ~Live(c) /\ UNCHANGED faults
  \/ a = "io" /\ Live(c) /\ fd[conn[c].sock].timed /\ Fault("timeout")
  \/ a = "epipe" /\ Open(c) /\ ~Live(c) /\ UNCHANGED faults

\* Mutant: a failed send or recv leaves no error.
ErrorOfSilent(a) == IF a = "refused" THEN "COMMAND_FAILED" ELSE "SUCCESS"

\* conn->err, which was cleared before the request: mongo_run_command sets it for
\* ok:0, the socket functions for a failed send or recv, and nothing sets it for
\* a reply without a document, although the call fails.
ErrorOf(a) == CASE a = "refused" -> "COMMAND_FAILED"
                [] a \in {"io", "epipe"} -> "IO_ERROR"
                [] OTHER -> "SUCCESS"

StillConnected(c, a) == conn[c].connected /\ a # "epipe"

-----------------------------------------------------------------------------
(***************************************************************************)
(* Control of a thread                                                     *)
(***************************************************************************)

At(c, p) == ctl[c].pc = p

\* The flag "calm" falls when the request of this step met a fault.
Settled(c) == ctl[c].calm /\ faults' = faults

\* A call that returns in the step it is made in.
Returns(c, name, r) ==
  ctl' = [ctl EXCEPT ![c] = [pc |-> "idle", node |-> 1, call |-> name,
                             res |-> r, calm |-> faults' = faults,
                             sawMaster |-> NoHost]]

\* A call that goes on.
Enters(c, name, p) ==
  ctl' = [ctl EXCEPT ![c] = [pc |-> p, node |-> 1, call |-> name,
                             res |-> "none", calm |-> TRUE,
                             sawMaster |-> NoHost]]

Goto(c, p, n) ==
  ctl' = [ctl EXCEPT ![c] = [pc |-> p, node |-> n, call |-> ctl[c].call,
                             res |-> "none", calm |-> Settled(c),
                             sawMaster |-> NoHost]]

Return(c, r, m) ==
  ctl' = [ctl EXCEPT ![c] = [pc |-> "idle", node |-> 1, call |-> ctl[c].call,
                             res |-> r, calm |-> Settled(c),
                             sawMaster |-> m]]

SetsConn(c, r) == conn' = [conn EXCEPT ![c] = r]

\* The fields after mongo_env_socket_connect.
Linked(r, f) == [r EXCEPT !.sock = f, !.connected = TRUE]

\* Mutant: the failed socket() stays in conn->sock.
UnlinkedMinusOne(r, e) == [r EXCEPT !.sock = -1, !.connected = FALSE, !.err = e]

\* Mutant: conn->connected is not cleared.
UnlinkedConnected(r, e) == [r EXCEPT !.sock = 0, !.err = e]

Unlinked(r, e) == [r EXCEPT !.sock = 0, !.connected = FALSE, !.err = e]

\* The fields after a request.
Asked(c, a) == [conn[c] EXCEPT !.err = ErrorOf(a),
                               !.connected = StillConnected(c, a)]

-----------------------------------------------------------------------------
(***************************************************************************)
(* mongo_client                                                            *)
(***************************************************************************)

Client(c) ==
  LET fresh == [NewConn EXCEPT !.primary = Target[c]]
  IN  /\ At(c, "new") /\ c \notin ReplConns
      /\ \/ \E f \in Fds : /\ Opens(c, Target[c], f)
                           /\ SetsConn(c, Linked(fresh, f))
                           /\ UNCHANGED faults
                           /\ Enters(c, "client", "checkMaster")
         \/ \E e \in Errors : /\ FailsWith(c, Target[c], e)
                              /\ SetsConn(c, Unlinked(fresh, e))
                              /\ UNCHANGED <<fd, faults>>
                              /\ Returns(c, "client", "ERROR")
      /\ UNCHANGED <<up, masters>>

CheckIsMaster(c) ==
  /\ At(c, "checkMaster")
  /\ \E a \in Answers :
       /\ Answer(c, a)
       /\ IF a # "ok"
          THEN /\ SetsConn(c, Asked(c, a))
               /\ Return(c, "ERROR", NoHost)
          ELSE IF Peer(c) \in masters
          THEN /\ SetsConn(c, Asked(c, a))
               /\ Return(c, "OK", Peer(c))
          ELSE /\ SetsConn(c, [Asked(c, a) EXCEPT !.err = "NOT_MASTER"])
               /\ Return(c, "ERROR", NoHost)
  /\ UNCHANGED <<fd, up, masters>>

-----------------------------------------------------------------------------
(***************************************************************************)
(* mongo_replica_set_client                                                *)
(***************************************************************************)

ReplicaSetInit(c) ==
  /\ At(c, "new") /\ c \in ReplConns
  /\ SetsConn(c, NewConn)
  /\ UNCHANGED <<fd, up, masters, faults>>
  /\ Returns(c, "init", "none")

\* Called on an object that is not connected: the first time, and again if the
\* application retries with it.
ReplicaSetClient(c) ==
  /\ At(c, "idle") /\ c \in ReplConns /\ ~conn[c].connected
  /\ Len(conn[c].hosts) <= MaxHosts
  /\ ctl[c].call = "init" \/ "replicaSetClient" \in Retry
  /\ SetsConn(c, [conn[c] EXCEPT !.sock = 0, !.connected = FALSE])
  /\ UNCHANGED <<fd, up, masters, faults>>
  /\ Enters(c, "replicaSetClient", "seed")

NoPrimary(c) ==
  /\ SetsConn(c, [conn[c] EXCEPT !.err = "NO_PRIMARY"])
  /\ UNCHANGED <<fd, faults>>
  /\ Return(c, "ERROR", NoHost)

\* Mutant: after a failure the same node is tried again.
TryNodeAgain(c, h, p) ==
  \/ \E f \in Fds : /\ Opens(c, h, f)
                    /\ SetsConn(c, Linked(conn[c], f))
                    /\ UNCHANGED faults
                    /\ Goto(c, p, ctl[c].node)
  \/ \E e \in Errors : /\ FailsWith(c, h, e)
                       /\ SetsConn(c, Unlinked(conn[c], e))
                       /\ UNCHANGED <<fd, faults>>
                       /\ Goto(c, ctl[c].pc, ctl[c].node)

\* Connect to one node of a list: go on to p, or to the next node of the list.
TryNode(c, h, p) ==
  \/ \E f \in Fds : /\ Opens(c, h, f)
                    /\ SetsConn(c, Linked(conn[c], f))
                    /\ UNCHANGED faults
                    /\ Goto(c, p, ctl[c].node)
  \/ \E e \in Errors : /\ FailsWith(c, h, e)
                       /\ SetsConn(c, Unlinked(conn[c], e))
                       /\ UNCHANGED <<fd, faults>>
                       /\ Goto(c, ctl[c].pc, ctl[c].node + 1)

TrySeed(c) ==
  /\ At(c, "seed")
  /\ LET n == ctl[c].node
     IN  \/ n <= Len(Seeds[c]) /\ TryNode(c, Seeds[c][n], "checkSeed")
         \/ /\ n > Len(Seeds[c]) /\ conn[c].hosts = <<>>
            /\ NoPrimary(c)
         \/ /\ n > Len(Seeds[c]) /\ conn[c].hosts # <<>>
            /\ UNCHANGED <<conn, fd, faults>>
            /\ Goto(c, "host", 1)
  /\ UNCHANGED <<up, masters>>

\* Mutant: the first seed that is reached decides, whatever it knows.
ListKnownAlways(list) == TRUE

\* The walk over the seeds ends once a list of hosts is known.
ListKnown(list) == list # <<>>

CheckSeed(c) ==
  /\ At(c, "checkSeed")
  /\ \E a \in Answers :
       LET known == IF a = "ok" THEN conn[c].hosts \o HostList[Peer(c)]
                                ELSE conn[c].hosts
       IN  /\ Answer(c, a)
           /\ fd' = Close(fd, conn[c].sock)
           /\ SetsConn(c, [Unlinked(conn[c], ErrorOf(a)) EXCEPT !.hosts = known])
           /\ IF ListKnown(known) THEN Goto(c, "host", 1)
                                  ELSE Goto(c, "seed", ctl[c].node + 1)
  /\ UNCHANGED <<up, masters>>

TryHost(c) ==
  /\ At(c, "host")
  /\ LET n == ctl[c].node
     IN  \/ n <= Len(conn[c].hosts) /\ TryNode(c, conn[c].hosts[n], "checkHost")
         \/ n > Len(conn[c].hosts) /\ NoPrimary(c)
  /\ UNCHANGED <<up, masters>>

\* Mutant: the comparison of the set names is inverted.
BadSetNameInverted(c) == /\ NodeSet[Peer(c)] # NoName
                         /\ NodeSet[Peer(c)] = ConnSet[c]

BadSetName(c) == /\ NodeSet[Peer(c)] # NoName
                 /\ NodeSet[Peer(c)] # ConnSet[c]

\* mongo_replica_set_client returns with the node as the primary; the record of
\* the previous primary is replaced and never freed.
TakesPrimary(c, a, m) ==
  /\ SetsConn(c, [Asked(c, a) EXCEPT !.primaryConnected = TRUE,
                                     !.primary = conn[c].hosts[ctl[c].node]])
  /\ Return(c, "OK", m)

\* mongo_replica_set_check_host closes the socket of a node that is not the
\* primary; whether mongo_replica_set_client then takes the node for the
\* primary depends on replica_set->primary_connected alone.
CheckHost(c) ==
  /\ At(c, "checkHost")
  /\ \E a \in Answers :
       /\ Answer(c, a)
       /\ \/ /\ a = "ok" /\ BadSetName(c)
             /\ SetsConn(c, [Asked(c, a) EXCEPT !.err = "BAD_SET_NAME"])
             /\ Return(c, "ERROR", NoHost)
             /\ UNCHANGED fd
          \/ /\ a = "ok" /\ ~BadSetName(c) /\ Peer(c) \in masters
             /\ TakesPrimary(c, a, Peer(c))
             /\ UNCHANGED fd
          \/ /\ a = "ok" => ~BadSetName(c) /\ Peer(c) \notin masters
             /\ fd' = Close(fd, conn[c].sock)
             /\ IF conn[c].primaryConnected
                THEN TakesPrimary(c, a, NoHost)
                ELSE /\ SetsConn(c, Asked(c, a))
                     /\ Goto(c, "closeHost", ctl[c].node)
  /\ UNCHANGED <<up, masters>>

\* mongo_replica_set_client closes the same descriptor once more.
CloseHost(c) ==
  /\ At(c, "closeHost")
  /\ fd' = Close(fd, conn[c].sock)
  /\ SetsConn(c, [conn[c] EXCEPT !.sock = 0, !.connected = FALSE])
  /\ UNCHANGED <<up, masters, faults>>
  /\ Goto(c, "host", ctl[c].node + 1)

-----------------------------------------------------------------------------
(***************************************************************************)
(* Using and leaving a connection                                          *)
(***************************************************************************)

\* Mutant: the socket is closed, and the object keeps it.
DisconnectedKeepsSocket(c) ==
  [conn[c] EXCEPT !.primaryConnected = FALSE, !.hosts = <<>>]

\* The effect of mongo_disconnect: none on an object that is not connected.
Disconnected(c) ==
  IF conn[c].connected
  THEN [conn[c] EXCEPT !.sock = 0, !.connected = FALSE,
                       !.primaryConnected = FALSE, !.hosts = <<>>]
  ELSE conn[c]

FdsDisconnected(c) ==
  IF conn[c].connected THEN Close(fd, conn[c].sock) ELSE fd

Disconnect(c) ==
  /\ At(c, "idle")
  /\ SetsConn(c, Disconnected(c))
  /\ fd' = FdsDisconnected(c)
  /\ UNCHANGED <<up, masters, faults>>
  /\ Returns(c, "disconnect", "none")

\* Mutant: primary_connected survives mongo_reconnect.
ReconnectSetStale(c) ==
  /\ At(c, "idle") /\ c \in ReplConns
  /\ "reconnect" \in Retry
  /\ SetsConn(c, [Disconnected(c) EXCEPT !.hosts = <<>>, !.sock = 0,
                                         !.connected = FALSE])
  /\ fd' = FdsDisconnected(c)
  /\ UNCHANGED <<up, masters, faults>>
  /\ Enters(c, "reconnect", "seed")

\* mongo_reconnect on a replica set goes through the seeds again ...
ReconnectSet(c) ==
  /\ At(c, "idle") /\ c \in ReplConns
  /\ "reconnect" \in Retry
  /\ SetsConn(c, [Disconnected(c) EXCEPT !.primaryConnected = FALSE,
                                         !.hosts = <<>>, !.sock = 0,
                                         !.connected = FALSE])
  /\ fd' = FdsDisconnected(c)
  /\ UNCHANGED <<up, masters, faults>>
  /\ Enters(c, "reconnect", "seed")

\* ... and on a single server connects to it again, without asking its role.
ReconnectSingle(c) ==
  /\ At(c, "idle") /\ c \notin ReplConns
  /\ "reconnect" \in Retry
  /\ SetsConn(c, Disconnected(c))
  /\ fd' = FdsDisconnected(c)
  /\ UNCHANGED <<up, masters, faults>>
  /\ Enters(c, "reconnect", "dial")

Dial(c) ==
  /\ At(c, "dial")
  /\ \/ \E f \in Fds : /\ Opens(c, conn[c].primary, f)
                       /\ SetsConn(c, Linked(conn[c], f))
                       /\ UNCHANGED faults
                       /\ Return(c, "OK", NoHost)
     \/ \E e \in Errors : /\ FailsWith(c, conn[c].primary, e)
                          /\ SetsConn(c, Unlinked(conn[c], e))
                          /\ UNCHANGED <<fd, faults>>
                          /\ Return(c, "ERROR", NoHost)
  /\ UNCHANGED <<up, masters>>

\* Any request of the application that waits for a reply.
Operation(c) ==
  /\ At(c, "idle")
  /\ \E a \in Answers :
       /\ Answer(c, a)
       /\ SetsConn(c, Asked(c, a))
       /\ Returns(c, "operation", IF a = "ok" THEN "OK" ELSE "ERROR")
  /\ UNCHANGED <<fd, up, masters>>

CheckConnection(c) ==
  /\ At(c, "idle")
  /\ \/ /\ ~conn[c].connected
        /\ UNCHANGED <<conn, faults>>
        /\ Returns(c, "checkConnection", "ERROR")
     \/ /\ conn[c].connected
        /\ \E a \in Answers :
             /\ Answer(c, a)
             /\ SetsConn(c, Asked(c, a))
             /\ Returns(c, "checkConnection", IF a = "ok" THEN "OK" ELSE "ERROR")
  /\ UNCHANGED <<fd, up, masters>>

SetOpTimeout(c, on) ==
  LET applies == conn[c].sock # 0 /\ conn[c].connected
  IN  /\ At(c, "idle")
      /\ SetsConn(c, [conn[c] EXCEPT
                        !.opTimeout = on,
                        !.err = IF applies /\ ~Open(c) THEN "IO_ERROR" ELSE @])
      /\ fd' = IF applies /\ Open(c) THEN [fd EXCEPT ![conn[c].sock].timed = on]
                                     ELSE fd
      /\ UNCHANGED <<up, masters, faults>>
      /\ Returns(c, "setOpTimeout", "OK")

Destroy(c) ==
  /\ At(c, "idle")
  /\ SetsConn(c, [Disconnected(c) EXCEPT !.hosts = <<>>, !.primary = NoHost,
                                         !.err = "SUCCESS"])
  /\ fd' = FdsDisconnected(c)
  /\ UNCHANGED <<up, masters, faults>>
  /\ Enters(c, "destroy", "destroyed")

-----------------------------------------------------------------------------
(***************************************************************************)
(* The servers and the network (external to the driver)                    *)
(***************************************************************************)

\* Every call under way has now seen the world change.
Disturbs == ctl' = [c \in Conns |-> [ctl[c] EXCEPT !.calm = FALSE]]

World(kind) == Fault(kind) /\ Disturbs /\ UNCHANGED conn

ServerFails(h) ==
  /\ h \in up /\ up' = up \ {h} /\ masters' = masters \ {h}
  /\ fd' = [f \in Fds |-> IF fd[f].peer = h THEN [fd[f] EXCEPT !.live = FALSE]
                                            ELSE fd[f]]
  /\ World("fail")

ServerRestarts(h) ==
  /\ h \notin up /\ up' = up \cup {h}
  /\ UNCHANGED <<masters, fd>>
  /\ World("restart")

\* An election; a primary that is cut off may believe in itself a while longer.
ServerElected(h) ==
  /\ h \in up \ masters
  /\ masters' \in {{h}, masters \cup {h}}
  /\ UNCHANGED <<up, fd>>
  /\ World("elect")

ServerStepsDown(h) ==
  /\ h \in masters /\ masters' = masters \ {h}
  /\ UNCHANGED <<up, fd>>
  /\ World("stepDown")

LinkDrops(f) ==
  /\ fd[f].live /\ fd' = [fd EXCEPT ![f].live = FALSE]
  /\ UNCHANGED <<up, masters>>
  /\ World("drop")

Environment ==
  \/ \E h \in Hosts : \/ ServerFails(h) \/ ServerRestarts(h)
                      \/ ServerElected(h) \/ ServerStepsDown(h)
  \/ \E f \in Fds : LinkDrops(f)

\* A step inside a call: it needs nothing from the application.
Continue(c) == \/ CheckIsMaster(c) \/ TrySeed(c) \/ CheckSeed(c) \/ TryHost(c)
               \/ CheckHost(c) \/ CloseHost(c) \/ Dial(c)

Call(c) == \/ Client(c) \/ ReplicaSetInit(c) \/ ReplicaSetClient(c)
           \/ Disconnect(c) \/ ReconnectSet(c) \/ ReconnectSingle(c)
           \/ Operation(c) \/ CheckConnection(c) \/ Destroy(c)
           \/ \E on \in BOOLEAN : SetOpTimeout(c, on)

Next == Environment \/ \E c \in Conns : Call(c) \/ Continue(c)

Spec == Init /\ [][Next]_vars

\* A thread inside a call is scheduled, and every request it waits for is
\* answered, refused, or given up when the connection breaks or times out.
FairSpec == Spec /\ \A c \in Conns : WF_vars(Continue(c))

-----------------------------------------------------------------------------
(***************************************************************************)
(* Properties                                                              *)
(***************************************************************************)

Owns(c) == Open(c) /\ fd[conn[c].sock].owner = c

Returned(c, names) == At(c, "idle") /\ ctl[c].call \in names

\* A connection that says it is connected sits on a descriptor it opened itself
\* and that nobody has closed since: no other thread's close() reaches it.  The
\* one exception is between the two close() calls of a host that is not the
\* primary (mongo.c 602 and 655).
OwnDescriptor ==
  \A c \in Conns : conn[c].connected /\ ~At(c, "closeHost") => Owns(c)

\* mongo_replica_set_client and mongo_reconnect return MONGO_OK only when they
\* are connected, to the node they recorded in conn->primary, and that node
\* said in this very call that it is the primary (mongo.c 639-651).
PrimaryFound ==
  \A c \in ReplConns :
    Returned(c, {"replicaSetClient", "reconnect"}) /\ ctl[c].res = "OK" =>
      /\ conn[c].connected /\ Owns(c)
      /\ Peer(c) = conn[c].primary /\ ctl[c].sawMaster = conn[c].primary
      /\ conn[c].primaryConnected /\ conn[c].err = "SUCCESS"

\* When the call gives up with MONGO_CONN_NO_PRIMARY, whatever connections it
\* opened on the way are given up too: the object is not connected.
NoPrimaryClosed ==
  \A c \in ReplConns :
    Returned(c, {"replicaSetClient", "reconnect"}) /\ conn[c].err = "NO_PRIMARY" =>
      ~conn[c].connected /\ conn[c].sock = 0

\* No working descriptor is lost: one that a connection opened and whose server
\* is still there is its current socket, and the connection knows that it is
\* connected; after mongo_destroy there is none.  (Descriptors of connections
\* that broke are lost: EPIPE clears conn->connected and leaves the socket open,
\* env.c 239, and mongo_disconnect then does nothing.)
NoLeak ==
  \A f \in Fds, c \in Conns :
    fd[f].owner = c /\ fd[f].live => conn[c].sock = f /\ conn[c].connected

\* The set has a primary the call can find: a seed is up, the seeds agree on a
\* list that holds the primary, and every node has the expected set name.
Members(s) == {s[i] : i \in 1..Len(s)}

Findable(c) ==
  LET answering == {h \in Members(Seeds[c]) \cap up : HostList[h] # <<>>}
  IN  /\ answering # {}
      /\ \A s \in answering :
           /\ \E m \in masters \cap up : m \in Members(HostList[s])
           /\ \A h \in Members(HostList[s]) : NodeSet[h] = ConnSet[c]

\* If no server failed or changed role during the call, descriptors were left,
\* and the set has a primary to be found, the call finds it.
CalmFindsPrimary ==
  \A c \in ReplConns :
    /\ Returned(c, {"replicaSetClient", "reconnect"})
    /\ ctl[c].calm /\ Findable(c) /\ Cardinality(Free) > 0
    => ctl[c].res = "OK"

\* After connecting to a set that kept still, a connection that is open leads
\* to the primary, whatever the call returned: an application that ignores the
\* result, as the Lua binding does (mongo.lua 598), still talks to the primary.
ConnectedToPrimary ==
  \A c \in ReplConns :
    /\ Returned(c, {"replicaSetClient", "reconnect"})
    /\ ctl[c].calm /\ conn[c].connected
    => Peer(c) \in masters

\* The operation timeout is a setting of the connection, not of one socket: it
\* holds on every TCP socket the connection is on, after every reconnect.
TimeoutApplied ==
  \A c \in Conns : Owns(c) /\ conn[c].connected =>
                     fd[conn[c].sock].timed = conn[c].opTimeout

\* mongo_check_connection says MONGO_OK only about the connection's own socket:
\* at the moment it is answered, the descriptor it asked on is its own.
CheckedIsOwn ==
  [][\A c \in Conns :
       /\ ctl'[c].pc = "idle" /\ ctl'[c].call = "checkConnection" /\ ctl'[c].res = "OK"
       /\ ctl[c].call # "checkConnection" \/ ctl[c].res # "OK"
       => Owns(c)]_vars

\* An application that looks into conn->err after MONGO_ERROR (errors.rst 11) never
\* misses that it has no connection: every call that fails and leaves the object
\* unconnected leaves a reason, and mongo_replica_set_client and mongo_reconnect
\* always leave one.  Of a connected object no more can be said: mongo_client and
\* any request answered by $err or by no row return MONGO_ERROR with conn->err at 0
\* (mongo.c 1176-1182, 1339-1350), whatever errors.rst says.
ErrorHasReason ==
  \A c \in Conns :
    LET connects == {"replicaSetClient", "reconnect"}
    IN  /\ Returned(c, connects \cup {"client", "operation"})
        /\ ctl[c].res = "ERROR"
        /\ ctl[c].call \in connects \/ ~conn[c].connected
        => conn[c].err # "SUCCESS"

\* Every call returns, whatever the servers do meanwhile: the walks over the
\* seeds and over the hosts end.
CallsReturn ==
  \A c \in Conns : ~(ctl[c].pc \in {"new", "idle", "destroyed"}) ~>
                     At(c, "idle")

=============================================================================
