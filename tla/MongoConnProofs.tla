--------------------------- MODULE MongoConnProofs ---------------------------
(***************************************************************************)
(* Theorems about MongoConn, for any connections, servers, seeds, lists of *)
(* hosts, descriptors and bounds.                                          *)
(***************************************************************************)
EXTENDS MongoConn, FiniteSetTheorems, TLAPS

\* What the type invariant needs to be inductive: the host being checked is one
\* of the list, and a descriptor that answers leads to a server.
WalkInList ==
  \A c \in Conns : At(c, "checkHost") => ctl[c].node \in 1..Len(conn[c].hosts)

PeerKnown == \A f \in Fds : fd[f].live => fd[f].peer \in Hosts

TInv == TypeOK /\ WalkInList /\ PeerKnown

USE DEF Errors, Points, Calls, Answers

LEMMA InitTInv == Init => TInv
<1> SUFFICES ASSUME Init PROVE TInv
  OBVIOUS
<1>1. conn \in [Conns -> ConnRecord]
  BY DEF Init, NewConn, ConnRecord
<1>2. ctl \in [Conns -> CtlRecord]
  BY DEF Init, NewCtl, CtlRecord
<1>3. fd \in [Fds -> FdRecord] /\ PeerKnown
  BY DEF Init, FreeFd, FdRecord, PeerKnown
<1>4. up \in SUBSET Hosts /\ masters \in SUBSET Hosts /\ faults \in Nat
  BY DEF Init
<1>5. WalkInList
  BY DEF Init, WalkInList, At, NewCtl
<1> QED
  BY <1>1, <1>2, <1>3, <1>4, <1>5 DEF TInv, TypeOK

\* The descriptor table stays a table of descriptors under close().
LEMMA CloseType ==
  ASSUME NEW f, TypeOK, PeerKnown
  PROVE  /\ Close(fd, f) \in [Fds -> FdRecord]
         /\ \A g \in Fds : Close(fd, f)[g].live => Close(fd, f)[g].peer \in Hosts
  BY DEF TypeOK, PeerKnown, Close, FreeFd, FdRecord

\* ... and under a successful connect.
LEMMA OpensType ==
  ASSUME NEW c \in Conns, NEW h, NEW f \in Fds, TypeOK, PeerKnown, Opens(c, h, f)
  PROVE  fd' \in [Fds -> FdRecord] /\ PeerKnown'
<1>1. h \in Hosts
  BY DEF Opens, TypeOK
<1>2. conn[c].opTimeout \in BOOLEAN
  BY DEF TypeOK, ConnRecord
<1>3. (conn[c].opTimeout /\ h \notin UnixHosts) \in BOOLEAN
  BY <1>2
<1> DEFINE r == [owner |-> c, peer |-> h, live |-> TRUE,
                 timed |-> conn[c].opTimeout /\ h \notin UnixHosts]
<1>4. r \in FdRecord
  BY <1>1, <1>3 DEF FdRecord
<1>5. fd' = [fd EXCEPT ![f] = r]
  BY DEF Opens
<1>6. r.live /\ r.peer \in Hosts
  BY <1>1
<1> HIDE DEF r
<1> QED
  BY <1>4, <1>5, <1>6 DEF TypeOK, PeerKnown

LEMMA AnswerType ==
  ASSUME NEW c \in Conns, NEW a \in Answers, TypeOK, PeerKnown, Answer(c, a)
  PROVE  /\ faults' \in Nat
         /\ Asked(c, a) \in ConnRecord
         /\ Asked(c, a).hosts = conn[c].hosts
         /\ ErrorOf(a) \in Errors
         /\ a = "ok" => Peer(c) \in Hosts
<1>1. faults' \in Nat
  BY DEF Answer, Fault, TypeOK
<1>2. ErrorOf(a) \in Errors
  BY DEF ErrorOf
<1>3. conn[c] \in ConnRecord
  BY DEF TypeOK
<1>4. StillConnected(c, a) \in BOOLEAN
  BY <1>3 DEF StillConnected, ConnRecord
<1>5. Asked(c, a) \in ConnRecord /\ Asked(c, a).hosts = conn[c].hosts
  BY <1>2, <1>3, <1>4 DEF Asked, ConnRecord
<1>6. a = "ok" => Peer(c) \in Hosts
  BY DEF Answer, Live, Open, Peer, PeerKnown
<1> QED
  BY <1>1, <1>2, <1>5, <1>6

\* What a step of a thread does to its own control, and that it leaves the
\* control of the others alone.
LEMMA ControlType ==
  ASSUME NEW c \in Conns, TypeOK
  PROVE  /\ \A p \in Points, n \in Nat \ {0} :
              Goto(c, p, n) =>
                /\ ctl' \in [Conns -> CtlRecord]
                /\ ctl'[c].pc = p /\ ctl'[c].node = n
                /\ \A d \in Conns \ {c} : ctl'[d] = ctl[d]
         /\ \A r \in {"none", "OK", "ERROR"}, m \in Hosts \cup {NoHost} :
              Return(c, r, m) =>
                /\ ctl' \in [Conns -> CtlRecord]
                /\ ctl'[c].pc = "idle"
                /\ \A d \in Conns \ {c} : ctl'[d] = ctl[d]
         /\ \A name \in Calls, r \in {"none", "OK", "ERROR"} :
              Returns(c, name, r) =>
                /\ ctl' \in [Conns -> CtlRecord]
                /\ ctl'[c].pc = "idle"
                /\ \A d \in Conns \ {c} : ctl'[d] = ctl[d]
         /\ \A name \in Calls, p \in Points :
              Enters(c, name, p) =>
                /\ ctl' \in [Conns -> CtlRecord]
                /\ ctl'[c].pc = p
                /\ \A d \in Conns \ {c} : ctl'[d] = ctl[d]
<1> USE DEF TypeOK, CtlRecord
<1>0. Settled(c) \in BOOLEAN /\ (faults' = faults) \in BOOLEAN
  BY DEF Settled
<1>1. ASSUME NEW p \in Points, NEW n \in Nat \ {0}, Goto(c, p, n)
      PROVE  /\ ctl' \in [Conns -> CtlRecord]
             /\ ctl'[c].pc = p /\ ctl'[c].node = n
             /\ \A d \in Conns \ {c} : ctl'[d] = ctl[d]
  BY <1>0, <1>1 DEF Goto
<1>2. ASSUME NEW r \in {"none", "OK", "ERROR"}, NEW m \in Hosts \cup {NoHost},
             Return(c, r, m)
      PROVE  /\ ctl' \in [Conns -> CtlRecord]
             /\ ctl'[c].pc = "idle"
             /\ \A d \in Conns \ {c} : ctl'[d] = ctl[d]
  BY <1>0, <1>2 DEF Return
<1>3. ASSUME NEW name \in Calls, NEW r \in {"none", "OK", "ERROR"},
             Returns(c, name, r)
      PROVE  /\ ctl' \in [Conns -> CtlRecord]
             /\ ctl'[c].pc = "idle"
             /\ \A d \in Conns \ {c} : ctl'[d] = ctl[d]
  BY <1>0, <1>3 DEF Returns
<1>4. ASSUME NEW name \in Calls, NEW p \in Points, Enters(c, name, p)
      PROVE  /\ ctl' \in [Conns -> CtlRecord]
             /\ ctl'[c].pc = p
             /\ \A d \in Conns \ {c} : ctl'[d] = ctl[d]
  BY <1>4 DEF Enters
<1> QED
  BY <1>1, <1>2, <1>3, <1>4

\* A step of one thread keeps the invariant if what it writes has its type.
LEMMA ThreadStep ==
  ASSUME NEW c \in Conns, TInv, NEW r \in ConnRecord, SetsConn(c, r),
         ctl' \in [Conns -> CtlRecord],
         \A d \in Conns \ {c} : ctl'[d] = ctl[d],
         ctl'[c].pc = "checkHost" => ctl'[c].node \in 1..Len(r.hosts),
         fd' \in [Fds -> FdRecord], PeerKnown', faults' \in Nat,
         UNCHANGED <<up, masters>>
  PROVE  TInv'
<1>1. conn' \in [Conns -> ConnRecord]
  BY DEF TInv, TypeOK, SetsConn
<1>2. TypeOK'
  BY <1>1 DEF TInv, TypeOK
<1>3. ASSUME NEW d \in Conns, ctl'[d].pc = "checkHost"
      PROVE  ctl'[d].node \in 1..Len(conn'[d].hosts)
  <2>1. CASE d = c
    BY <2>1, <1>3 DEF SetsConn, TInv, TypeOK
  <2>2. CASE d # c
    <3>1. ctl'[d] = ctl[d] /\ conn'[d] = conn[d]
      BY <2>2 DEF SetsConn, TInv, TypeOK
    <3> QED
      BY <3>1, <1>3 DEF TInv, WalkInList, At
  <2> QED
    BY <2>1, <2>2
<1> QED
  BY <1>2, <1>3 DEF TInv, WalkInList, At

\* The fields after a connect, a failed connect and a disconnect.
LEMMA FieldsType ==
  ASSUME NEW r \in ConnRecord
  PROVE  /\ \A f \in Fds : Linked(r, f) \in ConnRecord
                           /\ Linked(r, f).hosts = r.hosts
         /\ \A e \in Errors : Unlinked(r, e) \in ConnRecord
                              /\ Unlinked(r, e).hosts = r.hosts
  BY DEF ConnRecord, Linked, Unlinked

LEMMA DisconnectedType ==
  ASSUME NEW c \in Conns, TypeOK, PeerKnown
  PROVE  /\ Disconnected(c) \in ConnRecord
         /\ FdsDisconnected(c) \in [Fds -> FdRecord]
         /\ \A g \in Fds : FdsDisconnected(c)[g].live
                             => FdsDisconnected(c)[g].peer \in Hosts
<1>1. conn[c] \in ConnRecord /\ <<>> \in Seq(Hosts)
  BY DEF TypeOK
<1>2. Disconnected(c) \in ConnRecord
  <2> DEFINE r == [conn[c] EXCEPT !.sock = 0, !.connected = FALSE]
  <2>1. r \in ConnRecord
    BY <1>1 DEF ConnRecord
  <2>2. [r EXCEPT !.primaryConnected = FALSE, !.hosts = <<>>] \in ConnRecord
    <3> HIDE DEF r
    <3> QED BY <2>1, <1>1 DEF ConnRecord
  <2> QED
    BY <2>2, <1>1 DEF Disconnected
<1>3. QED
  BY <1>2, CloseType DEF FdsDisconnected, TypeOK, PeerKnown

\* Trying one node of a list keeps the invariant.
LEMMA TryNodeTInv ==
  ASSUME NEW c \in Conns, NEW h, NEW p \in Points, TInv,
         TryNode(c, h, p), UNCHANGED <<up, masters>>,
         ctl[c].pc # "checkHost",
         p = "checkHost" => ctl[c].node \in 1..Len(conn[c].hosts)
  PROVE  TInv'
<1>0. TypeOK /\ PeerKnown /\ conn[c] \in ConnRecord
      /\ ctl[c].node \in Nat \ {0} /\ ctl[c].node + 1 \in Nat \ {0} /\ ctl[c].pc \in Points
  BY DEF TInv, TypeOK, CtlRecord
<1>1. CASE \E f \in Fds : /\ Opens(c, h, f)
                          /\ SetsConn(c, Linked(conn[c], f))
                          /\ UNCHANGED faults
                          /\ Goto(c, p, ctl[c].node)
  <2>1. PICK f \in Fds : /\ Opens(c, h, f)
                         /\ SetsConn(c, Linked(conn[c], f))
                         /\ UNCHANGED faults
                         /\ Goto(c, p, ctl[c].node)
    BY <1>1
  <2>2. fd' \in [Fds -> FdRecord] /\ PeerKnown'
    BY <2>1, <1>0, OpensType
  <2>3. Linked(conn[c], f) \in ConnRecord /\ Linked(conn[c], f).hosts = conn[c].hosts
    BY <1>0, FieldsType
  <2>4. /\ ctl' \in [Conns -> CtlRecord]
        /\ ctl'[c].pc = p /\ ctl'[c].node = ctl[c].node
        /\ \A d \in Conns \ {c} : ctl'[d] = ctl[d]
    BY <2>1, <1>0, ControlType
  <2>5. faults' \in Nat
    BY <2>1, <1>0 DEF TypeOK
  <2> QED
    BY <2>1, <2>2, <2>3, <2>4, <2>5, ThreadStep
<1>2. CASE \E e \in Errors : /\ FailsWith(c, h, e)
                             /\ SetsConn(c, Unlinked(conn[c], e))
                             /\ UNCHANGED <<fd, faults>>
                             /\ Goto(c, ctl[c].pc, ctl[c].node + 1)
  <2>1. PICK e \in Errors : /\ SetsConn(c, Unlinked(conn[c], e))
                            /\ UNCHANGED <<fd, faults>>
                            /\ Goto(c, ctl[c].pc, ctl[c].node + 1)
    BY <1>2
  <2>2. Unlinked(conn[c], e) \in ConnRecord
    BY <1>0, FieldsType
  <2>3. /\ ctl' \in [Conns -> CtlRecord]
        /\ ctl'[c].pc = ctl[c].pc
        /\ \A d \in Conns \ {c} : ctl'[d] = ctl[d]
    BY <2>1, <1>0, ControlType
  <2>4. fd' \in [Fds -> FdRecord] /\ PeerKnown' /\ faults' \in Nat
    BY <2>1, <1>0 DEF TypeOK, PeerKnown
  <2> QED
    BY <2>1, <2>2, <2>3, <2>4, ThreadStep
<1> QED
  BY <1>1, <1>2 DEF TryNode

\* Every step keeps the invariant.
LEMMA NextTInv == TInv /\ [Next]_vars => TInv'
<1> SUFFICES ASSUME TInv, [Next]_vars PROVE TInv'
  OBVIOUS
<1>0. TypeOK /\ PeerKnown
  BY DEF TInv
<1>f. faults \in Nat /\ fd \in [Fds -> FdRecord]
  BY <1>0 DEF TypeOK
<1>1. ASSUME NEW c \in Conns, Client(c) PROVE TInv'
  <2> DEFINE fresh == [NewConn EXCEPT !.primary = Target[c]]
  <2>0. NewConn \in ConnRecord /\ Target[c] \in Hosts
    BY HostsAssumption DEF NewConn, ConnRecord
  <2>1. fresh \in ConnRecord /\ UNCHANGED <<up, masters>>
    BY <1>1, <2>0 DEF Client, ConnRecord
  <2> HIDE DEF fresh
  <2>2. ASSUME NEW f \in Fds, Opens(c, Target[c], f), UNCHANGED faults,
               SetsConn(c, Linked(fresh, f)), Enters(c, "client", "checkMaster")
        PROVE  TInv'
    <3>1. fd' \in [Fds -> FdRecord] /\ PeerKnown'
      BY <2>2, <1>0, OpensType
    <3>2. ctl' \in [Conns -> CtlRecord] /\ ctl'[c].pc = "checkMaster"
          /\ \A d \in Conns \ {c} : ctl'[d] = ctl[d]
      BY <2>2, <1>0, ControlType
    <3> QED
      BY <2>1, <2>2, <3>1, <3>2, <1>f, FieldsType, ThreadStep
  <2>3. ASSUME NEW e \in Errors, UNCHANGED <<fd, faults>>,
               SetsConn(c, Unlinked(fresh, e)), Returns(c, "client", "ERROR")
        PROVE  TInv'
    <3>1. fd' \in [Fds -> FdRecord] /\ PeerKnown'
      BY <2>3, <1>0, <1>f DEF PeerKnown
    <3>2. ctl' \in [Conns -> CtlRecord] /\ ctl'[c].pc = "idle"
          /\ \A d \in Conns \ {c} : ctl'[d] = ctl[d]
      BY <2>3, <1>0, ControlType
    <3> QED
      BY <2>1, <2>3, <3>1, <3>2, <1>f, FieldsType, ThreadStep
  <2> QED
    BY <1>1, <2>2, <2>3 DEF Client, fresh
<1>2. ASSUME NEW c \in Conns, CheckIsMaster(c) PROVE TInv'
  <2>1. PICK a \in Answers :
          /\ Answer(c, a)
          /\ \E r \in {Asked(c, a), [Asked(c, a) EXCEPT !.err = "NOT_MASTER"]} :
               SetsConn(c, r)
          /\ \/ Return(c, "ERROR", NoHost)
             \/ a = "ok" /\ Return(c, "OK", Peer(c))
    BY <1>2 DEF CheckIsMaster
  <2>2. /\ Asked(c, a) \in ConnRecord /\ faults' \in Nat
        /\ [Asked(c, a) EXCEPT !.err = "NOT_MASTER"] \in ConnRecord
        /\ a = "ok" => Peer(c) \in Hosts
    BY <2>1, <1>0, AnswerType DEF ConnRecord
  <2>3. UNCHANGED <<fd, up, masters>> /\ fd' \in [Fds -> FdRecord] /\ PeerKnown'
    BY <1>2, <1>0, <1>f DEF CheckIsMaster, PeerKnown
  <2>4. ctl' \in [Conns -> CtlRecord] /\ ctl'[c].pc = "idle"
        /\ \A d \in Conns \ {c} : ctl'[d] = ctl[d]
    BY <2>1, <2>2, <1>0, ControlType
  <2> QED
    BY <2>1, <2>2, <2>3, <2>4, ThreadStep
<1>3. ASSUME NEW c \in Conns, ReplicaSetInit(c) PROVE TInv'
  <2>1. NewConn \in ConnRecord
    BY DEF NewConn, ConnRecord
  <2>2. SetsConn(c, NewConn) /\ UNCHANGED <<fd, up, masters, faults>>
        /\ fd' \in [Fds -> FdRecord] /\ PeerKnown'
    BY <1>3, <1>0, <1>f DEF ReplicaSetInit, PeerKnown
  <2>3. ctl' \in [Conns -> CtlRecord] /\ ctl'[c].pc = "idle"
        /\ \A d \in Conns \ {c} : ctl'[d] = ctl[d]
    BY <1>3, <1>0, ControlType DEF ReplicaSetInit
  <2> QED
    BY <2>1, <2>2, <2>3, <1>f, ThreadStep
<1>4. ASSUME NEW c \in Conns, ReplicaSetClient(c) PROVE TInv'
  <2> DEFINE r == [conn[c] EXCEPT !.sock = 0, !.connected = FALSE]
  <2>1. r \in ConnRecord
    BY <1>0 DEF TypeOK, ConnRecord
  <2>2. SetsConn(c, r) /\ UNCHANGED <<fd, up, masters, faults>>
        /\ fd' \in [Fds -> FdRecord] /\ PeerKnown'
    BY <1>4, <1>0, <1>f DEF ReplicaSetClient, PeerKnown
  <2>3. ctl' \in [Conns -> CtlRecord] /\ ctl'[c].pc = "seed"
        /\ \A d \in Conns \ {c} : ctl'[d] = ctl[d]
    BY <1>4, <1>0, ControlType DEF ReplicaSetClient
  <2> HIDE DEF r
  <2> QED
    BY <2>1, <2>2, <2>3, <1>f, ThreadStep
<1>5. ASSUME NEW c \in Conns, NoPrimary(c), UNCHANGED <<up, masters>> PROVE TInv'
  <2> DEFINE r == [conn[c] EXCEPT !.err = "NO_PRIMARY"]
  <2>1. r \in ConnRecord
    BY <1>0 DEF TypeOK, ConnRecord
  <2>2. SetsConn(c, r) /\ UNCHANGED <<fd, faults>>
        /\ fd' \in [Fds -> FdRecord] /\ PeerKnown'
    BY <1>5, <1>0, <1>f DEF NoPrimary, PeerKnown
  <2>3. ctl' \in [Conns -> CtlRecord] /\ ctl'[c].pc = "idle"
        /\ \A d \in Conns \ {c} : ctl'[d] = ctl[d]
    BY <1>5, <1>0, ControlType DEF NoPrimary
  <2> HIDE DEF r
  <2> QED
    BY <1>5, <2>1, <2>2, <2>3, <1>f, ThreadStep
<1>6. ASSUME NEW c \in Conns, TrySeed(c) PROVE TInv'
  <2> DEFINE n == ctl[c].node
  <2>1. n \in Nat \ {0} /\ UNCHANGED <<up, masters>> /\ ctl[c].pc = "seed"
        /\ conn[c] \in ConnRecord
    BY <1>6, <1>0 DEF TrySeed, At, TypeOK, CtlRecord
  <2>2. CASE n <= Len(Seeds[c]) /\ TryNode(c, Seeds[c][n], "checkSeed")
    BY <2>1, <2>2, TryNodeTInv
  <2>3. CASE NoPrimary(c)
    BY <2>1, <2>3, <1>5
  <2>4. CASE UNCHANGED <<conn, fd, faults>> /\ Goto(c, "host", 1)
    <3>1. SetsConn(c, conn[c]) /\ fd' \in [Fds -> FdRecord] /\ PeerKnown'
      BY <2>4, <1>0, <1>f DEF SetsConn, TypeOK, PeerKnown
    <3>2. ctl' \in [Conns -> CtlRecord] /\ ctl'[c].pc = "host"
          /\ \A d \in Conns \ {c} : ctl'[d] = ctl[d]
      BY <2>4, <1>0, ControlType
    <3> QED
      BY <2>1, <2>4, <3>1, <3>2, <1>f, ThreadStep
  <2> QED
    BY <1>6, <2>2, <2>3, <2>4 DEF TrySeed
<1>7. ASSUME NEW c \in Conns, CheckSeed(c) PROVE TInv'
  <2> DEFINE known(a) == IF a = "ok" THEN conn[c].hosts \o HostList[Peer(c)]
                                     ELSE conn[c].hosts
             r(a) == [Unlinked(conn[c], ErrorOf(a)) EXCEPT !.hosts = known(a)]
  <2>1. PICK a \in Answers :
          /\ Answer(c, a)
          /\ fd' = Close(fd, conn[c].sock)
          /\ SetsConn(c, r(a))
          /\ Goto(c, "host", 1) \/ Goto(c, "seed", ctl[c].node + 1)
    BY <1>7 DEF CheckSeed
  <2>2. conn[c] \in ConnRecord /\ ctl[c].node + 1 \in Nat \ {0} /\ conn[c].hosts \in Seq(Hosts)
    BY <1>0 DEF TypeOK, CtlRecord, ConnRecord
  <2>3. known(a) \in Seq(Hosts)
    BY <2>1, <2>2, <1>0, AnswerType, HostsAssumption
  <2>4. Unlinked(conn[c], ErrorOf(a)) \in ConnRecord
    BY <2>1, <2>2, <1>0, AnswerType, FieldsType
  <2>5. r(a) \in ConnRecord
    BY <2>3, <2>4 DEF ConnRecord
  <2>6. /\ ctl' \in [Conns -> CtlRecord] /\ ctl'[c].pc # "checkHost"
        /\ \A d \in Conns \ {c} : ctl'[d] = ctl[d]
    BY <2>1, <2>2, <1>0, ControlType
  <2>7. fd' \in [Fds -> FdRecord] /\ PeerKnown' /\ faults' \in Nat
    BY <2>1, <1>0, CloseType, AnswerType DEF PeerKnown
  <2>8. UNCHANGED <<up, masters>>
    BY <1>7 DEF CheckSeed
  <2> HIDE DEF r
  <2> QED
    BY <2>1, <2>5, <2>6, <2>7, <2>8, ThreadStep
<1>8. ASSUME NEW c \in Conns, TryHost(c) PROVE TInv'
  <2> DEFINE n == ctl[c].node
  <2>1. n \in Nat \ {0} /\ UNCHANGED <<up, masters>> /\ ctl[c].pc = "host"
    BY <1>8, <1>0 DEF TryHost, At, TypeOK, CtlRecord
  <2>2. CASE n <= Len(conn[c].hosts) /\ TryNode(c, conn[c].hosts[n], "checkHost")
    BY <2>1, <2>2, TryNodeTInv
  <2>3. CASE NoPrimary(c)
    BY <2>1, <2>3, <1>5
  <2> QED
    BY <1>8, <2>2, <2>3 DEF TryHost
<1>9. ASSUME NEW c \in Conns, CheckHost(c) PROVE TInv'
  <2>1. PICK a \in Answers :
          /\ Answer(c, a)
          /\ \/ /\ SetsConn(c, [Asked(c, a) EXCEPT !.err = "BAD_SET_NAME"])
                /\ Return(c, "ERROR", NoHost)
                /\ UNCHANGED fd
             \/ /\ a = "ok" /\ TakesPrimary(c, a, Peer(c))
                /\ UNCHANGED fd
             \/ fd' = Close(fd, conn[c].sock) /\ TakesPrimary(c, a, NoHost)
             \/ /\ fd' = Close(fd, conn[c].sock)
                /\ SetsConn(c, Asked(c, a))
                /\ Goto(c, "closeHost", ctl[c].node)
    BY <1>9 DEF CheckHost
  <2> DEFINE taken == [Asked(c, a) EXCEPT !.primaryConnected = TRUE,
                                          !.primary = conn[c].hosts[ctl[c].node]]
             bad == [Asked(c, a) EXCEPT !.err = "BAD_SET_NAME"]
  <2>2. At(c, "checkHost") /\ UNCHANGED <<up, masters>> /\ ctl[c].node \in Nat \ {0}
        /\ conn[c].hosts \in Seq(Hosts)
    BY <1>9, <1>0 DEF CheckHost, TypeOK, CtlRecord, ConnRecord
  <2>3. conn[c].hosts[ctl[c].node] \in Hosts
    BY <2>2 DEF TInv, WalkInList
  <2>4. Asked(c, a) \in ConnRecord /\ faults' \in Nat /\ (a = "ok" => Peer(c) \in Hosts)
    BY <2>1, <1>0, AnswerType
  <2>5. taken \in ConnRecord /\ bad \in ConnRecord
    BY <2>3, <2>4 DEF ConnRecord
  <2>6. fd' \in [Fds -> FdRecord] /\ PeerKnown'
    <3>1. CASE fd' = fd
      BY <3>1, <1>0, <1>f DEF PeerKnown
    <3>2. CASE fd' = Close(fd, conn[c].sock)
      BY <3>2, <1>0, CloseType DEF PeerKnown
    <3> QED
      BY <2>1, <3>1, <3>2
  <2>7. /\ ctl' \in [Conns -> CtlRecord] /\ ctl'[c].pc # "checkHost"
        /\ \A d \in Conns \ {c} : ctl'[d] = ctl[d]
    BY <2>1, <2>2, <2>4, <1>0, ControlType DEF TakesPrimary
  <2>8. \E r \in ConnRecord : SetsConn(c, r)
    BY <2>1, <2>4, <2>5 DEF TakesPrimary
  <2> QED
    BY <2>2, <2>4, <2>6, <2>7, <2>8, ThreadStep
<1>10. ASSUME NEW c \in Conns, CloseHost(c) PROVE TInv'
  <2> DEFINE r == [conn[c] EXCEPT !.sock = 0, !.connected = FALSE]
  <2>0. ctl[c].node + 1 \in Nat \ {0}
    BY <1>0 DEF TypeOK, CtlRecord
  <2>1. r \in ConnRecord
    BY <1>0 DEF TypeOK, ConnRecord
  <2>2. SetsConn(c, r) /\ UNCHANGED <<up, masters, faults>>
        /\ fd' \in [Fds -> FdRecord] /\ PeerKnown'
    BY <1>10, <1>0, CloseType DEF CloseHost, PeerKnown
  <2>3. ctl' \in [Conns -> CtlRecord] /\ ctl'[c].pc = "host"
        /\ \A d \in Conns \ {c} : ctl'[d] = ctl[d]
    BY <1>10, <2>0, <1>0, ControlType DEF CloseHost
  <2> HIDE DEF r
  <2> QED
    BY <2>1, <2>2, <2>3, <1>f, ThreadStep
<1>11. ASSUME NEW c \in Conns, Disconnect(c) PROVE TInv'
  <2>1. SetsConn(c, Disconnected(c)) /\ UNCHANGED <<up, masters, faults>>
        /\ fd' = FdsDisconnected(c) /\ Returns(c, "disconnect", "none")
    BY <1>11 DEF Disconnect
  <2>2. Disconnected(c) \in ConnRecord /\ fd' \in [Fds -> FdRecord] /\ PeerKnown'
    BY <2>1, <1>0, DisconnectedType DEF PeerKnown
  <2>3. ctl' \in [Conns -> CtlRecord] /\ ctl'[c].pc = "idle"
        /\ \A d \in Conns \ {c} : ctl'[d] = ctl[d]
    BY <2>1, <1>0, ControlType
  <2> QED
    BY <2>1, <2>2, <2>3, <1>f, ThreadStep
<1>12. ASSUME NEW c \in Conns, ReconnectSet(c) PROVE TInv'
  <2> DEFINE r == [Disconnected(c) EXCEPT !.primaryConnected = FALSE, !.hosts = <<>>,
                                          !.sock = 0, !.connected = FALSE]
             r1 == [Disconnected(c) EXCEPT !.primaryConnected = FALSE, !.hosts = <<>>]
  <2>1. SetsConn(c, r) /\ UNCHANGED <<up, masters, faults>>
        /\ fd' = FdsDisconnected(c) /\ Enters(c, "reconnect", "seed")
    BY <1>12 DEF ReconnectSet
  <2>2. Disconnected(c) \in ConnRecord /\ fd' \in [Fds -> FdRecord] /\ PeerKnown'
    BY <2>1, <1>0, DisconnectedType DEF PeerKnown
  <2>3. r1 \in ConnRecord
    <3>1. <<>> \in Seq(Hosts)
      OBVIOUS
    <3> QED
      BY <2>2, <3>1 DEF ConnRecord
  <2>4. [r1 EXCEPT !.sock = 0, !.connected = FALSE] \in ConnRecord
    <3> HIDE DEF r1
    <3> QED
      BY <2>3 DEF ConnRecord
  <2>5. ctl' \in [Conns -> CtlRecord] /\ ctl'[c].pc = "seed"
        /\ \A d \in Conns \ {c} : ctl'[d] = ctl[d]
    BY <2>1, <1>0, ControlType
  <2>6. r \in ConnRecord
    BY <2>4
  <2> HIDE DEF r
  <2> QED
    BY <2>1, <2>2, <2>5, <2>6, <1>f, ThreadStep
<1>13. ASSUME NEW c \in Conns, ReconnectSingle(c) PROVE TInv'
  <2>1. SetsConn(c, Disconnected(c)) /\ UNCHANGED <<up, masters, faults>>
        /\ fd' = FdsDisconnected(c) /\ Enters(c, "reconnect", "dial")
    BY <1>13 DEF ReconnectSingle
  <2>2. Disconnected(c) \in ConnRecord /\ fd' \in [Fds -> FdRecord] /\ PeerKnown'
    BY <2>1, <1>0, DisconnectedType DEF PeerKnown
  <2>3. ctl' \in [Conns -> CtlRecord] /\ ctl'[c].pc = "dial"
        /\ \A d \in Conns \ {c} : ctl'[d] = ctl[d]
    BY <2>1, <1>0, ControlType
  <2> QED
    BY <2>1, <2>2, <2>3, <1>f, ThreadStep
<1>14. ASSUME NEW c \in Conns, Dial(c) PROVE TInv'
  <2>0. conn[c] \in ConnRecord /\ UNCHANGED <<up, masters>>
    BY <1>14, <1>0 DEF Dial, TypeOK
  <2>1. ASSUME NEW f \in Fds, Opens(c, conn[c].primary, f), UNCHANGED faults,
               SetsConn(c, Linked(conn[c], f)), Return(c, "OK", NoHost)
        PROVE  TInv'
    <3>1. fd' \in [Fds -> FdRecord] /\ PeerKnown'
      BY <2>1, <1>0, OpensType
    <3>2. ctl' \in [Conns -> CtlRecord] /\ ctl'[c].pc = "idle"
          /\ \A d \in Conns \ {c} : ctl'[d] = ctl[d]
      BY <2>1, <1>0, ControlType
    <3> QED
      BY <2>0, <2>1, <3>1, <3>2, <1>f, FieldsType, ThreadStep
  <2>2. ASSUME NEW e \in Errors, UNCHANGED <<fd, faults>>,
               SetsConn(c, Unlinked(conn[c], e)), Return(c, "ERROR", NoHost)
        PROVE  TInv'
    <3>1. fd' \in [Fds -> FdRecord] /\ PeerKnown'
      BY <2>2, <1>0, <1>f DEF PeerKnown
    <3>2. ctl' \in [Conns -> CtlRecord] /\ ctl'[c].pc = "idle"
          /\ \A d \in Conns \ {c} : ctl'[d] = ctl[d]
      BY <2>2, <1>0, ControlType
    <3> QED
      BY <2>0, <2>2, <3>1, <3>2, <1>f, FieldsType, ThreadStep
  <2> QED
    BY <1>14, <2>1, <2>2 DEF Dial
<1>15. ASSUME NEW c \in Conns, Operation(c) PROVE TInv'
  <2>1. PICK a \in Answers : Answer(c, a) /\ SetsConn(c, Asked(c, a))
                             /\ \E r \in {"OK", "ERROR"} : Returns(c, "operation", r)
    BY <1>15 DEF Operation
  <2>2. Asked(c, a) \in ConnRecord /\ faults' \in Nat
    BY <2>1, <1>0, AnswerType
  <2>3. UNCHANGED <<fd, up, masters>> /\ fd' \in [Fds -> FdRecord] /\ PeerKnown'
    BY <1>15, <1>0, <1>f DEF Operation, PeerKnown
  <2>4. ctl' \in [Conns -> CtlRecord] /\ ctl'[c].pc = "idle"
        /\ \A d \in Conns \ {c} : ctl'[d] = ctl[d]
    BY <2>1, <1>0, ControlType
  <2> QED
    BY <2>1, <2>2, <2>3, <2>4, ThreadStep
<1>16. ASSUME NEW c \in Conns, CheckConnection(c) PROVE TInv'
  <2>1. UNCHANGED <<fd, up, masters>> /\ fd' \in [Fds -> FdRecord] /\ PeerKnown'
        /\ conn[c] \in ConnRecord
    BY <1>16, <1>0, <1>f DEF CheckConnection, PeerKnown, TypeOK
  <2>2. CASE UNCHANGED <<conn, faults>> /\ Returns(c, "checkConnection", "ERROR")
    <3>1. SetsConn(c, conn[c])
      BY <2>2, <1>0 DEF SetsConn, TypeOK
    <3>2. ctl' \in [Conns -> CtlRecord] /\ ctl'[c].pc = "idle"
          /\ \A d \in Conns \ {c} : ctl'[d] = ctl[d]
      BY <2>2, <1>0, ControlType
    <3> QED
      BY <2>1, <2>2, <3>1, <3>2, <1>f, ThreadStep
  <2>3. CASE \E a \in Answers :
               /\ Answer(c, a) /\ SetsConn(c, Asked(c, a))
               /\ \E r \in {"OK", "ERROR"} : Returns(c, "checkConnection", r)
    <3>1. PICK a \in Answers :
               /\ Answer(c, a) /\ SetsConn(c, Asked(c, a))
               /\ \E r \in {"OK", "ERROR"} : Returns(c, "checkConnection", r)
      BY <2>3
    <3>2. Asked(c, a) \in ConnRecord /\ faults' \in Nat
      BY <3>1, <1>0, AnswerType
    <3>3. ctl' \in [Conns -> CtlRecord] /\ ctl'[c].pc = "idle"
          /\ \A d \in Conns \ {c} : ctl'[d] = ctl[d]
      BY <3>1, <1>0, ControlType
    <3> QED
      BY <2>1, <3>1, <3>2, <3>3, ThreadStep
  <2> QED
    BY <1>16, <2>2, <2>3 DEF CheckConnection
<1>17. ASSUME NEW c \in Conns, NEW on \in BOOLEAN, SetOpTimeout(c, on) PROVE TInv'
  <2> DEFINE e == IF (conn[c].sock # 0 /\ conn[c].connected) /\ ~Open(c)
                  THEN "IO_ERROR" ELSE conn[c].err
             r == [conn[c] EXCEPT !.opTimeout = on, !.err = e]
  <2>1. conn[c] \in ConnRecord /\ e \in Errors
    BY <1>0 DEF TypeOK, ConnRecord
  <2>2. r \in ConnRecord
    <3> HIDE DEF e
    <3> QED
      BY <2>1 DEF ConnRecord
  <2>3. SetsConn(c, r) /\ UNCHANGED <<up, masters, faults>>
        /\ Returns(c, "setOpTimeout", "OK")
    BY <1>17 DEF SetOpTimeout
  <2>4. fd' \in [Fds -> FdRecord] /\ PeerKnown'
    <3>1. CASE fd' = fd
      BY <3>1, <1>0, <1>f DEF PeerKnown
    <3>2. CASE fd' = [fd EXCEPT ![conn[c].sock].timed = on]
      BY <3>2, <1>0, <1>f DEF PeerKnown, FdRecord
    <3> QED
      BY <1>17, <3>1, <3>2 DEF SetOpTimeout
  <2>5. ctl' \in [Conns -> CtlRecord] /\ ctl'[c].pc = "idle"
        /\ \A d \in Conns \ {c} : ctl'[d] = ctl[d]
    BY <2>3, <1>0, ControlType
  <2> HIDE DEF r
  <2> QED
    BY <2>2, <2>3, <2>4, <2>5, <1>f, ThreadStep
<1>18. ASSUME NEW c \in Conns, Destroy(c) PROVE TInv'
  <2> DEFINE r1 == [Disconnected(c) EXCEPT !.hosts = <<>>]
             r == [Disconnected(c) EXCEPT !.hosts = <<>>, !.primary = NoHost,
                                          !.err = "SUCCESS"]
  <2>1. SetsConn(c, r) /\ UNCHANGED <<up, masters, faults>>
        /\ fd' = FdsDisconnected(c) /\ Enters(c, "destroy", "destroyed")
    BY <1>18 DEF Destroy
  <2>2. Disconnected(c) \in ConnRecord /\ fd' \in [Fds -> FdRecord] /\ PeerKnown'
    BY <2>1, <1>0, DisconnectedType DEF PeerKnown
  <2>3. r1 \in ConnRecord
    <3>1. <<>> \in Seq(Hosts)
      OBVIOUS
    <3> QED
      BY <2>2, <3>1 DEF ConnRecord
  <2>4. [r1 EXCEPT !.primary = NoHost, !.err = "SUCCESS"] \in ConnRecord
    <3> HIDE DEF r1
    <3> QED
      BY <2>3 DEF ConnRecord
  <2>5. r \in ConnRecord
    BY <2>4
  <2>6. ctl' \in [Conns -> CtlRecord] /\ ctl'[c].pc = "destroyed"
        /\ \A d \in Conns \ {c} : ctl'[d] = ctl[d]
    BY <2>1, <1>0, ControlType
  <2> HIDE DEF r
  <2> QED
    BY <2>1, <2>2, <2>5, <2>6, <1>f, ThreadStep
<1>19. ASSUME Environment PROVE TInv'
  <2>1. UNCHANGED conn /\ Disturbs /\ faults' \in Nat
    BY <1>19, <1>f DEF Environment, ServerFails, ServerRestarts, ServerElected,
       ServerStepsDown, LinkDrops, World, Fault
  <2>2. ctl' \in [Conns -> CtlRecord] /\ WalkInList'
    <3>1. ctl \in [Conns -> CtlRecord]
      BY <1>0 DEF TypeOK
    <3>2. \A c \in Conns : /\ ctl'[c] = [ctl[c] EXCEPT !.calm = FALSE]
                            /\ ctl'[c] \in CtlRecord
                            /\ ctl'[c].pc = ctl[c].pc /\ ctl'[c].node = ctl[c].node
      BY <2>1, <3>1 DEF Disturbs, CtlRecord
    <3>3. ctl' \in [Conns -> CtlRecord]
      BY <2>1, <3>2 DEF Disturbs
    <3> QED
      BY <2>1, <3>2, <3>3 DEF TInv, WalkInList, At
  <2>3. up' \in SUBSET Hosts /\ masters' \in SUBSET Hosts
    BY <1>19, <1>0 DEF Environment, ServerFails, ServerRestarts, ServerElected,
       ServerStepsDown, LinkDrops, TypeOK
  <2>4. fd' \in [Fds -> FdRecord] /\ PeerKnown'
    <3>1. ASSUME NEW h \in Hosts, ServerFails(h)
          PROVE  fd' \in [Fds -> FdRecord] /\ PeerKnown'
      BY <3>1, <1>0, <1>f DEF ServerFails, PeerKnown, FdRecord
    <3>2. ASSUME NEW f \in Fds, LinkDrops(f)
          PROVE  fd' \in [Fds -> FdRecord] /\ PeerKnown'
      BY <3>2, <1>0, <1>f DEF LinkDrops, PeerKnown, FdRecord
    <3>3. CASE fd' = fd
      BY <3>3, <1>0, <1>f DEF PeerKnown
    <3> QED
      BY <1>19, <3>1, <3>2, <3>3 DEF Environment, ServerRestarts, ServerElected,
         ServerStepsDown
  <2> QED
    BY <2>1, <2>2, <2>3, <2>4, <1>0 DEF TInv, TypeOK
<1>20. CASE UNCHANGED vars
  BY <1>20 DEF vars, TInv, TypeOK, WalkInList, PeerKnown, At
<1> QED
  BY <1>1, <1>2, <1>3, <1>4, <1>6, <1>7, <1>8, <1>9, <1>10, <1>11, <1>12, <1>13,
     <1>14, <1>15, <1>16, <1>17, <1>18, <1>19, <1>20 DEF Next, Call, Continue

\* Every variable keeps its type: in particular a socket is a descriptor of the
\* process or 0, and the host list holds hosts only.
THEOREM TypeCorrect == Spec => []TypeOK
<1>1. TInv => TypeOK
  BY DEF TInv
<1> QED
  BY InitTInv, NextTInv, <1>1, PTL DEF Spec

-----------------------------------------------------------------------------
(***************************************************************************)
(* A connection keeps its own descriptor                                   *)
(***************************************************************************)

\* Replica set connections are used by a process with no other connection, and
\* are connected again by mongo_reconnect only.
Documented == /\ \A c \in ReplConns : Conns = {c}
              /\ "replicaSetClient" \notin Retry

Walk == {"seed", "checkSeed", "host", "checkHost", "closeHost"}

\* OwnDescriptor is kept because a walk over seeds and hosts always starts with
\* replica_set->primary_connected clear: then check_host never closes a socket
\* that mongo_replica_set_client goes on to report as the primary's.
OInv ==
  /\ \A c \in Conns :
       /\ ctl[c].pc \in Walk => /\ c \in ReplConns
                                /\ ~conn[c].primaryConnected
                                /\ ctl[c].call # "init"
       /\ ctl[c].call = "init" => ~conn[c].primaryConnected
  /\ OwnDescriptor

LEMMA InitOInv == Init => OInv
  BY DEF Init, OInv, OwnDescriptor, NewConn, NewCtl, Walk

\* What a thread has to respect so that OInv is kept.
LEMMA OwnStep ==
  ASSUME NEW c \in Conns, TInv, OInv, NEW r, SetsConn(c, r),
         \A d \in Conns \ {c} : ctl'[d] = ctl[d],
         \A f \in Fds : fd[f].owner \notin {NoConn, c} => fd'[f].owner = fd[f].owner,
         ctl'[c].pc \in Walk => /\ c \in ReplConns /\ ~r.primaryConnected
                                /\ ctl'[c].call # "init",
         ctl'[c].call = "init" => ~r.primaryConnected,
         r.connected /\ ctl'[c].pc # "closeHost"
           => r.sock \in Fds /\ fd'[r.sock].owner = c
  PROVE  OInv'
<1>1. conn'[c] = r /\ \A d \in Conns \ {c} : conn'[d] = conn[d] /\ ctl'[d] = ctl[d]
  BY DEF SetsConn, TInv, TypeOK
<1>2. ASSUME NEW d \in Conns, conn'[d].connected, ctl'[d].pc # "closeHost"
      PROVE  conn'[d].sock \in Fds /\ fd'[conn'[d].sock].owner = d
  <2>1. CASE d = c
    BY <2>1, <1>1, <1>2
  <2>2. CASE d # c
    <3>1. conn[d].sock \in Fds /\ fd[conn[d].sock].owner = d /\ conn'[d] = conn[d]
      BY <2>2, <1>1, <1>2 DEF OInv, OwnDescriptor, Owns, Open, At
    <3>2. d # NoConn
      BY ConnsAssumption
    <3> QED
      BY <3>1, <3>2, <2>2
  <2> QED
    BY <2>1, <2>2
<1>3. OwnDescriptor'
  BY <1>2, ConnsAssumption DEF OwnDescriptor, Owns, Open, At
<1>4. ASSUME NEW d \in Conns
      PROVE  /\ ctl'[d].pc \in Walk => /\ d \in ReplConns
                                       /\ ~conn'[d].primaryConnected
                                       /\ ctl'[d].call # "init"
             /\ ctl'[d].call = "init" => ~conn'[d].primaryConnected
  BY <1>1 DEF OInv
<1> QED
  BY <1>3, <1>4 DEF OInv

\* A thread closes nobody's descriptor but its own.
LEMMA CloseOwn ==
  ASSUME NEW c \in Conns, TInv, OInv, Documented,
         c \in ReplConns \/ (conn[c].connected /\ ctl[c].pc # "closeHost")
  PROVE  \A f \in Fds : fd[f].owner \notin {NoConn, c}
                          => Close(fd, conn[c].sock)[f].owner = fd[f].owner
<1> SUFFICES ASSUME NEW f \in Fds, fd[f].owner \notin {NoConn, c}
             PROVE  Close(fd, conn[c].sock)[f].owner = fd[f].owner
  OBVIOUS
<1>1. fd[f].owner \in Conns \cup {NoConn}
  BY DEF TInv, TypeOK, FdRecord
<1>2. CASE c \in ReplConns
  BY <1>1, <1>2 DEF Documented
<1>3. CASE conn[c].connected /\ ctl[c].pc # "closeHost"
  <2>1. fd[conn[c].sock].owner = c
    BY <1>3 DEF OInv, OwnDescriptor, Owns, Open, At
  <2> QED
    BY <2>1 DEF Close
<1> QED
  BY <1>2, <1>3

\* A successful connect takes a descriptor that was free.
LEMMA OpenOwn ==
  ASSUME NEW c \in Conns, NEW h, NEW f \in Fds, TInv, Opens(c, h, f)
  PROVE  /\ fd'[f].owner = c
         /\ \A g \in Fds : fd[g].owner \notin {NoConn, c} => fd'[g].owner = fd[g].owner
  BY DEF Opens, Free, TInv, TypeOK

\* What a step does to the control of its thread.
LEMMA ControlCall ==
  ASSUME NEW c \in Conns, TInv
  PROVE  /\ \A p, n : Goto(c, p, n) =>
              /\ ctl'[c].pc = p /\ ctl'[c].call = ctl[c].call
              /\ \A d \in Conns \ {c} : ctl'[d] = ctl[d]
         /\ \A r, m : Return(c, r, m) =>
              /\ ctl'[c].pc = "idle" /\ ctl'[c].call = ctl[c].call
              /\ \A d \in Conns \ {c} : ctl'[d] = ctl[d]
         /\ \A name, r : Returns(c, name, r) =>
              /\ ctl'[c].pc = "idle" /\ ctl'[c].call = name
              /\ \A d \in Conns \ {c} : ctl'[d] = ctl[d]
         /\ \A name, p : Enters(c, name, p) =>
              /\ ctl'[c].pc = p /\ ctl'[c].call = name
              /\ \A d \in Conns \ {c} : ctl'[d] = ctl[d]
  BY DEF Goto, Return, Returns, Enters, TInv, TypeOK

LEMMA NextOInv == Documented /\ TInv /\ OInv /\ [Next]_vars => OInv'
<1> SUFFICES ASSUME Documented, TInv, OInv, [Next]_vars PROVE OInv'
  OBVIOUS
<1> USE DEF Walk, At
<1>0. /\ conn \in [Conns -> ConnRecord]
      /\ fd \in [Fds -> FdRecord] /\ \A c \in Conns : c # NoConn
      /\ \A c \in Conns : conn[c].connected /\ ctl[c].pc # "closeHost"
                            => conn[c].sock \in Fds /\ fd[conn[c].sock].owner = c
  BY ConnsAssumption DEF TInv, TypeOK, OInv, OwnDescriptor, Owns, Open
\* A node of a list is tried.
<1>1. ASSUME NEW c \in Conns, NEW h, NEW p \in {"checkSeed", "checkHost"},
             TryNode(c, h, p), ctl[c].pc \in {"seed", "host"}
      PROVE  OInv'
  <2>1. c \in ReplConns /\ ~conn[c].primaryConnected /\ ctl[c].call # "init"
    BY <1>1 DEF OInv
  <2>2. ASSUME NEW f \in Fds, Opens(c, h, f), SetsConn(c, Linked(conn[c], f)),
               Goto(c, p, ctl[c].node)
        PROVE  OInv'
    <3>1. Linked(conn[c], f).sock = f
          /\ Linked(conn[c], f).primaryConnected = conn[c].primaryConnected
      BY <1>0 DEF Linked, ConnRecord
    <3> QED
      BY <2>1, <2>2, <3>1, ControlCall, OpenOwn, OwnStep
  <2>3. ASSUME NEW e \in Errors, UNCHANGED fd, SetsConn(c, Unlinked(conn[c], e)),
               Goto(c, ctl[c].pc, ctl[c].node + 1)
        PROVE  OInv'
    <3>1. ~Unlinked(conn[c], e).connected
          /\ Unlinked(conn[c], e).primaryConnected = conn[c].primaryConnected
      BY <1>0 DEF Unlinked, ConnRecord
    <3> QED
      BY <2>1, <2>3, <3>1, ControlCall, OwnStep
  <2> QED
    BY <1>1, <2>2, <2>3 DEF TryNode
<1>2. ASSUME NEW c \in Conns, NoPrimary(c), ctl[c].pc \in {"seed", "host"}
      PROVE  OInv'
  <2>1. c \in ReplConns /\ ~conn[c].primaryConnected /\ ctl[c].call # "init"
    BY <1>2 DEF OInv
  <2> DEFINE r == [conn[c] EXCEPT !.err = "NO_PRIMARY"]
  <2>2. r.primaryConnected = conn[c].primaryConnected /\ r.connected = conn[c].connected
        /\ r.sock = conn[c].sock
    BY <1>0 DEF ConnRecord
  <2>3. SetsConn(c, r) /\ UNCHANGED fd /\ Return(c, "ERROR", NoHost)
    BY <1>2 DEF NoPrimary
  <2> HIDE DEF r
  <2> QED
    BY <1>0, <1>2, <2>1, <2>2, <2>3, ControlCall, OwnStep
<1>3. ASSUME NEW c \in Conns, Client(c) PROVE OInv'
  <2> DEFINE fresh == [NewConn EXCEPT !.primary = Target[c]]
  <2>1. ~fresh.primaryConnected
        /\ \A f \in Fds : /\ Linked(fresh, f).sock = f
                          /\ ~Linked(fresh, f).primaryConnected
        /\ \A e \in Errors : /\ ~Unlinked(fresh, e).connected
                             /\ ~Unlinked(fresh, e).primaryConnected
    BY DEF NewConn, Linked, Unlinked
  <2> HIDE DEF fresh
  <2>2. ASSUME NEW f \in Fds, Opens(c, Target[c], f), SetsConn(c, Linked(fresh, f)),
               Enters(c, "client", "checkMaster")
        PROVE  OInv'
    BY <2>1, <2>2, ControlCall, OpenOwn, OwnStep
  <2>3. ASSUME NEW e \in Errors, UNCHANGED fd, SetsConn(c, Unlinked(fresh, e)),
               Returns(c, "client", "ERROR")
        PROVE  OInv'
    <3>1. /\ ctl'[c].pc = "idle" /\ ctl'[c].call = "client"
          /\ \A d \in Conns \ {c} : ctl'[d] = ctl[d]
      BY <2>3, ControlCall
    <3>2. Unlinked(fresh, e).connected = FALSE
      BY DEF Unlinked, fresh, NewConn
    <3> QED
      BY <2>3, <3>1, <3>2, OwnStep
  <2> QED
    BY <1>3, <2>2, <2>3 DEF Client, fresh
\* A request leaves the descriptor as it is.
<1>4. ASSUME NEW c \in Conns, NEW a \in Answers
      PROVE  /\ Asked(c, a).sock = conn[c].sock
             /\ Asked(c, a).primaryConnected = conn[c].primaryConnected
             /\ Asked(c, a).connected => conn[c].connected
             /\ \A e : LET r == [Asked(c, a) EXCEPT !.err = e]
                       IN  /\ r.sock = conn[c].sock
                           /\ r.primaryConnected = conn[c].primaryConnected
                           /\ r.connected => conn[c].connected
  BY <1>0 DEF Asked, StillConnected, ConnRecord
<1>5. ASSUME NEW c \in Conns, CheckIsMaster(c) PROVE OInv'
  <2>1. PICK a \in Answers :
          /\ \E r \in {Asked(c, a), [Asked(c, a) EXCEPT !.err = "NOT_MASTER"]} :
               SetsConn(c, r)
          /\ \E r, m : Return(c, r, m)
    BY <1>5 DEF CheckIsMaster
  <2>2. UNCHANGED fd /\ ctl[c].pc = "checkMaster"
    BY <1>5 DEF CheckIsMaster
  <2>3. ctl[c].call = "init" => ~conn[c].primaryConnected
    BY DEF OInv
  <2>4. PICK r : /\ SetsConn(c, r) /\ r.sock = conn[c].sock
                 /\ r.primaryConnected = conn[c].primaryConnected
                 /\ r.connected => conn[c].connected
    <3>1. PICK q \in {Asked(c, a), [Asked(c, a) EXCEPT !.err = "NOT_MASTER"]} :
            SetsConn(c, q)
      BY <2>1
    <3>2. CASE q = Asked(c, a)
      BY <1>4, <3>1, <3>2
    <3>3. CASE q = [Asked(c, a) EXCEPT !.err = "NOT_MASTER"]
      BY <1>4, <3>1, <3>3
    <3> QED
      BY <3>1, <3>2, <3>3
  <2>5. /\ ctl'[c].pc = "idle" /\ ctl'[c].call = ctl[c].call
        /\ \A d \in Conns \ {c} : ctl'[d] = ctl[d]
    BY <2>1, ControlCall
  <2> QED
    BY <1>0, <2>2, <2>3, <2>4, <2>5, OwnStep
<1>6. ASSUME NEW c \in Conns, ReplicaSetInit(c) PROVE OInv'
  <2>1. ~NewConn.connected /\ ~NewConn.primaryConnected
    BY DEF NewConn
  <2> QED
    BY <1>6, <2>1, ControlCall, OwnStep DEF ReplicaSetInit
<1>7. ASSUME NEW c \in Conns, ReplicaSetClient(c) PROVE OInv'
  <2> DEFINE r == [conn[c] EXCEPT !.sock = 0, !.connected = FALSE]
  <2>1. ~r.connected /\ r.primaryConnected = conn[c].primaryConnected
    BY <1>0 DEF ConnRecord
  <2>2. ~conn[c].primaryConnected
    BY <1>7 DEF ReplicaSetClient, Documented, OInv
  <2>3. SetsConn(c, r) /\ UNCHANGED fd /\ c \in ReplConns
        /\ Enters(c, "replicaSetClient", "seed")
    BY <1>7 DEF ReplicaSetClient
  <2> HIDE DEF r
  <2> QED
    BY <2>1, <2>2, <2>3, ControlCall, OwnStep
<1>8. ASSUME NEW c \in Conns, TrySeed(c) PROVE OInv'
  <2>1. CASE UNCHANGED <<conn, fd>> /\ Goto(c, "host", 1)
    <3>1. SetsConn(c, conn[c]) /\ UNCHANGED fd
      BY <2>1, <1>0 DEF SetsConn
    <3>2. ctl[c].pc = "seed" /\ c \in ReplConns /\ ~conn[c].primaryConnected
          /\ ctl[c].call # "init"
      BY <1>8 DEF TrySeed, OInv
    <3> QED
      BY <1>0, <2>1, <3>1, <3>2, ControlCall, OwnStep
  <2> QED
    BY <1>8, <1>1, <1>2, <2>1 DEF TrySeed
<1>9. ASSUME NEW c \in Conns, CheckSeed(c) PROVE OInv'
  <2>1. PICK a \in Answers :
          /\ fd' = Close(fd, conn[c].sock)
          /\ \E k : SetsConn(c, [Unlinked(conn[c], ErrorOf(a)) EXCEPT !.hosts = k])
          /\ \E p \in {"host", "seed"} : \E n : Goto(c, p, n)
    BY <1>9 DEF CheckSeed
  <2>2. PICK k : SetsConn(c, [Unlinked(conn[c], ErrorOf(a)) EXCEPT !.hosts = k])
    BY <2>1
  <2> DEFINE r == [Unlinked(conn[c], ErrorOf(a)) EXCEPT !.hosts = k]
  <2>3. ~r.connected /\ r.primaryConnected = conn[c].primaryConnected
    BY <1>0 DEF Unlinked, ConnRecord
  <2>4. c \in ReplConns /\ ~conn[c].primaryConnected /\ ctl[c].call # "init"
    BY <1>9 DEF CheckSeed, OInv
  <2> HIDE DEF r
  <2>5. SetsConn(c, r)
    BY <2>2 DEF r
  <2>6. \A f \in Fds : fd[f].owner \notin {NoConn, c} => fd'[f].owner = fd[f].owner
    <3>1. c \in ReplConns
      BY <2>4
    <3>2. \A f \in Fds : fd[f].owner \notin {NoConn, c}
                         => Close(fd, conn[c].sock)[f].owner = fd[f].owner
      BY <3>1, CloseOwn
    <3> QED
      BY <2>1, <3>2
  <2>7. /\ ctl'[c].pc \in {"host", "seed"} /\ ctl'[c].call = ctl[c].call
        /\ \A d \in Conns \ {c} : ctl'[d] = ctl[d]
    BY <2>1, ControlCall
  <2> QED
    BY <2>3, <2>4, <2>5, <2>6, <2>7, OwnStep
<1>10. ASSUME NEW c \in Conns, TryHost(c) PROVE OInv'
  BY <1>10, <1>1, <1>2 DEF TryHost
<1>11. ASSUME NEW c \in Conns, CheckHost(c) PROVE OInv'
  <2>1. /\ c \in ReplConns /\ ~conn[c].primaryConnected /\ ctl[c].call # "init"
        /\ ctl[c].pc = "checkHost"
    BY <1>11 DEF CheckHost, OInv
  <2>2. PICK a \in Answers :
          \/ /\ SetsConn(c, [Asked(c, a) EXCEPT !.err = "BAD_SET_NAME"])
             /\ Return(c, "ERROR", NoHost) /\ UNCHANGED fd
          \/ TakesPrimary(c, a, Peer(c)) /\ UNCHANGED fd
          \/ /\ fd' = Close(fd, conn[c].sock) /\ SetsConn(c, Asked(c, a))
             /\ Goto(c, "closeHost", ctl[c].node)
    BY <1>11, <2>1 DEF CheckHost
  <2>3. CASE /\ SetsConn(c, [Asked(c, a) EXCEPT !.err = "BAD_SET_NAME"])
             /\ Return(c, "ERROR", NoHost) /\ UNCHANGED fd
    <3>1. PICK r : /\ SetsConn(c, r) /\ r.sock = conn[c].sock
                   /\ r.primaryConnected = conn[c].primaryConnected
                   /\ r.connected => conn[c].connected
      BY <1>4, <2>3
    <3>2. /\ ctl'[c].pc = "idle" /\ ctl'[c].call = ctl[c].call
          /\ \A d \in Conns \ {c} : ctl'[d] = ctl[d]
      BY <2>3, ControlCall
    <3> QED
      BY <1>0, <2>1, <2>3, <3>1, <3>2, OwnStep
  <2>4. CASE TakesPrimary(c, a, Peer(c)) /\ UNCHANGED fd
    <3> DEFINE r == [Asked(c, a) EXCEPT !.primaryConnected = TRUE,
                                        !.primary = conn[c].hosts[ctl[c].node]]
    <3>1. r.sock = Asked(c, a).sock /\ r.connected = Asked(c, a).connected
      BY <1>0 DEF Asked, ConnRecord
    <3>2. SetsConn(c, r) /\ Return(c, "OK", Peer(c))
      BY <2>4 DEF TakesPrimary
    <3> HIDE DEF r
    <3>3. /\ ctl'[c].pc = "idle" /\ ctl'[c].call = ctl[c].call
          /\ \A d \in Conns \ {c} : ctl'[d] = ctl[d]
      BY <3>2, ControlCall
    <3> QED
      BY <1>0, <1>4, <2>1, <2>4, <3>1, <3>2, <3>3, OwnStep
  <2>5. CASE /\ fd' = Close(fd, conn[c].sock) /\ SetsConn(c, Asked(c, a))
             /\ Goto(c, "closeHost", ctl[c].node)
    <3>1. \A f \in Fds : fd[f].owner \notin {NoConn, c} => fd'[f].owner = fd[f].owner
      BY <2>1, <2>5, CloseOwn
    <3>2. /\ ctl'[c].pc = "closeHost" /\ ctl'[c].call = ctl[c].call
          /\ \A d \in Conns \ {c} : ctl'[d] = ctl[d]
      BY <2>5, ControlCall
    <3> QED
      BY <1>4, <2>1, <2>5, <3>1, <3>2, OwnStep
  <2> QED
    BY <2>2, <2>3, <2>4, <2>5
<1>12. ASSUME NEW c \in Conns, CloseHost(c) PROVE OInv'
  <2> DEFINE r == [conn[c] EXCEPT !.sock = 0, !.connected = FALSE]
  <2>1. ~r.connected /\ r.primaryConnected = conn[c].primaryConnected
    BY <1>0 DEF ConnRecord
  <2>2. c \in ReplConns /\ ~conn[c].primaryConnected /\ ctl[c].call # "init"
    BY <1>12 DEF CloseHost, OInv
  <2>3. SetsConn(c, r) /\ fd' = Close(fd, conn[c].sock)
        /\ Goto(c, "host", ctl[c].node + 1)
    BY <1>12 DEF CloseHost
  <2>4. \A f \in Fds : fd[f].owner \notin {NoConn, c} => fd'[f].owner = fd[f].owner
    <3>1. c \in ReplConns
      BY <2>2
    <3>2. \A f \in Fds : fd[f].owner \notin {NoConn, c}
                         => Close(fd, conn[c].sock)[f].owner = fd[f].owner
      BY <3>1, CloseOwn
    <3> QED
      BY <2>3, <3>2
  <2>5. /\ ctl'[c].pc = "host" /\ ctl'[c].call = ctl[c].call
        /\ \A d \in Conns \ {c} : ctl'[d] = ctl[d]
    BY <2>3, ControlCall
  <2> HIDE DEF r
  <2> QED
    BY <2>1, <2>2, <2>3, <2>4, <2>5, OwnStep
\* mongo_disconnect closes the connection's own descriptor, or none.
<1>13. ASSUME NEW c \in Conns, ctl[c].pc = "idle"
       PROVE  /\ ~Disconnected(c).connected
              /\ Disconnected(c).primaryConnected => conn[c].primaryConnected
              /\ \A f \in Fds : fd[f].owner \notin {NoConn, c}
                                  => FdsDisconnected(c)[f].owner = fd[f].owner
  <2>1. CASE conn[c].connected
    <3>1. ~Disconnected(c).connected /\ ~Disconnected(c).primaryConnected
      BY <2>1, <1>0 DEF Disconnected, ConnRecord
    <3> QED
      BY <2>1, <1>13, <3>1, CloseOwn DEF FdsDisconnected
  <2>2. CASE ~conn[c].connected
    BY <2>2 DEF Disconnected, FdsDisconnected
  <2> QED
    BY <2>1, <2>2
<1>14. ASSUME NEW c \in Conns, Disconnect(c) PROVE OInv'
  <2>1. SetsConn(c, Disconnected(c)) /\ fd' = FdsDisconnected(c)
        /\ Returns(c, "disconnect", "none") /\ ctl[c].pc = "idle"
    BY <1>14 DEF Disconnect
  <2>2. /\ ctl'[c].pc = "idle" /\ ctl'[c].call = "disconnect"
        /\ \A d \in Conns \ {c} : ctl'[d] = ctl[d]
    BY <2>1, ControlCall
  <2> QED
    BY <1>13, <2>1, <2>2, OwnStep
<1>15. ASSUME NEW c \in Conns, ReconnectSet(c) PROVE OInv'
  <2> DEFINE r == [Disconnected(c) EXCEPT !.primaryConnected = FALSE, !.hosts = <<>>,
                                          !.sock = 0, !.connected = FALSE]
  <2>1. SetsConn(c, r) /\ fd' = FdsDisconnected(c) /\ c \in ReplConns
        /\ Enters(c, "reconnect", "seed") /\ ctl[c].pc = "idle"
    BY <1>15 DEF ReconnectSet
  <2>2. ~r.connected /\ ~r.primaryConnected
    BY <1>0 DEF Disconnected, ConnRecord
  <2>3. /\ ctl'[c].pc = "seed" /\ ctl'[c].call = "reconnect"
        /\ \A d \in Conns \ {c} : ctl'[d] = ctl[d]
    BY <2>1, ControlCall
  <2> HIDE DEF r
  <2> QED
    BY <1>13, <2>1, <2>2, <2>3, OwnStep
<1>16. ASSUME NEW c \in Conns, ReconnectSingle(c) PROVE OInv'
  <2>1. SetsConn(c, Disconnected(c)) /\ fd' = FdsDisconnected(c)
        /\ Enters(c, "reconnect", "dial") /\ ctl[c].pc = "idle"
    BY <1>16 DEF ReconnectSingle
  <2>2. /\ ctl'[c].pc = "dial" /\ ctl'[c].call = "reconnect"
        /\ \A d \in Conns \ {c} : ctl'[d] = ctl[d]
    BY <2>1, ControlCall
  <2> QED
    BY <1>13, <2>1, <2>2, OwnStep
<1>17. ASSUME NEW c \in Conns, Dial(c) PROVE OInv'
  <2>0. ctl[c].call = "init" => ~conn[c].primaryConnected
    BY DEF OInv
  <2>1. ASSUME NEW f \in Fds, Opens(c, conn[c].primary, f),
               SetsConn(c, Linked(conn[c], f)), Return(c, "OK", NoHost)
        PROVE  OInv'
    <3>1. Linked(conn[c], f).sock = f
          /\ Linked(conn[c], f).primaryConnected = conn[c].primaryConnected
      BY <1>0 DEF Linked, ConnRecord
    <3>2. /\ ctl'[c].pc = "idle" /\ ctl'[c].call = ctl[c].call
          /\ \A d \in Conns \ {c} : ctl'[d] = ctl[d]
      BY <2>1, ControlCall
    <3> QED
      BY <2>0, <2>1, <3>1, <3>2, OpenOwn, OwnStep
  <2>2. ASSUME NEW e \in Errors, UNCHANGED fd, SetsConn(c, Unlinked(conn[c], e)),
               Return(c, "ERROR", NoHost)
        PROVE  OInv'
    <3>1. ~Unlinked(conn[c], e).connected
          /\ Unlinked(conn[c], e).primaryConnected = conn[c].primaryConnected
      BY <1>0 DEF Unlinked, ConnRecord
    <3>2. /\ ctl'[c].pc = "idle" /\ ctl'[c].call = ctl[c].call
          /\ \A d \in Conns \ {c} : ctl'[d] = ctl[d]
      BY <2>2, ControlCall
    <3> QED
      BY <2>0, <2>2, <3>1, <3>2, OwnStep
  <2> QED
    BY <1>17, <2>1, <2>2 DEF Dial
<1>18. ASSUME NEW c \in Conns, Operation(c) PROVE OInv'
  <2>1. PICK a \in Answers : SetsConn(c, Asked(c, a))
                             /\ \E r : Returns(c, "operation", r)
    BY <1>18 DEF Operation
  <2>2. UNCHANGED fd /\ ctl[c].pc = "idle"
    BY <1>18 DEF Operation
  <2>3. /\ ctl'[c].pc = "idle" /\ ctl'[c].call = "operation"
        /\ \A d \in Conns \ {c} : ctl'[d] = ctl[d]
    BY <2>1, ControlCall
  <2> QED
    BY <1>0, <1>4, <2>1, <2>2, <2>3, OwnStep
<1>19. ASSUME NEW c \in Conns, CheckConnection(c) PROVE OInv'
  <2>1. UNCHANGED fd /\ ctl[c].pc = "idle"
    BY <1>19 DEF CheckConnection
  <2>2. \E r : Returns(c, "checkConnection", r)
    BY <1>19 DEF CheckConnection
  <2>3. /\ ctl'[c].pc = "idle" /\ ctl'[c].call = "checkConnection"
        /\ \A d \in Conns \ {c} : ctl'[d] = ctl[d]
    BY <2>2, ControlCall
  <2>4. CASE UNCHANGED conn
    <3>1. SetsConn(c, conn[c])
      BY <2>4, <1>0 DEF SetsConn
    <3> QED
      BY <1>0, <2>1, <2>3, <3>1, OwnStep
  <2>5. CASE \E a \in Answers : SetsConn(c, Asked(c, a))
    <3>1. PICK a \in Answers : SetsConn(c, Asked(c, a))
      BY <2>5
    <3> QED
      BY <1>0, <1>4, <2>1, <2>3, <3>1, OwnStep
  <2> QED
    BY <1>19, <2>4, <2>5 DEF CheckConnection
<1>20. ASSUME NEW c \in Conns, NEW on \in BOOLEAN, SetOpTimeout(c, on) PROVE OInv'
  <2>1. PICK e : SetsConn(c, [conn[c] EXCEPT !.opTimeout = on, !.err = e])
    BY <1>20 DEF SetOpTimeout
  <2> DEFINE r == [conn[c] EXCEPT !.opTimeout = on, !.err = e]
  <2>2. r.sock = conn[c].sock /\ r.connected = conn[c].connected
    BY <1>0 DEF ConnRecord
  <2>3. ctl[c].pc = "idle" /\ Returns(c, "setOpTimeout", "OK")
    BY <1>20 DEF SetOpTimeout
  <2>4. \A f \in Fds : fd'[f].owner = fd[f].owner
    <3>1. CASE fd' = fd
      BY <3>1
    <3>2. CASE fd' = [fd EXCEPT ![conn[c].sock].timed = on]
      BY <3>2, <1>0 DEF FdRecord
    <3> QED
      BY <1>20, <3>1, <3>2 DEF SetOpTimeout
  <2>5. /\ ctl'[c].pc = "idle" /\ ctl'[c].call = "setOpTimeout"
        /\ \A d \in Conns \ {c} : ctl'[d] = ctl[d]
    BY <2>3, ControlCall
  <2>6. SetsConn(c, r)
    BY <2>1
  <2> HIDE DEF r
  <2> QED
    BY <1>0, <2>2, <2>3, <2>4, <2>5, <2>6, OwnStep
<1>21. ASSUME NEW c \in Conns, Destroy(c) PROVE OInv'
  <2> DEFINE r == [Disconnected(c) EXCEPT !.hosts = <<>>, !.primary = NoHost,
                                          !.err = "SUCCESS"]
  <2>1. SetsConn(c, r) /\ fd' = FdsDisconnected(c)
        /\ Enters(c, "destroy", "destroyed") /\ ctl[c].pc = "idle"
    BY <1>21 DEF Destroy
  <2>2. r.connected = Disconnected(c).connected
    BY <1>0 DEF Disconnected, ConnRecord
  <2>3. /\ ctl'[c].pc = "destroyed" /\ ctl'[c].call = "destroy"
        /\ \A d \in Conns \ {c} : ctl'[d] = ctl[d]
    BY <2>1, ControlCall
  <2> HIDE DEF r
  <2> QED
    BY <1>13, <2>1, <2>2, <2>3, OwnStep
<1>22. ASSUME Environment PROVE OInv'
  <2>1. UNCHANGED conn /\ Disturbs
    BY <1>22 DEF Environment, ServerFails, ServerRestarts, ServerElected,
       ServerStepsDown, LinkDrops, World
  <2>2. \A c \in Conns : ctl'[c].pc = ctl[c].pc /\ ctl'[c].call = ctl[c].call
    BY <2>1 DEF Disturbs, TInv, TypeOK, CtlRecord
  <2>3. \A f \in Fds : fd'[f].owner = fd[f].owner
    BY <1>0, <1>22 DEF Environment, ServerFails, ServerRestarts, ServerElected,
       ServerStepsDown, LinkDrops, FdRecord
  <2> QED
    BY <2>1, <2>2, <2>3 DEF OInv, OwnDescriptor, Owns, Open
<1>23. CASE UNCHANGED vars
  BY <1>23 DEF vars, OInv, OwnDescriptor, Owns, Open
<1> QED
  BY <1>3, <1>5, <1>6, <1>7, <1>8, <1>9, <1>10, <1>11, <1>12, <1>14, <1>15, <1>16,
     <1>17, <1>18, <1>19, <1>20, <1>21, <1>22, <1>23 DEF Next, Call, Continue

\* Used as the manual says, a connection that says it is connected sits on a
\* descriptor of its own that is still open: no close() in the driver reaches
\* another connection's socket, and no success is reported on a closed one.
THEOREM DescriptorKept ==
  ASSUME Documented PROVE Spec => []OwnDescriptor
<1>1. OInv => OwnDescriptor
  BY DEF OInv
<1>2. TInv /\ OInv /\ [Next]_vars => OInv'
  BY NextOInv
<1> QED
  BY InitTInv, NextTInv, InitOInv, <1>1, <1>2, PTL DEF Spec

-----------------------------------------------------------------------------
(***************************************************************************)
(* What a call that connects leaves                                        *)
(***************************************************************************)

Connecting == {"replicaSetClient", "reconnect"}

Asking == Connecting \cup {"client", "operation"}

\* Where a thread of a connection with the fields r, the control k and the
\* descriptors t stands in a call.
Standing(c, r, k, t) ==
  /\ k.pc = "new" => r = NewConn
  /\ k.pc \in {"checkMaster", "dial"} => c \notin ReplConns /\ k.call # "checkConnection"
  /\ k.pc \in Walk => k.call \in Connecting
  /\ k.pc = "checkMaster" => k.call = "client"
  /\ k.pc \in {"new", "seed", "host", "dial"} => ~r.connected
  /\ k.pc \in {"seed", "host"} => r.sock = 0
  /\ k.pc \in {"checkSeed", "checkHost"} => r.connected
  /\ k.pc = "checkHost" => t[r.sock].peer = r.hosts[k.node]
  /\ k.pc = "closeHost" /\ r.sock \in Fds => t[r.sock].owner = NoConn
  /\ k.pc # "closeHost" /\ ~r.connected /\ r.sock \in Fds => t[r.sock].owner = c

\* Its descriptors: one that works is in use, and has the timeout of the object.
Keeping(c, r, k, t) ==
  /\ \A f \in Fds : t[f].owner = c /\ t[f].live => r.sock = f /\ r.connected
  /\ r.connected /\ k.pc # "closeHost" /\ UnixHosts = {} => t[r.sock].timed = r.opTimeout

\* What the call that returned last has left.
Leaving(c, r, k, t) ==
  k.pc = "idle" =>
    /\ c \in ReplConns /\ k.call \in Connecting /\ k.res = "OK" =>
         /\ r.connected /\ r.primaryConnected /\ r.err = "SUCCESS"
         /\ t[r.sock].peer = r.primary /\ k.sawMaster = r.primary
    /\ c \in ReplConns /\ k.call \in Connecting /\ r.err = "NO_PRIMARY" =>
         ~r.connected /\ r.sock = 0
    /\ (/\ UnixHosts = {} /\ k.call \in Asking /\ k.res = "ERROR"
        /\ k.call \in Connecting \/ ~r.connected) => r.err # "SUCCESS"

Good(c, r, k, t) == Standing(c, r, k, t) /\ Keeping(c, r, k, t) /\ Leaving(c, r, k, t)

FInv == \A c \in Conns : Good(c, conn[c], ctl[c], fd)

\* A thread changes free descriptors and its own.
Touches(c) ==
  \A f \in Fds : fd'[f] # fd[f] => {fd[f].owner, fd'[f].owner} \subseteq {NoConn, c}

LEMMA InitFInv == Init => FInv
<1> SUFFICES ASSUME Init, NEW c \in Conns PROVE Good(c, conn[c], ctl[c], fd)
  BY DEF FInv
<1>1. conn[c] = NewConn /\ ctl[c] = NewCtl /\ \A f \in Fds : fd[f] = FreeFd
  BY DEF Init
<1> QED
  BY <1>1, FdsAssumption
  DEF Good, Standing, Keeping, Leaving, NewConn, NewCtl, FreeFd, Walk

\* What a thread has to respect so that the others stay as they are.
LEMMA FoundStep ==
  ASSUME NEW c \in Conns, Documented, TInv, OInv, FInv, NEW r, SetsConn(c, r),
         \A d \in Conns \ {c} : ctl'[d] = ctl[d], Touches(c),
         Good(c, r, ctl'[c], fd')
  PROVE  FInv'
<1>1. conn'[c] = r /\ \A d \in Conns \ {c} : conn'[d] = conn[d] /\ ctl'[d] = ctl[d]
  BY DEF SetsConn, TInv, TypeOK
<1>2. ASSUME NEW d \in Conns, d # c PROVE Good(d, conn[d], ctl[d], fd')
  <2>1. d \notin ReplConns /\ d # NoConn /\ Good(d, conn[d], ctl[d], fd)
    BY <1>2, ConnsAssumption DEF Documented, FInv
  <2>2. ctl[d].pc \notin Walk
    BY <2>1 DEF OInv
  <2>3. conn[d].connected => conn[d].sock \in Fds /\ fd'[conn[d].sock] = fd[conn[d].sock]
    <3>1. conn[d].connected => conn[d].sock \in Fds /\ fd[conn[d].sock].owner = d
      BY <2>2 DEF OInv, OwnDescriptor, Owns, Open, At, Walk
    <3> QED
      BY <1>2, <2>1, <3>1 DEF Touches
  <2>4. \A f \in Fds : d \in {fd[f].owner, fd'[f].owner} => fd'[f] = fd[f]
    BY <1>2, <2>1 DEF Touches
  <2>5. Standing(d, conn[d], ctl[d], fd')
    BY <2>1, <2>2, <2>4 DEF Good, Standing, Walk
  <2>6. Keeping(d, conn[d], ctl[d], fd')
    BY <2>1, <2>3, <2>4 DEF Good, Keeping
  <2>7. Leaving(d, conn[d], ctl[d], fd')
    BY <2>1 DEF Good, Leaving
  <2> QED
    BY <2>5, <2>6, <2>7 DEF Good
<1> QED
  BY <1>1, <1>2 DEF FInv

\* What a step of a thread does to its control.
LEMMA ControlFields ==
  ASSUME NEW c \in Conns, TInv
  PROVE  /\ \A p, n : Goto(c, p, n) =>
              /\ ctl'[c].pc = p /\ ctl'[c].node = n /\ ctl'[c].call = ctl[c].call
              /\ ctl'[c].res = "none" /\ (ctl'[c].calm => Settled(c))
              /\ \A d \in Conns \ {c} : ctl'[d] = ctl[d]
         /\ \A r, m : Return(c, r, m) =>
              /\ ctl'[c].pc = "idle" /\ ctl'[c].call = ctl[c].call
              /\ ctl'[c].res = r /\ ctl'[c].sawMaster = m /\ (ctl'[c].calm => Settled(c))
              /\ \A d \in Conns \ {c} : ctl'[d] = ctl[d]
         /\ \A name, r : Returns(c, name, r) =>
              /\ ctl'[c].pc = "idle" /\ ctl'[c].call = name /\ ctl'[c].res = r
              /\ \A d \in Conns \ {c} : ctl'[d] = ctl[d]
         /\ \A name, p : Enters(c, name, p) =>
              /\ ctl'[c].pc = p /\ ctl'[c].call = name /\ ctl'[c].node = 1
              /\ \A d \in Conns \ {c} : ctl'[d] = ctl[d]
  BY DEF Goto, Return, Returns, Enters, TInv, TypeOK

\* A request changes no more than err and connected, which falls with the link.
LEMMA AskedFields ==
  ASSUME NEW c \in Conns, TInv, NEW a \in Answers, Answer(c, a)
  PROVE  /\ Asked(c, a).sock = conn[c].sock /\ Asked(c, a).hosts = conn[c].hosts
         /\ Asked(c, a).primaryConnected = conn[c].primaryConnected
         /\ Asked(c, a).primary = conn[c].primary
         /\ Asked(c, a).opTimeout = conn[c].opTimeout
         /\ Asked(c, a).connected => conn[c].connected
         /\ conn[c].connected /\ ~Asked(c, a).connected => ~fd[conn[c].sock].live
         /\ a = "ok" => /\ Asked(c, a).connected = conn[c].connected
                        /\ Asked(c, a).err = "SUCCESS"
         /\ a \notin {"ok", "noDocument"} => Asked(c, a).err # "SUCCESS"
         /\ a = "noDocument" => /\ Asked(c, a).connected = conn[c].connected
                                /\ conn[c].sock \in Fds /\ fd[conn[c].sock].live
<1>1. conn[c] \in ConnRecord
  BY DEF TInv, TypeOK
<1>2. StillConnected(c, a) => conn[c].connected
  BY DEF StillConnected
<1>3. conn[c].connected /\ ~StillConnected(c, a) => ~fd[conn[c].sock].live
  BY DEF StillConnected, Answer, Live, Open
<1>4. a # "epipe" => StillConnected(c, a) = conn[c].connected
  BY <1>1 DEF StillConnected, ConnRecord
<1>5. ErrorOf(a) = IF a \in {"ok", "noDocument"} THEN "SUCCESS" ELSE
                   IF a = "refused" THEN "COMMAND_FAILED" ELSE "IO_ERROR"
  BY DEF ErrorOf
<1>6. a = "noDocument" => conn[c].sock \in Fds /\ fd[conn[c].sock].live
  BY DEF Answer, Live, Open
<1> QED
  BY <1>1, <1>2, <1>3, <1>4, <1>5, <1>6 DEF Asked, ConnRecord

\* Without a connection there is nothing to keep.
LEMMA NothingKept ==
  ASSUME NEW c \in Conns, TInv, NEW r, NEW k, ~r.connected,
         \A f \in Fds : fd'[f].owner = c => ~fd'[f].live
  PROVE  Keeping(c, r, k, fd')
  BY DEF Keeping

LEMMA CloseFields ==
  ASSUME NEW c \in Conns, TInv, NEW s
  PROVE  \A f \in Fds : Close(fd, s)[f] = IF f = s THEN FreeFd ELSE fd[f]
  BY DEF Close

LEMMA OpenFields ==
  ASSUME NEW c \in Conns, NEW h, NEW f \in Fds, TInv, Opens(c, h, f)
  PROVE  /\ fd[f].owner = NoConn /\ h \in up
         /\ fd'[f].owner = c /\ fd'[f].peer = h /\ fd'[f].live
         /\ UnixHosts = {} => fd'[f].timed = conn[c].opTimeout
         /\ \A g \in Fds \ {f} : fd'[g] = fd[g]
<1>1. conn[c].opTimeout \in BOOLEAN
  BY DEF TInv, TypeOK, ConnRecord
<1>2. fd \in [Fds -> FdRecord]
  BY DEF TInv, TypeOK
<1> DEFINE x == conn[c].opTimeout /\ h \notin UnixHosts
<1>3. x \in BOOLEAN /\ (UnixHosts = {} => x = conn[c].opTimeout)
  BY <1>1
<1>4. fd' = [fd EXCEPT ![f] = [owner |-> c, peer |-> h, live |-> TRUE, timed |-> x]]
  BY DEF Opens
<1> HIDE DEF x
<1>5. fd'[f] = [owner |-> c, peer |-> h, live |-> TRUE, timed |-> x]
  BY <1>2, <1>4
<1> QED
  BY <1>2, <1>3, <1>4, <1>5 DEF Opens, Free

\* A successful connect of an object that was not connected.
LEMMA OpenKept ==
  ASSUME NEW c \in Conns, NEW h, NEW f \in Fds, TInv, Opens(c, h, f), NEW r, NEW k,
         Keeping(c, conn[c], ctl[c], fd), ~conn[c].connected,
         r.sock = f, r.connected, r.opTimeout = conn[c].opTimeout
  PROVE  Keeping(c, r, k, fd') /\ Touches(c)
<1>1. /\ fd[f].owner = NoConn /\ fd'[f].owner = c
      /\ UnixHosts = {} => fd'[f].timed = conn[c].opTimeout
      /\ \A g \in Fds \ {f} : fd'[g] = fd[g]
  BY OpenFields
<1> QED
  BY <1>1 DEF Touches, Keeping

\* close() on the socket of a connection that is connected.
LEMMA CloseKept ==
  ASSUME NEW c \in Conns, TInv, OInv, Documented,
         c \in ReplConns \/ (conn[c].connected /\ ctl[c].pc # "closeHost"),
         Keeping(c, conn[c], ctl[c], fd), fd' = Close(fd, conn[c].sock)
  PROVE  Touches(c) /\ \A f \in Fds : fd'[f].owner = c => ~fd'[f].live
<1>1. c # NoConn /\ \A f \in Fds : fd[f].owner \in Conns \cup {NoConn}
  BY ConnsAssumption DEF TInv, TypeOK, FdRecord
<1>2. \A f \in Fds : fd[f].owner \notin {NoConn, c} => fd'[f].owner = fd[f].owner
  BY CloseOwn
<1>3. \A f \in Fds : fd'[f] = IF f = conn[c].sock THEN FreeFd ELSE fd[f]
  BY CloseFields
<1>4. FreeFd.owner = NoConn /\ ~FreeFd.live
  BY DEF FreeFd
<1>5. Touches(c)
  BY <1>1, <1>2, <1>3, <1>4 DEF Touches
<1> QED
  BY <1>3, <1>4, <1>5 DEF Keeping

LEMMA NextFInv == Documented /\ TInv /\ OInv /\ FInv /\ [Next]_vars => FInv'
<1> SUFFICES ASSUME Documented, TInv, OInv, FInv, [Next]_vars PROVE FInv'
  OBVIOUS
<1> USE DEF Walk, At, Connecting, Asking
<1>0. /\ conn \in [Conns -> ConnRecord]
      /\ \A c \in Conns : /\ Standing(c, conn[c], ctl[c], fd)
                           /\ Keeping(c, conn[c], ctl[c], fd)
                           /\ Leaving(c, conn[c], ctl[c], fd)
      /\ \A c \in Conns : conn[c].connected /\ ctl[c].pc # "closeHost"
                            => conn[c].sock \in Fds /\ fd[conn[c].sock].owner = c
  BY DEF TInv, TypeOK, OInv, OwnDescriptor, Owns, Open, FInv, Good
<1>z. 0 \notin Fds
  BY FdsAssumption
<1>k. ASSUME NEW c \in Conns, UNCHANGED fd
      PROVE  Touches(c) /\ (~conn[c].connected => \A f \in Fds : fd'[f].owner = c => ~fd'[f].live)
  BY <1>0, <1>k DEF Touches, Keeping
\* A node of a list is tried.
<1>1. ASSUME NEW c \in Conns, NEW h, NEW p \in {"checkSeed", "checkHost"},
             TryNode(c, h, p), ctl[c].pc \in {"seed", "host"},
             p = "checkHost" => h = conn[c].hosts[ctl[c].node]
      PROVE  FInv'
  <2>1. ~conn[c].connected /\ ctl[c].call \in Connecting
    BY <1>0, <1>1 DEF Standing
  <2>2. ASSUME NEW f \in Fds, Opens(c, h, f), SetsConn(c, Linked(conn[c], f)),
               Goto(c, p, ctl[c].node)
        PROVE  FInv'
    <3> DEFINE r == Linked(conn[c], f)
    <3>1. r.sock = f /\ r.connected /\ r.hosts = conn[c].hosts
          /\ r.opTimeout = conn[c].opTimeout
      BY <1>0 DEF Linked, ConnRecord
    <3> HIDE DEF r
    <3>2. /\ ctl'[c].pc = p /\ ctl'[c].node = ctl[c].node /\ ctl'[c].call = ctl[c].call
          /\ \A d \in Conns \ {c} : ctl'[d] = ctl[d]
      BY <2>2, ControlFields
    <3>3. Keeping(c, r, ctl'[c], fd') /\ Touches(c)
      BY <1>0, <2>1, <2>2, <3>1, OpenKept
    <3>4. Standing(c, r, ctl'[c], fd')
      BY <1>1, <2>1, <2>2, <3>1, <3>2, OpenFields DEF Standing
    <3>5. Leaving(c, r, ctl'[c], fd')
      BY <3>2 DEF Leaving
    <3> QED
      BY <2>2, <3>2, <3>3, <3>4, <3>5, FoundStep DEF Good, r
  <2>3. ASSUME NEW e \in Errors, UNCHANGED fd, SetsConn(c, Unlinked(conn[c], e)),
               Goto(c, ctl[c].pc, ctl[c].node + 1)
        PROVE  FInv'
    <3> DEFINE r == Unlinked(conn[c], e)
    <3>1. ~r.connected /\ r.sock = 0
      BY <1>0 DEF Unlinked, ConnRecord
    <3> HIDE DEF r
    <3>2. /\ ctl'[c].pc = ctl[c].pc /\ ctl'[c].call = ctl[c].call
          /\ \A d \in Conns \ {c} : ctl'[d] = ctl[d]
      BY <2>3, ControlFields
    <3>3. Keeping(c, r, ctl'[c], fd') /\ Touches(c)
      BY <1>k, <2>1, <2>3, <3>1, NothingKept
    <3>4. Standing(c, r, ctl'[c], fd') /\ Leaving(c, r, ctl'[c], fd')
      BY <1>1, <1>z, <2>1, <3>1, <3>2 DEF Standing, Leaving
    <3> QED
      BY <2>3, <3>2, <3>3, <3>4, FoundStep DEF Good, r
  <2> QED
    BY <1>1, <2>2, <2>3 DEF TryNode
<1>2. ASSUME NEW c \in Conns, NoPrimary(c), ctl[c].pc \in {"seed", "host"}
      PROVE  FInv'
  <2>1. ~conn[c].connected /\ ctl[c].call \in Connecting /\ conn[c].sock = 0
    BY <1>0, <1>2 DEF Standing
  <2> DEFINE r == [conn[c] EXCEPT !.err = "NO_PRIMARY"]
  <2>2. ~r.connected /\ r.sock = 0 /\ r.err = "NO_PRIMARY"
    BY <1>0, <2>1 DEF ConnRecord
  <2>3. SetsConn(c, r) /\ UNCHANGED fd /\ Return(c, "ERROR", NoHost)
    BY <1>2 DEF NoPrimary
  <2> HIDE DEF r
  <2>4. /\ ctl'[c].pc = "idle" /\ ctl'[c].call = ctl[c].call /\ ctl'[c].res = "ERROR"
        /\ \A d \in Conns \ {c} : ctl'[d] = ctl[d]
    BY <2>3, ControlFields
  <2>5. Keeping(c, r, ctl'[c], fd') /\ Touches(c)
    BY <1>k, <2>1, <2>2, <2>3, NothingKept
  <2>6. Standing(c, r, ctl'[c], fd') /\ Leaving(c, r, ctl'[c], fd')
    BY <1>z, <2>2, <2>4 DEF Standing, Leaving
  <2> QED
    BY <2>3, <2>4, <2>5, <2>6, FoundStep DEF Good
<1>3. ASSUME NEW c \in Conns, Client(c) PROVE FInv'
  <2> DEFINE fresh == [NewConn EXCEPT !.primary = Target[c]]
  <2>1. conn[c] = NewConn /\ ~conn[c].connected /\ ~conn[c].opTimeout
    BY <1>0, <1>3 DEF Client, Standing, NewConn
  <2>2. c \notin ReplConns
    BY <1>3 DEF Client
  <2>3. ASSUME NEW f \in Fds, Opens(c, Target[c], f), SetsConn(c, Linked(fresh, f)),
               Enters(c, "client", "checkMaster")
        PROVE  FInv'
    <3> DEFINE r == Linked(fresh, f)
    <3>1. r.sock = f /\ r.connected /\ r.opTimeout = conn[c].opTimeout
      BY <2>1 DEF Linked, NewConn
    <3> HIDE DEF r
    <3>2. /\ ctl'[c].pc = "checkMaster" /\ ctl'[c].call = "client"
          /\ \A d \in Conns \ {c} : ctl'[d] = ctl[d]
      BY <2>3, ControlFields
    <3>3. Keeping(c, r, ctl'[c], fd') /\ Touches(c)
      BY <1>0, <2>1, <2>3, <3>1, OpenKept
    <3>4. Standing(c, r, ctl'[c], fd') /\ Leaving(c, r, ctl'[c], fd')
      BY <2>2, <3>1, <3>2 DEF Standing, Leaving
    <3> QED
      BY <2>3, <3>2, <3>3, <3>4, FoundStep DEF Good, r
  <2>4. ASSUME NEW e \in Errors, FailsWith(c, Target[c], e), UNCHANGED fd,
               SetsConn(c, Unlinked(fresh, e)), Returns(c, "client", "ERROR")
        PROVE  FInv'
    <3> DEFINE r == Unlinked(fresh, e)
    <3>1. ~r.connected /\ r.sock = 0 /\ r.err = e
      BY DEF Unlinked, NewConn
    <3> HIDE DEF r
    <3>2. /\ ctl'[c].pc = "idle" /\ ctl'[c].call = "client"
          /\ \A d \in Conns \ {c} : ctl'[d] = ctl[d]
      BY <2>4, ControlFields
    <3>3. Keeping(c, r, ctl'[c], fd') /\ Touches(c)
      BY <1>k, <2>1, <2>4, <3>1, NothingKept
    <3>4. UnixHosts = {} => e # "SUCCESS"
      BY <2>4 DEF FailsWith
    <3>5. Standing(c, r, ctl'[c], fd') /\ Leaving(c, r, ctl'[c], fd')
      BY <1>z, <2>2, <3>1, <3>2, <3>4 DEF Standing, Leaving
    <3> QED
      BY <2>4, <3>2, <3>3, <3>5, FoundStep DEF Good, r
  <2> QED
    BY <1>3, <2>3, <2>4 DEF Client, fresh
\* A request whose answer is not taken leaves a reason, or the connection.
<1>d. ASSUME NEW c \in Conns, NEW a \in Answers, Answer(c, a), ctl[c].pc # "closeHost"
      PROVE  ~Asked(c, a).connected /\ a # "ok" => Asked(c, a).err # "SUCCESS"
  <2>1. a = "noDocument" => /\ Asked(c, a).connected = conn[c].connected
                            /\ conn[c].sock \in Fds /\ fd[conn[c].sock].live
    BY <1>d, AskedFields
  <2>2. a = "noDocument" => conn[c].connected
    BY <1>0, <1>d, <2>1 DEF Standing, Keeping
  <2>3. a \notin {"ok", "noDocument"} => Asked(c, a).err # "SUCCESS"
    BY <1>d, AskedFields
  <2> QED
    BY <2>1, <2>2, <2>3
\* A request is answered, refused or fails, and the call returns.
<1>4. ASSUME NEW c \in Conns, NEW a \in Answers, Answer(c, a), UNCHANGED fd, NEW r,
             ctl[c].pc # "closeHost", SetsConn(c, r),
             r.sock = conn[c].sock, r.opTimeout = conn[c].opTimeout,
             r.connected = Asked(c, a).connected,
             ctl'[c].pc = "idle", \A d \in Conns \ {c} : ctl'[d] = ctl[d],
             Leaving(c, r, ctl'[c], fd)
      PROVE  FInv'
  <2>1. /\ r.connected => conn[c].connected
        /\ conn[c].connected /\ ~r.connected => ~fd[conn[c].sock].live
    BY <1>4, AskedFields
  <2>2. Keeping(c, r, ctl'[c], fd)
    BY <1>0, <1>4, <2>1 DEF Keeping
  <2>3. Touches(c)
    BY <1>4, <1>k
  <2>4. Standing(c, r, ctl'[c], fd)
    BY <1>0, <1>4 DEF Standing
  <2>5. Good(c, r, ctl'[c], fd')
    BY <1>4, <2>2, <2>4 DEF Good
  <2> QED
    BY <1>4, <2>3, <2>5, FoundStep
<1>5. ASSUME NEW c \in Conns, CheckIsMaster(c) PROVE FInv'
  <2>1. /\ ctl[c].pc = "checkMaster" /\ ctl[c].call = "client"
        /\ c \notin ReplConns /\ UNCHANGED fd
    BY <1>0, <1>5 DEF CheckIsMaster, Standing
  <2>2. PICK a \in Answers :
          /\ Answer(c, a)
          /\ \/ a # "ok" /\ SetsConn(c, Asked(c, a)) /\ Return(c, "ERROR", NoHost)
             \/ a = "ok" /\ SetsConn(c, Asked(c, a)) /\ Return(c, "OK", Peer(c))
             \/ SetsConn(c, [Asked(c, a) EXCEPT !.err = "NOT_MASTER"])
                /\ Return(c, "ERROR", NoHost)
    BY <1>5 DEF CheckIsMaster
  <2> DEFINE bad == [Asked(c, a) EXCEPT !.err = "NOT_MASTER"]
  <2>3. Asked(c, a) \in ConnRecord
    BY <2>2, AnswerType DEF TInv
  <2>4. /\ bad.sock = Asked(c, a).sock /\ bad.opTimeout = Asked(c, a).opTimeout
        /\ bad.connected = Asked(c, a).connected /\ bad.err = "NOT_MASTER"
    BY <2>3 DEF ConnRecord
  <2> HIDE DEF bad
  <2>5. /\ ctl'[c].pc = "idle" /\ ctl'[c].call = ctl[c].call
        /\ ctl'[c].res \in {"OK", "ERROR"}
        /\ \A d \in Conns \ {c} : ctl'[d] = ctl[d]
    BY <2>2, ControlFields
  <2>6. CASE SetsConn(c, Asked(c, a)) /\ (ctl'[c].res = "ERROR" => a # "ok")
    <3>1. Leaving(c, Asked(c, a), ctl'[c], fd)
      BY <1>d, <2>1, <2>2, <2>5, <2>6 DEF Leaving
    <3> QED
      BY <1>4, <2>1, <2>2, <2>5, <2>6, <3>1, AskedFields
  <2>7. CASE SetsConn(c, bad)
    <3>1. Leaving(c, bad, ctl'[c], fd)
      BY <2>1, <2>4 DEF Leaving
    <3> QED
      BY <1>4, <2>1, <2>2, <2>4, <2>5, <2>7, <3>1, AskedFields
  <2>8. ctl'[c].res = "ERROR" => a # "ok" \/ SetsConn(c, bad)
    BY <2>2, ControlFields DEF bad
  <2> QED
    BY <2>2, <2>6, <2>7, <2>8 DEF bad
<1>6. ASSUME NEW c \in Conns, ReplicaSetInit(c) PROVE FInv'
  <2>1. conn[c] = NewConn /\ UNCHANGED fd /\ SetsConn(c, NewConn)
        /\ ~NewConn.connected /\ NewConn.sock = 0
    BY <1>0, <1>6 DEF ReplicaSetInit, Standing, NewConn
  <2>2. /\ ctl'[c].pc = "idle" /\ ctl'[c].call = "init"
        /\ \A d \in Conns \ {c} : ctl'[d] = ctl[d]
    BY <1>6, ControlFields DEF ReplicaSetInit
  <2>3. Keeping(c, NewConn, ctl'[c], fd') /\ Touches(c)
    BY <1>k, <2>1, NothingKept
  <2>4. Standing(c, NewConn, ctl'[c], fd') /\ Leaving(c, NewConn, ctl'[c], fd')
    BY <1>z, <2>1, <2>2 DEF Standing, Leaving
  <2> QED
    BY <2>1, <2>2, <2>3, <2>4, FoundStep DEF Good
<1>7. ASSUME NEW c \in Conns, ReplicaSetClient(c) PROVE FInv'
  <2> DEFINE r == [conn[c] EXCEPT !.sock = 0, !.connected = FALSE]
  <2>1. ~r.connected /\ r.sock = 0
    BY <1>0 DEF ConnRecord
  <2>2. SetsConn(c, r) /\ UNCHANGED fd /\ c \in ReplConns /\ ~conn[c].connected
        /\ Enters(c, "replicaSetClient", "seed")
    BY <1>7 DEF ReplicaSetClient
  <2> HIDE DEF r
  <2>3. /\ ctl'[c].pc = "seed" /\ ctl'[c].call = "replicaSetClient"
        /\ \A d \in Conns \ {c} : ctl'[d] = ctl[d]
    BY <2>2, ControlFields
  <2>4. Keeping(c, r, ctl'[c], fd') /\ Touches(c)
    BY <1>k, <2>1, <2>2, NothingKept
  <2>5. Standing(c, r, ctl'[c], fd') /\ Leaving(c, r, ctl'[c], fd')
    BY <1>z, <2>1, <2>3 DEF Standing, Leaving
  <2> QED
    BY <2>2, <2>3, <2>4, <2>5, FoundStep DEF Good
<1>8. ASSUME NEW c \in Conns, TrySeed(c) PROVE FInv'
  <2>1. CASE UNCHANGED <<conn, fd>> /\ Goto(c, "host", 1)
    <3>1. SetsConn(c, conn[c]) /\ UNCHANGED fd
      BY <2>1, <1>0 DEF SetsConn
    <3>2. /\ ~conn[c].connected /\ conn[c].sock = 0 /\ ctl[c].call \in Connecting
      BY <1>0, <1>8 DEF TrySeed, Standing
    <3>3. /\ ctl'[c].pc = "host" /\ ctl'[c].call = ctl[c].call
          /\ \A d \in Conns \ {c} : ctl'[d] = ctl[d]
      BY <2>1, ControlFields
    <3>4. Keeping(c, conn[c], ctl'[c], fd') /\ Touches(c)
      BY <1>k, <3>1, <3>2, NothingKept
    <3>5. Standing(c, conn[c], ctl'[c], fd') /\ Leaving(c, conn[c], ctl'[c], fd')
      BY <1>z, <3>2, <3>3 DEF Standing, Leaving
    <3> QED
      BY <3>1, <3>3, <3>4, <3>5, FoundStep DEF Good
  <2> QED
    BY <1>8, <1>1, <1>2, <2>1 DEF TrySeed
\* A connection of a walk is closed.
<1>9. ASSUME NEW c \in Conns, ctl[c].pc \in Walk, NEW r, SetsConn(c, r), ~r.connected,
             fd' = Close(fd, conn[c].sock), r.sock = 0,
             ctl'[c].pc \in {"seed", "host"}, ctl'[c].call = ctl[c].call,
             \A d \in Conns \ {c} : ctl'[d] = ctl[d]
      PROVE  FInv'
  <2>1. c \in ReplConns /\ ctl[c].call \in Connecting
    BY <1>0, <1>9 DEF OInv, Standing
  <2>2. Touches(c) /\ \A f \in Fds : fd'[f].owner = c => ~fd'[f].live
    BY <1>0, <1>9, <2>1, CloseKept
  <2>3. Keeping(c, r, ctl'[c], fd')
    BY <1>9, <2>2, NothingKept
  <2>4. Standing(c, r, ctl'[c], fd') /\ Leaving(c, r, ctl'[c], fd')
    BY <1>9, <1>z, <2>1 DEF Standing, Leaving
  <2> QED
    BY <1>9, <2>2, <2>3, <2>4, FoundStep DEF Good
<1>10. ASSUME NEW c \in Conns, CheckSeed(c) PROVE FInv'
  <2>1. PICK a \in Answers :
          /\ fd' = Close(fd, conn[c].sock)
          /\ \E k : SetsConn(c, [Unlinked(conn[c], ErrorOf(a)) EXCEPT !.hosts = k])
          /\ \E p \in {"host", "seed"} : \E n : Goto(c, p, n)
    BY <1>10 DEF CheckSeed
  <2>2. PICK k : SetsConn(c, [Unlinked(conn[c], ErrorOf(a)) EXCEPT !.hosts = k])
    BY <2>1
  <2> DEFINE r == [Unlinked(conn[c], ErrorOf(a)) EXCEPT !.hosts = k]
  <2>3. ~r.connected /\ r.sock = 0
    BY <1>0 DEF Unlinked, ConnRecord
  <2> HIDE DEF r
  <2>4. SetsConn(c, r) /\ ctl[c].pc \in Walk
    BY <1>10, <2>2 DEF r, CheckSeed
  <2>5. /\ ctl'[c].pc \in {"host", "seed"} /\ ctl'[c].call = ctl[c].call
        /\ \A d \in Conns \ {c} : ctl'[d] = ctl[d]
    BY <2>1, ControlFields
  <2> QED
    BY <1>9, <2>1, <2>3, <2>4, <2>5
<1>11. ASSUME NEW c \in Conns, TryHost(c) PROVE FInv'
  BY <1>11, <1>1, <1>2 DEF TryHost
<1>12. ASSUME NEW c \in Conns, CloseHost(c) PROVE FInv'
  <2> DEFINE r == [conn[c] EXCEPT !.sock = 0, !.connected = FALSE]
  <2>1. ~r.connected /\ r.sock = 0
    BY <1>0 DEF ConnRecord
  <2> HIDE DEF r
  <2>2. SetsConn(c, r) /\ fd' = Close(fd, conn[c].sock) /\ ctl[c].pc \in Walk
        /\ Goto(c, "host", ctl[c].node + 1)
    BY <1>12 DEF CloseHost, r
  <2>3. /\ ctl'[c].pc = "host" /\ ctl'[c].call = ctl[c].call
        /\ \A d \in Conns \ {c} : ctl'[d] = ctl[d]
    BY <2>2, ControlFields
  <2> QED
    BY <1>9, <2>1, <2>2, <2>3
<1>13. ASSUME NEW c \in Conns, CheckHost(c) PROVE FInv'
  <2>1. /\ c \in ReplConns /\ ~conn[c].primaryConnected /\ ctl[c].pc = "checkHost"
        /\ ctl[c].call \in Connecting /\ conn[c].connected /\ conn[c].sock \in Fds
        /\ fd[conn[c].sock].peer = conn[c].hosts[ctl[c].node]
    BY <1>0, <1>13 DEF CheckHost, OInv, Standing
  <2>2. PICK a \in Answers :
          /\ Answer(c, a)
          /\ \/ /\ SetsConn(c, [Asked(c, a) EXCEPT !.err = "BAD_SET_NAME"])
                /\ Return(c, "ERROR", NoHost) /\ UNCHANGED fd
             \/ a = "ok" /\ TakesPrimary(c, a, Peer(c)) /\ UNCHANGED fd
             \/ /\ fd' = Close(fd, conn[c].sock) /\ SetsConn(c, Asked(c, a))
                /\ Goto(c, "closeHost", ctl[c].node)
    BY <1>13, <2>1 DEF CheckHost
  <2>3. Asked(c, a) \in ConnRecord
    BY <2>2, AnswerType DEF TInv
  <2>4. CASE /\ SetsConn(c, [Asked(c, a) EXCEPT !.err = "BAD_SET_NAME"])
             /\ Return(c, "ERROR", NoHost) /\ UNCHANGED fd
    <3> DEFINE r == [Asked(c, a) EXCEPT !.err = "BAD_SET_NAME"]
    <3>1. /\ r.sock = Asked(c, a).sock /\ r.opTimeout = Asked(c, a).opTimeout
          /\ r.connected = Asked(c, a).connected /\ r.err = "BAD_SET_NAME"
      BY <2>3 DEF ConnRecord
    <3>2. SetsConn(c, r)
      BY <2>4
    <3> HIDE DEF r
    <3>3. /\ ctl'[c].pc = "idle" /\ ctl'[c].res = "ERROR"
          /\ \A d \in Conns \ {c} : ctl'[d] = ctl[d]
      BY <2>4, ControlFields
    <3>4. Leaving(c, r, ctl'[c], fd)
      BY <3>1, <3>3 DEF Leaving
    <3> QED
      BY <1>4, <2>1, <2>2, <2>4, <3>1, <3>2, <3>3, <3>4, AskedFields
  <2>5. CASE a = "ok" /\ TakesPrimary(c, a, Peer(c)) /\ UNCHANGED fd
    <3> DEFINE r == [Asked(c, a) EXCEPT !.primaryConnected = TRUE,
                                        !.primary = conn[c].hosts[ctl[c].node]]
    <3>1. /\ r.sock = Asked(c, a).sock /\ r.opTimeout = Asked(c, a).opTimeout
          /\ r.connected = Asked(c, a).connected /\ r.err = Asked(c, a).err
          /\ r.primaryConnected /\ r.primary = conn[c].hosts[ctl[c].node]
      BY <2>3 DEF ConnRecord
    <3>2. SetsConn(c, r) /\ Return(c, "OK", Peer(c))
      BY <2>5 DEF TakesPrimary
    <3> HIDE DEF r
    <3>3. /\ ctl'[c].pc = "idle" /\ ctl'[c].res = "OK" /\ ctl'[c].sawMaster = Peer(c)
          /\ \A d \in Conns \ {c} : ctl'[d] = ctl[d]
      BY <3>2, ControlFields
    <3>4. r.connected /\ r.sock = conn[c].sock /\ r.err = "SUCCESS"
      BY <2>1, <2>2, <2>5, <3>1, AskedFields
    <3>5. Leaving(c, r, ctl'[c], fd)
      BY <2>1, <3>1, <3>3, <3>4 DEF Leaving, Peer
    <3> QED
      BY <1>4, <2>1, <2>2, <2>5, <3>1, <3>2, <3>3, <3>5, AskedFields
  <2>6. CASE /\ fd' = Close(fd, conn[c].sock) /\ SetsConn(c, Asked(c, a))
             /\ Goto(c, "closeHost", ctl[c].node)
    <3>1. /\ ctl'[c].pc = "closeHost" /\ ctl'[c].call = ctl[c].call
          /\ \A d \in Conns \ {c} : ctl'[d] = ctl[d]
      BY <2>6, ControlFields
    <3>2. Touches(c) /\ \A f \in Fds : fd'[f].owner = c => ~fd'[f].live
      BY <1>0, <2>1, <2>6, CloseKept
    <3>3. fd'[conn[c].sock].owner = NoConn
      BY <2>1, <2>6, CloseFields DEF FreeFd
    <3>4. Asked(c, a).sock = conn[c].sock
      BY <2>2, AskedFields
    <3>5. Standing(c, Asked(c, a), ctl'[c], fd')
      BY <2>1, <3>1, <3>3, <3>4 DEF Standing
    <3>6. Keeping(c, Asked(c, a), ctl'[c], fd') /\ Leaving(c, Asked(c, a), ctl'[c], fd')
      BY <3>1, <3>2 DEF Keeping, Leaving
    <3> QED
      BY <2>6, <3>1, <3>2, <3>5, <3>6, FoundStep DEF Good
  <2> QED
    BY <2>2, <2>4, <2>5, <2>6
\* mongo_disconnect closes the connection's own descriptor, or has none to close.
<1>14. ASSUME NEW c \in Conns, ctl[c].pc = "idle", fd' = FdsDisconnected(c)
       PROVE  /\ ~Disconnected(c).connected /\ Touches(c)
              /\ \A f \in Fds : fd'[f].owner = c => ~fd'[f].live
              /\ Disconnected(c).sock \in Fds => fd'[Disconnected(c).sock].owner = c
  <2>1. CASE conn[c].connected
    <3>1. fd' = Close(fd, conn[c].sock)
      BY <1>14, <2>1 DEF FdsDisconnected
    <3>2. Touches(c) /\ \A f \in Fds : fd'[f].owner = c => ~fd'[f].live
      BY <1>0, <1>14, <2>1, <3>1, CloseKept
    <3>3. ~Disconnected(c).connected /\ Disconnected(c).sock = 0
      BY <1>0, <2>1 DEF Disconnected, ConnRecord
    <3> QED
      BY <1>z, <3>2, <3>3
  <2>2. CASE ~conn[c].connected
    <3>1. Disconnected(c) = conn[c] /\ UNCHANGED fd
      BY <1>14, <2>2 DEF Disconnected, FdsDisconnected
    <3>2. conn[c].sock \in Fds => fd[conn[c].sock].owner = c
      BY <1>0, <1>14, <2>2 DEF Standing
    <3> QED
      BY <1>k, <2>2, <3>1, <3>2
  <2> QED
    BY <2>1, <2>2
<1>15. ASSUME NEW c \in Conns, Disconnect(c) PROVE FInv'
  <2>1. SetsConn(c, Disconnected(c)) /\ fd' = FdsDisconnected(c)
        /\ Returns(c, "disconnect", "none") /\ ctl[c].pc = "idle"
    BY <1>15 DEF Disconnect
  <2>2. /\ ctl'[c].pc = "idle" /\ ctl'[c].call = "disconnect"
        /\ \A d \in Conns \ {c} : ctl'[d] = ctl[d]
    BY <2>1, ControlFields
  <2>3. ~Disconnected(c).connected /\ Touches(c) /\ Keeping(c, Disconnected(c), ctl'[c], fd')
    BY <1>14, <2>1, NothingKept
  <2>4. Standing(c, Disconnected(c), ctl'[c], fd') /\ Leaving(c, Disconnected(c), ctl'[c], fd')
    BY <1>14, <2>1, <2>2, <2>3 DEF Standing, Leaving
  <2> QED
    BY <2>1, <2>2, <2>3, <2>4, FoundStep DEF Good
<1>16. ASSUME NEW c \in Conns, ReconnectSet(c) PROVE FInv'
  <2> DEFINE r == [Disconnected(c) EXCEPT !.primaryConnected = FALSE, !.hosts = <<>>,
                                          !.sock = 0, !.connected = FALSE]
  <2>1. SetsConn(c, r) /\ fd' = FdsDisconnected(c) /\ c \in ReplConns
        /\ Enters(c, "reconnect", "seed") /\ ctl[c].pc = "idle"
    BY <1>16 DEF ReconnectSet
  <2>2. ~r.connected /\ r.sock = 0
    BY <1>0 DEF Disconnected, ConnRecord
  <2> HIDE DEF r
  <2>3. /\ ctl'[c].pc = "seed" /\ ctl'[c].call = "reconnect"
        /\ \A d \in Conns \ {c} : ctl'[d] = ctl[d]
    BY <2>1, ControlFields
  <2>4. Touches(c) /\ Keeping(c, r, ctl'[c], fd')
    BY <1>14, <2>1, <2>2, NothingKept
  <2>5. Standing(c, r, ctl'[c], fd') /\ Leaving(c, r, ctl'[c], fd')
    BY <1>z, <2>2, <2>3 DEF Standing, Leaving
  <2> QED
    BY <2>1, <2>3, <2>4, <2>5, FoundStep DEF Good
<1>17. ASSUME NEW c \in Conns, ReconnectSingle(c) PROVE FInv'
  <2>1. SetsConn(c, Disconnected(c)) /\ fd' = FdsDisconnected(c) /\ c \notin ReplConns
        /\ Enters(c, "reconnect", "dial") /\ ctl[c].pc = "idle"
    BY <1>17 DEF ReconnectSingle
  <2>2. /\ ctl'[c].pc = "dial" /\ ctl'[c].call = "reconnect"
        /\ \A d \in Conns \ {c} : ctl'[d] = ctl[d]
    BY <2>1, ControlFields
  <2>3. ~Disconnected(c).connected /\ Touches(c) /\ Keeping(c, Disconnected(c), ctl'[c], fd')
    BY <1>14, <2>1, NothingKept
  <2>4. Standing(c, Disconnected(c), ctl'[c], fd') /\ Leaving(c, Disconnected(c), ctl'[c], fd')
    BY <1>14, <2>1, <2>2, <2>3 DEF Standing, Leaving
  <2> QED
    BY <2>1, <2>2, <2>3, <2>4, FoundStep DEF Good
<1>18. ASSUME NEW c \in Conns, Destroy(c) PROVE FInv'
  <2> DEFINE r == [Disconnected(c) EXCEPT !.hosts = <<>>, !.primary = NoHost,
                                          !.err = "SUCCESS"]
  <2>1. SetsConn(c, r) /\ fd' = FdsDisconnected(c)
        /\ Enters(c, "destroy", "destroyed") /\ ctl[c].pc = "idle"
    BY <1>18 DEF Destroy
  <2>2. r.connected = Disconnected(c).connected /\ r.sock = Disconnected(c).sock
    BY <1>0 DEF Disconnected, ConnRecord
  <2> HIDE DEF r
  <2>3. /\ ctl'[c].pc = "destroyed" /\ ctl'[c].call = "destroy"
        /\ \A d \in Conns \ {c} : ctl'[d] = ctl[d]
    BY <2>1, ControlFields
  <2>4. Touches(c) /\ Keeping(c, r, ctl'[c], fd')
    BY <1>14, <2>1, <2>2, NothingKept
  <2>5. Standing(c, r, ctl'[c], fd') /\ Leaving(c, r, ctl'[c], fd')
    BY <1>14, <2>1, <2>2, <2>3 DEF Standing, Leaving
  <2> QED
    BY <2>1, <2>3, <2>4, <2>5, FoundStep DEF Good
<1>19. ASSUME NEW c \in Conns, Dial(c) PROVE FInv'
  <2>1. c \notin ReplConns /\ ~conn[c].connected
    BY <1>0, <1>19 DEF Dial, Standing
  <2>2. ASSUME NEW f \in Fds, Opens(c, conn[c].primary, f),
               SetsConn(c, Linked(conn[c], f)), Return(c, "OK", NoHost)
        PROVE  FInv'
    <3> DEFINE r == Linked(conn[c], f)
    <3>1. r.sock = f /\ r.connected /\ r.opTimeout = conn[c].opTimeout
      BY <1>0 DEF Linked, ConnRecord
    <3> HIDE DEF r
    <3>2. /\ ctl'[c].pc = "idle" /\ ctl'[c].res = "OK"
          /\ \A d \in Conns \ {c} : ctl'[d] = ctl[d]
      BY <2>2, ControlFields
    <3>3. Keeping(c, r, ctl'[c], fd') /\ Touches(c)
      BY <1>0, <2>1, <2>2, <3>1, OpenKept
    <3>4. Standing(c, r, ctl'[c], fd') /\ Leaving(c, r, ctl'[c], fd')
      BY <2>1, <3>1, <3>2 DEF Standing, Leaving
    <3> QED
      BY <2>2, <3>2, <3>3, <3>4, FoundStep DEF Good, r
  <2>3. ASSUME NEW e \in Errors, FailsWith(c, conn[c].primary, e), UNCHANGED fd,
               SetsConn(c, Unlinked(conn[c], e)), Return(c, "ERROR", NoHost)
        PROVE  FInv'
    <3> DEFINE r == Unlinked(conn[c], e)
    <3>1. ~r.connected /\ r.sock = 0 /\ r.err = e
      BY <1>0 DEF Unlinked, ConnRecord
    <3> HIDE DEF r
    <3>2. /\ ctl'[c].pc = "idle"
          /\ \A d \in Conns \ {c} : ctl'[d] = ctl[d]
      BY <2>3, ControlFields
    <3>3. Keeping(c, r, ctl'[c], fd') /\ Touches(c)
      BY <1>k, <2>1, <2>3, <3>1, NothingKept
    <3>4. UnixHosts = {} => e # "SUCCESS"
      BY <2>3 DEF FailsWith
    <3>5. Standing(c, r, ctl'[c], fd') /\ Leaving(c, r, ctl'[c], fd')
      BY <1>z, <2>1, <3>1, <3>2, <3>4 DEF Standing, Leaving
    <3> QED
      BY <2>3, <3>2, <3>3, <3>5, FoundStep DEF Good, r
  <2> QED
    BY <1>19, <2>2, <2>3 DEF Dial
<1>20. ASSUME NEW c \in Conns, Operation(c) PROVE FInv'
  <2>1. PICK a \in Answers :
          /\ Answer(c, a) /\ SetsConn(c, Asked(c, a))
          /\ Returns(c, "operation", IF a = "ok" THEN "OK" ELSE "ERROR")
    BY <1>20 DEF Operation
  <2>2. UNCHANGED fd /\ ctl[c].pc = "idle"
    BY <1>20 DEF Operation
  <2>3. /\ ctl'[c].pc = "idle" /\ ctl'[c].call = "operation"
        /\ ctl'[c].res = IF a = "ok" THEN "OK" ELSE "ERROR"
        /\ \A d \in Conns \ {c} : ctl'[d] = ctl[d]
    BY <2>1, ControlFields
  <2>4. Leaving(c, Asked(c, a), ctl'[c], fd)
    BY <1>d, <2>1, <2>2, <2>3 DEF Leaving
  <2> QED
    BY <1>4, <2>1, <2>2, <2>3, <2>4, AskedFields
<1>21. ASSUME NEW c \in Conns, CheckConnection(c) PROVE FInv'
  <2>1. UNCHANGED fd /\ ctl[c].pc = "idle"
    BY <1>21 DEF CheckConnection
  <2>2. \E r : Returns(c, "checkConnection", r)
    BY <1>21 DEF CheckConnection
  <2>3. /\ ctl'[c].pc = "idle" /\ ctl'[c].call = "checkConnection"
        /\ \A d \in Conns \ {c} : ctl'[d] = ctl[d]
    BY <2>2, ControlFields
  <2>4. \A r : Leaving(c, r, ctl'[c], fd)
    BY <2>3 DEF Leaving
  <2>5. CASE UNCHANGED conn
    <3>1. SetsConn(c, conn[c])
      BY <2>5, <1>0 DEF SetsConn
    <3>2. Standing(c, conn[c], ctl'[c], fd) /\ Keeping(c, conn[c], ctl'[c], fd)
      BY <1>0, <2>1, <2>3 DEF Standing, Keeping
    <3>3. Good(c, conn[c], ctl'[c], fd')
      BY <2>1, <2>4, <3>2 DEF Good
    <3> QED
      BY <1>k, <2>1, <2>3, <3>1, <3>3, FoundStep
  <2>6. CASE \E a \in Answers : Answer(c, a) /\ SetsConn(c, Asked(c, a))
    <3>1. PICK a \in Answers : Answer(c, a) /\ SetsConn(c, Asked(c, a))
      BY <2>6
    <3> QED
      BY <1>4, <2>1, <2>3, <2>4, <3>1, AskedFields
  <2> QED
    BY <1>21, <2>5, <2>6 DEF CheckConnection
<1>22. ASSUME NEW c \in Conns, NEW on \in BOOLEAN, SetOpTimeout(c, on) PROVE FInv'
  <2>1. PICK e : SetsConn(c, [conn[c] EXCEPT !.opTimeout = on, !.err = e])
    BY <1>22 DEF SetOpTimeout
  <2> DEFINE r == [conn[c] EXCEPT !.opTimeout = on, !.err = e]
  <2>2. r.sock = conn[c].sock /\ r.connected = conn[c].connected /\ r.opTimeout = on
    BY <1>0 DEF ConnRecord
  <2>3. ctl[c].pc = "idle" /\ Returns(c, "setOpTimeout", "OK")
    BY <1>22 DEF SetOpTimeout
  <2>4. conn[c].connected =>
          /\ conn[c].sock \in Fds /\ fd[conn[c].sock].owner = c /\ c # NoConn
          /\ conn[c].sock # 0
    BY <1>0, <2>3, ConnsAssumption, FdsAssumption
  <2>5. IF conn[c].connected THEN fd' = [fd EXCEPT ![conn[c].sock].timed = on]
                             ELSE UNCHANGED fd
    BY <1>22, <2>4 DEF SetOpTimeout, Open
  <2>6. /\ ctl'[c].pc = "idle" /\ ctl'[c].call = "setOpTimeout"
        /\ \A d \in Conns \ {c} : ctl'[d] = ctl[d]
    BY <2>3, ControlFields
  <2>7. /\ \A f \in Fds : fd'[f].owner = fd[f].owner /\ fd'[f].live = fd[f].live
        /\ \A f \in Fds : fd'[f] # fd[f] => conn[c].connected /\ f = conn[c].sock
        /\ conn[c].connected => fd'[conn[c].sock].timed = on
    <3>1. fd \in [Fds -> FdRecord]
      BY DEF TInv, TypeOK
    <3> QED
      BY <2>4, <2>5, <3>1 DEF FdRecord
  <2>8. SetsConn(c, r)
    BY <2>1
  <2> HIDE DEF r
  <2>9. Touches(c)
    BY <2>4, <2>7 DEF Touches
  <2>10. Keeping(c, r, ctl'[c], fd')
    BY <1>0, <2>2, <2>7 DEF Keeping
  <2>11. Standing(c, r, ctl'[c], fd') /\ Leaving(c, r, ctl'[c], fd')
    BY <1>0, <2>2, <2>3, <2>6, <2>7 DEF Standing, Leaving
  <2> QED
    BY <2>6, <2>8, <2>9, <2>10, <2>11, FoundStep DEF Good
<1>23. ASSUME Environment PROVE FInv'
  <2>1. UNCHANGED conn /\ Disturbs
    BY <1>23 DEF Environment, ServerFails, ServerRestarts, ServerElected,
       ServerStepsDown, LinkDrops, World
  <2>2. \A c \in Conns :
          /\ ctl'[c].pc = ctl[c].pc /\ ctl'[c].call = ctl[c].call
          /\ ctl'[c].node = ctl[c].node /\ ctl'[c].res = ctl[c].res
          /\ ctl'[c].sawMaster = ctl[c].sawMaster
    BY <2>1 DEF Disturbs, TInv, TypeOK, CtlRecord
  <2>3. \A f \in Fds : /\ fd'[f].owner = fd[f].owner /\ fd'[f].peer = fd[f].peer
                       /\ fd'[f].timed = fd[f].timed /\ (fd'[f].live => fd[f].live)
    BY <1>23 DEF Environment, ServerFails, ServerRestarts, ServerElected,
       ServerStepsDown, LinkDrops, TInv, TypeOK, FdRecord
  <2>4. ASSUME NEW c \in Conns PROVE Good(c, conn'[c], ctl'[c], fd')
    <3>1. Standing(c, conn[c], ctl'[c], fd')
      BY <1>0, <2>2, <2>3 DEF Standing
    <3>2. Keeping(c, conn[c], ctl'[c], fd')
      BY <1>0, <2>2, <2>3 DEF Keeping
    <3>3. Leaving(c, conn[c], ctl'[c], fd')
      BY <1>0, <2>2, <2>3 DEF Leaving
    <3> QED
      BY <2>1, <3>1, <3>2, <3>3 DEF Good
  <2> QED
    BY <2>4 DEF FInv
<1>24. CASE UNCHANGED vars
  BY <1>24 DEF vars, FInv
<1> QED
  BY <1>3, <1>5, <1>6, <1>7, <1>8, <1>10, <1>11, <1>12, <1>13, <1>15, <1>16, <1>17,
     <1>18, <1>19, <1>20, <1>21, <1>22, <1>23, <1>24 DEF Next, Call, Continue

\* What holds of every reachable state of a connection used as the manual says.
LEMMA FoundInvariant ==
  ASSUME Documented PROVE Spec => [](TInv /\ OInv /\ FInv)
<1>1. TInv /\ OInv /\ [Next]_vars => OInv'
  BY NextOInv
<1>2. TInv /\ OInv /\ FInv /\ [Next]_vars => FInv'
  BY NextFInv
<1> QED
  BY InitTInv, NextTInv, InitOInv, InitFInv, <1>1, <1>2, PTL DEF Spec

\* mongo_replica_set_client and mongo_reconnect report no success on any node but
\* the one they recorded, which has just said that it is the primary (mongo.c 639-651).
THEOREM PrimaryIsFound ==
  ASSUME Documented PROVE Spec => []PrimaryFound
<1>1. OInv /\ FInv => PrimaryFound
  <2> SUFFICES ASSUME OInv, FInv, NEW c \in ReplConns,
                      Returned(c, {"replicaSetClient", "reconnect"}), ctl[c].res = "OK"
               PROVE  /\ conn[c].connected /\ Owns(c)
                      /\ Peer(c) = conn[c].primary /\ ctl[c].sawMaster = conn[c].primary
                      /\ conn[c].primaryConnected /\ conn[c].err = "SUCCESS"
    BY DEF PrimaryFound
  <2>1. c \in Conns /\ ctl[c].pc = "idle" /\ ctl[c].call \in Connecting
    BY ConnsAssumption DEF Returned, At, Connecting
  <2>2. /\ conn[c].connected /\ conn[c].primaryConnected /\ conn[c].err = "SUCCESS"
        /\ fd[conn[c].sock].peer = conn[c].primary /\ ctl[c].sawMaster = conn[c].primary
    BY <2>1 DEF FInv, Good, Leaving
  <2> QED
    BY <2>1, <2>2 DEF OInv, OwnDescriptor, At, Peer
<1> QED
  BY <1>1, FoundInvariant, PTL

\* A call that finds no primary keeps none of the sockets it tried (mongo.c 653-663).
THEOREM NoPrimaryIsClosed ==
  ASSUME Documented PROVE Spec => []NoPrimaryClosed
<1>1. FInv => NoPrimaryClosed
  BY ConnsAssumption
  DEF FInv, Good, Leaving, NoPrimaryClosed, Returned, At, Connecting
<1> QED
  BY <1>1, FoundInvariant, PTL

\* No working descriptor is lost on any way through the calls, refused connects,
\* failed requests and closes included.
THEOREM NothingLeaks ==
  ASSUME Documented PROVE Spec => []NoLeak
<1>1. FInv => NoLeak
  BY DEF FInv, Good, Keeping, NoLeak
<1> QED
  BY <1>1, FoundInvariant, PTL

\* The operation timeout survives every reconnect of a TCP connection (env.c
\* 316-356); a unix domain socket never gets it.
THEOREM TimeoutIsApplied ==
  ASSUME Documented, UnixHosts = {} PROVE Spec => []TimeoutApplied
<1>1. TInv /\ FInv => TimeoutApplied
  <2> SUFFICES ASSUME TInv, FInv, NEW c \in Conns, Owns(c), conn[c].connected
               PROVE  fd[conn[c].sock].timed = conn[c].opTimeout
    BY DEF TimeoutApplied
  <2>1. conn[c].sock \in Fds /\ fd[conn[c].sock].owner = c /\ c # NoConn
    BY ConnsAssumption DEF Owns, Open
  <2>2. ctl[c].pc # "closeHost"
    BY <2>1 DEF FInv, Good, Standing
  <2> QED
    BY <2>2 DEF FInv, Good, Keeping
<1> QED
  BY <1>1, FoundInvariant, PTL

\* After a call over TCP that failed, an object without a connection, and any object
\* that mongo_replica_set_client or mongo_reconnect was to connect, has the reason in
\* conn->err (errors.rst 11).  A connected object may have none after $err or an
\* empty reply (mongo.c 1176-1182, 1339-1350), and over a unix domain socket no
\* failed connect leaves one (env.c 293).
THEOREM ReasonIsLeft ==
  ASSUME Documented, UnixHosts = {} PROVE Spec => []ErrorHasReason
<1>1. FInv => ErrorHasReason
  BY DEF FInv, Good, Leaving, ErrorHasReason, Returned, At, Connecting, Asking
<1> QED
  BY <1>1, FoundInvariant, PTL

\* mongo_check_connection answers MONGO_OK on the connection's own socket only; two
\* replica set connections in one process are what Documented keeps out here.
THEOREM CheckIsOwn ==
  ASSUME Documented PROVE Spec => CheckedIsOwn
<1>1. ASSUME TInv, OInv, FInv, Next
      PROVE  \A c \in Conns :
            /\ ctl'[c].pc = "idle" /\ ctl'[c].call = "checkConnection" /\ ctl'[c].res = "OK"
            /\ ctl[c].call # "checkConnection" \/ ctl[c].res # "OK"
            => Owns(c)
  <2> SUFFICES ASSUME NEW c \in Conns,
                      ctl'[c].pc = "idle", ctl'[c].call = "checkConnection",
                      ctl'[c].res = "OK",
                      ctl[c].call # "checkConnection" \/ ctl[c].res # "OK"
               PROVE  Owns(c)
    OBVIOUS
  <2> USE DEF At
  <2>1. ctl[c].pc \in Walk \cup {"checkMaster", "dial"} => ctl[c].call # "checkConnection"
    BY <1>1 DEF FInv, Good, Standing, Connecting
  <2>2. ctl'[c] # ctl[c]
    OBVIOUS
  <2>3. ASSUME NEW d \in Conns, CheckConnection(d) PROVE Owns(c)
    <3>1. PICK r : Returns(d, "checkConnection", r) /\ (~conn[d].connected => r = "ERROR")
      BY <2>3 DEF CheckConnection
    <3>2. d = c /\ r = "OK"
      BY <2>2, <3>1, <1>1, ControlFields
    <3>3. conn[c].connected /\ ctl[c].pc = "idle"
      BY <2>3, <3>1, <3>2 DEF CheckConnection
    <3> QED
      BY <1>1, <3>3 DEF OInv, OwnDescriptor
  <2>4. ASSUME Environment PROVE FALSE
    <3>1. Disturbs
      BY <2>4 DEF Environment, ServerFails, ServerRestarts, ServerElected,
         ServerStepsDown, LinkDrops, World
    <3> QED
      BY <1>1, <3>1 DEF Disturbs, TInv, TypeOK, CtlRecord
  <2>5. ASSUME NEW d \in Conns, ctl[d].pc \in Walk \cup {"checkMaster", "dial"},
               (\E p, n : Goto(d, p, n)) \/ (\E r, m : Return(d, r, m))
        PROVE  FALSE
    <3>1. ctl'[d].call = ctl[d].call /\ \A e \in Conns \ {d} : ctl'[e] = ctl[e]
      BY <1>1, <2>5, ControlFields
    <3> QED
      BY <2>1, <2>2, <2>5, <3>1
  <2>6. ASSUME NEW d \in Conns, NEW name \in Calls \ {"checkConnection"},
               (\E r : Returns(d, name, r)) \/ (\E p : Enters(d, name, p))
        PROVE  FALSE
    <3>1. ctl'[d].call = name /\ \A e \in Conns \ {d} : ctl'[e] = ctl[e]
      BY <1>1, <2>6, ControlFields
    <3> QED
      BY <2>2, <2>6, <3>1
  <2>7. ASSUME NEW d \in Conns, Continue(d) PROVE FALSE
    <3>1. ctl[d].pc \in Walk \cup {"checkMaster", "dial"}
      BY <2>7 DEF Continue, CheckIsMaster, TrySeed, CheckSeed, TryHost, CheckHost,
         CloseHost, Dial, Walk
    <3>2. (\E p, n : Goto(d, p, n)) \/ (\E r, m : Return(d, r, m))
      BY <2>7 DEF Continue, CheckIsMaster, TrySeed, CheckSeed, TryHost, CheckHost,
         CloseHost, Dial, TryNode, NoPrimary, TakesPrimary
    <3> QED
      BY <2>5, <3>1, <3>2
  <2>8. ASSUME NEW d \in Conns, Call(d), ~CheckConnection(d) PROVE FALSE
    <3>1. ~Client(d)
      BY <2>6 DEF Client
    <3>2. ~ReplicaSetInit(d) /\ ~ReplicaSetClient(d)
      BY <2>6 DEF ReplicaSetInit, ReplicaSetClient
    <3>3. ~Disconnect(d) /\ ~Destroy(d)
      BY <2>6 DEF Disconnect, Destroy
    <3>4. ~ReconnectSet(d) /\ ~ReconnectSingle(d)
      BY <2>6 DEF ReconnectSet, ReconnectSingle
    <3>5. ~Operation(d) /\ \A on \in BOOLEAN : ~SetOpTimeout(d, on)
      BY <2>6 DEF Operation, SetOpTimeout
    <3> QED
      BY <2>8, <3>1, <3>2, <3>3, <3>4, <3>5 DEF Call
  <2> QED
    BY <1>1, <2>3, <2>4, <2>7, <2>8 DEF Next
<1>2. TInv /\ OInv /\ FInv /\ [Next]_vars =>
        [\A c \in Conns :
            /\ ctl'[c].pc = "idle" /\ ctl'[c].call = "checkConnection" /\ ctl'[c].res = "OK"
            /\ ctl[c].call # "checkConnection" \/ ctl[c].res # "OK"
            => Owns(c)]_vars
  BY <1>1
<1> QED
  BY <1>2, FoundInvariant, PTL DEF CheckedIsOwn, Spec

-----------------------------------------------------------------------------
(***************************************************************************)
(* A replica set that keeps still                                          *)
(***************************************************************************)

\* No node says that it belongs to another set.
RightNames == \A c \in ReplConns, h \in Hosts : NodeSet[h] \in {NoName, ConnSet[c]}

\* The seeds before the n-th gave no list, the hosts before the n-th no primary.
NoList(c, n) == \A i \in 1..(n - 1) : Seeds[c][i] \in up => HostList[Seeds[c][i]] = <<>>

NoMaster(c, n) == \A i \in 1..(n - 1) : conn[c].hosts[i] \notin masters \cap up

\* The list is that of a seed that is up.
Listed(c) == /\ conn[c].hosts # <<>>
             /\ \E s \in Members(Seeds[c]) \cap up : conn[c].hosts = HostList[s]

Searching(c) ==
  /\ ctl[c].pc = "seed" => Free = {} \/ NoList(c, ctl[c].node)
  /\ ctl[c].pc = "checkSeed" =>
       /\ Live(c) /\ ctl[c].node \in 1..Len(Seeds[c]) /\ NoList(c, ctl[c].node)
       /\ Peer(c) = Seeds[c][ctl[c].node] /\ Peer(c) \in up
  /\ ctl[c].pc \in {"host", "checkHost", "closeHost"} => Listed(c)
  /\ ctl[c].pc = "host" => Free = {} \/ NoMaster(c, ctl[c].node)
  /\ ctl[c].pc = "checkHost" => Live(c) /\ NoMaster(c, ctl[c].node)
  /\ ctl[c].pc = "closeHost" => NoMaster(c, ctl[c].node + 1)
  /\ ctl[c].pc = "idle" /\ ctl[c].call \in Connecting =>
       /\ Findable(c) /\ Free # {} => ctl[c].res = "OK"
       /\ RightNames /\ conn[c].connected => Peer(c) \in masters

\* The list is empty when a walk over the seeds begins, and while nothing fails or
\* changes the walk has seen what there is.
CInv ==
  \A c \in ReplConns :
    /\ ctl[c].call = "init" \/ ctl[c].pc \in {"seed", "checkSeed"} => conn[c].hosts = <<>>
    /\ ctl[c].calm => Searching(c)

LEMMA InitCInv == Init => CInv
  BY ConnsAssumption DEF Init, CInv, Searching, NewCtl

\* A request of a call that met no fault was answered.
LEMMA CalmAnswer ==
  ASSUME NEW c \in Conns, NEW a \in Answers, TInv, Answer(c, a), Settled(c), Live(c)
  PROVE  a = "ok" /\ ctl[c].calm
<1>1. faults \in Nat /\ faults' = faults /\ ctl[c].calm
  BY DEF TInv, TypeOK, Settled
<1> QED
  BY <1>1 DEF Answer, Fault

LEMMA NextCInv == Documented /\ TInv /\ OInv /\ FInv /\ CInv /\ [Next]_vars => CInv'
<1> SUFFICES ASSUME Documented, TInv, OInv, FInv, CInv, [Next]_vars,
                    NEW c \in ReplConns
             PROVE  /\ ctl'[c].call = "init" \/ ctl'[c].pc \in {"seed", "checkSeed"}
                          => conn'[c].hosts = <<>>
                    /\ ctl'[c].calm => Searching(c)'
  BY DEF CInv
<1> USE DEF At, Connecting
<1>0. /\ c \in Conns /\ Conns = {c} /\ c # NoConn /\ conn[c] \in ConnRecord
      /\ conn \in [Conns -> ConnRecord] /\ ctl[c].node \in Nat \ {0}
      /\ ctl[c].call = "init" \/ ctl[c].pc \in {"seed", "checkSeed"} => conn[c].hosts = <<>>
      /\ ctl[c].calm => Searching(c)
  BY ConnsAssumption DEF Documented, CInv, TInv, TypeOK, CtlRecord
<1>r. ASSUME NEW r, SetsConn(c, r) PROVE conn'[c] = r
  BY <1>0, <1>r DEF SetsConn
<1>f. UNCHANGED fd => Free' = Free
  BY DEF Free
\* A call that is no connecting one.
<1>1. ASSUME ctl'[c].pc \in {"idle", "destroyed"}, ctl'[c].call \notin Connecting \cup {"init"}
      PROVE  /\ ctl'[c].call = "init" \/ ctl'[c].pc \in {"seed", "checkSeed"}
                   => conn'[c].hosts = <<>>
             /\ ctl'[c].calm => Searching(c)'
  BY <1>1 DEF Searching
<1> DEFINE Goal == /\ ctl'[c].call = "init" \/ ctl'[c].pc \in {"seed", "checkSeed"}
                         => conn'[c].hosts = <<>>
                   /\ ctl'[c].calm => Searching(c)'
<1>2. ASSUME Client(c) \/ CheckIsMaster(c) \/ ReconnectSingle(c) \/ Dial(c) PROVE Goal
  BY <1>0, <1>2 DEF Client, CheckIsMaster, ReconnectSingle, Dial, FInv, Good, Standing
<1>3. ASSUME ReplicaSetInit(c) PROVE Goal
  <2>1. ctl'[c].pc = "idle" /\ ctl'[c].call = "init"
    BY <1>0, <1>3, ControlFields DEF ReplicaSetInit
  <2>2. conn'[c] = NewConn
    BY <1>3, <1>r DEF ReplicaSetInit
  <2> QED
    BY <2>1, <2>2 DEF Searching, NewConn
\* A walk over the seeds begins.
<1>4. ASSUME ctl'[c].pc = "seed", ctl'[c].node = 1, conn'[c].hosts = <<>> PROVE Goal
  BY <1>4 DEF Searching, NoList
<1>5. ASSUME ReplicaSetClient(c) PROVE Goal
  <2>1. ctl[c].call = "init" /\ Enters(c, "replicaSetClient", "seed")
        /\ SetsConn(c, [conn[c] EXCEPT !.sock = 0, !.connected = FALSE])
    BY <1>5 DEF ReplicaSetClient, Documented
  <2>2. ctl'[c].pc = "seed" /\ ctl'[c].node = 1
    BY <1>0, <2>1, ControlFields
  <2>3. conn'[c].hosts = <<>>
    BY <1>0, <1>r, <2>1 DEF ConnRecord
  <2> QED
    BY <1>4, <2>2, <2>3
<1>6. ASSUME ReconnectSet(c) PROVE Goal
  <2>1. Enters(c, "reconnect", "seed")
        /\ SetsConn(c, [Disconnected(c) EXCEPT !.primaryConnected = FALSE, !.hosts = <<>>,
                                               !.sock = 0, !.connected = FALSE])
    BY <1>6 DEF ReconnectSet
  <2>2. ctl'[c].pc = "seed" /\ ctl'[c].node = 1
    BY <1>0, <2>1, ControlFields
  <2>3. conn'[c].hosts = <<>>
    BY <1>0, <1>r, <2>1 DEF Disconnected, ConnRecord
  <2> QED
    BY <1>4, <2>2, <2>3
<1>7. ASSUME Disconnect(c) \/ Operation(c) \/ CheckConnection(c) \/ Destroy(c)
             \/ \E on \in BOOLEAN : SetOpTimeout(c, on)
      PROVE  Goal
  <2>1. \E name \in Calls \ (Connecting \cup {"init"}) :
          (\E r : Returns(c, name, r)) \/ Enters(c, name, "destroyed")
    <3>1. CASE Disconnect(c)
      BY <3>1 DEF Disconnect
    <3>2. CASE Operation(c)
      BY <3>2 DEF Operation
    <3>3. CASE CheckConnection(c)
      BY <3>3 DEF CheckConnection
    <3>4. CASE Destroy(c)
      BY <3>4 DEF Destroy
    <3>5. CASE \E on \in BOOLEAN : SetOpTimeout(c, on)
      BY <3>5 DEF SetOpTimeout
    <3> QED
      BY <1>7, <3>1, <3>2, <3>3, <3>4, <3>5
  <2> QED
    BY <1>0, <1>1, <2>1, ControlFields
\* A call gives up: it has seen every seed, or every host.
<1>8. ASSUME NoPrimary(c), ctl[c].pc \in {"seed", "host"}, UNCHANGED <<up, masters>>,
             IF ctl[c].pc = "seed" THEN ctl[c].node > Len(Seeds[c])
                                   ELSE ctl[c].node > Len(conn[c].hosts)
      PROVE  Goal
  <2> DEFINE r == [conn[c] EXCEPT !.err = "NO_PRIMARY"]
  <2>1. ~r.connected
    BY <1>0, <1>8 DEF ConnRecord, FInv, Good, Standing
  <2>2. SetsConn(c, r) /\ UNCHANGED fd /\ Return(c, "ERROR", NoHost)
    BY <1>8 DEF NoPrimary
  <2> HIDE DEF r
  <2>3. /\ ctl'[c].pc = "idle" /\ ctl'[c].call = ctl[c].call
        /\ ctl'[c].calm => ctl[c].calm
    BY <1>0, <2>2, ControlFields DEF Settled
  <2>4. ctl[c].call \in Connecting
    BY <1>0, <1>8 DEF FInv, Good, Standing, Walk
  <2>5. ASSUME ctl[c].calm, Findable(c), Free # {} PROVE FALSE
    <3>1. CASE ctl[c].pc = "seed"
      <4>1. \A i \in 1..Len(Seeds[c]) : Seeds[c][i] \in up => HostList[Seeds[c][i]] = <<>>
        <5>1. NoList(c, ctl[c].node)
          BY <1>0, <2>5, <3>1 DEF Searching
        <5> QED
          BY <1>0, <1>8, <3>1, <5>1, HostsAssumption DEF NoList
      <4> QED
        BY <2>5, <4>1 DEF Findable, Members
    <3>2. CASE ctl[c].pc = "host"
      <4>1. Listed(c) /\ NoMaster(c, ctl[c].node)
        BY <1>0, <2>5, <3>2 DEF Searching
      <4>2. \A i \in 1..Len(conn[c].hosts) : conn[c].hosts[i] \notin masters \cap up
        <5>1. Len(conn[c].hosts) \in Nat
          BY <1>0 DEF ConnRecord
        <5> QED
          BY <1>0, <1>8, <3>2, <4>1, <5>1 DEF NoMaster
      <4>3. PICK s \in Members(Seeds[c]) \cap up : conn[c].hosts = HostList[s]
        BY <4>1 DEF Listed
      <4>4. PICK m \in masters \cap up : m \in Members(HostList[s])
        BY <2>5, <4>1, <4>3 DEF Findable, Listed
      <4> QED
        BY <4>2, <4>3, <4>4 DEF Members
    <3> QED
      BY <1>8, <3>1, <3>2
  <2>6. Findable(c)' => Findable(c)
    BY <1>8 DEF Findable
  <2>7. ~conn'[c].connected /\ Free' = Free
    BY <1>f, <1>r, <2>1, <2>2
  <2>8. ctl'[c].calm => ctl[c].calm /\ ~(Findable(c)' /\ Free' # {})
    BY <2>3, <2>5, <2>6, <2>7
  <2>9. ctl'[c].calm => Searching(c)'
    BY <2>3, <2>7, <2>8 DEF Searching
  <2> QED
    BY <2>3, <2>4, <2>9
\* A connect to h fails although descriptors are left: h is down.
<1>9. ASSUME NEW h, NEW e, FailsWith(c, h, e) PROVE Free = {} \/ h \notin up
  BY <1>9 DEF FailsWith
<1>10. ASSUME NEW h, NEW f \in Fds, Opens(c, h, f), NEW r, SetsConn(c, r), r.sock = f,
              UNCHANGED up
       PROVE  Live(c)' /\ Peer(c)' = h /\ h \in up
  BY <1>0, <1>10, <1>r, OpenFields DEF Live, Open, Peer
<1>11. ASSUME TrySeed(c) PROVE Goal
  <2> PICK n \in Nat \ {0} : n = ctl[c].node
    BY <1>0
  <2>1. ctl[c].pc = "seed" /\ UNCHANGED <<up, masters>> /\ conn[c].hosts = <<>>
        /\ Len(Seeds[c]) \in Nat
    BY <1>0, <1>11, HostsAssumption DEF TrySeed
  <2>2. ASSUME NEW f \in Fds, Opens(c, Seeds[c][n], f), SetsConn(c, Linked(conn[c], f)),
               Goto(c, "checkSeed", n), n <= Len(Seeds[c])
        PROVE  Goal
    <3> DEFINE r == Linked(conn[c], f)
    <3>1. r.sock = f /\ r.hosts = <<>>
      BY <1>0, <2>1 DEF Linked, ConnRecord
    <3>2. SetsConn(c, r)
      BY <2>2
    <3> HIDE DEF r
    <3>3. conn'[c].hosts = <<>> /\ Live(c)' /\ Peer(c)' = Seeds[c][n] /\ Seeds[c][n] \in up
      BY <1>10, <1>r, <2>1, <2>2, <3>1, <3>2
    <3>4. /\ ctl'[c].pc = "checkSeed" /\ ctl'[c].node = n
          /\ ctl'[c].calm => ctl[c].calm
      BY <1>0, <2>2, ControlFields DEF Settled
    <3>5. Free # {}
      BY <2>2 DEF Opens
    <3>6. ctl[c].calm => NoList(c, n)
      BY <1>0, <2>1, <3>5 DEF Searching
    <3>7. n \in 1..Len(Seeds[c])
      BY <1>0, <2>1, <2>2
    <3>8. ctl[c].calm => NoList(c, n)' /\ Peer(c)' \in up'
      BY <2>1, <3>3, <3>6 DEF NoList
    <3> QED
      BY <3>3, <3>4, <3>7, <3>8 DEF Searching
  <2>3. ASSUME NEW e \in Errors, FailsWith(c, Seeds[c][n], e), UNCHANGED fd,
               SetsConn(c, Unlinked(conn[c], e)), Goto(c, "seed", n + 1)
        PROVE  Goal
    <3>1. conn'[c].hosts = <<>>
      BY <1>0, <1>r, <2>1, <2>3 DEF Unlinked, ConnRecord
    <3>2. /\ ctl'[c].pc = "seed" /\ ctl'[c].node = n + 1
          /\ ctl'[c].calm => ctl[c].calm
      BY <1>0, <2>3, ControlFields DEF Settled
    <3>3. Free' = Free /\ (Free = {} \/ Seeds[c][n] \notin up)
      BY <1>9, <1>f, <2>3
    <3>4. ctl[c].calm => Free = {} \/ NoList(c, n)
      BY <1>0, <2>1 DEF Searching
    <3>5. ctl[c].calm => Free' = {} \/ NoList(c, n + 1)'
      BY <1>0, <2>1, <3>3, <3>4 DEF NoList
    <3> QED
      BY <3>1, <3>2, <3>5 DEF Searching
  <2>4. CASE n <= Len(Seeds[c]) /\ TryNode(c, Seeds[c][n], "checkSeed")
    BY <2>1, <2>2, <2>3, <2>4 DEF TryNode
  <2>5. CASE n > Len(Seeds[c]) /\ NoPrimary(c)
    BY <1>8, <2>1, <2>5
  <2> QED
    BY <1>11, <2>1, <2>4, <2>5 DEF TrySeed
<1>12. ASSUME TryHost(c) PROVE Goal
  <2> PICK n \in Nat \ {0} : n = ctl[c].node
    BY <1>0
  <2>1. ctl[c].pc = "host" /\ UNCHANGED <<up, masters>> /\ ctl[c].call \in Connecting
    BY <1>0, <1>12 DEF TryHost, FInv, Good, Standing, Walk
  <2>2. ASSUME NEW f \in Fds, Opens(c, conn[c].hosts[n], f), SetsConn(c, Linked(conn[c], f)),
               Goto(c, "checkHost", n)
        PROVE  Goal
    <3> DEFINE r == Linked(conn[c], f)
    <3>1. r.sock = f /\ r.hosts = conn[c].hosts
      BY <1>0, <2>1 DEF Linked, ConnRecord
    <3>2. SetsConn(c, r)
      BY <2>2
    <3> HIDE DEF r
    <3>3. conn'[c].hosts = conn[c].hosts /\ Live(c)'
      BY <1>10, <1>r, <2>1, <2>2, <3>1, <3>2
    <3>4. /\ ctl'[c].pc = "checkHost" /\ ctl'[c].node = n /\ ctl'[c].call \in Connecting
          /\ ctl'[c].calm => ctl[c].calm
      BY <1>0, <2>1, <2>2, ControlFields DEF Settled
    <3>5. Free # {}
      BY <2>2 DEF Opens
    <3>6. ctl[c].calm => NoMaster(c, n) /\ Listed(c)
      BY <1>0, <2>1, <3>5 DEF Searching
    <3>7. ctl[c].calm => NoMaster(c, n)' /\ Listed(c)'
      BY <2>1, <3>3, <3>6 DEF NoMaster, Listed
    <3> QED
      BY <3>3, <3>4, <3>7 DEF Searching
  <2>3. ASSUME NEW e \in Errors, FailsWith(c, conn[c].hosts[n], e), UNCHANGED fd,
               SetsConn(c, Unlinked(conn[c], e)), Goto(c, "host", n + 1)
        PROVE  Goal
    <3>1. conn'[c].hosts = conn[c].hosts
      BY <1>0, <1>r, <2>1, <2>3 DEF Unlinked, ConnRecord
    <3>2. /\ ctl'[c].pc = "host" /\ ctl'[c].node = n + 1 /\ ctl'[c].call \in Connecting
          /\ ctl'[c].calm => ctl[c].calm
      BY <1>0, <2>1, <2>3, ControlFields DEF Settled
    <3>3. Free' = Free /\ (Free = {} \/ conn[c].hosts[n] \notin up)
      BY <1>9, <1>f, <2>3
    <3>4. ctl[c].calm => (Free = {} \/ NoMaster(c, n)) /\ Listed(c)
      BY <1>0, <2>1 DEF Searching
    <3>5. ctl[c].calm => (Free' = {} \/ NoMaster(c, n + 1)') /\ Listed(c)'
      BY <1>0, <2>1, <3>1, <3>3, <3>4 DEF NoMaster, Listed
    <3> QED
      BY <3>1, <3>2, <3>5 DEF Searching
  <2>4. CASE TryNode(c, conn[c].hosts[n], "checkHost")
    BY <2>1, <2>2, <2>3, <2>4 DEF TryNode
  <2>5. CASE n > Len(conn[c].hosts) /\ NoPrimary(c)
    BY <1>8, <2>1, <2>5
  <2> QED
    BY <1>12, <2>1, <2>4, <2>5 DEF TryHost
\* A seed is asked for its list.
<1>13. ASSUME CheckSeed(c) PROVE Goal
  <2> PICK n \in Nat \ {0} : n = ctl[c].node
    BY <1>0
  <2>0. ctl[c].pc = "checkSeed" /\ UNCHANGED <<up, masters>> /\ conn[c].hosts = <<>>
    BY <1>0, <1>13 DEF CheckSeed
  <2>1. PICK a \in Answers :
          LET known == IF a = "ok" THEN conn[c].hosts \o HostList[Peer(c)]
                                   ELSE conn[c].hosts
          IN  /\ Answer(c, a)
              /\ SetsConn(c, [Unlinked(conn[c], ErrorOf(a)) EXCEPT !.hosts = known])
              /\ IF ListKnown(known) THEN Goto(c, "host", 1)
                                     ELSE Goto(c, "seed", n + 1)
    BY <1>13 DEF CheckSeed
  <2> DEFINE known == IF a = "ok" THEN conn[c].hosts \o HostList[Peer(c)]
                                  ELSE conn[c].hosts
             r == [Unlinked(conn[c], ErrorOf(a)) EXCEPT !.hosts = known]
  <2>2. r.hosts = known
    BY <1>0 DEF Unlinked, ConnRecord
  <2>3. SetsConn(c, r)
    BY <2>1
  <2>4. a # "ok" => known = <<>>
    BY <2>0
  <2>5. IF known # <<>> THEN Goto(c, "host", 1) ELSE Goto(c, "seed", n + 1)
    BY <2>1 DEF ListKnown
  <2>6. Answer(c, a)
    BY <2>1
  <2> HIDE DEF known, r
  <2>h. conn'[c].hosts = known
    BY <1>r, <2>2, <2>3
  <2>7. ctl'[c].calm => Settled(c) /\ ctl[c].calm
    BY <1>0, <2>5, ControlFields DEF Settled
  <2>8. ctl[c].calm => /\ Live(c) /\ n \in 1..Len(Seeds[c]) /\ NoList(c, n)
                       /\ Peer(c) = Seeds[c][n] /\ Peer(c) \in up
    BY <1>0, <2>0 DEF Searching
  <2>9. ctl'[c].calm => /\ known = HostList[Seeds[c][n]] /\ NoList(c, n)
                        /\ n \in 1..Len(Seeds[c]) /\ Seeds[c][n] \in up
    <3>1. ctl'[c].calm => a = "ok"
      BY <1>0, <2>6, <2>7, <2>8, CalmAnswer
    <3>2. ctl'[c].calm => HostList[Seeds[c][n]] \in Seq(Hosts)
      BY <1>0, <2>7, <2>8, HostsAssumption
    <3> QED
      BY <2>0, <2>7, <2>8, <3>1, <3>2 DEF known
  <2>10. CASE known # <<>>
    <3>1. ctl'[c].pc = "host" /\ ctl'[c].node = 1
      BY <1>0, <2>5, <2>10, ControlFields
    <3>2. ctl'[c].call \notin {"init"}
      BY <1>0, <2>0, <2>5, <2>10, ControlFields DEF FInv, Good, Standing, Walk
    <3>3. NoMaster(c, 1)'
      BY DEF NoMaster
    <3>4. ctl'[c].calm => Listed(c)'
      BY <2>0, <2>9, <2>10, <2>h DEF Listed, Members
    <3> QED
      BY <3>1, <3>2, <3>3, <3>4 DEF Searching
  <2>11. CASE known = <<>>
    <3>1. ctl'[c].pc = "seed" /\ ctl'[c].node = n + 1 /\ conn'[c].hosts = <<>>
      BY <1>0, <2>5, <2>11, <2>h, ControlFields
    <3>2. ctl'[c].calm => NoList(c, n + 1)'
      BY <2>0, <2>9, <2>11 DEF NoList
    <3> QED
      BY <3>1, <3>2 DEF Searching
  <2> QED
    BY <2>10, <2>11
\* A host of the list is asked whether it is the primary.
<1>14. ASSUME CheckHost(c) PROVE Goal
  <2> PICK n \in Nat \ {0} : n = ctl[c].node
    BY <1>0
  <2>0. /\ ctl[c].pc = "checkHost" /\ UNCHANGED <<up, masters>>
        /\ ctl[c].call \in Connecting /\ ~conn[c].primaryConnected
        /\ n \in 1..Len(conn[c].hosts) /\ Peer(c) = conn[c].hosts[n]
    BY <1>0, <1>14 DEF CheckHost, FInv, Good, Standing, OInv, Walk, TInv, WalkInList, Peer
  <2>1. PICK a \in Answers :
          /\ Answer(c, a)
          /\ \/ /\ a = "ok" /\ BadSetName(c)
                /\ SetsConn(c, [Asked(c, a) EXCEPT !.err = "BAD_SET_NAME"])
                /\ Return(c, "ERROR", NoHost)
                /\ UNCHANGED fd
             \/ /\ a = "ok" /\ ~BadSetName(c) /\ Peer(c) \in masters
                /\ TakesPrimary(c, a, Peer(c))
                /\ UNCHANGED fd
             \/ /\ a = "ok" => ~BadSetName(c) /\ Peer(c) \notin masters
                /\ SetsConn(c, Asked(c, a))
                /\ Goto(c, "closeHost", n)
    BY <1>14, <2>0 DEF CheckHost
  <2>2. /\ Asked(c, a).sock = conn[c].sock /\ Asked(c, a).hosts = conn[c].hosts
        /\ Asked(c, a).connected => conn[c].connected
    BY <1>0, <2>1, AskedFields
  <2>3. Asked(c, a) \in ConnRecord
    BY <1>0, <2>1, AnswerType DEF TInv
  <2>4. /\ ctl'[c].pc \in {"idle", "closeHost"} /\ ctl'[c].call \in Connecting
        /\ ctl'[c].calm => Settled(c) /\ ctl[c].calm
    BY <1>0, <2>0, <2>1, ControlFields DEF Settled, TakesPrimary
  <2>5. ctl[c].calm => Listed(c) /\ Live(c) /\ NoMaster(c, n)
    BY <1>0, <2>0 DEF Searching
  <2>6. ctl'[c].calm => a = "ok"
    BY <1>0, <2>1, <2>4, <2>5, CalmAnswer
  <2>7. CASE /\ a = "ok" /\ BadSetName(c)
             /\ SetsConn(c, [Asked(c, a) EXCEPT !.err = "BAD_SET_NAME"])
             /\ Return(c, "ERROR", NoHost)
    <3>1. ctl'[c].pc = "idle"
      BY <1>0, <2>7, ControlFields
    <3>2. Listed(c) => ~Findable(c)'
      <4> SUFFICES ASSUME Listed(c), Findable(c) PROVE FALSE
        BY <2>0 DEF Findable
      <4>1. PICK s \in Members(Seeds[c]) \cap up : conn[c].hosts = HostList[s]
        BY DEF Listed
      <4>2. \A h \in Members(HostList[s]) : NodeSet[h] = ConnSet[c]
        BY <4>1 DEF Findable, Listed
      <4>3. Peer(c) \in Members(HostList[s])
        BY <2>0, <4>1 DEF Members
      <4> QED
        BY <2>7, <4>2, <4>3 DEF BadSetName
    <3>3. ~RightNames
      <4>1. Peer(c) \in Hosts
        BY <1>0, <2>0 DEF ConnRecord
      <4> QED
        BY <2>7, <4>1 DEF RightNames, BadSetName
    <3>4. ctl'[c].calm => Listed(c)
      BY <2>4, <2>5
    <3> QED
      BY <2>4, <3>1, <3>2, <3>3, <3>4 DEF Searching
  <2>8. CASE /\ a = "ok" /\ Peer(c) \in masters /\ TakesPrimary(c, a, Peer(c))
             /\ UNCHANGED fd
    <3> DEFINE r == [Asked(c, a) EXCEPT !.primaryConnected = TRUE,
                                        !.primary = conn[c].hosts[ctl[c].node]]
    <3>1. SetsConn(c, r) /\ Return(c, "OK", Peer(c))
      BY <2>8 DEF TakesPrimary
    <3>2. r.sock = conn[c].sock
      BY <2>2, <2>3 DEF ConnRecord
    <3> HIDE DEF r
    <3>3. ctl'[c].pc = "idle" /\ ctl'[c].res = "OK"
      BY <1>0, <3>1, ControlFields
    <3>4. conn'[c].sock = conn[c].sock
      BY <1>r, <3>1, <3>2
    <3>5. Peer(c)' = Peer(c)
      BY <2>8, <3>4 DEF Peer
    <3>6. Peer(c)' \in masters'
      BY <2>0, <2>8, <3>5
    <3> QED
      BY <2>4, <3>3, <3>6 DEF Searching
  <2>9. CASE /\ a = "ok" => Peer(c) \notin masters
             /\ SetsConn(c, Asked(c, a)) /\ Goto(c, "closeHost", n)
    <3>1. ctl'[c].pc = "closeHost" /\ ctl'[c].node = n
      BY <1>0, <2>9, ControlFields
    <3>2. conn'[c].hosts = conn[c].hosts
      BY <1>r, <2>2, <2>9
    <3>3. ctl'[c].calm => Listed(c)'
      BY <2>0, <2>4, <2>5, <3>2 DEF Listed
    <3>4. ctl'[c].calm => NoMaster(c, n + 1)'
      BY <2>0, <2>4, <2>5, <2>6, <2>9, <3>2 DEF NoMaster
    <3> QED
      BY <2>4, <3>1, <3>3, <3>4 DEF Searching
  <2> QED
    BY <2>1, <2>7, <2>8, <2>9
<1>15. ASSUME CloseHost(c) PROVE Goal
  <2> PICK n \in Nat \ {0} : n = ctl[c].node
    BY <1>0
  <2> DEFINE r == [conn[c] EXCEPT !.sock = 0, !.connected = FALSE]
  <2>1. /\ ctl[c].pc = "closeHost" /\ UNCHANGED <<up, masters>> /\ ctl[c].call \in Connecting
        /\ SetsConn(c, r) /\ Goto(c, "host", n + 1)
    BY <1>0, <1>15 DEF CloseHost, FInv, Good, Standing, Walk
  <2>2. r.hosts = conn[c].hosts
    BY <1>0 DEF ConnRecord
  <2> HIDE DEF r
  <2>3. conn'[c].hosts = conn[c].hosts
    BY <1>r, <2>1, <2>2
  <2>4. /\ ctl'[c].pc = "host" /\ ctl'[c].node = n + 1 /\ ctl'[c].call \in Connecting
        /\ ctl'[c].calm => ctl[c].calm
    BY <1>0, <2>1, ControlFields DEF Settled
  <2>5. ctl[c].calm => Listed(c) /\ NoMaster(c, n + 1)
    BY <1>0, <2>1 DEF Searching
  <2>6. ctl[c].calm => Listed(c)' /\ NoMaster(c, n + 1)'
    BY <2>1, <2>3, <2>5 DEF Listed, NoMaster
  <2> QED
    BY <2>4, <2>6 DEF Searching
\* Whatever the servers do, a call under way has seen it.
<1>16. ASSUME Environment PROVE Goal
  <2>1. UNCHANGED conn /\ Disturbs
    BY <1>16 DEF Environment, ServerFails, ServerRestarts, ServerElected,
       ServerStepsDown, LinkDrops, World
  <2>2. ctl'[c].pc = ctl[c].pc /\ ctl'[c].call = ctl[c].call /\ ~ctl'[c].calm
    BY <1>0, <2>1 DEF Disturbs, TInv, TypeOK, CtlRecord
  <2> QED
    BY <1>0, <2>1, <2>2
<1>17. CASE UNCHANGED vars
  BY <1>0, <1>17 DEF vars, Searching, NoList, NoMaster, Listed, Live, Open, Peer, Free, Findable
<1> QED
  BY <1>0, <1>2, <1>3, <1>5, <1>6, <1>7, <1>11, <1>12, <1>13, <1>14, <1>15, <1>16, <1>17
  DEF Next, Call, Continue

LEMMA CalmInvariant ==
  ASSUME Documented PROVE Spec => [](TInv /\ OInv /\ FInv /\ CInv)
<1>1. TInv /\ OInv /\ [Next]_vars => OInv'
  BY NextOInv
<1>2. TInv /\ OInv /\ FInv /\ [Next]_vars => FInv'
  BY NextFInv
<1>3. TInv /\ OInv /\ FInv /\ CInv /\ [Next]_vars => CInv'
  BY NextCInv
<1> QED
  BY InitTInv, NextTInv, InitOInv, InitFInv, InitCInv, <1>1, <1>2, <1>3, PTL DEF Spec

\* mongo_replica_set_client and mongo_reconnect find the primary of a set that keeps
\* still, answers, and can be found through the seeds (mongo.c 612-664).
THEOREM CalmSetIsFound ==
  ASSUME Documented PROVE Spec => []CalmFindsPrimary
<1>1. CInv => CalmFindsPrimary
  <2> SUFFICES ASSUME CInv, NEW c \in ReplConns, Returned(c, Connecting),
                      ctl[c].calm, Findable(c), Cardinality(Free) > 0
               PROVE  ctl[c].res = "OK"
    BY DEF CalmFindsPrimary, Connecting
  <2>1. Free # {}
    BY FS_EmptySet
  <2> QED
    BY <2>1 DEF CInv, Searching, Returned, At
<1> QED
  BY <1>1, CalmInvariant, PTL

\* After a walk over a set that kept still an open connection leads to the primary,
\* also when the result of the call is ignored, provided that no node answers with
\* the name of another set: that answer leaves the socket open (mongo.c 589-591).
THEOREM OpenMeansPrimary ==
  ASSUME Documented, RightNames PROVE Spec => []ConnectedToPrimary
<1>1. CInv => ConnectedToPrimary
  BY DEF CInv, Searching, ConnectedToPrimary, Returned, At, Connecting
<1> QED
  BY <1>1, CalmInvariant, PTL

=============================================================================
