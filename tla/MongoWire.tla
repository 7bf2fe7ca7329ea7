------------------------------ MODULE MongoWire ------------------------------
(***************************************************************************)
(* The byte streams of a connection of the C driver and the server at the  *)
(* other end (mongo.c 268-344, env.c 228-264): messages are sent without   *)
(* waiting, replies are read from whatever the stream holds, and           *)
(* responseTo is never compared.                                           *)
(*                                                                         *)
(* A stream is a sequence of whole messages until part of one was sent or  *)
(* read: from then on ("torn", "skewed") its bytes mean anything.  A       *)
(* connection that was replaced goes on existing until the server has read *)
(* what was sent over it.                                                  *)
(***************************************************************************)
EXTENDS Integers, Sequences

CONSTANTS
  Writes,      \* the writes the application makes
  Refused,     \* those the server refuses
  Socks,       \* bound: the sockets opened one after the other, 1, 2, ...
  FaultKinds,  \* the faults that happen
  MaxFaults,   \* bound: faults in a behaviour
  NoWrite

ASSUME WiresAssumption ==
  /\ Refused \subseteq Writes /\ NoWrite \notin Writes
  /\ Socks \subseteq Nat \ {0} /\ 1 \in Socks
ASSUME WireFaultsAssumption ==
  FaultKinds \subseteq {"timeout", "break", "connect"} /\ MaxFaults \in Nat

VARIABLES
  sock,     \* conn->sock, 0 for none
  net,      \* the sockets
  outcome,  \* what the server did with each write
  faults

wire == <<sock, net, outcome, faults>>

\* A write, or a query; "call" tells to which call of the application a query
\* belongs, and is 0 in a reply that is put together from bytes of anything.
Requests == [op : {"write"}, write : Writes]
              \cup [op : {"query", "getlasterror"}, call : Nat]
Replies == [call : Nat, error : BOOLEAN]

Garbage == [call |-> 0, error |-> FALSE]

\* "error" is what the server would say to getlasterror on this connection.
SocketRecord == [opened : BOOLEAN, up : BOOLEAN, req : Seq(Requests), rep : Seq(Replies),
                 torn : BOOLEAN, skewed : BOOLEAN, error : BOOLEAN]

Fresh == [opened |-> TRUE, up |-> TRUE, req |-> <<>>, rep |-> <<>>,
          torn |-> FALSE, skewed |-> FALSE, error |-> FALSE]

WireTypeOK ==
  /\ sock \in Socks \cup {0}
  /\ net \in [Socks -> SocketRecord]
  /\ outcome \in [Writes -> {"none", "done", "failed"}]
  /\ faults \in Nat

WireInit ==
  /\ sock = 1
  /\ net = [s \in Socks |-> [Fresh EXCEPT !.opened = (s = 1), !.up = (s = 1)]]
  /\ outcome = [w \in Writes |-> "none"]
  /\ faults = 0

Fault(kind) == /\ kind \in FaultKinds
               /\ faults < MaxFaults /\ faults' = faults + 1

Up == sock # 0 /\ net[sock].up

-----------------------------------------------------------------------------
(***************************************************************************)
(* The client                                                              *)
(***************************************************************************)

\* mongo_message_send: "ok" says no more than that the kernel took the bytes,
\* "epipe" is the failure that also clears conn->connected.  A send that times
\* out may have sent a part of the message.
Sent == {"ok", "io", "epipe"}

Send(m, r) ==
  /\ \/ /\ r = "ok" /\ Up /\ ~net[sock].torn
        /\ net' = [net EXCEPT ![sock].req = Append(@, m)]
        /\ UNCHANGED faults
     \/ /\ r = "ok" /\ sock # 0 /\ (~Up \/ net[sock].torn)
        /\ UNCHANGED <<net, faults>>
     \/ r = "io" /\ ~Up /\ UNCHANGED <<net, faults>>
     \/ r = "epipe" /\ sock # 0 /\ ~Up /\ UNCHANGED <<net, faults>>
     \/ /\ r = "io" /\ Up /\ Fault("timeout")
        /\ \E part \in BOOLEAN : net' = [net EXCEPT ![sock].torn = @ \/ part]
  /\ UNCHANGED <<sock, outcome>>

\* mongo_read_response returns MONGO_OK with the reply v, or not ("ok"), and
\* sets MONGO_IO_ERROR or not ("io").  It goes on after a header it could not
\* read: the length is then whatever the stack holds, and the call may succeed.
Read(ok, io, v) ==
  /\ \/ /\ ok /\ ~io /\ sock # 0 /\ net[sock].rep # <<>> /\ ~net[sock].skewed
        /\ v = Head(net[sock].rep)
        /\ net' = [net EXCEPT ![sock].rep = Tail(@)]
        /\ UNCHANGED faults
     \/ /\ ~io /\ v = Garbage /\ sock # 0 /\ net[sock].rep # <<>> /\ net[sock].skewed
        /\ \/ UNCHANGED net
           \/ net' = [net EXCEPT ![sock].rep = Tail(@)]
        /\ UNCHANGED faults
     \/ /\ io /\ v = Garbage /\ ~Up /\ (sock = 0 \/ net[sock].rep = <<>>)
        /\ UNCHANGED <<net, faults>>
     \* nothing comes before the timeout: the reply will, later
     \/ /\ ~ok /\ io /\ v = Garbage /\ Up /\ Fault("timeout")
        /\ UNCHANGED net
     \* the timeout expires between two pieces of a reply
     \/ /\ io /\ v = Garbage /\ Up /\ net[sock].rep # <<>> /\ Fault("timeout")
        /\ net' = [net EXCEPT ![sock].skewed = TRUE]
     \* nothing comes, ever
     \/ /\ ~ok /\ io /\ v = Garbage /\ Up /\ "timeout" \in FaultKinds
        /\ net[sock].rep = <<>> /\ net[sock].req = <<>>
        /\ UNCHANGED <<net, faults>>
  /\ UNCHANGED <<sock, outcome>>

\* The end of a socket: of the requests not served n are, m replies are read.
Cut(r, n, m) == [r EXCEPT !.up = FALSE, !.req = SubSeq(@, 1, n), !.rep = SubSeq(@, 1, m)]

\* mongo_disconnect, which does nothing if conn->connected is not set.  What the
\* server has not read when the socket is closed may be lost.
Disconnected(connected, n) ==
  IF connected /\ sock # 0 THEN [net EXCEPT ![sock] = Cut(@, n, 0)] ELSE net

\* Mutant: the failed socket() stays in conn->sock.
RefusedMinusOne(connected, n) ==
  /\ Fault("connect") /\ sock' = -1 /\ net' = Disconnected(connected, n)

\* mongo_env_socket_connect fails.
RefusedConnect(connected, n) ==
  /\ Fault("connect") /\ sock' = 0 /\ net' = Disconnected(connected, n)

\* ... or has a new socket to the same server.
Connect(connected, n) ==
  \E s \in Socks :
    /\ ~net[s].opened /\ \A t \in Socks : t < s => net[t].opened
    /\ sock' = s /\ net' = [Disconnected(connected, n) EXCEPT ![s] = Fresh]
    /\ UNCHANGED faults

-----------------------------------------------------------------------------
(***************************************************************************)
(* The server and the network (external to the driver)                     *)
(***************************************************************************)

\* The first request is served and leaves an error, or none.
Served(r, e) == [r EXCEPT !.req = Tail(@), !.error = e]

ServeWrite(s) ==
  LET w == Head(net[s].req).write
  IN  /\ net[s].req # <<>> /\ Head(net[s].req).op = "write"
      /\ outcome' = [outcome EXCEPT ![w] = IF w \in Refused THEN "failed" ELSE "done"]
      /\ net' = [net EXCEPT ![s] = Served(@, w \in Refused)]
      /\ UNCHANGED <<sock, faults>>

Replied(r, v) == [r EXCEPT !.rep = IF r.up THEN Append(@, v) ELSE @]

\* getlasterror speaks of the operation before it, and leaves it at that; any
\* other query has no error and is the operation before the next one.
ServeQuery(s) ==
  LET m == Head(net[s].req)
      asks == m.op = "getlasterror"
      reply == [call |-> m.call, error |-> asks /\ net[s].error]
  IN  /\ net[s].req # <<>> /\ m.op # "write"
      /\ net' = [net EXCEPT ![s] = Served(Replied(@, reply), asks /\ @.error)]
      /\ UNCHANGED <<sock, outcome, faults>>

\* A server cannot make sense of a torn message.
HangUp(s) ==
  /\ net[s].up /\ net[s].torn /\ net[s].req = <<>>
  /\ \E m \in 0..Len(net[s].rep) : net' = [net EXCEPT ![s] = Cut(@, 0, m)]
  /\ UNCHANGED <<sock, outcome, faults>>

LinkBreaks(s) ==
  /\ net[s].up /\ Fault("break")
  /\ \E n \in 0..Len(net[s].req), m \in 0..Len(net[s].rep) :
       net' = [net EXCEPT ![s] = Cut(@, n, m)]
  /\ UNCHANGED <<sock, outcome>>

World == \E s \in Socks : ServeWrite(s) \/ ServeQuery(s) \/ HangUp(s) \/ LinkBreaks(s)

=============================================================================
