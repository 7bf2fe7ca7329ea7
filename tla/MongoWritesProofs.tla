-------------------------- MODULE MongoWritesProofs --------------------------
(***************************************************************************)
(* Theorems about MongoWrites, for any writes, concerns, inputs, faults    *)
(* and bounds: type correctness, and for an application that reconnects    *)
(* after doubtful calls that replies are its own and AckedWrites is kept.  *)
(***************************************************************************)
EXTENDS MongoWrites, TLAPS

-----------------------------------------------------------------------------
(***************************************************************************)
(* Sequences                                                               *)
(***************************************************************************)

LEMMA TailSeq ==
  ASSUME NEW S, NEW q \in Seq(S), q # <<>>
  PROVE  /\ Tail(q) \in Seq(S) /\ Len(q) \in Nat /\ Len(q) > 0 /\ Len(Tail(q)) = Len(q) - 1
         /\ Head(q) \in S /\ Head(q) = q[1]
         /\ \A i \in 1..(Len(q) - 1) : Tail(q)[i] = q[i + 1]
  OBVIOUS

LEMMA PrefixSeq ==
  ASSUME NEW S, NEW q \in Seq(S), NEW n \in 0..Len(q)
  PROVE  /\ SubSeq(q, 1, n) \in Seq(S) /\ Len(q) \in Nat /\ Len(SubSeq(q, 1, n)) = n
         /\ \A i \in 1..n : SubSeq(q, 1, n)[i] = q[i]
  OBVIOUS

LEMMA AppendSeq ==
  ASSUME NEW S, NEW q \in Seq(S), NEW x \in S
  PROVE  /\ Append(q, x) \in Seq(S) /\ Len(q) \in Nat /\ Len(Append(q, x)) = Len(q) + 1
         /\ Append(q, x)[Len(q) + 1] = x
         /\ \A i \in 1..Len(q) : Append(q, x)[i] = q[i]
  OBVIOUS

LEMMA EmptySeq ==
  ASSUME NEW S
  PROVE  <<>> \in Seq(S) /\ Len(<<>>) = 0 /\ \A q \in Seq(S) : Len(q) = 0 <=> q = <<>>
  OBVIOUS

-----------------------------------------------------------------------------
(***************************************************************************)
(* Sockets                                                                 *)
(***************************************************************************)

\* A socket of which one field was replaced.
LEMMA ReqField ==
  ASSUME NEW r \in SocketRecord, NEW q \in Seq(Requests)
  PROVE  LET s == [r EXCEPT !.req = q]
         IN  /\ s \in SocketRecord /\ s.req = q /\ s.rep = r.rep /\ s.up = r.up
             /\ s.opened = r.opened /\ s.torn = r.torn /\ s.skewed = r.skewed
             /\ s.error = r.error
  BY DEF SocketRecord

LEMMA RepField ==
  ASSUME NEW r \in SocketRecord, NEW q \in Seq(Replies)
  PROVE  LET s == [r EXCEPT !.rep = q]
         IN  /\ s \in SocketRecord /\ s.req = r.req /\ s.rep = q /\ s.up = r.up
             /\ s.opened = r.opened /\ s.torn = r.torn /\ s.skewed = r.skewed
             /\ s.error = r.error
  BY DEF SocketRecord

LEMMA UpField ==
  ASSUME NEW r \in SocketRecord, NEW y \in BOOLEAN
  PROVE  LET s == [r EXCEPT !.up = y]
         IN  /\ s \in SocketRecord /\ s.req = r.req /\ s.rep = r.rep /\ s.up = y
             /\ s.opened = r.opened /\ s.torn = r.torn /\ s.skewed = r.skewed
             /\ s.error = r.error
  BY DEF SocketRecord

LEMMA OpenedField ==
  ASSUME NEW r \in SocketRecord, NEW y \in BOOLEAN
  PROVE  LET s == [r EXCEPT !.opened = y]
         IN  /\ s \in SocketRecord /\ s.req = r.req /\ s.rep = r.rep /\ s.up = r.up
             /\ s.opened = y /\ s.torn = r.torn /\ s.skewed = r.skewed
             /\ s.error = r.error
  BY DEF SocketRecord

LEMMA ErrorField ==
  ASSUME NEW r \in SocketRecord, NEW y \in BOOLEAN
  PROVE  LET s == [r EXCEPT !.error = y]
         IN  /\ s \in SocketRecord /\ s.req = r.req /\ s.rep = r.rep /\ s.up = r.up
             /\ s.opened = r.opened /\ s.torn = r.torn /\ s.skewed = r.skewed
             /\ s.error = y
  BY DEF SocketRecord

LEMMA TornField ==
  ASSUME NEW r \in SocketRecord, NEW y \in BOOLEAN
  PROVE  /\ LET s == [r EXCEPT !.torn = y]
            IN  s \in SocketRecord /\ s.req = r.req
         /\ LET s == [r EXCEPT !.skewed = y]
            IN  s \in SocketRecord /\ s.req = r.req
  BY DEF SocketRecord

LEMMA FreshType ==
  /\ Fresh \in SocketRecord /\ Fresh.req = <<>> /\ Fresh.rep = <<>> /\ Fresh.up
  /\ ~Fresh.torn /\ ~Fresh.skewed /\ ~Fresh.error
  BY DEF Fresh, SocketRecord

LEMMA FreshFields ==
  ASSUME NEW y, y \in BOOLEAN
  PROVE  LET s == [Fresh EXCEPT !.opened = y, !.up = y]
         IN  /\ s \in SocketRecord /\ s.req = <<>> /\ s.rep = <<>> /\ s.up = y
             /\ ~s.torn /\ ~s.skewed /\ ~s.error
<1> DEFINE s1 == [Fresh EXCEPT !.opened = y]
           s2 == [s1 EXCEPT !.up = y]
<1>1. [Fresh EXCEPT !.opened = y, !.up = y] = s2
  BY DEF Fresh
<1>2. /\ s1 \in SocketRecord /\ s1.req = <<>> /\ s1.rep = <<>>
      /\ ~s1.torn /\ ~s1.skewed /\ ~s1.error
  BY FreshType, OpenedField
<1> HIDE DEF s1
<1>3. /\ s2 \in SocketRecord /\ s2.req = <<>> /\ s2.rep = <<>> /\ s2.up = y
      /\ ~s2.torn /\ ~s2.skewed /\ ~s2.error
  BY <1>2, UpField
<1> HIDE DEF s2
<1> QED
  BY <1>1, <1>3

\* The end of a socket.
LEMMA CutFields ==
  ASSUME NEW r \in SocketRecord, NEW n \in 0..Len(r.req), NEW m \in 0..Len(r.rep)
  PROVE  LET s == Cut(r, n, m)
         IN  /\ s \in SocketRecord /\ ~s.up
             /\ s.req = SubSeq(r.req, 1, n) /\ s.rep = SubSeq(r.rep, 1, m)
             /\ s.torn = r.torn /\ s.skewed = r.skewed /\ s.error = r.error
<1> DEFINE y == FALSE  q == SubSeq(r.req, 1, n)  v == SubSeq(r.rep, 1, m)
           s1 == [r EXCEPT !.up = y]
           s2 == [s1 EXCEPT !.req = q]
           s3 == [s2 EXCEPT !.rep = v]
<1>1. y \in BOOLEAN /\ q \in Seq(Requests) /\ v \in Seq(Replies)
  <2>1. r.req \in Seq(Requests) /\ r.rep \in Seq(Replies)
    BY DEF SocketRecord
  <2> QED
    BY <2>1, PrefixSeq
<1>2. ~y
  OBVIOUS
<1>3. Cut(r, n, m) = s3
  BY DEF Cut, SocketRecord
<1> HIDE DEF y, q, v
<1>4. /\ s1 \in SocketRecord /\ s1.up = y /\ s1.torn = r.torn /\ s1.skewed = r.skewed
      /\ s1.error = r.error
  BY <1>1, UpField
<1> HIDE DEF s1
<1>5. /\ s2 \in SocketRecord /\ s2.up = y /\ s2.torn = r.torn /\ s2.skewed = r.skewed
      /\ s2.error = r.error /\ s2.req = q
  BY <1>1, <1>4, ReqField
<1> HIDE DEF s2
<1>6. /\ s3 \in SocketRecord /\ s3.up = y /\ s3.torn = r.torn /\ s3.skewed = r.skewed
      /\ s3.error = r.error /\ s3.req = q /\ s3.rep = v
  BY <1>1, <1>5, RepField
<1> HIDE DEF s3
<1> QED
  BY <1>2, <1>3, <1>6 DEF q, v

\* A request that was served, and its reply.
LEMMA ServedFields ==
  ASSUME NEW r \in SocketRecord, r.req # <<>>, NEW e \in BOOLEAN
  PROVE  LET s == Served(r, e)
         IN  /\ s \in SocketRecord /\ s.req = Tail(r.req) /\ s.rep = r.rep /\ s.up = r.up
             /\ s.torn = r.torn /\ s.skewed = r.skewed /\ s.error = e
<1> DEFINE q == Tail(r.req)
           s1 == [r EXCEPT !.req = q]
           s2 == [s1 EXCEPT !.error = e]
<1>1. q \in Seq(Requests)
  BY TailSeq DEF SocketRecord
<1>2. Served(r, e) = s2
  BY DEF Served, SocketRecord
<1> HIDE DEF q
<1>3. /\ s1 \in SocketRecord /\ s1.req = q /\ s1.rep = r.rep /\ s1.up = r.up
      /\ s1.torn = r.torn /\ s1.skewed = r.skewed
  BY <1>1, ReqField
<1> HIDE DEF s1
<1>4. /\ s2 \in SocketRecord /\ s2.req = q /\ s2.rep = r.rep /\ s2.up = r.up
      /\ s2.torn = r.torn /\ s2.skewed = r.skewed /\ s2.error = e
  BY <1>3, ErrorField
<1> HIDE DEF s2
<1> QED
  BY <1>2, <1>4 DEF q

LEMMA RepliedFields ==
  ASSUME NEW r \in SocketRecord, NEW v \in Replies
  PROVE  LET s == Replied(r, v)
         IN  /\ s \in SocketRecord /\ s.req = r.req /\ s.up = r.up
             /\ s.rep = (IF r.up THEN Append(r.rep, v) ELSE r.rep)
             /\ s.torn = r.torn /\ s.skewed = r.skewed /\ s.error = r.error
<1> DEFINE q == IF r.up THEN Append(r.rep, v) ELSE r.rep
<1>1. q \in Seq(Replies)
  BY AppendSeq DEF SocketRecord
<1>2. Replied(r, v) = [r EXCEPT !.rep = q]
  BY DEF Replied, SocketRecord
<1> HIDE DEF q
<1>3. LET s == [r EXCEPT !.rep = q]
      IN  /\ s \in SocketRecord /\ s.req = r.req /\ s.up = r.up /\ s.rep = q
          /\ s.torn = r.torn /\ s.skewed = r.skewed /\ s.error = r.error
  BY <1>1, RepField
<1> QED
  BY <1>2, <1>3 DEF q

-----------------------------------------------------------------------------
(***************************************************************************)
(* The steps of MongoWire                                                  *)
(***************************************************************************)

LEMMA SockType ==
  ASSUME WireTypeOK, sock # 0 PROVE sock \in Socks /\ net[sock] \in SocketRecord
  BY DEF WireTypeOK

LEMMA QueueTypes ==
  ASSUME NEW r \in SocketRecord
  PROVE  /\ r.req \in Seq(Requests) /\ r.rep \in Seq(Replies)
         /\ r.up \in BOOLEAN /\ r.error \in BOOLEAN /\ r.torn \in BOOLEAN
         /\ r.skewed \in BOOLEAN
  BY DEF SocketRecord

\* One socket is replaced.
LEMMA NetAt ==
  ASSUME WireTypeOK, NEW s \in Socks, NEW x \in SocketRecord, net' = [net EXCEPT ![s] = x]
  PROVE  /\ net' \in [Socks -> SocketRecord] /\ net'[s] = x
         /\ \A t \in Socks : t # s => net'[t] = net[t]
  BY DEF WireTypeOK

LEMMA FaultType == ASSUME WireTypeOK, NEW kind, Fault(kind) PROVE faults' \in Nat
  BY DEF WireTypeOK, Fault

\* What a send does.
Appended(m) == [net[sock] EXCEPT !.req = Append(net[sock].req, m)]

LEMMA SendEffect ==
  ASSUME WireTypeOK, NEW m \in Requests, NEW r, Send(m, r)
  PROVE  /\ sock' = sock /\ outcome' = outcome /\ faults' \in Nat
         /\ \/ net' = net /\ (r = "ok" => sock # 0 /\ (~Up \/ net[sock].torn))
            \/ r = "ok" /\ Up /\ ~net[sock].torn /\ net' = [net EXCEPT ![sock] = Appended(m)]
            \/ /\ r # "ok" /\ Up
               /\ \E y \in BOOLEAN : net' = [net EXCEPT ![sock] = [net[sock] EXCEPT !.torn = y]]
<1>1. sock' = sock /\ outcome' = outcome
  BY DEF Send
<1>2. faults' \in Nat
  BY FaultType DEF Send, WireTypeOK
<1>3. CASE r = "ok" /\ Up /\ ~net[sock].torn /\ net' = [net EXCEPT ![sock].req = Append(@, m)]
  <2>1. net' = [net EXCEPT ![sock] = Appended(m)]
    BY <1>3, SockType DEF Appended, Up, WireTypeOK
  <2> QED
    BY <1>1, <1>2, <1>3, <2>1
<1>4. CASE r = "io" /\ Up /\ \E part \in BOOLEAN : net' = [net EXCEPT ![sock].torn = @ \/ part]
  <2>1. PICK part \in BOOLEAN : net' = [net EXCEPT ![sock].torn = @ \/ part]
    BY <1>4
  <2> DEFINE y == net[sock].torn \/ part
  <2>2. y \in BOOLEAN
    OBVIOUS
  <2>3. net' = [net EXCEPT ![sock] = [net[sock] EXCEPT !.torn = y]]
    BY <2>1, <1>4, SockType DEF Up, WireTypeOK
  <2> HIDE DEF y
  <2> QED
    BY <1>1, <1>2, <1>4, <2>2, <2>3
<1>5. CASE UNCHANGED net /\ (r = "ok" => sock # 0 /\ (~Up \/ net[sock].torn))
  BY <1>1, <1>2, <1>5
<1> QED
  BY <1>3, <1>4, <1>5 DEF Send

\* What a read does.
Rested(y) == [net[sock] EXCEPT !.skewed = y]
Taken == [net[sock] EXCEPT !.rep = Tail(net[sock].rep)]

LEMMA ReadEffect ==
  ASSUME WireTypeOK, NEW ok \in BOOLEAN, NEW io \in BOOLEAN, NEW v, Read(ok, io, v)
  PROVE  /\ sock' = sock /\ outcome' = outcome /\ faults' \in Nat
         /\ \/ /\ ok /\ ~io /\ sock # 0 /\ net[sock].rep # <<>> /\ ~net[sock].skewed
               /\ v = Head(net[sock].rep) /\ net' = [net EXCEPT ![sock] = Taken]
            \/ /\ ~io /\ v = Garbage /\ sock # 0 /\ net[sock].rep # <<>> /\ net[sock].skewed
               /\ net' = net \/ net' = [net EXCEPT ![sock] = Taken]
            \/ /\ io /\ v = Garbage
               /\ \/ net' = net
                  \/ sock # 0 /\ \E y \in BOOLEAN : net' = [net EXCEPT ![sock] = Rested(y)]
<1>1. sock' = sock /\ outcome' = outcome
  BY DEF Read
<1>2. faults' \in Nat
  BY FaultType DEF Read, WireTypeOK
<1>3. sock # 0 => [net EXCEPT ![sock].rep = Tail(@)] = [net EXCEPT ![sock] = Taken]
  BY SockType DEF Taken, WireTypeOK
<1>4. CASE /\ ok /\ ~io /\ sock # 0 /\ net[sock].rep # <<>> /\ ~net[sock].skewed
           /\ v = Head(net[sock].rep) /\ net' = [net EXCEPT ![sock].rep = Tail(@)]
  BY <1>1, <1>2, <1>3, <1>4
<1>5. CASE /\ ~io /\ v = Garbage /\ sock # 0 /\ net[sock].rep # <<>> /\ net[sock].skewed
           /\ UNCHANGED net \/ net' = [net EXCEPT ![sock].rep = Tail(@)]
  BY <1>1, <1>2, <1>3, <1>5
<1>6. CASE io /\ v = Garbage /\ UNCHANGED net
  BY <1>1, <1>2, <1>6
<1>7. CASE io /\ v = Garbage /\ Up /\ net' = [net EXCEPT ![sock].skewed = TRUE]
  <2> DEFINE y == TRUE
  <2>1. y \in BOOLEAN
    OBVIOUS
  <2>2. net' = [net EXCEPT ![sock] = Rested(y)]
    BY <1>7, SockType DEF Up, WireTypeOK, Rested
  <2> HIDE DEF y
  <2> QED
    BY <1>1, <1>2, <1>7, <2>1, <2>2 DEF Up
<1> QED
  BY <1>4, <1>5, <1>6, <1>7 DEF Read

\* The old socket when there is a new one or none.
LEMMA DisconnectedEffect ==
  ASSUME WireTypeOK, NEW connected, NEW n \in 0..(IF sock = 0 THEN 0 ELSE Len(net[sock].req))
  PROVE  /\ Disconnected(connected, n) \in [Socks -> SocketRecord]
         /\ \A s \in Socks :
              \/ Disconnected(connected, n)[s] = net[s]
              \/ s = sock /\ Disconnected(connected, n)[s] = Cut(net[s], n, 0)
<1>1. CASE connected /\ sock # 0
  <2>1. sock \in Socks /\ net[sock] \in SocketRecord
    BY <1>1, SockType
  <2>2. n \in 0..Len(net[sock].req)
    BY <1>1
  <2> DEFINE x == Cut(net[sock], n, 0)  m == 0
  <2>3. m \in 0..Len(net[sock].rep)
    BY <2>1, QueueTypes
  <2>4. Cut(net[sock], n, m) \in SocketRecord
    <3> HIDE DEF m
    <3> QED
      BY <2>1, <2>2, <2>3, CutFields
  <2>5. x \in SocketRecord /\ Disconnected(connected, n) = [net EXCEPT ![sock] = x]
    <3>1. Disconnected(connected, n) = [net EXCEPT ![sock] = x]
      BY <1>1, <2>1 DEF Disconnected, WireTypeOK
    <3> QED
      BY <2>4, <3>1
  <2> QED
    <3> DEFINE d == Disconnected(connected, n)
    <3>1. x = Cut(net[sock], n, 0)
      OBVIOUS
    <3>2. d = [net EXCEPT ![sock] = x] /\ net \in [Socks -> SocketRecord]
      BY <2>5 DEF WireTypeOK
    <3> HIDE DEF x, d
    <3>3. d \in [Socks -> SocketRecord] /\ \A s \in Socks : d[s] = IF s = sock THEN x ELSE net[s]
      BY <2>1, <2>5, <3>2
    <3> QED
      BY <3>1, <3>3 DEF d
<1>2. CASE ~(connected /\ sock # 0)
  BY <1>2 DEF Disconnected, WireTypeOK
<1> QED
  BY <1>1, <1>2

-----------------------------------------------------------------------------
(***************************************************************************)
(* The thread                                                              *)
(***************************************************************************)

\* Where the thread is, with one field replaced.
LEMMA PcField ==
  ASSUME NEW c \in CtlRecord, NEW x \in {"idle", "ask", "wait"}
  PROVE  LET s == [c EXCEPT !.pc = x]
         IN  /\ s \in CtlRecord /\ s.pc = x /\ s.call = c.call /\ s.index = c.index
             /\ s.write = c.write /\ s.acked = c.acked /\ s.n = c.n /\ s.res = c.res
             /\ s.read = c.read /\ s.last = c.last
  BY DEF CtlRecord

LEMMA IndexField ==
  ASSUME NEW c \in CtlRecord, NEW x \in BOOLEAN
  PROVE  LET s == [c EXCEPT !.index = x]
         IN  /\ s \in CtlRecord /\ s.pc = c.pc /\ s.call = c.call /\ s.index = x
             /\ s.write = c.write /\ s.acked = c.acked /\ s.n = c.n /\ s.res = c.res
             /\ s.read = c.read /\ s.last = c.last
  BY DEF CtlRecord

LEMMA AckedField ==
  ASSUME NEW c \in CtlRecord, NEW x \in BOOLEAN
  PROVE  LET s == [c EXCEPT !.acked = x]
         IN  /\ s \in CtlRecord /\ s.pc = c.pc /\ s.call = c.call /\ s.index = c.index
             /\ s.write = c.write /\ s.acked = x /\ s.n = c.n /\ s.res = c.res
             /\ s.read = c.read /\ s.last = c.last
  BY DEF CtlRecord

LEMMA ResField ==
  ASSUME NEW c \in CtlRecord, NEW x \in {"OK", "ERROR"}
  PROVE  LET s == [c EXCEPT !.res = x]
         IN  /\ s \in CtlRecord /\ s.pc = c.pc /\ s.call = c.call /\ s.index = c.index
             /\ s.write = c.write /\ s.acked = c.acked /\ s.n = c.n /\ s.res = x
             /\ s.read = c.read /\ s.last = c.last
  BY DEF CtlRecord

LEMMA ReadField ==
  ASSUME NEW c \in CtlRecord, NEW x \in {"own", "other"}
  PROVE  LET s == [c EXCEPT !.read = x]
         IN  /\ s \in CtlRecord /\ s.pc = c.pc /\ s.call = c.call /\ s.index = c.index
             /\ s.write = c.write /\ s.acked = c.acked /\ s.n = c.n /\ s.res = c.res
             /\ s.read = x /\ s.last = c.last
  BY DEF CtlRecord

LEMMA LastField ==
  ASSUME NEW c \in CtlRecord, NEW x \in Writes \cup {NoWrite}
  PROVE  LET s == [c EXCEPT !.last = x]
         IN  /\ s \in CtlRecord /\ s.pc = c.pc /\ s.call = c.call /\ s.index = c.index
             /\ s.write = c.write /\ s.acked = c.acked /\ s.n = c.n /\ s.res = c.res
             /\ s.read = c.read /\ s.last = x
  BY DEF CtlRecord

LEMMA CallingFields ==
  ASSUME ctl \in CtlRecord, NEW name, name \in Calls
  PROVE  LET s == Calling(name, NoWrite, FALSE)
         IN  /\ s \in CtlRecord /\ s.pc = "idle" /\ s.call = name /\ s.index = FALSE
             /\ s.write = NoWrite /\ s.n = ctl.n + 1 /\ s.read = "none" /\ s.last = ctl.last
<1>1. ctl.n \in Nat /\ ctl.last \in Writes \cup {NoWrite}
  BY DEF CtlRecord
<1> QED
  BY <1>1 DEF Calling, CtlRecord

Known == {"uncalled", "called", "done", "failed", "rejected", "unknown"}

\* The application is told t of the write w, if there is one.
Tells(w, t) == told' = IF w = NoWrite THEN told ELSE [told EXCEPT ![w] = t]

LEMMA TellsType ==
  ASSUME told \in [Writes -> Known], NEW w \in Writes \cup {NoWrite}, NEW t \in Known, Tells(w, t)
  PROVE  /\ told' \in [Writes -> Known]
         /\ w \in Writes => told'[w] = t
         /\ \A v \in Writes : v # w => told'[v] = told[v]
  BY WiresAssumption DEF Tells

LEMMA VerdictType == \A c, res, e : Verdict(c, res, e) \in {"done", "failed", "unknown"}
  BY DEF Verdict

\* The end of a call, or the first half of mongo_create_index.
LEMMA EndsEffect ==
  ASSUME NEW c \in CtlRecord, NEW res \in {"OK", "ERROR"}, NEW e, Ends(c, res, e)
  PROVE  /\ ctl' \in CtlRecord /\ ctl'.call = c.call /\ ctl'.index = FALSE
         /\ ctl'.write = c.write /\ ctl'.acked = c.acked /\ ctl'.n = c.n
         /\ ctl'.read = c.read /\ ctl'.last = c.last
         /\ \/ c.index = TRUE /\ ctl'.pc = "ask" /\ ctl'.res = c.res /\ Tells(c.write, "called")
            \/ /\ c.index = FALSE /\ ctl'.pc = "idle" /\ ctl'.res = res
               /\ Tells(c.write, Verdict(c, res, e))
<1>0. c.index \in BOOLEAN
  BY DEF CtlRecord
<1>1. CASE c.index /\ ctl' = [c EXCEPT !.pc = "ask", !.index = FALSE] /\ Tells(c.write, "called")
  <2> DEFINE y == FALSE  p == "ask"
             s1 == [c EXCEPT !.pc = p]
             s2 == [s1 EXCEPT !.index = y]
  <2>1. y \in BOOLEAN /\ p \in {"idle", "ask", "wait"} /\ ctl' = s2
    BY <1>1
  <2> HIDE DEF y, p
  <2>2. /\ s1 \in CtlRecord /\ s1.pc = p /\ s1.call = c.call /\ s1.write = c.write
        /\ s1.acked = c.acked /\ s1.n = c.n /\ s1.res = c.res /\ s1.read = c.read
        /\ s1.last = c.last
    BY <2>1, PcField
  <2> HIDE DEF s1
  <2>3. /\ s2 \in CtlRecord /\ s2.pc = p /\ s2.call = c.call /\ s2.write = c.write
        /\ s2.acked = c.acked /\ s2.n = c.n /\ s2.res = c.res /\ s2.read = c.read
        /\ s2.last = c.last /\ s2.index = y
    BY <2>1, <2>2, IndexField
  <2> HIDE DEF s2
  <2> QED
    BY <1>0, <1>1, <2>1, <2>3 DEF y, p
<1>2. CASE /\ ~c.index /\ ctl' = [c EXCEPT !.pc = "idle", !.res = res]
           /\ Tells(c.write, Verdict(c, res, e))
  <2> DEFINE p == "idle"
             s1 == [c EXCEPT !.pc = p]
             s2 == [s1 EXCEPT !.res = res]
  <2>1. p \in {"idle", "ask", "wait"} /\ ctl' = s2
    BY <1>2
  <2> HIDE DEF p
  <2>2. /\ s1 \in CtlRecord /\ s1.pc = p /\ s1.call = c.call /\ s1.write = c.write
        /\ s1.acked = c.acked /\ s1.n = c.n /\ s1.index = c.index /\ s1.read = c.read
        /\ s1.last = c.last
    BY <2>1, PcField
  <2> HIDE DEF s1
  <2>3. /\ s2 \in CtlRecord /\ s2.pc = p /\ s2.call = c.call /\ s2.write = c.write
        /\ s2.acked = c.acked /\ s2.n = c.n /\ s2.res = res /\ s2.read = c.read
        /\ s2.last = c.last /\ s2.index = c.index
    BY <2>1, <2>2, ResField
  <2> HIDE DEF s2
  <2> QED
    BY <1>0, <1>2, <2>1, <2>3 DEF p
<1> QED
  BY <1>1, <1>2 DEF Ends, Tells

-----------------------------------------------------------------------------
(***************************************************************************)
(* Types                                                                   *)
(***************************************************************************)

LEMMA InitType == Init => TypeOK
<1> SUFFICES ASSUME Init PROVE TypeOK
  OBVIOUS
<1>1. sock \in Socks /\ faults \in Nat /\ outcome \in [Writes -> {"none", "done", "failed"}]
  BY WiresAssumption DEF Init, WireInit
<1>2. net \in [Socks -> SocketRecord]
  <2>1. ASSUME NEW s \in Socks
        PROVE  [Fresh EXCEPT !.opened = (s = 1), !.up = (s = 1)] \in SocketRecord
    BY FreshFields
  <2> QED
    BY <2>1 DEF Init, WireInit
<1>3. ctl \in CtlRecord
  BY DEF Init, CtlRecord, Calls
<1> QED
  BY <1>1, <1>2, <1>3 DEF Init, TypeOK, WireTypeOK, Errors

ConnTypeOK == conn \in [connected : BOOLEAN, err : Errors, wc : Concerns \cup {Null}]

\* The object after a message was sent, or a call has ended with an error.
LEMMA SendErrEffect ==
  ASSUME ConnTypeOK, NEW r, SendErr(r)
  PROVE  ConnTypeOK' /\ conn'.err = IF r = "ok" THEN "SUCCESS" ELSE "IO_ERROR"
<1> DEFINE e == IF r = "ok" THEN "SUCCESS" ELSE "IO_ERROR"
           y == conn.connected /\ r # "epipe"
           c1 == [conn EXCEPT !.err = e]
<1>1. e \in Errors /\ y \in BOOLEAN
  BY DEF Errors
<1>2. conn' = [c1 EXCEPT !.connected = y]
  BY DEF SendErr, ConnTypeOK
<1> HIDE DEF y
<1>3. conn'.err = e /\ ConnTypeOK'
  <2> HIDE DEF e
  <2>1. c1 \in [connected : BOOLEAN, err : Errors, wc : Concerns \cup {Null}] /\ c1.err = e
    BY <1>1 DEF ConnTypeOK
  <2> HIDE DEF c1
  <2> QED
    BY <1>1, <1>2, <2>1 DEF ConnTypeOK
<1> QED
  BY <1>3

LEMMA SetErrEffect ==
  ASSUME ConnTypeOK, NEW e \in Errors, SetErr(e)
  PROVE  ConnTypeOK' /\ conn'.err = e
  BY DEF SetErr, ConnTypeOK

LEMMA SendType ==
  ASSUME WireTypeOK, NEW m \in Requests, NEW r, Send(m, r)
  PROVE  WireTypeOK'
<1>1. /\ sock' = sock /\ outcome' = outcome /\ faults' \in Nat
      /\ \/ net' = net
         \/ Up /\ net' = [net EXCEPT ![sock] = Appended(m)]
         \/ Up /\ \E y \in BOOLEAN : net' = [net EXCEPT ![sock] = [net[sock] EXCEPT !.torn = y]]
  BY SendEffect
<1>2. CASE net' = net
  BY <1>1, <1>2 DEF WireTypeOK
<1>3. CASE Up /\ net' = [net EXCEPT ![sock] = Appended(m)]
  <2>1. sock \in Socks /\ net[sock] \in SocketRecord
    BY <1>3, SockType DEF Up
  <2>2. Append(net[sock].req, m) \in Seq(Requests)
    BY <2>1, QueueTypes, AppendSeq
  <2>3. Appended(m) \in SocketRecord
    BY <2>1, <2>2, ReqField DEF Appended
  <2>4. net' \in [Socks -> SocketRecord]
    BY <1>3, <2>1, <2>3, NetAt
  <2> QED
    BY <1>1, <2>4 DEF WireTypeOK
<1>4. CASE Up /\ \E y \in BOOLEAN : net' = [net EXCEPT ![sock] = [net[sock] EXCEPT !.torn = y]]
  <2>1. sock \in Socks /\ net[sock] \in SocketRecord
    BY <1>4, SockType DEF Up
  <2>2. PICK y \in BOOLEAN : net' = [net EXCEPT ![sock] = [net[sock] EXCEPT !.torn = y]]
    BY <1>4
  <2>3. [net[sock] EXCEPT !.torn = y] \in SocketRecord
    BY <2>1, TornField
  <2>4. net' \in [Socks -> SocketRecord]
    BY <2>1, <2>2, <2>3, NetAt
  <2> QED
    BY <1>1, <2>4 DEF WireTypeOK
<1> QED
  BY <1>1, <1>2, <1>3, <1>4

LEMMA GarbageType == Garbage \in Replies /\ Garbage.call = 0
  BY DEF Garbage, Replies

LEMMA ReadType ==
  ASSUME WireTypeOK, NEW ok \in BOOLEAN, NEW io \in BOOLEAN, NEW v, Read(ok, io, v)
  PROVE  WireTypeOK' /\ v \in Replies
<1>1. /\ sock' = sock /\ outcome' = outcome /\ faults' \in Nat
      /\ \/ net' = net
         \/ sock # 0 /\ net[sock].rep # <<>> /\ net' = [net EXCEPT ![sock] = Taken]
         \/ sock # 0 /\ \E y \in BOOLEAN : net' = [net EXCEPT ![sock] = Rested(y)]
      /\ \/ v = Garbage
         \/ sock # 0 /\ net[sock].rep # <<>> /\ v = Head(net[sock].rep)
  BY ReadEffect
<1>2. v \in Replies
  <2>1. CASE v = Garbage
    BY <2>1, GarbageType
  <2>2. CASE sock # 0 /\ net[sock].rep # <<>> /\ v = Head(net[sock].rep)
    BY <2>2, SockType, QueueTypes, TailSeq
  <2> QED
    BY <1>1, <2>1, <2>2
<1>3. CASE net' = net
  BY <1>1, <1>2, <1>3 DEF WireTypeOK
<1>4. CASE sock # 0 /\ net[sock].rep # <<>> /\ net' = [net EXCEPT ![sock] = Taken]
  <2>1. sock \in Socks /\ net[sock] \in SocketRecord
    BY <1>4, SockType
  <2>2. Tail(net[sock].rep) \in Seq(Replies)
    BY <1>4, <2>1, QueueTypes, TailSeq
  <2>3. Taken \in SocketRecord
    BY <2>1, <2>2, RepField DEF Taken
  <2>4. net' \in [Socks -> SocketRecord]
    BY <1>4, <2>1, <2>3, NetAt
  <2> QED
    BY <1>1, <1>2, <2>4 DEF WireTypeOK
<1>5. CASE sock # 0 /\ \E y \in BOOLEAN : net' = [net EXCEPT ![sock] = Rested(y)]
  <2>1. sock \in Socks /\ net[sock] \in SocketRecord
    BY <1>5, SockType
  <2>2. PICK y \in BOOLEAN : net' = [net EXCEPT ![sock] = Rested(y)]
    BY <1>5
  <2>3. Rested(y) \in SocketRecord
    BY <2>1, TornField DEF Rested
  <2>4. net' \in [Socks -> SocketRecord]
    BY <2>1, <2>2, <2>3, NetAt
  <2> QED
    BY <1>1, <1>2, <2>4 DEF WireTypeOK
<1> QED
  BY <1>1, <1>3, <1>4, <1>5

LEMMA DialType ==
  ASSUME WireTypeOK, NEW connected, NEW n \in 0..(IF sock = 0 THEN 0 ELSE Len(net[sock].req)),
         RefusedConnect(connected, n) \/ Connect(connected, n), UNCHANGED outcome
  PROVE  WireTypeOK'
<1> DEFINE d == Disconnected(connected, n)
<1>1. d \in [Socks -> SocketRecord]
  BY DisconnectedEffect
<1>2. CASE RefusedConnect(connected, n)
  BY <1>1, <1>2, FaultType DEF RefusedConnect, WireTypeOK
<1>3. CASE Connect(connected, n)
  <2>1. PICK s \in Socks : sock' = s /\ net' = [d EXCEPT ![s] = Fresh] /\ UNCHANGED faults
    BY <1>3 DEF Connect
  <2> HIDE DEF d
  <2>2. net' \in [Socks -> SocketRecord]
    BY <1>1, <2>1, FreshType
  <2> QED
    BY <2>1, <2>2 DEF WireTypeOK
<1> QED
  BY <1>2, <1>3

\* What the server and the network do to a socket.
LEMMA ServeWriteEffect ==
  ASSUME WireTypeOK, NEW s \in Socks, ServeWrite(s)
  PROVE  LET w == Head(net[s].req).write
         IN  /\ sock' = sock /\ faults' = faults
             /\ net[s].req # <<>> /\ Head(net[s].req).op = "write" /\ w \in Writes
             /\ outcome' = [outcome EXCEPT ![w] = IF w \in Refused THEN "failed" ELSE "done"]
             /\ net' = [net EXCEPT ![s] = Served(net[s], w \in Refused)]
<1> DEFINE m == Head(net[s].req)
<1>1. net[s] \in SocketRecord /\ net[s].req # <<>> /\ m.op = "write"
  BY DEF ServeWrite, WireTypeOK
<1>2. m \in Requests
  BY <1>1, QueueTypes, TailSeq
<1>3. m.write \in Writes
  <2> HIDE DEF m
  <2> QED
    BY <1>1, <1>2 DEF Requests
<1>4. net' = [net EXCEPT ![s] = Served(net[s], m.write \in Refused)]
  BY DEF ServeWrite, WireTypeOK
<1> QED
  BY <1>1, <1>3, <1>4 DEF ServeWrite

ServeQueryReply(s) ==
  [call |-> Head(net[s].req).call,
   error |-> Head(net[s].req).op = "getlasterror" /\ net[s].error]

LEMMA ServeQueryEffect ==
  ASSUME WireTypeOK, NEW s \in Socks, ServeQuery(s)
  PROVE  LET v == ServeQueryReply(s)
         IN  /\ sock' = sock /\ faults' = faults /\ outcome' = outcome
             /\ net[s].req # <<>> /\ Head(net[s].req).op # "write"
             /\ v \in Replies /\ v.call = Head(net[s].req).call
             /\ v.error = (Head(net[s].req).op = "getlasterror" /\ net[s].error)
             /\ net' = [net EXCEPT ![s] = Served(Replied(net[s], v), v.error)]
<1> DEFINE m == Head(net[s].req)  v == ServeQueryReply(s)
<1>1. net[s] \in SocketRecord /\ net[s].req # <<>> /\ m.op # "write"
  BY DEF ServeQuery, WireTypeOK
<1>2. m \in Requests
  BY <1>1, QueueTypes, TailSeq
<1>3. m.call \in Nat
  <2> HIDE DEF m
  <2> QED
    BY <1>1, <1>2 DEF Requests
<1>4. v \in Replies /\ v.call = m.call /\ v.error = (m.op = "getlasterror" /\ net[s].error)
  BY <1>3 DEF Replies, ServeQueryReply
<1>5. net' = [net EXCEPT ![s] = Served(Replied(net[s], v), v.error)]
  BY DEF ServeQuery, WireTypeOK, ServeQueryReply
<1> QED
  BY <1>1, <1>4, <1>5 DEF ServeQuery

LEMMA CutEffect ==
  ASSUME WireTypeOK, NEW s \in Socks, HangUp(s) \/ LinkBreaks(s)
  PROVE  /\ sock' = sock /\ faults' \in Nat /\ outcome' = outcome /\ net[s].up
         /\ \E n \in 0..Len(net[s].req), m \in 0..Len(net[s].rep) :
              net' = [net EXCEPT ![s] = Cut(net[s], n, m)]
<1>1. CASE HangUp(s)
  <2>1. PICK m \in 0..Len(net[s].rep) : net' = [net EXCEPT ![s] = Cut(@, 0, m)]
    BY <1>1 DEF HangUp
  <2> DEFINE n == 0
  <2>2. n \in 0..Len(net[s].req)
    BY QueueTypes DEF WireTypeOK
  <2>3. net' = [net EXCEPT ![s] = Cut(net[s], n, m)]
    BY <2>1 DEF WireTypeOK
  <2> HIDE DEF n
  <2> QED
    BY <1>1, <2>2, <2>3 DEF HangUp, WireTypeOK
<1>2. CASE LinkBreaks(s)
  <2>1. PICK n \in 0..Len(net[s].req), m \in 0..Len(net[s].rep) :
          net' = [net EXCEPT ![s] = Cut(@, n, m)]
    BY <1>2 DEF LinkBreaks
  <2>2. net' = [net EXCEPT ![s] = Cut(net[s], n, m)]
    BY <2>1 DEF WireTypeOK
  <2> QED
    BY <1>2, <2>2, FaultType DEF LinkBreaks
<1> QED
  BY <1>1, <1>2

LEMMA WorldOne ==
  ASSUME WireTypeOK, NEW s \in Socks,
         ServeWrite(s) \/ ServeQuery(s) \/ HangUp(s) \/ LinkBreaks(s)
  PROVE  \E x \in SocketRecord : net' = [net EXCEPT ![s] = x]
<1>1. net[s] \in SocketRecord
  BY DEF WireTypeOK
<1>2. CASE ServeWrite(s)
  <2> DEFINE e == Head(net[s].req).write \in Refused
  <2>1. net[s].req # <<>> /\ net' = [net EXCEPT ![s] = Served(net[s], e)] /\ e \in BOOLEAN
    BY <1>2, ServeWriteEffect
  <2> HIDE DEF e
  <2>2. Served(net[s], e) \in SocketRecord
    BY <1>1, <2>1, ServedFields
  <2> QED
    BY <2>1, <2>2
<1>3. CASE ServeQuery(s)
  <2> DEFINE v == ServeQueryReply(s)  r == Replied(net[s], v)  e == v.error
  <2>1. net[s].req # <<>> /\ v \in Replies /\ net' = [net EXCEPT ![s] = Served(r, e)]
    BY <1>3, ServeQueryEffect
  <2> HIDE DEF v
  <2>2. r \in SocketRecord /\ r.req = net[s].req /\ e \in BOOLEAN
    BY <1>1, <2>1, RepliedFields DEF Replies
  <2> HIDE DEF r, e
  <2>3. Served(r, e) \in SocketRecord
    BY <2>1, <2>2, ServedFields
  <2> QED
    BY <2>1, <2>3
<1>4. CASE HangUp(s) \/ LinkBreaks(s)
  <2>1. PICK n \in 0..Len(net[s].req), m \in 0..Len(net[s].rep) :
          net' = [net EXCEPT ![s] = Cut(net[s], n, m)]
    BY <1>4, CutEffect
  <2>2. Cut(net[s], n, m) \in SocketRecord
    BY <1>1, CutFields
  <2> QED
    BY <2>1, <2>2
<1> QED
  BY <1>2, <1>3, <1>4

LEMMA WorldType == ASSUME WireTypeOK, World PROVE WireTypeOK'
<1>1. PICK s \in Socks : ServeWrite(s) \/ ServeQuery(s) \/ HangUp(s) \/ LinkBreaks(s)
  BY DEF World
<1>2. PICK x \in SocketRecord : net' = [net EXCEPT ![s] = x]
  BY <1>1, WorldOne
<1>3. net' \in [Socks -> SocketRecord]
  BY <1>2, NetAt
<1>4. sock' = sock /\ faults' \in Nat
  BY <1>1, ServeWriteEffect, ServeQueryEffect, CutEffect DEF WireTypeOK
<1>5. outcome' \in [Writes -> {"none", "done", "failed"}]
  BY <1>1, ServeWriteEffect, ServeQueryEffect, CutEffect DEF WireTypeOK
<1> QED
  BY <1>3, <1>4, <1>5 DEF WireTypeOK

-----------------------------------------------------------------------------
(***************************************************************************)
(* The calls                                                               *)
(***************************************************************************)

SendError(r) == IF r = "ok" THEN "SUCCESS" ELSE "IO_ERROR"

LEMMA TellsWrite ==
  ASSUME NEW w \in Writes, NEW t, told' = [told EXCEPT ![w] = t] PROVE Tells(w, t)
  BY WiresAssumption DEF Tells

LEMMA Unacknowledged ==
  ASSUME NEW c, c.acked = FALSE PROVE \A res, e : Verdict(c, res, e) = "unknown"
  BY DEF Verdict

\* A write that is sent.
LEMMA SendsEffect ==
  ASSUME ConnTypeOK, NEW w \in Writes, NEW c \in CtlRecord, c.write = w, c.acked = FALSE,
         NEW p, Sends(w, c, p)
  PROVE  \E r \in Sent :
           /\ Send([op |-> "write", write |-> w], r) /\ ConnTypeOK' /\ conn'.err = SendError(r)
           /\ ctl' \in CtlRecord /\ ctl'.call = c.call /\ ctl'.write = w /\ ctl'.n = c.n
           /\ ctl'.read = c.read /\ ctl'.last = w
           /\ \/ /\ r = "ok" /\ ctl'.pc = "ask" /\ ctl'.acked = TRUE /\ ctl'.index = c.index
                 /\ Tells(w, "called")
              \/ c.index = TRUE /\ ctl'.pc = "ask" /\ ctl'.index = FALSE /\ Tells(w, "called")
              \/ /\ c.index = FALSE /\ ctl'.pc = "idle" /\ ctl'.index = FALSE
                 /\ Tells(w, "unknown")
<1>1. PICK r \in Sent :
        /\ Send([op |-> "write", write |-> w], r) /\ SendErr(r)
        /\ \/ /\ r = "ok" /\ p # Null
              /\ ctl' = [c EXCEPT !.pc = "ask", !.acked = TRUE, !.last = w]
              /\ told' = [told EXCEPT ![w] = "called"]
           \/ r = "ok" /\ p = Null /\ Ends([c EXCEPT !.last = w], "OK", "SUCCESS")
           \/ r # "ok" /\ Ends([c EXCEPT !.last = w], "ERROR", "IO_ERROR")
  BY DEF Sends
<1>2. ConnTypeOK' /\ conn'.err = SendError(r)
  BY <1>1, SendErrEffect DEF SendError
<1>3. CASE /\ r = "ok" /\ ctl' = [c EXCEPT !.pc = "ask", !.acked = TRUE, !.last = w]
           /\ told' = [told EXCEPT ![w] = "called"]
  <2> DEFINE y == TRUE  x == "ask"
             s1 == [c EXCEPT !.pc = x]
             s2 == [s1 EXCEPT !.acked = y]
             s3 == [s2 EXCEPT !.last = w]
  <2>1. y \in BOOLEAN /\ x \in {"idle", "ask", "wait"} /\ ctl' = s3 /\ w \in Writes \cup {NoWrite}
    BY <1>3
  <2> HIDE DEF y, x
  <2>2. /\ s1 \in CtlRecord /\ s1.pc = x /\ s1.call = c.call /\ s1.index = c.index
        /\ s1.write = c.write /\ s1.n = c.n /\ s1.read = c.read
    BY <2>1, PcField
  <2> HIDE DEF s1
  <2>3. /\ s2 \in CtlRecord /\ s2.pc = x /\ s2.call = c.call /\ s2.index = c.index
        /\ s2.write = c.write /\ s2.n = c.n /\ s2.read = c.read /\ s2.acked = y
    BY <2>1, <2>2, AckedField
  <2> HIDE DEF s2
  <2>4. /\ s3 \in CtlRecord /\ s3.pc = x /\ s3.call = c.call /\ s3.index = c.index
        /\ s3.write = c.write /\ s3.n = c.n /\ s3.read = c.read /\ s3.acked = y /\ s3.last = w
    BY <2>1, <2>3, LastField
  <2> HIDE DEF s3
  <2>5. Tells(w, "called")
    BY <1>3, TellsWrite
  <2> QED
    BY <1>1, <1>2, <1>3, <2>1, <2>4, <2>5 DEF y, x
<1>4. ASSUME NEW res \in {"OK", "ERROR"}, NEW e, Ends([c EXCEPT !.last = w], res, e)
      PROVE  /\ ctl' \in CtlRecord /\ ctl'.call = c.call /\ ctl'.write = w /\ ctl'.n = c.n
             /\ ctl'.read = c.read /\ ctl'.last = w
             /\ \/ c.index = TRUE /\ ctl'.pc = "ask" /\ ctl'.index = FALSE /\ Tells(w, "called")
                \/ /\ c.index = FALSE /\ ctl'.pc = "idle" /\ ctl'.index = FALSE
                   /\ Tells(w, "unknown")
  <2> DEFINE d == [c EXCEPT !.last = w]
  <2>1. /\ d \in CtlRecord /\ d.call = c.call /\ d.index = c.index /\ d.write = w
        /\ d.acked = FALSE /\ d.n = c.n /\ d.read = c.read /\ d.last = w
    BY LastField
  <2> HIDE DEF d
  <2>2. Verdict(d, res, e) = "unknown"
    BY <2>1, Unacknowledged
  <2>3. Ends(d, res, e)
    BY <1>4 DEF d
  <2> QED
    BY <2>1, <2>2, <2>3, EndsEffect
<1> QED
  BY <1>1, <1>2, <1>3, <1>4

LEMMA RejectsEffect ==
  ASSUME ConnTypeOK, NEW w \in Writes, NEW c \in CtlRecord, NEW e \in Errors, Rejects(w, c, e)
  PROVE  /\ ConnTypeOK' /\ conn'.err = e /\ Tells(w, "rejected")
         /\ sock' = sock /\ net' = net /\ outcome' = outcome /\ faults' = faults
         /\ ctl' \in CtlRecord /\ ctl'.call = c.call /\ ctl'.write = c.write /\ ctl'.n = c.n
         /\ ctl'.read = c.read /\ ctl'.last = c.last /\ ctl'.index = c.index /\ ctl'.pc = "idle"
<1> DEFINE x == "idle"  y == "ERROR"
           s1 == [c EXCEPT !.pc = x]
           s2 == [s1 EXCEPT !.res = y]
<1>1. x \in {"idle", "ask", "wait"} /\ y \in {"OK", "ERROR"} /\ ctl' = s2
  BY DEF Rejects
<1> HIDE DEF x, y
<1>2. /\ s1 \in CtlRecord /\ s1.call = c.call /\ s1.write = c.write /\ s1.n = c.n
      /\ s1.read = c.read /\ s1.last = c.last /\ s1.index = c.index /\ s1.pc = x
  BY <1>1, PcField
<1> HIDE DEF s1
<1>3. /\ s2 \in CtlRecord /\ s2.call = c.call /\ s2.write = c.write /\ s2.n = c.n
      /\ s2.read = c.read /\ s2.last = c.last /\ s2.index = c.index /\ s2.pc = x
  BY <1>1, <1>2, ResField
<1> HIDE DEF s2
<1>4. SetErr(e) /\ told' = [told EXCEPT ![w] = "rejected"]
      /\ sock' = sock /\ net' = net /\ outcome' = outcome /\ faults' = faults
  BY DEF Rejects, wire
<1> QED
  BY <1>1, <1>3, <1>4, SetErrEffect, TellsWrite DEF x

LEMMA Complaints ==
  \A i, inserts : Complaint(i, inserts) \in {"SUCCESS", "NS_INVALID", "BSON_NOT_FINISHED",
                                             "BSON_TOO_LARGE", "BSON_INVALID"}
  BY DEF Complaint

\* What mongo_insert and the others do.
Sending(w) ==
  \E r \in Sent :
    /\ Send([op |-> "write", write |-> w], r) /\ conn'.err = SendError(r) /\ ctl'.last = w
    /\ \/ r = "ok" /\ ctl'.pc = "ask" /\ ctl'.acked = TRUE /\ Tells(w, "called")
       \/ ctl'.pc = "idle" /\ Tells(w, "unknown")

Rejecting(w) ==
  /\ sock' = sock /\ net' = net /\ outcome' = outcome /\ faults' = faults
  /\ conn'.err \notin {"SUCCESS", "IO_ERROR", "COMMAND_FAILED"}
  /\ ctl'.pc = "idle" /\ ctl'.last = ctl.last /\ Tells(w, "rejected")

LEMMA WriteEffect ==
  ASSUME TypeOK, NEW w \in Writes, NEW i, NEW inserts, NEW custom, Write(w, i, inserts, custom)
  PROVE  /\ CanCall /\ told[w] = "uncalled" /\ ConnTypeOK' /\ ctl' \in CtlRecord
         /\ ctl'.call = "write" /\ ctl'.write = w /\ ctl'.n = ctl.n + 1
         /\ ctl'.read = "none" /\ ctl'.index = FALSE
         /\ Rejecting(w) \/ Sending(w)
<1> DEFINE e == Complaint(i, inserts)  p == Chosen(custom)  c == Calling("write", w, FALSE)
<1>1. ConnTypeOK /\ ctl \in CtlRecord
  BY DEF TypeOK, ConnTypeOK
<1>2. /\ c \in CtlRecord /\ c.pc = "idle" /\ c.call = "write" /\ c.index = FALSE
      /\ c.write = w /\ c.acked = FALSE /\ c.n = ctl.n + 1 /\ c.read = "none"
      /\ c.last = ctl.last
  <2>1. ctl.n \in Nat /\ ctl.last \in Writes \cup {NoWrite}
    BY <1>1 DEF CtlRecord
  <2> QED
    BY <2>1 DEF Calling, CtlRecord, Calls
<1>3. /\ CanCall /\ told[w] = "uncalled"
      /\ \/ e # "SUCCESS" /\ Rejects(w, c, e)
         \/ Rejects(w, c, "WRITE_CONCERN_INVALID")
         \/ Sends(w, c, p)
  BY DEF Write
<1>4. e \in {"SUCCESS", "NS_INVALID", "BSON_NOT_FINISHED", "BSON_TOO_LARGE", "BSON_INVALID"}
  BY Complaints
<1> HIDE DEF e, p, c
<1>5. ASSUME NEW x \in Errors, x \notin {"SUCCESS", "IO_ERROR", "COMMAND_FAILED"}, Rejects(w, c, x)
      PROVE  /\ ConnTypeOK' /\ ctl' \in CtlRecord
             /\ ctl'.call = "write" /\ ctl'.write = w /\ ctl'.n = ctl.n + 1
             /\ ctl'.read = "none" /\ ctl'.index = FALSE /\ Rejecting(w)
  BY <1>1, <1>2, <1>5, RejectsEffect DEF Rejecting
<1>6. CASE e # "SUCCESS" /\ Rejects(w, c, e)
  BY <1>3, <1>4, <1>5, <1>6 DEF Errors
<1>7. CASE Rejects(w, c, "WRITE_CONCERN_INVALID")
  <2> DEFINE x == "WRITE_CONCERN_INVALID"
  <2>1. x \in Errors /\ x \notin {"SUCCESS", "IO_ERROR", "COMMAND_FAILED"} /\ Rejects(w, c, x)
    BY <1>7 DEF Errors
  <2> HIDE DEF x
  <2> QED
    BY <1>3, <1>5, <2>1
<1>8. CASE Sends(w, c, p)
  <2>1. PICK r \in Sent :
           /\ Send([op |-> "write", write |-> w], r) /\ ConnTypeOK' /\ conn'.err = SendError(r)
           /\ ctl' \in CtlRecord /\ ctl'.call = c.call /\ ctl'.write = w /\ ctl'.n = c.n
           /\ ctl'.read = c.read /\ ctl'.last = w
           /\ \/ /\ r = "ok" /\ ctl'.pc = "ask" /\ ctl'.acked = TRUE /\ ctl'.index = c.index
                 /\ Tells(w, "called")
              \/ c.index = TRUE /\ ctl'.pc = "ask" /\ ctl'.index = FALSE /\ Tells(w, "called")
              \/ /\ c.index = FALSE /\ ctl'.pc = "idle" /\ ctl'.index = FALSE
                 /\ Tells(w, "unknown")
    BY <1>1, <1>2, <1>8, SendsEffect
  <2> QED
    BY <1>2, <1>3, <2>1 DEF Sending
<1> QED
  BY <1>3, <1>6, <1>7, <1>8

LEMMA CreateIndexEffect ==
  ASSUME TypeOK, NEW w \in Writes, NEW i, CreateIndex(w, i)
  PROVE  /\ CanCall /\ told[w] = "uncalled" /\ ConnTypeOK' /\ ctl' \in CtlRecord
         /\ ctl'.call = "createIndex" /\ ctl'.write = w /\ ctl'.n = ctl.n + 1
         /\ ctl'.pc = "ask" /\ Tells(w, "called")
         /\ \/ sock' = sock /\ net' = net /\ outcome' = outcome /\ faults' = faults
            \/ \E r \in Sent : Send([op |-> "write", write |-> w], r)
<1> DEFINE e == IF Complaint(i, TRUE) # "SUCCESS" THEN Complaint(i, TRUE)
                ELSE IF Unusable(Chosen(Null)) THEN "WRITE_CONCERN_INVALID" ELSE "SUCCESS"
           p == Chosen(Null)  c == Calling("createIndex", w, TRUE)
<1>1. ConnTypeOK /\ ctl \in CtlRecord
  BY DEF TypeOK, ConnTypeOK
<1>2. /\ c \in CtlRecord /\ c.pc = "idle" /\ c.call = "createIndex" /\ c.index = TRUE
      /\ c.write = w /\ c.acked = FALSE /\ c.n = ctl.n + 1
  <2>1. ctl.n \in Nat /\ ctl.last \in Writes \cup {NoWrite}
    BY <1>1 DEF CtlRecord
  <2> QED
    BY <2>1 DEF Calling, CtlRecord, Calls
<1>3. /\ CanCall /\ told[w] = "uncalled"
      /\ \/ SetErr(e) /\ Ends(c, "ERROR", e) /\ UNCHANGED wire
         \/ Sends(w, c, p)
  BY DEF CreateIndex
<1>e. e \in Errors
  BY Complaints DEF Errors
<1> HIDE DEF e, p, c
<1>4. CASE SetErr(e) /\ Ends(c, "ERROR", e) /\ UNCHANGED wire
  <2> DEFINE x == "ERROR"
  <2>1. x \in {"OK", "ERROR"} /\ SetErr(e) /\ Ends(c, x, e)
    BY <1>4
  <2>2. sock' = sock /\ net' = net /\ outcome' = outcome /\ faults' = faults
    BY <1>4 DEF wire
  <2> HIDE DEF x
  <2>3. ConnTypeOK'
    BY <1>1, <1>e, <2>1, SetErrEffect
  <2>4. /\ ctl' \in CtlRecord /\ ctl'.call = c.call /\ ctl'.write = c.write /\ ctl'.n = c.n
        /\ \/ c.index = TRUE /\ ctl'.pc = "ask" /\ ctl'.res = c.res /\ Tells(c.write, "called")
           \/ c.index = FALSE
    BY <1>2, <1>e, <2>1, EndsEffect
  <2> QED
    BY <1>2, <1>3, <2>2, <2>3, <2>4
<1>5. CASE Sends(w, c, p)
  <2>1. PICK r \in Sent :
           /\ Send([op |-> "write", write |-> w], r) /\ ConnTypeOK' /\ conn'.err = SendError(r)
           /\ ctl' \in CtlRecord /\ ctl'.call = c.call /\ ctl'.write = w /\ ctl'.n = c.n
           /\ ctl'.read = c.read /\ ctl'.last = w
           /\ \/ /\ r = "ok" /\ ctl'.pc = "ask" /\ ctl'.acked = TRUE /\ ctl'.index = c.index
                 /\ Tells(w, "called")
              \/ c.index = TRUE /\ ctl'.pc = "ask" /\ ctl'.index = FALSE /\ Tells(w, "called")
              \/ /\ c.index = FALSE /\ ctl'.pc = "idle" /\ ctl'.index = FALSE
                 /\ Tells(w, "unknown")
    BY <1>1, <1>2, <1>5, SendsEffect
  <2> QED
    BY <1>2, <1>3, <2>1
<1> QED
  BY <1>3, <1>4, <1>5

\* mongo_cmd_get_last_error and mongo_find_one begin.
LEMMA AskingEffect ==
  ASSUME TypeOK, GetLastError \/ FindOne
  PROVE  /\ CanCall /\ ctl' \in CtlRecord /\ ctl'.call \in {"getLastError", "findOne"}
         /\ ctl'.write = NoWrite /\ ctl'.n = ctl.n + 1 /\ ctl'.read = "none"
         /\ ctl'.pc = "ask" /\ ctl'.index = FALSE /\ ctl'.last = ctl.last
         /\ sock' = sock /\ net' = net /\ outcome' = outcome /\ faults' = faults
         /\ conn' = conn /\ told' = told
<1>1. ctl.n \in Nat /\ ctl.last \in Writes \cup {NoWrite}
  BY DEF TypeOK, CtlRecord
<1>2. PICK name \in {"getLastError", "findOne"} :
        CanCall /\ ctl' = [Calling(name, NoWrite, FALSE) EXCEPT !.pc = "ask"]
  BY DEF GetLastError, FindOne
<1>3. /\ ctl' \in CtlRecord /\ ctl'.call = name /\ ctl'.write = NoWrite
      /\ ctl'.n = ctl.n + 1 /\ ctl'.read = "none" /\ ctl'.pc = "ask" /\ ctl'.index = FALSE
      /\ ctl'.last = ctl.last
  <2> DEFINE c == Calling(name, NoWrite, FALSE)  x == "ask"
  <2>1. name \in Calls /\ ctl \in CtlRecord /\ x \in {"idle", "ask", "wait"}
        /\ ctl' = [c EXCEPT !.pc = x]
    BY <1>2 DEF Calls, TypeOK
  <2>2. /\ c \in CtlRecord /\ c.call = name /\ c.index = FALSE
        /\ c.write = NoWrite /\ c.n = ctl.n + 1 /\ c.read = "none" /\ c.last = ctl.last
    BY <2>1, CallingFields
  <2> HIDE DEF c, x
  <2>3. /\ ctl' \in CtlRecord /\ ctl'.call = c.call /\ ctl'.index = c.index
        /\ ctl'.write = c.write /\ ctl'.n = c.n /\ ctl'.read = c.read /\ ctl'.last = c.last
        /\ ctl'.pc = x
    BY <2>1, <2>2, PcField
  <2> QED
    BY <2>2, <2>3 DEF x
<1> QED
  BY <1>2, <1>3 DEF GetLastError, FindOne, wire

LEMMA SetWriteConcernEffect ==
  ASSUME TypeOK, NEW p \in Concerns \cup {Null}, SetWriteConcern(p)
  PROVE  /\ CanCall /\ ctl' \in CtlRecord /\ ctl'.call = "setWriteConcern"
         /\ ctl'.write = NoWrite /\ ctl'.n = ctl.n + 1 /\ ctl'.read = "none"
         /\ ctl'.pc = "idle" /\ ctl'.index = FALSE /\ ctl'.last = ctl.last
         /\ sock' = sock /\ net' = net /\ outcome' = outcome /\ faults' = faults
         /\ ConnTypeOK' /\ conn'.err = conn.err /\ told' = told
<1>1. ctl.n \in Nat /\ ctl.last \in Writes \cup {NoWrite}
  BY DEF TypeOK, CtlRecord
<1>2. ctl' = [Calling("setWriteConcern", NoWrite, FALSE) EXCEPT !.res = "OK"]
  BY DEF SetWriteConcern
<1>3. /\ ctl' \in CtlRecord /\ ctl'.call = "setWriteConcern" /\ ctl'.write = NoWrite
      /\ ctl'.n = ctl.n + 1 /\ ctl'.read = "none" /\ ctl'.pc = "idle" /\ ctl'.index = FALSE
      /\ ctl'.last = ctl.last
  <2> DEFINE name == "setWriteConcern"  c == Calling(name, NoWrite, FALSE)  x == "OK"
  <2>1. name \in Calls /\ ctl \in CtlRecord /\ x \in {"OK", "ERROR"}
        /\ ctl' = [c EXCEPT !.res = x]
    BY <1>2 DEF Calls, TypeOK
  <2> HIDE DEF name, x
  <2>2. /\ c \in CtlRecord /\ c.call = name /\ c.index = FALSE /\ c.pc = "idle"
        /\ c.write = NoWrite /\ c.n = ctl.n + 1 /\ c.read = "none" /\ c.last = ctl.last
    BY <2>1, CallingFields
  <2> HIDE DEF c
  <2>3. /\ ctl' \in CtlRecord /\ ctl'.call = c.call /\ ctl'.index = c.index
        /\ ctl'.write = c.write /\ ctl'.n = c.n /\ ctl'.read = c.read /\ ctl'.last = c.last
        /\ ctl'.pc = c.pc
    BY <2>1, <2>2, ResField
  <2> QED
    BY <2>2, <2>3 DEF name
<1>4. ConnTypeOK' /\ conn'.err = conn.err
  BY DEF SetWriteConcern, TypeOK, ConnTypeOK
<1> QED
  BY <1>3, <1>4 DEF SetWriteConcern, wire

\* mongo_reconnect.
LEMMA ReconnectEffect ==
  ASSUME TypeOK, Reconnect
  PROVE  /\ ctl.pc = "idle" /\ ctl' \in CtlRecord /\ ctl'.call = "reconnect"
         /\ ctl'.write = NoWrite /\ ctl'.n = ctl.n + 1 /\ ctl'.read = "none"
         /\ ctl'.pc = "idle" /\ ctl'.index = FALSE /\ ctl'.last = NoWrite
         /\ outcome' = outcome /\ told' = told /\ ConnTypeOK'
         /\ \E n \in 0..(IF sock = 0 THEN 0 ELSE Len(net[sock].req)) :
              Connect(conn.connected, n) \/ RefusedConnect(conn.connected, n)
<1> DEFINE c == [Calling("reconnect", NoWrite, FALSE) EXCEPT !.last = NoWrite]
<1>1. ctl.n \in Nat
  BY DEF TypeOK, CtlRecord
<1>2. /\ c \in CtlRecord /\ c.pc = "idle" /\ c.call = "reconnect" /\ c.index = FALSE
      /\ c.write = NoWrite /\ c.n = ctl.n + 1 /\ c.read = "none" /\ c.last = NoWrite
  <2> DEFINE name == "reconnect"  d == Calling(name, NoWrite, FALSE)
  <2>1. name \in Calls /\ ctl \in CtlRecord /\ c = [d EXCEPT !.last = NoWrite]
    BY DEF Calls, TypeOK
  <2> HIDE DEF name, c
  <2>2. /\ d \in CtlRecord /\ d.call = name /\ d.index = FALSE /\ d.pc = "idle"
        /\ d.write = NoWrite /\ d.n = ctl.n + 1 /\ d.read = "none"
    BY <2>1, CallingFields
  <2> HIDE DEF d
  <2>3. /\ c \in CtlRecord /\ c.call = d.call /\ c.index = d.index /\ c.pc = d.pc
        /\ c.write = d.write /\ c.n = d.n /\ c.read = d.read /\ c.last = NoWrite
    BY <2>1, <2>2, LastField
  <2> QED
    BY <2>2, <2>3 DEF name
<1>3. /\ ctl.pc = "idle" /\ outcome' = outcome /\ told' = told
      /\ \E n \in 0..(IF sock = 0 THEN 0 ELSE Len(net[sock].req)) :
           \/ /\ Connect(conn.connected, n)
              /\ conn' = [conn EXCEPT !.connected = TRUE]
              /\ ctl' = [c EXCEPT !.res = "OK"]
           \/ /\ RefusedConnect(conn.connected, n)
              /\ conn' = [conn EXCEPT !.connected = FALSE, !.err = "CONN_FAIL"]
              /\ ctl' = [c EXCEPT !.res = "ERROR"]
  BY DEF Reconnect
<1> HIDE DEF c
<1>4. PICK x \in {"OK", "ERROR"} : ctl' = [c EXCEPT !.res = x]
  BY <1>3
<1>5. /\ ctl' \in CtlRecord /\ ctl'.call = "reconnect" /\ ctl'.write = NoWrite
      /\ ctl'.n = ctl.n + 1 /\ ctl'.read = "none" /\ ctl'.pc = "idle" /\ ctl'.index = FALSE
      /\ ctl'.last = NoWrite
  BY <1>2, <1>4, ResField
<1>6. ConnTypeOK'
  <2>1. ConnTypeOK
    BY DEF TypeOK, ConnTypeOK
  <2>2. CASE conn' = [conn EXCEPT !.connected = TRUE]
    <3> DEFINE y == TRUE
    <3>1. y \in BOOLEAN /\ conn' = [conn EXCEPT !.connected = y]
      BY <2>2
    <3> HIDE DEF y
    <3> QED
      BY <2>1, <3>1 DEF ConnTypeOK
  <2>3. CASE conn' = [conn EXCEPT !.connected = FALSE, !.err = "CONN_FAIL"]
    <3> DEFINE y == FALSE  c1 == [conn EXCEPT !.connected = y]  e == "CONN_FAIL"
    <3>1. y \in BOOLEAN /\ conn' = [c1 EXCEPT !.err = e] /\ e \in Errors
      BY <2>3 DEF Errors
    <3> HIDE DEF y, e
    <3>2. c1 \in [connected : BOOLEAN, err : Errors, wc : Concerns \cup {Null}]
      BY <2>1, <3>1 DEF ConnTypeOK
    <3> HIDE DEF c1
    <3> QED
      BY <3>1, <3>2 DEF ConnTypeOK
  <2> QED
    BY <1>3, <2>2, <2>3
<1> QED
  BY <1>3, <1>5, <1>6

-----------------------------------------------------------------------------
(***************************************************************************)
(* mongo_find_one                                                          *)
(***************************************************************************)

LEMMA TagType ==
  ASSUME ctl \in CtlRecord
  PROVE  /\ Tag \in Nat /\ (ctl.n > 0 => Tag # 0)
         /\ (ctl.index = FALSE => Tag = 2 * ctl.n + 1)
<1>1. ctl.n \in Nat /\ ctl.index \in BOOLEAN
  BY DEF CtlRecord
<1> QED
  BY <1>1 DEF Tag

LEMMA NoReplyType == NoReply \in {"OK", "ERROR"}
  BY DEF NoReply

Question == [op |-> IF ctl.call = "findOne" THEN "query" ELSE "getlasterror", call |-> Tag]

LEMMA QuestionType ==
  ASSUME ctl \in CtlRecord
  PROVE  /\ Question \in Requests /\ Question.op # "write" /\ Question.call = Tag
         /\ Question.op = IF ctl.call = "findOne" THEN "query" ELSE "getlasterror"
<1>1. Tag \in Nat
  BY TagType
<1> QED
  BY <1>1 DEF Question, Requests

LEMMA AskEffect ==
  ASSUME TypeOK, Ask
  PROVE  /\ ctl.pc = "ask" /\ ConnTypeOK' /\ ctl' \in CtlRecord
         /\ ctl'.call = ctl.call /\ ctl'.write = ctl.write /\ ctl'.n = ctl.n
         /\ ctl'.read = ctl.read
         /\ \E r \in Sent :
              /\ Send(Question, r) /\ conn'.err = SendError(r)
              /\ \/ /\ r = "ok" /\ told' = told /\ ctl'.pc = "wait" /\ ctl'.index = ctl.index
                    /\ ctl'.acked = ctl.acked
                    /\ ctl'.last = IF ctl.call = "findOne" THEN NoWrite ELSE ctl.last
                 \/ /\ r # "ok" /\ ctl'.index = FALSE /\ ctl'.last = ctl.last
                    /\ ctl'.acked = ctl.acked
                    /\ \/ ctl.index = TRUE /\ ctl'.pc = "ask" /\ Tells(ctl.write, "called")
                       \/ /\ ctl.index = FALSE /\ ctl'.pc = "idle" /\ ctl'.res = NoReply
                          /\ Tells(ctl.write, "unknown")
<1> DEFINE op == IF ctl.call = "findOne" THEN "query" ELSE "getlasterror"
           last == IF op = "query" THEN NoWrite ELSE ctl.last
           x == "wait"
           s1 == [ctl EXCEPT !.pc = x]
           s2 == [s1 EXCEPT !.last = last]
<1>1. ConnTypeOK /\ ctl \in CtlRecord /\ x \in {"idle", "ask", "wait"}
  BY DEF TypeOK, ConnTypeOK
<1>2. last \in Writes \cup {NoWrite} /\ last = IF ctl.call = "findOne" THEN NoWrite ELSE ctl.last
  BY <1>1 DEF CtlRecord
<1>3. PICK r \in Sent :
        /\ Send(Question, r) /\ SendErr(r)
        /\ \/ r = "ok" /\ told' = told /\ ctl' = s2
           \/ r # "ok" /\ Ends(ctl, NoReply, "IO_ERROR")
  BY DEF Ask, Question
<1>4. ctl.pc = "ask"
  BY DEF Ask
<1>5. ConnTypeOK' /\ conn'.err = SendError(r)
  BY <1>1, <1>3, SendErrEffect DEF SendError
<1> HIDE DEF x, last
<1>6. /\ s1 \in CtlRecord /\ s1.pc = x /\ s1.call = ctl.call /\ s1.index = ctl.index
      /\ s1.write = ctl.write /\ s1.acked = ctl.acked /\ s1.n = ctl.n /\ s1.read = ctl.read
  BY <1>1, PcField
<1> HIDE DEF s1
<1>7. /\ s2 \in CtlRecord /\ s2.pc = x /\ s2.call = ctl.call /\ s2.index = ctl.index
      /\ s2.write = ctl.write /\ s2.acked = ctl.acked /\ s2.n = ctl.n /\ s2.read = ctl.read
      /\ s2.last = last
  BY <1>2, <1>6, LastField
<1> HIDE DEF s2
<1>8. CASE r = "ok" /\ told' = told /\ ctl' = s2
  BY <1>2, <1>3, <1>4, <1>5, <1>7, <1>8 DEF x
<1>9. CASE r # "ok" /\ Ends(ctl, NoReply, "IO_ERROR")
  <2> DEFINE e == "IO_ERROR"
  <2>1. /\ ctl' \in CtlRecord /\ ctl'.call = ctl.call /\ ctl'.index = FALSE
        /\ ctl'.write = ctl.write /\ ctl'.acked = ctl.acked /\ ctl'.n = ctl.n
        /\ ctl'.read = ctl.read /\ ctl'.last = ctl.last
        /\ \/ ctl.index = TRUE /\ ctl'.pc = "ask" /\ Tells(ctl.write, "called")
           \/ /\ ctl.index = FALSE /\ ctl'.pc = "idle" /\ ctl'.res = NoReply
              /\ Tells(ctl.write, Verdict(ctl, NoReply, e))
    <3>1. Ends(ctl, NoReply, e)
      BY <1>9
    <3> HIDE DEF e
    <3> QED
      BY <1>1, <3>1, NoReplyType, EndsEffect
  <2>2. Verdict(ctl, NoReply, e) = "unknown"
    BY DEF Verdict
  <2> HIDE DEF e
  <2> QED
    BY <1>3, <1>4, <1>5, <1>9, <2>1, <2>2
<1> QED
  BY <1>3, <1>8, <1>9

\* How a call ends that read the reply v.
LEMMA EndingValues ==
  ASSUME NEW v, NEW e, NEW end, end \in Ending(v, e)
  PROVE  /\ end[1] \in {"OK", "ERROR"}
         /\ end[2] \in {e, "WRITE_ERROR", "COMMAND_FAILED"}
         /\ v = Garbage => end[2] \in {e, "COMMAND_FAILED"}
         /\ v = Garbage => IF NoReply = "OK" THEN end[1] = "OK" ELSE end[2] = e
         /\ v # Garbage =>
              /\ end[1] = IF v.error /\ (Checks \/ ctl.call # "findOne") THEN "ERROR" ELSE "OK"
              /\ end[2] = IF v.error /\ Checks THEN "WRITE_ERROR" ELSE e
  BY NoReplyType DEF Ending, Checked, LastError

\* It reads v, and returns res with the error e.
Answering(ok, io, v, res, e) ==
  /\ Read(ok, io, v) /\ conn'.err = e
  /\ ctl'.read = IF v.call = Tag THEN "own" ELSE "other"
  /\ \/ ctl.index = TRUE /\ ctl'.pc = "ask" /\ Tells(ctl.write, "called")
     \/ /\ ctl.index = FALSE /\ ctl'.pc = "idle" /\ ctl'.res = res
        /\ Tells(ctl.write, Verdict(ctl, res, e))
  /\ io => e \in {"IO_ERROR", "COMMAND_FAILED"} \/ v # Garbage
  /\ io /\ v = Garbage => IF NoReply = "OK" THEN res = "OK" ELSE e = "IO_ERROR"
  /\ ok /\ ~io /\ v # Garbage =>
       /\ res = IF v.error /\ (Checks \/ ctl.call # "findOne") THEN "ERROR" ELSE "OK"
       /\ e = IF v.error /\ Checks THEN "WRITE_ERROR" ELSE conn.err

LEMMA AnswerEffect ==
  ASSUME TypeOK, Answer
  PROVE  /\ ctl.pc = "wait" /\ ConnTypeOK' /\ ctl' \in CtlRecord
         /\ ctl'.call = ctl.call /\ ctl'.write = ctl.write /\ ctl'.n = ctl.n
         /\ ctl'.acked = ctl.acked /\ ctl'.last = ctl.last /\ ctl'.index = FALSE
         /\ \E ok, io \in BOOLEAN, v \in Replies, res \in {"OK", "ERROR"}, e \in Errors :
              Answering(ok, io, v, res, e)
<1>1. ConnTypeOK /\ ctl \in CtlRecord /\ WireTypeOK
  BY DEF TypeOK, ConnTypeOK
<1>2. PICK ok \in BOOLEAN, io \in BOOLEAN,
           v \in {Garbage} \cup (IF sock = 0 THEN {} ELSE Range(net[sock].rep)) :
        LET c == [ctl EXCEPT !.read = IF v.call = Tag THEN "own" ELSE "other"]
            ends == IF ok THEN Ending(v, ReadErr(io)) ELSE {<<NoReply, ReadErr(io)>>}
        IN  /\ Read(ok, io, v)
            /\ \E end \in ends : SetErr(end[2]) /\ Ends(c, end[1], end[2])
  BY DEF Answer
<1> DEFINE x == IF v.call = Tag THEN "own" ELSE "other"
           c == [ctl EXCEPT !.read = x]
           er == ReadErr(io)
           ends == IF ok THEN Ending(v, er) ELSE {<<NoReply, er>>}
<1>3. PICK end \in ends : SetErr(end[2]) /\ Ends(c, end[1], end[2])
  BY <1>2
<1>4. Read(ok, io, v) /\ v \in Replies
  BY <1>1, <1>2, ReadType
<1>5. er \in Errors /\ er = IF io THEN "IO_ERROR" ELSE conn.err
  BY <1>1 DEF ReadErr, Errors, ConnTypeOK
<1>6. x \in {"own", "other"}
  OBVIOUS
<1> DEFINE res == end[1]  e == end[2]
<1>7. /\ res \in {"OK", "ERROR"} /\ e \in Errors
      /\ io => e \in {"IO_ERROR", "COMMAND_FAILED"} \/ v # Garbage
      /\ io /\ v = Garbage => IF NoReply = "OK" THEN res = "OK" ELSE e = "IO_ERROR"
      /\ ok /\ ~io /\ v # Garbage =>
           /\ res = IF v.error /\ (Checks \/ ctl.call # "findOne") THEN "ERROR" ELSE "OK"
           /\ e = IF v.error /\ Checks THEN "WRITE_ERROR" ELSE conn.err
  <2>1. CASE ok
    <3>1. end \in Ending(v, er)
      BY <1>3, <2>1
    <3>2. "WRITE_ERROR" \in Errors /\ "COMMAND_FAILED" \in Errors
      BY DEF Errors
    <3> HIDE DEF er
    <3> QED
      BY <1>5, <3>1, <3>2, EndingValues
  <2>2. CASE ~ok
    <3>1. end = <<NoReply, er>>
      BY <1>3, <2>2
    <3> HIDE DEF er
    <3> QED
      BY <1>5, <2>2, <3>1, NoReplyType
  <2> QED
    BY <2>1, <2>2
<1>8. SetErr(e) /\ Ends(c, res, e)
  BY <1>3
<1> HIDE DEF x, res, e, er, ends
<1>9. ConnTypeOK' /\ conn'.err = e
  BY <1>1, <1>7, <1>8, SetErrEffect
<1>10. /\ c \in CtlRecord /\ c.call = ctl.call /\ c.index = ctl.index /\ c.write = ctl.write
       /\ c.acked = ctl.acked /\ c.n = ctl.n /\ c.read = x /\ c.last = ctl.last
  BY <1>1, <1>6, ReadField
<1>11. Verdict(c, res, e) = Verdict(ctl, res, e)
  BY <1>10 DEF Verdict
<1> HIDE DEF c
<1>12. /\ ctl' \in CtlRecord /\ ctl'.call = c.call /\ ctl'.index = FALSE
       /\ ctl'.write = c.write /\ ctl'.acked = c.acked /\ ctl'.n = c.n
       /\ ctl'.read = c.read /\ ctl'.last = c.last
       /\ \/ c.index = TRUE /\ ctl'.pc = "ask" /\ Tells(c.write, "called")
          \/ /\ c.index = FALSE /\ ctl'.pc = "idle" /\ ctl'.res = res
             /\ Tells(c.write, Verdict(c, res, e))
  BY <1>7, <1>8, <1>10, EndsEffect
<1>13. ctl.pc = "wait"
  BY DEF Answer
<1> QED
  <2>1. Answering(ok, io, v, res, e)
    BY <1>4, <1>7, <1>9, <1>10, <1>11, <1>12 DEF x, Answering
  <2> QED
    BY <1>4, <1>7, <1>9, <1>10, <1>12, <1>13, <2>1

-----------------------------------------------------------------------------
(***************************************************************************)
(* Type correctness                                                        *)
(***************************************************************************)

ToldTypeOK == told \in [Writes -> Known]

LEMMA TypeParts ==
  /\ TypeOK <=> WireTypeOK /\ ConnTypeOK /\ ctl \in CtlRecord /\ ToldTypeOK
  /\ (TypeOK <=> WireTypeOK /\ ConnTypeOK /\ ctl \in CtlRecord /\ ToldTypeOK)'
  BY DEF TypeOK, ConnTypeOK, ToldTypeOK, Known

LEMMA ToldType ==
  ASSUME ToldTypeOK, NEW w \in Writes \cup {NoWrite}, NEW t \in Known, Tells(w, t)
  PROVE  ToldTypeOK'
  BY TellsType DEF ToldTypeOK

LEMMA WireSame ==
  ASSUME WireTypeOK, sock' = sock, net' = net, outcome' = outcome, faults' = faults
  PROVE  WireTypeOK'
  BY DEF WireTypeOK

LEMMA WriteMessage == \A w \in Writes : [op |-> "write", write |-> w] \in Requests
  BY DEF Requests

LEMMA TypeStep == ASSUME TypeOK, Next PROVE TypeOK'
<1>1. WireTypeOK /\ ConnTypeOK /\ ctl \in CtlRecord /\ ToldTypeOK
  BY TypeParts
<1>2. ctl.write \in Writes \cup {NoWrite} /\ "called" \in Known /\ "unknown" \in Known
      /\ "rejected" \in Known
  BY <1>1 DEF CtlRecord, Known
<1>3. ASSUME NEW w \in Writes, NEW i, NEW inserts, NEW p, Write(w, i, inserts, p)
      PROVE  TypeOK'
  <2>1. ConnTypeOK' /\ ctl' \in CtlRecord /\ (Rejecting(w) \/ Sending(w))
    BY <1>3, WriteEffect
  <2>2. CASE Rejecting(w)
    BY <1>1, <1>2, <2>1, <2>2, ToldType, WireSame, TypeParts DEF Rejecting
  <2>3. CASE Sending(w)
    BY <1>1, <1>2, <2>1, <2>3, ToldType, WriteMessage, SendType, TypeParts DEF Sending
  <2> QED
    BY <2>1, <2>2, <2>3
<1>4. ASSUME NEW w \in Writes, NEW i, CreateIndex(w, i) PROVE TypeOK'
  BY <1>1, <1>2, <1>4, CreateIndexEffect, ToldType, WireSame, WriteMessage, SendType, TypeParts
<1>5. CASE GetLastError \/ FindOne
  <2>1. ConnTypeOK' /\ ToldTypeOK'
    BY <1>1, <1>5, AskingEffect DEF ConnTypeOK, ToldTypeOK
  <2> QED
    BY <1>1, <1>5, <2>1, AskingEffect, WireSame, TypeParts
<1>6. ASSUME NEW p \in Concerns \cup {Null}, SetWriteConcern(p) PROVE TypeOK'
  <2>1. ToldTypeOK'
    BY <1>1, <1>6, SetWriteConcernEffect DEF ToldTypeOK
  <2> QED
    BY <1>1, <1>6, <2>1, SetWriteConcernEffect, WireSame, TypeParts
<1>7. CASE Ask
  <2>1. ConnTypeOK' /\ ctl' \in CtlRecord
    BY <1>7, AskEffect
  <2>2. \E r \in Sent : Send(Question, r)
    BY <1>7, AskEffect
  <2>3. told' = told \/ Tells(ctl.write, "called") \/ Tells(ctl.write, "unknown")
    BY <1>7, AskEffect
  <2>4. WireTypeOK'
    BY <1>1, <2>2, QuestionType, SendType
  <2>5. ToldTypeOK'
    <3>1. CASE told' = told
      BY <1>1, <3>1 DEF ToldTypeOK
    <3> QED
      BY <1>1, <1>2, <2>3, <3>1, ToldType
  <2> QED
    BY <2>1, <2>4, <2>5, TypeParts
<1>8. CASE Answer
  <2>1. ConnTypeOK' /\ ctl' \in CtlRecord
    BY <1>8, AnswerEffect
  <2>2. PICK ok \in BOOLEAN, io \in BOOLEAN, v \in Replies, res \in {"OK", "ERROR"}, e \in Errors :
          Answering(ok, io, v, res, e)
    BY <1>8, AnswerEffect
  <2>3. Verdict(ctl, res, e) \in Known
    BY VerdictType DEF Known
  <2>4. ToldTypeOK'
    BY <1>1, <1>2, <2>2, <2>3, ToldType DEF Answering
  <2>5. WireTypeOK'
    BY <1>1, <2>2, ReadType DEF Answering
  <2> QED
    BY <2>1, <2>4, <2>5, TypeParts
<1>9. CASE Reconnect
  <2>1. ConnTypeOK' /\ ctl' \in CtlRecord /\ outcome' = outcome /\ told' = told
    BY <1>9, ReconnectEffect
  <2>2. WireTypeOK'
    BY <1>1, <1>9, <2>1, ReconnectEffect, DialType
  <2>3. ToldTypeOK'
    BY <1>1, <2>1 DEF ToldTypeOK
  <2> QED
    BY <2>1, <2>2, <2>3, TypeParts
<1>10. CASE World /\ UNCHANGED <<conn, ctl, told>>
  BY <1>1, <1>10, WorldType, TypeParts DEF ConnTypeOK, ToldTypeOK
<1> QED
  BY <1>3, <1>4, <1>5, <1>6, <1>7, <1>8, <1>9, <1>10 DEF Next

\* What mongo.c sends, reads and returns always has its type, whatever is sent,
\* lost or late.
THEOREM WriteTypes == Spec => []TypeOK
<1>1. TypeOK /\ UNCHANGED vars => TypeOK'
  BY DEF vars, wire, TypeOK, WireTypeOK
<1> QED
  BY <1>1, InitType, TypeStep, PTL DEF Spec

-----------------------------------------------------------------------------
(***************************************************************************)
(* Writes on their way                                                     *)
(***************************************************************************)

\* The message i of q is the write w.
Holds(q, i, w) == i \in 1..Len(q) /\ q[i].op = "write" /\ q[i].write = w

Untold == {"uncalled", "rejected"}

\* A write that the server has not read is in one place, was not done, and was
\* sent for a call.
Alone(N) ==
  \A s, t \in Socks, i, j \in Nat, w \in Writes :
    Holds(N[s].req, i, w) /\ Holds(N[t].req, j, w) => s = t /\ i = j

Undone(N, o, k) ==
  \A s \in Socks, i \in Nat, w \in Writes :
    Holds(N[s].req, i, w) => o[w] = "none" /\ k[w] \notin Untold

PendingOK == Alone(net) /\ Undone(net, outcome, told)

\* What the application was told before it knows, and whose call goes on.
ToldOK ==
  /\ \A w \in Writes : told[w] \in Untold => outcome[w] = "none"
  /\ \A w \in Writes : told[w] = "called" => ctl.pc # "idle" /\ ctl.write = w
  /\ ctl.pc # "idle" /\ ctl.write # NoWrite => told[ctl.write] = "called"

\* The writes of p are those of q, d places on.
Moved(q, p, d) == \A i \in Nat, w \in Writes : Holds(p, i, w) => Holds(q, i + d, w)

Carried(M) == \A s \in Socks : \E d \in Nat : Moved(net[s].req, M[s].req, d)

LEMMA MovedSame == \A q : Moved(q, q, 0)
  BY DEF Moved, Holds

LEMMA MovedTail ==
  ASSUME NEW q \in Seq(Requests), q # <<>> PROVE Moved(q, Tail(q), 1)
<1>1. /\ Len(q) \in Nat /\ Len(q) > 0 /\ Len(Tail(q)) = Len(q) - 1
      /\ \A i \in 1..(Len(q) - 1) : Tail(q)[i] = q[i + 1]
  BY TailSeq
<1> QED
  BY <1>1 DEF Moved, Holds

LEMMA MovedPrefix ==
  ASSUME NEW q \in Seq(Requests), NEW n \in 0..Len(q) PROVE Moved(q, SubSeq(q, 1, n), 0)
<1>1. /\ Len(q) \in Nat /\ Len(SubSeq(q, 1, n)) = n
      /\ \A i \in 1..n : SubSeq(q, 1, n)[i] = q[i]
  BY PrefixSeq
<1> QED
  BY <1>1 DEF Moved, Holds

LEMMA MovedAppend ==
  ASSUME NEW q \in Seq(Requests), NEW m \in Requests, m.op # "write"
  PROVE  Moved(q, Append(q, m), 0)
<1>1. /\ Len(q) \in Nat /\ Len(Append(q, m)) = Len(q) + 1 /\ Append(q, m)[Len(q) + 1] = m
      /\ \A i \in 1..Len(q) : Append(q, m)[i] = q[i]
  BY AppendSeq
<1> QED
  BY <1>1 DEF Moved, Holds

\* Nothing is sent, and nothing done.
LEMMA CarriedOK ==
  ASSUME PendingOK, NEW M, Carried(M), NEW k,
         \A w \in Writes : k[w] \in Untold => told[w] \in Untold
  PROVE  Alone(M) /\ Undone(M, outcome, k)
<1>1. Alone(M)
  <2>1. SUFFICES ASSUME NEW s \in Socks, NEW t \in Socks, NEW i \in Nat, NEW j \in Nat,
                        NEW w \in Writes, Holds(M[s].req, i, w), Holds(M[t].req, j, w)
                 PROVE  s = t /\ i = j
    BY DEF Alone
  <2>2. PICK d \in Nat : Moved(net[s].req, M[s].req, d)
    BY DEF Carried
  <2>3. PICK b \in Nat : Moved(net[t].req, M[t].req, b)
    BY DEF Carried
  <2>4. Holds(net[s].req, i + d, w) /\ Holds(net[t].req, j + b, w)
    BY <2>1, <2>2, <2>3 DEF Moved
  <2>5. s = t
    BY <2>4 DEF PendingOK, Alone
  <2>6. Holds(net[t].req, j + d, w)
    BY <2>1, <2>2, <2>5 DEF Moved
  <2>7. i + d = j + d
    BY <2>4, <2>5, <2>6 DEF PendingOK, Alone
  <2> QED
    BY <2>5, <2>7
<1>2. Undone(M, outcome, k)
  <2>1. SUFFICES ASSUME NEW s \in Socks, NEW i \in Nat, NEW w \in Writes, Holds(M[s].req, i, w)
                 PROVE  outcome[w] = "none" /\ k[w] \notin Untold
    BY DEF Undone
  <2>2. PICK d \in Nat : Moved(net[s].req, M[s].req, d)
    BY DEF Carried
  <2>3. Holds(net[s].req, i + d, w)
    BY <2>1, <2>2 DEF Moved
  <2> QED
    BY <2>3 DEF PendingOK, Undone
<1> QED
  BY <1>1, <1>2

\* A write nobody has told of is sent.
LEMMA AppendedOK ==
  ASSUME TypeOK, PendingOK, sock # 0, NEW w \in Writes, told[w] = "uncalled", NEW M,
         M \in [Socks -> SocketRecord],
         M[sock].req = Append(net[sock].req, [op |-> "write", write |-> w]),
         \A t \in Socks : t # sock => M[t].req = net[t].req,
         outcome[w] = "none", NEW k, k[w] \notin Untold,
         \A v \in Writes : v # w => k[v] = told[v]
  PROVE  Alone(M) /\ Undone(M, outcome, k)
<1> DEFINE m == [op |-> "write", write |-> w]  q == net[sock].req
<1>1. sock \in Socks /\ q \in Seq(Requests) /\ m \in Requests /\ m.op = "write" /\ m.write = w
  BY SockType, QueueTypes, WriteMessage DEF TypeOK
<1> HIDE DEF m
<1>2. /\ Len(q) \in Nat /\ Len(Append(q, m)) = Len(q) + 1 /\ Append(q, m)[Len(q) + 1] = m
      /\ \A i \in 1..Len(q) : Append(q, m)[i] = q[i]
  BY <1>1, AppendSeq
<1>3. M[sock].req = Append(q, m)
  BY DEF m
<1>4. ASSUME NEW s \in Socks, NEW i \in Nat, NEW v \in Writes, Holds(M[s].req, i, v)
      PROVE  (v = w /\ s = sock /\ i = Len(q) + 1) \/ (v # w /\ Holds(net[s].req, i, v))
  <2>1. \A t \in Socks, j \in Nat : ~Holds(net[t].req, j, w)
    BY DEF PendingOK, Undone, Untold
  <2>2. CASE s # sock
    BY <1>4, <2>1, <2>2
  <2>3. CASE s = sock
    <3> DEFINE p == M[sock].req
    <3>1. /\ Len(q) \in Nat /\ Len(p) = Len(q) + 1 /\ p[Len(q) + 1] = m
          /\ \A j \in 1..Len(q) : p[j] = q[j]
      BY <1>2, <1>3
    <3>2. i \in 1..Len(p) /\ p[i].op = "write" /\ p[i].write = v
      BY <1>4, <2>3 DEF Holds
    <3> HIDE DEF p, q
    <3>3. CASE i = Len(q) + 1
      BY <1>1, <2>3, <3>1, <3>2, <3>3
    <3>4. CASE i \in 1..Len(q)
      <4>1. Holds(q, i, v)
        BY <3>1, <3>2, <3>4 DEF Holds
      <4> QED
        BY <2>1, <2>3, <4>1 DEF q
    <3> QED
      BY <3>1, <3>2, <3>3, <3>4
  <2> QED
    BY <2>2, <2>3
<1>5. Alone(M)
  BY <1>4 DEF Alone, PendingOK
<1>6. Undone(M, outcome, k)
  BY <1>4 DEF Undone, PendingOK
<1> QED
  BY <1>5, <1>6

LEMMA CarriedSame == ASSUME net' = net PROVE Carried(net')
  BY MovedSame DEF Carried

LEMMA CarriedOne ==
  ASSUME WireTypeOK, NEW s \in Socks, NEW x \in SocketRecord, net' = [net EXCEPT ![s] = x],
         NEW d \in Nat, Moved(net[s].req, x.req, d)
  PROVE  Carried(net')
<1>1. net'[s] = x /\ \A t \in Socks : t # s => net'[t] = net[t]
  BY NetAt
<1>2. 0 \in Nat
  OBVIOUS
<1> QED
  BY <1>1, <1>2, MovedSame DEF Carried

LEMMA CarriedQuery ==
  ASSUME WireTypeOK, NEW m \in Requests, m.op # "write", NEW r, Send(m, r)
  PROVE  Carried(net')
<1>1. \/ net' = net
      \/ Up /\ net' = [net EXCEPT ![sock] = Appended(m)]
      \/ Up /\ \E y \in BOOLEAN : net' = [net EXCEPT ![sock] = [net[sock] EXCEPT !.torn = y]]
  BY SendEffect
<1>2. CASE Up /\ net' = [net EXCEPT ![sock] = Appended(m)]
  <2>1. sock \in Socks /\ net[sock] \in SocketRecord
    BY <1>2, SockType DEF Up
  <2>2. net[sock].req \in Seq(Requests) /\ Append(net[sock].req, m) \in Seq(Requests)
    BY <2>1, QueueTypes, AppendSeq
  <2>3. Appended(m) \in SocketRecord /\ Appended(m).req = Append(net[sock].req, m)
    BY <2>1, <2>2, ReqField DEF Appended
  <2>4. Moved(net[sock].req, Appended(m).req, 0)
    BY <2>2, <2>3, MovedAppend
  <2> QED
    BY <1>2, <2>1, <2>3, <2>4, CarriedOne
<1>3. CASE Up /\ \E y \in BOOLEAN : net' = [net EXCEPT ![sock] = [net[sock] EXCEPT !.torn = y]]
  <2>1. sock \in Socks /\ net[sock] \in SocketRecord
    BY <1>3, SockType DEF Up
  <2>2. PICK y \in BOOLEAN : net' = [net EXCEPT ![sock] = [net[sock] EXCEPT !.torn = y]]
    BY <1>3
  <2> DEFINE x == [net[sock] EXCEPT !.torn = y]
  <2>3. x \in SocketRecord /\ x.req = net[sock].req
    BY <2>1, TornField
  <2>4. Moved(net[sock].req, x.req, 0)
    BY <2>3, MovedSame
  <2> QED
    BY <2>1, <2>2, <2>3, <2>4, CarriedOne
<1> QED
  BY <1>1, <1>2, <1>3, CarriedSame

LEMMA CarriedRead ==
  ASSUME WireTypeOK, NEW ok \in BOOLEAN, NEW io \in BOOLEAN, NEW v, Read(ok, io, v)
  PROVE  Carried(net')
<1>1. \/ net' = net
      \/ sock # 0 /\ net[sock].rep # <<>> /\ net' = [net EXCEPT ![sock] = Taken]
      \/ sock # 0 /\ \E y \in BOOLEAN : net' = [net EXCEPT ![sock] = Rested(y)]
  BY ReadEffect
<1>2. CASE sock # 0 /\ net[sock].rep # <<>> /\ net' = [net EXCEPT ![sock] = Taken]
  <2>1. sock \in Socks /\ net[sock] \in SocketRecord
    BY <1>2, SockType
  <2>2. Tail(net[sock].rep) \in Seq(Replies)
    BY <1>2, <2>1, QueueTypes, TailSeq
  <2>3. Taken \in SocketRecord /\ Taken.req = net[sock].req
    BY <2>1, <2>2, RepField DEF Taken
  <2>4. Moved(net[sock].req, Taken.req, 0)
    BY <2>3, MovedSame
  <2> QED
    BY <1>2, <2>1, <2>3, <2>4, CarriedOne
<1>3. CASE sock # 0 /\ \E y \in BOOLEAN : net' = [net EXCEPT ![sock] = Rested(y)]
  <2>1. sock \in Socks /\ net[sock] \in SocketRecord
    BY <1>3, SockType
  <2>2. PICK y \in BOOLEAN : net' = [net EXCEPT ![sock] = Rested(y)]
    BY <1>3
  <2>3. Rested(y) \in SocketRecord /\ Rested(y).req = net[sock].req
    BY <2>1, TornField DEF Rested
  <2>4. Moved(net[sock].req, Rested(y).req, 0)
    BY <2>3, MovedSame
  <2> QED
    BY <2>1, <2>2, <2>3, <2>4, CarriedOne
<1> QED
  BY <1>1, <1>2, <1>3, CarriedSame

LEMMA CarriedDial ==
  ASSUME WireTypeOK, NEW connected, NEW n \in 0..(IF sock = 0 THEN 0 ELSE Len(net[sock].req)),
         RefusedConnect(connected, n) \/ Connect(connected, n)
  PROVE  Carried(net')
<1> DEFINE d == Disconnected(connected, n)
<1>1. d \in [Socks -> SocketRecord]
  BY DisconnectedEffect
<1>2. ASSUME NEW s \in Socks PROVE Moved(net[s].req, d[s].req, 0)
  <2>1. d[s] = net[s] \/ (s = sock /\ d[s] = Cut(net[s], n, 0))
    BY DisconnectedEffect
  <2>2. CASE s = sock /\ d[s] = Cut(net[s], n, 0)
    <3>1. net[s] \in SocketRecord /\ s # 0
      BY WiresAssumption DEF WireTypeOK
    <3>2. n \in 0..Len(net[s].req) /\ net[s].req \in Seq(Requests)
      BY <2>2, <3>1, QueueTypes
    <3>3. 0 \in 0..Len(net[s].rep)
      BY <3>1, QueueTypes
    <3>4. Cut(net[s], n, 0).req = SubSeq(net[s].req, 1, n)
      <4> DEFINE m == 0
      <4>1. m \in 0..Len(net[s].rep) /\ Cut(net[s], n, 0) = Cut(net[s], n, m)
        BY <3>3
      <4> HIDE DEF m
      <4> QED
        BY <3>1, <3>2, <4>1, CutFields
    <3> QED
      BY <2>2, <3>2, <3>4, MovedPrefix
  <2> QED
    BY <2>1, <2>2, MovedSame
<1> HIDE DEF d
<1>3. CASE RefusedConnect(connected, n)
  BY <1>2, <1>3 DEF RefusedConnect, Carried, d
<1>4. CASE Connect(connected, n)
  <2>1. PICK s \in Socks : net' = [d EXCEPT ![s] = Fresh]
    BY <1>4 DEF Connect, d
  <2>2. ASSUME NEW t \in Socks PROVE Moved(net[t].req, net'[t].req, 0)
    <3>1. CASE t = s
      <4>1. net'[t].req = <<>> /\ Len(<<>>) = 0
        BY <1>1, <2>1, <3>1, FreshType
      <4> QED
        BY <4>1 DEF Moved, Holds
    <3>2. CASE t # s
      BY <1>1, <1>2, <2>1, <3>2
    <3> QED
      BY <3>1, <3>2
  <2> QED
    BY <2>2 DEF Carried
<1> QED
  BY <1>3, <1>4

LEMMA CarriedCut ==
  ASSUME WireTypeOK, NEW s \in Socks, HangUp(s) \/ LinkBreaks(s) PROVE Carried(net')
<1>1. PICK n \in 0..Len(net[s].req), m \in 0..Len(net[s].rep) :
        net' = [net EXCEPT ![s] = Cut(net[s], n, m)]
  BY CutEffect
<1>2. net[s] \in SocketRecord /\ net[s].req \in Seq(Requests)
  BY QueueTypes DEF WireTypeOK
<1>3. Cut(net[s], n, m) \in SocketRecord /\ Cut(net[s], n, m).req = SubSeq(net[s].req, 1, n)
  BY <1>2, CutFields
<1>4. Moved(net[s].req, Cut(net[s], n, m).req, 0)
  BY <1>2, <1>3, MovedPrefix
<1> QED
  BY <1>1, <1>3, <1>4, CarriedOne

LEMMA CarriedServed ==
  ASSUME WireTypeOK, NEW s \in Socks, ServeWrite(s) \/ ServeQuery(s)
  PROVE  /\ Carried(net') /\ net[s].req # <<>> /\ Moved(net[s].req, net'[s].req, 1)
         /\ net'[s].req = Tail(net[s].req)
<1>1. net[s] \in SocketRecord
  BY DEF WireTypeOK
<1>2. ASSUME NEW x \in SocketRecord, net' = [net EXCEPT ![s] = x], x.req = Tail(net[s].req),
             net[s].req # <<>>
      PROVE  /\ Carried(net') /\ Moved(net[s].req, net'[s].req, 1)
             /\ net'[s].req = Tail(net[s].req)
  <2>0. net'[s] = x
    BY <1>2, NetAt
  <2>1. Moved(net[s].req, x.req, 1) /\ net'[s] = x
    <3>1. net[s].req \in Seq(Requests)
      BY <1>1, QueueTypes
    <3>2. Moved(net[s].req, Tail(net[s].req), 1)
      BY <1>2, <3>1, MovedTail
    <3> QED
      BY <1>2, <2>0, <3>2
  <2> QED
    BY <1>2, <2>1, CarriedOne
<1>3. CASE ServeWrite(s)
  <2> DEFINE e == Head(net[s].req).write \in Refused
  <2>1. net[s].req # <<>> /\ net' = [net EXCEPT ![s] = Served(net[s], e)] /\ e \in BOOLEAN
    BY <1>3, ServeWriteEffect
  <2> HIDE DEF e
  <2>2. Served(net[s], e) \in SocketRecord /\ Served(net[s], e).req = Tail(net[s].req)
    BY <1>1, <2>1, ServedFields
  <2> QED
    BY <1>2, <2>1, <2>2
<1>4. CASE ServeQuery(s)
  <2> DEFINE v == ServeQueryReply(s)  r == Replied(net[s], v)  e == v.error
  <2>1. net[s].req # <<>> /\ v \in Replies /\ net' = [net EXCEPT ![s] = Served(r, e)]
    BY <1>4, ServeQueryEffect
  <2> HIDE DEF v
  <2>2. r \in SocketRecord /\ r.req = net[s].req /\ e \in BOOLEAN
    BY <1>1, <2>1, RepliedFields DEF Replies
  <2> HIDE DEF r, e
  <2>3. Served(r, e) \in SocketRecord /\ Served(r, e).req = Tail(net[s].req)
    BY <2>1, <2>2, ServedFields
  <2> QED
    BY <1>2, <2>1, <2>3
<1> QED
  BY <1>3, <1>4

FlightOK == TypeOK /\ PendingOK /\ ToldOK

LEMMA FlightInit == Init => FlightOK
<1> SUFFICES ASSUME Init PROVE FlightOK
  OBVIOUS
<1>1. ASSUME NEW s \in Socks, NEW i \in Nat, NEW w \in Writes PROVE ~Holds(net[s].req, i, w)
  <2> DEFINE y == (s = 1)
  <2>1. y \in BOOLEAN /\ net[s] = [Fresh EXCEPT !.opened = y, !.up = y]
    BY DEF Init, WireInit
  <2> HIDE DEF y
  <2>2. net[s].req = <<>> /\ Len(<<>>) = 0
    BY <2>1, FreshFields
  <2> QED
    BY <2>2 DEF Holds
<1>2. PendingOK
  BY <1>1 DEF PendingOK, Alone, Undone
<1>3. ToldOK
  BY DEF Init, WireInit, ToldOK, Untold
<1> QED
  BY <1>2, <1>3, InitType DEF FlightOK

\* What the application is told does not depend on what is on its way, but after
\* "uncalled" nothing is told that says a write was never sent.
LEMMA ToldSteps ==
  ASSUME FlightOK, NEW w \in Writes \cup {NoWrite}, NEW t \in Known, Tells(w, t),
         w = NoWrite \/ t \notin Untold \/ told[w] = "uncalled", outcome' = outcome,
         \A v \in Writes : told[v] = "called" => v = w,
         t = "called" => ctl'.pc # "idle" /\ ctl'.write = w,
         ctl'.pc # "idle" => ctl'.write = w /\ t = "called"
  PROVE  ToldOK'
<1>1. /\ told \in [Writes -> Known] /\ told' \in [Writes -> Known]
      /\ w \in Writes => told'[w] = t
      /\ \A v \in Writes : v # w => told'[v] = told[v]
  BY TellsType DEF FlightOK, TypeParts, TypeOK, Known
<1>2. \A v \in Writes : told'[v] \in Untold => outcome'[v] = "none"
  BY <1>1, WiresAssumption DEF FlightOK, ToldOK, Untold
<1>3. \A v \in Writes : told'[v] = "called" => ctl'.pc # "idle" /\ ctl'.write = v
  BY <1>1
<1>4. ctl'.pc # "idle" /\ ctl'.write # NoWrite => told'[ctl'.write] = "called"
  BY <1>1
<1> QED
  BY <1>2, <1>3, <1>4 DEF ToldOK

LEMMA ToldSame ==
  ASSUME ToldOK, told' = told, outcome' = outcome, ctl'.pc # "idle" <=> ctl.pc # "idle",
         ctl'.write = ctl.write
  PROVE  ToldOK'
  BY DEF ToldOK

LEMMA SentWriteOK ==
  ASSUME FlightOK, NEW w \in Writes, told[w] = "uncalled", NEW r,
         Send([op |-> "write", write |-> w], r), NEW t \in Known, t \notin Untold, Tells(w, t)
  PROVE  PendingOK'
<1> DEFINE m == [op |-> "write", write |-> w]
<1>1. m \in Requests /\ WireTypeOK /\ PendingOK
  BY WriteMessage DEF FlightOK, TypeOK
<1>2. told'[w] = t /\ \A v \in Writes : v # w => told'[v] = told[v]
  BY TellsType DEF FlightOK, TypeOK, Known
<1> HIDE DEF m
<1>3. /\ outcome' = outcome
      /\ \/ net' = net
         \/ Up /\ net' = [net EXCEPT ![sock] = Appended(m)]
         \/ Up /\ \E y \in BOOLEAN : net' = [net EXCEPT ![sock] = [net[sock] EXCEPT !.torn = y]]
  BY <1>1, SendEffect DEF m
<1>4. CASE Carried(net')
  <2>1. \A v \in Writes : told'[v] \in Untold => told[v] \in Untold
    BY <1>2
  <2>2. Alone(net') /\ Undone(net', outcome, told')
    BY <1>1, <1>4, <2>1, CarriedOK
  <2> QED
    BY <1>3, <2>2 DEF PendingOK, Alone, Undone
<1>5. CASE Up /\ net' = [net EXCEPT ![sock] = Appended(m)]
  <2>1. sock \in Socks /\ net[sock] \in SocketRecord /\ sock # 0
    BY <1>1, <1>5, SockType DEF Up
  <2>2. Append(net[sock].req, m) \in Seq(Requests)
    BY <1>1, <2>1, QueueTypes, AppendSeq
  <2>3. Appended(m) \in SocketRecord /\ Appended(m).req = Append(net[sock].req, m)
    BY <2>1, <2>2, ReqField DEF Appended
  <2>4. /\ net' \in [Socks -> SocketRecord] /\ net'[sock] = Appended(m)
        /\ \A s \in Socks : s # sock => net'[s] = net[s]
    BY <1>1, <1>5, <2>1, <2>3, NetAt
  <2>5. net'[sock].req = Append(net[sock].req, m)
        /\ \A s \in Socks : s # sock => net'[s].req = net[s].req
    BY <2>3, <2>4
  <2>6. outcome[w] = "none"
    BY DEF FlightOK, ToldOK, Untold
  <2>7. told'[w] \notin Untold
    BY <1>2
  <2>8. Alone(net') /\ Undone(net', outcome, told')
    BY <1>1, <1>2, <2>1, <2>4, <2>5, <2>6, <2>7, AppendedOK DEF m, FlightOK
  <2> QED
    BY <1>3, <2>8 DEF PendingOK, Alone, Undone
<1>6. CASE Up /\ \E y \in BOOLEAN : net' = [net EXCEPT ![sock] = [net[sock] EXCEPT !.torn = y]]
  <2>1. sock \in Socks /\ net[sock] \in SocketRecord
    BY <1>1, <1>6, SockType DEF Up
  <2>2. PICK y \in BOOLEAN : net' = [net EXCEPT ![sock] = [net[sock] EXCEPT !.torn = y]]
    BY <1>6
  <2> DEFINE x == [net[sock] EXCEPT !.torn = y]
  <2>3. x \in SocketRecord /\ x.req = net[sock].req
    BY <2>1, TornField
  <2>4. Moved(net[sock].req, x.req, 0) /\ 0 \in Nat
    BY <2>3, MovedSame
  <2> HIDE DEF x
  <2>5. Carried(net')
    BY <1>1, <2>1, <2>2, <2>3, <2>4, CarriedOne DEF x
  <2> QED
    BY <1>4, <2>5
<1> QED
  BY <1>3, <1>4, <1>5, <1>6, CarriedSame

LEMMA CarriedPending ==
  ASSUME FlightOK, Carried(net'), outcome' = outcome, ToldTypeOK',
         \A v \in Writes : told'[v] \in Untold => told[v] \in Untold
  PROVE  PendingOK'
<1>1. Alone(net') /\ Undone(net', outcome, told')
  BY CarriedOK DEF FlightOK
<1> QED
  BY <1>1 DEF PendingOK, Alone, Undone

LEMMA NoneCalled ==
  ASSUME FlightOK, ctl.pc = "idle" PROVE \A v \in Writes : told[v] # "called"
  BY DEF FlightOK, ToldOK

LEMMA OneCalled ==
  ASSUME FlightOK PROVE \A v \in Writes : told[v] = "called" => v = ctl.write
  BY DEF FlightOK, ToldOK

\* A query, or its answer, and what the write it belongs to is told.
LEMMA AskedFlight ==
  ASSUME FlightOK, TypeOK', Carried(net'), outcome' = outcome, ctl'.write = ctl.write,
         NEW t \in Known, t \notin Untold, Tells(ctl.write, t),
         t = "called" <=> ctl'.pc # "idle"
  PROVE  PendingOK' /\ ToldOK'
<1>1. ctl.write \in Writes \cup {NoWrite} /\ ToldTypeOK' /\ ToldTypeOK
  BY TypeParts DEF FlightOK, TypeOK, CtlRecord
<1>2. \A v \in Writes : told'[v] = told[v] \/ told'[v] = t
  BY <1>1, TellsType DEF ToldTypeOK
<1>3. PendingOK'
  BY <1>1, <1>2, CarriedPending
<1>4. ToldOK'
  BY <1>1, OneCalled, ToldSteps
<1> QED
  BY <1>3, <1>4

\* A write that is served was sent for a call, not done before, and is sent no more.
LEMMA ServedWrite ==
  ASSUME FlightOK, NEW s \in Socks, ServeWrite(s)
  PROVE  LET w == Head(net[s].req).write
         IN  /\ w \in Writes /\ outcome[w] = "none" /\ told[w] \notin Untold
             /\ Holds(net[s].req, 1, w)
             /\ outcome' = [outcome EXCEPT ![w] = IF w \in Refused THEN "failed" ELSE "done"]
<1> DEFINE w == Head(net[s].req).write
<1>1. /\ net[s].req # <<>> /\ Head(net[s].req).op = "write" /\ w \in Writes
      /\ outcome' = [outcome EXCEPT ![w] = IF w \in Refused THEN "failed" ELSE "done"]
  BY ServeWriteEffect DEF FlightOK, TypeOK
<1>2. net[s].req \in Seq(Requests)
  BY QueueTypes DEF FlightOK, TypeOK, WireTypeOK
<1>3. Len(net[s].req) \in Nat /\ Len(net[s].req) > 0 /\ Head(net[s].req) = net[s].req[1]
  BY <1>1, <1>2, TailSeq
<1>4. Holds(net[s].req, 1, w)
  BY <1>1, <1>3 DEF Holds
<1>5. outcome[w] = "none" /\ told[w] \notin Untold
  BY <1>1, <1>4 DEF FlightOK, PendingOK, Undone
<1> QED
  BY <1>1, <1>4, <1>5

LEMMA ServedFlight ==
  ASSUME FlightOK, NEW s \in Socks, ServeWrite(s), UNCHANGED <<conn, ctl, told>>
  PROVE  PendingOK' /\ ToldOK'
<1> DEFINE w == Head(net[s].req).write
<1>1. /\ w \in Writes /\ outcome[w] = "none" /\ told[w] \notin Untold
      /\ Holds(net[s].req, 1, w)
      /\ outcome' = [outcome EXCEPT ![w] = IF w \in Refused THEN "failed" ELSE "done"]
  BY ServedWrite
<1> HIDE DEF w
<1>2. outcome \in [Writes -> {"none", "done", "failed"}]
  BY DEF FlightOK, TypeOK, WireTypeOK
<1>3. \A v \in Writes : v # w => outcome'[v] = outcome[v]
  BY <1>1, <1>2
<1>4. Carried(net') /\ Moved(net[s].req, net'[s].req, 1)
  BY CarriedServed DEF FlightOK, TypeOK
<1>5. Alone(net') /\ Undone(net', outcome, told)
  BY <1>4, CarriedOK DEF FlightOK
<1>6. ASSUME NEW t \in Socks, NEW i \in Nat, Holds(net'[t].req, i, w) PROVE FALSE
  <2>1. PICK d \in Nat : Moved(net[t].req, net'[t].req, d)
    BY <1>4 DEF Carried
  <2>2. Holds(net[t].req, i + d, w) /\ i + d \in Nat /\ 1 \in Nat
    BY <1>1, <1>6, <2>1 DEF Moved
  <2>3. t = s
    BY <1>1, <2>2 DEF FlightOK, PendingOK, Alone
  <2>4. Holds(net[s].req, i + 1, w) /\ i + 1 \in Nat
    BY <1>1, <1>4, <1>6, <2>3 DEF Moved
  <2>5. i + 1 = 1
    BY <1>1, <2>2, <2>4 DEF FlightOK, PendingOK, Alone
  <2>6. i = 0
    BY <2>5
  <2> QED
    BY <1>6, <2>6 DEF Holds
<1>7. PendingOK'
  BY <1>3, <1>5, <1>6 DEF PendingOK, Alone, Undone
<1>8. ToldOK'
  BY <1>1, <1>3 DEF FlightOK, ToldOK
<1> QED
  BY <1>7, <1>8

LEMMA FlightStep == ASSUME FlightOK, Next PROVE FlightOK'
<1>0. TypeOK'
  BY TypeStep DEF FlightOK
<1> SUFFICES PendingOK' /\ ToldOK'
  BY <1>0 DEF FlightOK
<1>1. TypeOK' /\ ToldTypeOK' /\ ToldTypeOK /\ WireTypeOK /\ ctl \in CtlRecord
  BY <1>0, TypeParts DEF FlightOK
<1>2. /\ ctl.write \in Writes \cup {NoWrite} /\ "called" \in Known /\ "unknown" \in Known
      /\ "rejected" \in Known /\ "called" \notin Untold /\ "unknown" \notin Untold
  BY <1>1 DEF CtlRecord, Known, Untold
<1>3. ASSUME NEW w \in Writes, NEW i, NEW inserts, NEW p, Write(w, i, inserts, p)
      PROVE  PendingOK' /\ ToldOK'
  <2>1. /\ CanCall /\ told[w] = "uncalled" /\ ctl'.write = w
        /\ Rejecting(w) \/ Sending(w)
    BY <1>3, WriteEffect DEF FlightOK
  <2>2. \A v \in Writes : told[v] # "called"
    BY <2>1, NoneCalled DEF CanCall
  <2>3. CASE Rejecting(w)
    <3>1. ToldOK'
      BY <1>2, <2>1, <2>2, <2>3, ToldSteps DEF Rejecting
    <3>2. Carried(net') /\ outcome' = outcome
      BY <2>3, CarriedSame DEF Rejecting
    <3>3. \A v \in Writes : v # w => told'[v] = told[v]
      BY <1>1, <1>2, <2>3, TellsType DEF Rejecting, ToldTypeOK
    <3>4. told[w] \in Untold
      BY <2>1 DEF Untold
    <3> QED
      BY <1>1, <3>1, <3>2, <3>3, <3>4, CarriedPending
  <2>4. CASE Sending(w)
    <3>1. PICK r \in Sent :
            /\ Send([op |-> "write", write |-> w], r)
            /\ \/ ctl'.pc = "ask" /\ Tells(w, "called")
               \/ ctl'.pc = "idle" /\ Tells(w, "unknown")
      BY <2>4 DEF Sending
    <3>2. PendingOK'
      BY <1>2, <2>1, <3>1, SentWriteOK
    <3>3. outcome' = outcome
      BY <1>1, <3>1, WriteMessage, SendEffect
    <3>4. ToldOK'
      BY <1>2, <2>1, <2>2, <3>1, <3>3, ToldSteps
    <3> QED
      BY <3>2, <3>4
  <2> QED
    BY <2>1, <2>3, <2>4
<1>4. ASSUME NEW w \in Writes, NEW i, CreateIndex(w, i) PROVE PendingOK' /\ ToldOK'
  <2>1. /\ CanCall /\ told[w] = "uncalled" /\ ctl'.write = w /\ ctl'.pc = "ask"
        /\ Tells(w, "called")
        /\ \/ sock' = sock /\ net' = net /\ outcome' = outcome /\ faults' = faults
           \/ \E r \in Sent : Send([op |-> "write", write |-> w], r)
    BY <1>4, CreateIndexEffect DEF FlightOK
  <2>2. \A v \in Writes : told[v] # "called"
    BY <2>1, NoneCalled DEF CanCall
  <2>3. outcome' = outcome
    BY <1>1, <2>1, WriteMessage, SendEffect
  <2>4. ToldOK'
    BY <1>2, <2>1, <2>2, <2>3, ToldSteps
  <2>5. CASE net' = net
    <3>1. told'[w] = "called" /\ \A v \in Writes : v # w => told'[v] = told[v]
      BY <1>1, <1>2, <2>1, TellsType DEF ToldTypeOK
    <3> QED
      BY <1>1, <1>2, <2>3, <2>4, <2>5, <3>1, CarriedSame, CarriedPending
  <2>6. CASE \E r \in Sent : Send([op |-> "write", write |-> w], r)
    BY <1>2, <2>1, <2>4, <2>6, SentWriteOK
  <2> QED
    BY <2>1, <2>5, <2>6
<1>5. CASE GetLastError \/ FindOne
  <2>1. /\ ctl.pc = "idle" /\ ctl'.write = NoWrite /\ net' = net /\ outcome' = outcome
        /\ told' = told
    BY <1>5, AskingEffect DEF CanCall, FlightOK
  <2>2. \A v \in Writes : told[v] # "called"
    BY <2>1, NoneCalled
  <2>3. ToldOK'
    BY <2>1, <2>2 DEF ToldOK, FlightOK
  <2> QED
    BY <1>1, <2>1, <2>3, CarriedSame, CarriedPending
<1>6. ASSUME NEW p \in Concerns \cup {Null}, SetWriteConcern(p) PROVE PendingOK' /\ ToldOK'
  <2>1. /\ ctl.pc = "idle" /\ ctl'.pc = "idle" /\ net' = net /\ outcome' = outcome
        /\ told' = told
    BY <1>6, SetWriteConcernEffect DEF CanCall, FlightOK
  <2>2. ToldOK'
    BY <2>1 DEF ToldOK, FlightOK
  <2> QED
    BY <1>1, <2>1, <2>2, CarriedSame, CarriedPending
<1>7. CASE Ask
  <2>1. PICK r \in Sent :
          /\ Send(Question, r)
          /\ \/ told' = told /\ ctl'.pc = "wait"
             \/ Tells(ctl.write, "called") /\ ctl'.pc = "ask"
             \/ Tells(ctl.write, "unknown") /\ ctl'.pc = "idle"
    BY <1>7, AskEffect DEF FlightOK
  <2>2. ctl.pc = "ask" /\ ctl'.write = ctl.write
    BY <1>7, AskEffect DEF FlightOK
  <2>3. Carried(net') /\ outcome' = outcome
    BY <1>1, <2>1, QuestionType, CarriedQuery, SendEffect
  <2>4. CASE told' = told /\ ctl'.pc = "wait"
    <3>1. ToldOK'
      BY <2>2, <2>3, <2>4, ToldSame DEF FlightOK
    <3> QED
      BY <1>1, <2>3, <2>4, <3>1, CarriedPending
  <2>5. CASE Tells(ctl.write, "called") /\ ctl'.pc = "ask"
    BY <1>1, <1>2, <2>2, <2>3, <2>5, AskedFlight
  <2>6. CASE Tells(ctl.write, "unknown") /\ ctl'.pc = "idle"
    BY <1>1, <1>2, <2>2, <2>3, <2>6, AskedFlight
  <2> QED
    BY <2>1, <2>4, <2>5, <2>6
<1>8. CASE Answer
  <2>1. PICK ok \in BOOLEAN, io \in BOOLEAN, v \in Replies, res \in {"OK", "ERROR"}, e \in Errors :
          Answering(ok, io, v, res, e)
    BY <1>8, AnswerEffect DEF FlightOK
  <2>2. ctl'.write = ctl.write
    BY <1>8, AnswerEffect DEF FlightOK
  <2>3. Carried(net') /\ outcome' = outcome
    BY <1>1, <2>1, CarriedRead, ReadEffect DEF Answering
  <2>4. Verdict(ctl, res, e) \in Known \ (Untold \cup {"called"})
    BY VerdictType DEF Known, Untold
  <2>5. CASE Tells(ctl.write, "called") /\ ctl'.pc = "ask"
    BY <1>1, <1>2, <2>2, <2>3, <2>5, AskedFlight
  <2>6. CASE Tells(ctl.write, Verdict(ctl, res, e)) /\ ctl'.pc = "idle"
    BY <1>1, <1>2, <2>2, <2>3, <2>4, <2>6, AskedFlight
  <2> QED
    BY <2>1, <2>5, <2>6 DEF Answering
<1>9. CASE Reconnect
  <2>1. /\ ctl.pc = "idle" /\ ctl'.pc = "idle" /\ outcome' = outcome /\ told' = told
        /\ \E n \in 0..(IF sock = 0 THEN 0 ELSE Len(net[sock].req)) :
              Connect(conn.connected, n) \/ RefusedConnect(conn.connected, n)
    BY <1>9, ReconnectEffect DEF FlightOK
  <2>2. Carried(net')
    BY <1>1, <2>1, CarriedDial
  <2>3. ToldOK'
    BY <2>1 DEF ToldOK, FlightOK
  <2> QED
    BY <1>1, <2>1, <2>2, <2>3, CarriedPending
<1>10. CASE World /\ UNCHANGED <<conn, ctl, told>>
  <2>1. PICK s \in Socks : ServeWrite(s) \/ ServeQuery(s) \/ HangUp(s) \/ LinkBreaks(s)
    BY <1>10 DEF World
  <2>2. CASE ServeQuery(s) \/ HangUp(s) \/ LinkBreaks(s)
    <3>1. Carried(net') /\ outcome' = outcome
      BY <1>1, <2>2, CarriedServed, CarriedCut, ServeQueryEffect, CutEffect
    <3>2. ToldOK'
      BY <1>10, <3>1 DEF ToldOK, FlightOK
    <3> QED
      BY <1>1, <1>10, <3>1, <3>2, CarriedPending
  <2>3. CASE ServeWrite(s)
    BY <1>10, <2>3, ServedFlight
  <2> QED
    BY <2>1, <2>2, <2>3
<1> QED
  BY <1>3, <1>4, <1>5, <1>6, <1>7, <1>8, <1>9, <1>10 DEF Next

-----------------------------------------------------------------------------
(***************************************************************************)
(* The stream of a careful application                                     *)
(***************************************************************************)

Failed(w, o) == w # NoWrite /\ o[w] = "failed"

Decided(w, o) == w # NoWrite => o[w] # "none"

\* The n first messages r has not read end with the write w; if there are none,
\* w was served and the error is its own.
EndsWith(r, n, w, o) ==
  /\ n > 0 => r.req[n].write = w
  /\ n = 0 => Decided(w, o) /\ (r.error <=> Failed(w, o))

OnlyWrites(q, n) == \A i \in 1..n : q[i].op = "write"

\* Nothing is asked ...
Calm(r) == r.rep = <<>> /\ OnlyWrites(r.req, Len(r.req))

\* ... or the one query not read is the last of what was sent ...
Asked(r, c, o) ==
  LET n == Len(r.req)
  IN  /\ r.rep = <<>> /\ n > 0 /\ OnlyWrites(r.req, n - 1)
      /\ r.req[n].call = 2 * c.n + 1
      /\ r.req[n].op = IF c.call = "findOne" THEN "query" ELSE "getlasterror"
      /\ IF c.call = "findOne" THEN c.last = NoWrite ELSE EndsWith(r, n - 1, c.last, o)

\* ... or its answer is all there is.
Answered(r, c, o) ==
  /\ r.req = <<>> /\ Len(r.rep) = 1 /\ Decided(c.last, o)
  /\ r.rep[1].call = 2 * c.n + 1 /\ (r.rep[1].error <=> Failed(c.last, o))
  /\ r.up => (r.error <=> Failed(c.last, o))

StreamOK(r, c, o) ==
  /\ ~r.torn /\ ~r.skewed
  /\ c.pc # "wait" => Calm(r) /\ (r.up => EndsWith(r, Len(r.req), c.last, o))
  /\ c.pc = "wait" => (~r.up /\ Calm(r)) \/ Asked(r, c, o) \/ Answered(r, c, o)

\* Some write is served on another connection.
LEMMA StreamKept ==
  ASSUME NEW r \in SocketRecord, NEW c \in CtlRecord, NEW o, StreamOK(r, c, o), NEW p,
         \A w \in Writes : o[w] # "none" => p[w] = o[w]
  PROVE  StreamOK(r, c, p)
<1>1. c.last \in Writes \cup {NoWrite}
  BY DEF CtlRecord
<1>2. Decided(c.last, o) => Decided(c.last, p) /\ (Failed(c.last, o) <=> Failed(c.last, p))
  BY <1>1 DEF Decided, Failed
<1>3. \A n : EndsWith(r, n, c.last, o) => EndsWith(r, n, c.last, p)
  BY <1>2 DEF EndsWith
<1>4. Asked(r, c, o) => Asked(r, c, p)
  BY <1>3 DEF Asked
<1>5. Answered(r, c, o) => Answered(r, c, p)
  BY <1>2 DEF Answered
<1> QED
  BY <1>3, <1>4, <1>5 DEF StreamOK

\* The first request is a write, and is served.
LEMMA StreamServed ==
  ASSUME NEW r \in SocketRecord, NEW c \in CtlRecord, NEW o, StreamOK(r, c, o),
         r.req # <<>>, NEW w \in Writes, r.req[1].op = "write", r.req[1].write = w,
         NEW x \in SocketRecord, x.req = Tail(r.req), x.rep = r.rep, x.up = r.up,
         x.torn = r.torn, x.skewed = r.skewed,
         NEW p, p[w] # "none", x.error <=> p[w] = "failed"
  PROVE  StreamOK(x, c, p)
<1> DEFINE n == Len(r.req)
<1>1. /\ n \in Nat /\ n > 0 /\ Len(x.req) = n - 1
      /\ \A i \in 1..(n - 1) : x.req[i] = r.req[i + 1]
  <2>1. r.req \in Seq(Requests)
    BY QueueTypes
  <2> QED
    BY <2>1, TailSeq
<1> HIDE DEF n
<1>2. ASSUME NEW m \in 1..n, EndsWith(r, m, c.last, o) PROVE EndsWith(x, m - 1, c.last, p)
  <2>1. r.req[m].write = c.last
    BY <1>1, <1>2 DEF EndsWith
  <2>2. CASE m = 1
    <3>1. c.last = w /\ m - 1 = 0
      BY <2>1, <2>2
    <3>2. Decided(w, p) /\ (x.error <=> Failed(w, p))
      BY WiresAssumption DEF Decided, Failed
    <3> QED
      BY <3>1, <3>2 DEF EndsWith
  <2>3. CASE m # 1
    <3>1. m - 1 \in 1..(n - 1) /\ (m - 1) + 1 = m /\ m - 1 > 0 /\ m - 1 # 0
      BY <1>1, <2>3
    <3>2. x.req[m - 1] = r.req[m]
      BY <1>1, <3>1
    <3> QED
      BY <2>1, <3>1, <3>2 DEF EndsWith
  <2> QED
    BY <2>2, <2>3
<1>3. ASSUME Calm(r) PROVE Calm(x)
  <2>1. \A i \in 1..n : r.req[i].op = "write"
    BY <1>3 DEF Calm, OnlyWrites, n
  <2>2. \A i \in 1..(n - 1) : x.req[i].op = "write"
    BY <1>1, <2>1
  <2> QED
    BY <1>1, <1>3, <2>2 DEF Calm, OnlyWrites
<1>4. ~Answered(r, c, o)
  BY DEF Answered
<1>5. ASSUME Asked(r, c, o) PROVE Asked(x, c, p)
  <2>1. /\ r.rep = <<>> /\ \A i \in 1..(n - 1) : r.req[i].op = "write"
        /\ r.req[n].call = 2 * c.n + 1
        /\ r.req[n].op = IF c.call = "findOne" THEN "query" ELSE "getlasterror"
        /\ IF c.call = "findOne" THEN c.last = NoWrite ELSE EndsWith(r, n - 1, c.last, o)
    BY <1>5 DEF Asked, OnlyWrites, n
  <2>2. n # 1
    BY <2>1
  <2>3. n - 1 \in 1..(n - 1) /\ n - 1 \in 1..n /\ (n - 1) + 1 = n /\ n - 1 > 0
    BY <1>1, <2>2
  <2>4. x.req[n - 1] = r.req[n]
    BY <1>1, <2>3
  <2>5. \A i \in 1..((n - 1) - 1) : x.req[i].op = "write"
    <3>1. ASSUME NEW i \in 1..((n - 1) - 1) PROVE x.req[i].op = "write"
      <4>0. n \in Nat
        BY <1>1
      <4>1. i \in 1..(n - 1) /\ i + 1 \in 1..(n - 1)
        BY <4>0
      <4> QED
        BY <1>1, <2>1, <4>1
    <3> QED
      BY <3>1
  <2>6. c.call # "findOne" => EndsWith(x, (n - 1) - 1, c.last, p)
    BY <1>2, <2>1, <2>3
  <2>7. Len(x.req) = n - 1 /\ x.rep = <<>>
    BY <1>1, <2>1
  <2> QED
    BY <2>1, <2>3, <2>4, <2>5, <2>6, <2>7 DEF Asked, OnlyWrites
<1>6. n \in 1..n /\ Len(r.req) = n
  BY <1>1 DEF n
<1>7. EndsWith(r, Len(r.req), c.last, o) => EndsWith(x, Len(x.req), c.last, p)
  BY <1>1, <1>2, <1>6
<1> QED
  BY <1>3, <1>4, <1>5, <1>7 DEF StreamOK

\* The first request is a query, and is answered.
LEMMA StreamReplied ==
  ASSUME NEW r \in SocketRecord, NEW c \in CtlRecord, NEW o, StreamOK(r, c, o),
         r.req # <<>>, r.req[1].op # "write",
         NEW v \in Replies, v.call = r.req[1].call,
         v.error <=> (r.req[1].op = "getlasterror" /\ r.error),
         NEW x \in SocketRecord, x.req = Tail(r.req), x.up = r.up,
         x.rep = (IF r.up THEN Append(r.rep, v) ELSE r.rep),
         x.torn = r.torn, x.skewed = r.skewed, x.error = v.error
  PROVE  StreamOK(x, c, o)
<1> DEFINE n == Len(r.req)
<1>1. n \in Nat /\ n > 0 /\ Len(x.req) = n - 1 /\ x.req \in Seq(Requests)
  <2>1. r.req \in Seq(Requests)
    BY QueueTypes
  <2> QED
    BY <2>1, TailSeq
<1> HIDE DEF n
<1>2. ~Calm(r) /\ ~Answered(r, c, o)
  BY <1>1 DEF Calm, OnlyWrites, Answered, n
<1>3. c.pc = "wait" /\ Asked(r, c, o) /\ ~r.torn /\ ~r.skewed
  BY <1>2 DEF StreamOK
<1>4. /\ r.rep = <<>> /\ \A i \in 1..(n - 1) : r.req[i].op = "write"
      /\ r.req[n].call = 2 * c.n + 1
      /\ r.req[n].op = IF c.call = "findOne" THEN "query" ELSE "getlasterror"
      /\ IF c.call = "findOne" THEN c.last = NoWrite ELSE EndsWith(r, n - 1, c.last, o)
  BY <1>3 DEF Asked, OnlyWrites, n
<1>5. n = 1
  BY <1>1, <1>4
<1>6. x.req = <<>> /\ Len(x.req) = 0
  <2>1. Len(x.req) = 0
    BY <1>1, <1>5
  <2> QED
    BY <1>1, <2>1, EmptySeq
<1>7. v.call = 2 * c.n + 1
  BY <1>4, <1>5
<1>8. Decided(c.last, o) /\ (v.error <=> Failed(c.last, o))
  <2>1. CASE c.call = "findOne"
    BY <1>4, <1>5, <2>1 DEF Decided, Failed
  <2>2. CASE c.call # "findOne"
    <3>1. EndsWith(r, 0, c.last, o) /\ r.req[1].op = "getlasterror"
      BY <1>4, <1>5, <2>2
    <3> QED
      BY <3>1 DEF EndsWith
  <2> QED
    BY <2>1, <2>2
<1>9. CASE r.up
  <2>1. x.rep = Append(<<>>, v) /\ <<>> \in Seq(Replies)
    BY <1>4, <1>9, EmptySeq
  <2>2. Len(x.rep) = 1 /\ x.rep[1] = v
    <3> DEFINE q == <<>>
    <3>1. q \in Seq(Replies) /\ Len(q) = 0 /\ x.rep = Append(q, v)
      BY <2>1, EmptySeq
    <3> HIDE DEF q
    <3>2. Len(Append(q, v)) = Len(q) + 1 /\ Append(q, v)[Len(q) + 1] = v
      BY <3>1, AppendSeq
    <3>3. Len(q) + 1 = 1
      BY <3>1
    <3> QED
      BY <3>1, <3>2, <3>3, Zenon
  <2>3. Answered(x, c, o)
    BY <1>6, <1>7, <1>8, <2>2 DEF Answered
  <2> QED
    BY <1>3, <2>3 DEF StreamOK
<1>10. CASE ~r.up
  <2>1. Calm(x)
    BY <1>4, <1>6, <1>10 DEF Calm, OnlyWrites
  <2> QED
    BY <1>3, <1>10, <2>1 DEF StreamOK
<1> QED
  BY <1>9, <1>10

LEMMA CalmPrefix ==
  ASSUME NEW r \in SocketRecord, NEW n \in 0..Len(r.req), r.rep = <<>>, OnlyWrites(r.req, n),
         NEW x, x.req = SubSeq(r.req, 1, n), x.rep = <<>>
  PROVE  Calm(x)
<1>1. r.req \in Seq(Requests)
  BY QueueTypes
<1>2. Len(x.req) = n /\ \A i \in 1..n : x.req[i] = r.req[i]
  BY <1>1, PrefixSeq
<1> QED
  BY <1>2 DEF Calm, OnlyWrites

\* The socket ends, and with it some of what was on its way.
LEMMA StreamCut ==
  ASSUME NEW r \in SocketRecord, NEW c \in CtlRecord, NEW o, StreamOK(r, c, o), r.up,
         NEW n \in 0..Len(r.req), NEW m \in 0..Len(r.rep),
         NEW x \in SocketRecord, x.req = SubSeq(r.req, 1, n), x.rep = SubSeq(r.rep, 1, m),
         ~x.up, x.torn = r.torn, x.skewed = r.skewed, x.error = r.error
  PROVE  StreamOK(x, c, o)
<1>1. /\ r.req \in Seq(Requests) /\ r.rep \in Seq(Replies)
      /\ x.req \in Seq(Requests) /\ x.rep \in Seq(Replies)
  BY QueueTypes
<1>2. /\ Len(r.req) \in Nat /\ Len(x.req) = n /\ \A i \in 1..n : x.req[i] = r.req[i]
      /\ Len(r.rep) \in Nat /\ Len(x.rep) = m /\ \A i \in 1..m : x.rep[i] = r.rep[i]
  BY <1>1, PrefixSeq
<1>3. r.rep = <<>> => x.rep = <<>>
  <2>1. r.rep = <<>> => m = 0
    BY <1>1, EmptySeq
  <2> QED
    BY <1>1, <1>2, <2>1, EmptySeq
<1>4. ~x.torn /\ ~x.skewed
  BY DEF StreamOK
<1>5. ASSUME r.rep = <<>>, OnlyWrites(r.req, n) PROVE Calm(x)
  BY <1>3, <1>5, CalmPrefix
<1>6. CASE Calm(r)
  <2>1. OnlyWrites(r.req, n) /\ r.rep = <<>>
    BY <1>2, <1>6 DEF Calm, OnlyWrites
  <2> QED
    BY <1>4, <1>5, <2>1 DEF StreamOK
<1>7. CASE c.pc = "wait" /\ Asked(r, c, o)
  <2>1. CASE n = Len(r.req)
    <3>1. /\ r.rep = <<>> /\ n > 0 /\ \A i \in 1..(n - 1) : r.req[i].op = "write"
          /\ r.req[n].call = 2 * c.n + 1
          /\ r.req[n].op = IF c.call = "findOne" THEN "query" ELSE "getlasterror"
          /\ IF c.call = "findOne" THEN c.last = NoWrite ELSE EndsWith(r, n - 1, c.last, o)
      BY <1>7, <2>1 DEF Asked, OnlyWrites
    <3>2. x.req[n] = r.req[n] /\ \A i \in 1..(n - 1) : x.req[i].op = "write"
      BY <1>2, <3>1
    <3>3. EndsWith(r, n - 1, c.last, o) => EndsWith(x, n - 1, c.last, o)
      BY <1>2 DEF EndsWith
    <3>4. Asked(x, c, o)
      BY <1>2, <1>3, <3>1, <3>2, <3>3 DEF Asked, OnlyWrites
    <3> QED
      BY <1>4, <1>7, <3>4 DEF StreamOK
  <2>2. CASE n # Len(r.req)
    <3>1. n \in 0..(Len(r.req) - 1)
      BY <1>2, <2>2
    <3>2. r.rep = <<>> /\ OnlyWrites(r.req, n)
      BY <1>2, <1>7, <3>1 DEF Asked, OnlyWrites
    <3> QED
      BY <1>4, <1>5, <1>7, <3>2 DEF StreamOK
  <2> QED
    BY <2>1, <2>2
<1>8. CASE c.pc = "wait" /\ Answered(r, c, o)
  <2>1. r.req = <<>> /\ Len(r.rep) = 1
    BY <1>8 DEF Answered
  <2>2. n = 0
    BY <1>1, <2>1, EmptySeq
  <2>3. x.req = <<>> /\ Len(x.req) = 0
    BY <1>1, <1>2, <2>2, EmptySeq
  <2>4. CASE m = 1
    <3>1. x.rep[1] = r.rep[1] /\ Len(x.rep) = 1
      BY <1>2, <2>4
    <3>2. Answered(x, c, o)
      BY <1>8, <2>3, <3>1 DEF Answered
    <3> QED
      BY <1>4, <1>8, <3>2 DEF StreamOK
  <2>5. CASE m # 1
    <3>1. m = 0
      BY <2>1, <2>5
    <3>2. x.rep = <<>>
      BY <1>1, <1>2, <3>1, EmptySeq
    <3>3. Calm(x)
      BY <2>3, <3>2 DEF Calm, OnlyWrites
    <3> QED
      BY <1>4, <1>8, <3>3 DEF StreamOK
  <2> QED
    BY <2>4, <2>5
<1> QED
  BY <1>6, <1>7, <1>8 DEF StreamOK

\* A write is sent by an application that waits for nothing.
LEMMA StreamSent ==
  ASSUME NEW r \in SocketRecord, NEW c \in CtlRecord, NEW o, StreamOK(r, c, o), c.pc # "wait",
         NEW w \in Writes, NEW d, d.pc # "wait", d.last = w,
         NEW x \in SocketRecord, x.req = Append(r.req, [op |-> "write", write |-> w]),
         x.rep = r.rep, x.torn = r.torn, x.skewed = r.skewed
  PROVE  StreamOK(x, d, o)
<1> DEFINE m == [op |-> "write", write |-> w]  n == Len(r.req)
<1>1. m \in Requests /\ m.op = "write" /\ m.write = w /\ r.req \in Seq(Requests)
  BY WriteMessage, QueueTypes
<1> HIDE DEF m
<1>2. /\ n \in Nat /\ Len(x.req) = n + 1 /\ x.req[n + 1] = m
      /\ \A i \in 1..n : x.req[i] = r.req[i]
  BY <1>1, AppendSeq DEF m
<1>3. r.rep = <<>> /\ \A i \in 1..n : r.req[i].op = "write"
  BY DEF StreamOK, Calm, OnlyWrites
<1> HIDE DEF n
<1>4. \A i \in 1..(n + 1) : x.req[i].op = "write"
  <2>1. ASSUME NEW i \in 1..(n + 1) PROVE x.req[i].op = "write"
    <3>1. i = n + 1 \/ i \in 1..n
      BY <1>2
    <3> QED
      BY <1>1, <1>2, <1>3, <3>1
  <2> QED
    BY <2>1
<1>5. Calm(x)
  BY <1>2, <1>3, <1>4 DEF Calm, OnlyWrites
<1>6. EndsWith(x, Len(x.req), w, o)
  <2>1. n + 1 > 0 /\ n + 1 # 0
    BY <1>2
  <2> QED
    BY <1>1, <1>2, <2>1 DEF EndsWith
<1> QED
  BY <1>5, <1>6 DEF StreamOK

\* The query of a call is sent.
LEMMA StreamAsked ==
  ASSUME NEW r \in SocketRecord, NEW c \in CtlRecord, NEW o, StreamOK(r, c, o), c.pc # "wait",
         r.up, NEW m \in Requests, m.call = 2 * c.n + 1,
         m.op = IF c.call = "findOne" THEN "query" ELSE "getlasterror",
         NEW d, d.pc = "wait", d.call = c.call, d.n = c.n,
         d.last = IF c.call = "findOne" THEN NoWrite ELSE c.last,
         NEW x \in SocketRecord, x.req = Append(r.req, m), x.rep = r.rep, x.error = r.error,
         x.torn = r.torn, x.skewed = r.skewed
  PROVE  StreamOK(x, d, o)
<1> DEFINE n == Len(r.req)
<1>1. r.req \in Seq(Requests)
  BY QueueTypes
<1>2. /\ n \in Nat /\ Len(x.req) = n + 1 /\ x.req[n + 1] = m
      /\ \A i \in 1..n : x.req[i] = r.req[i]
  BY <1>1, AppendSeq
<1>3. /\ r.rep = <<>> /\ \A i \in 1..n : r.req[i].op = "write"
      /\ EndsWith(r, n, c.last, o)
  BY DEF StreamOK, Calm, OnlyWrites
<1> HIDE DEF n
<1>4. EndsWith(x, n, c.last, o)
  BY <1>2, <1>3 DEF EndsWith
<1>5. \A i \in 1..n : x.req[i].op = "write"
  BY <1>2, <1>3
<1>6. n + 1 > 0 /\ (n + 1) - 1 = n
  BY <1>2
<1>7. Asked(x, d, o)
  BY <1>2, <1>3, <1>4, <1>5, <1>6 DEF Asked, OnlyWrites
<1> QED
  BY <1>7 DEF StreamOK

-----------------------------------------------------------------------------
(***************************************************************************)
(* The calls of a careful application                                      *)
(***************************************************************************)

\* A call that has not returned asks something.
AskingOK ==
  /\ ctl.pc # "idle" =>
       /\ ctl.call \in {"write", "createIndex", "getLastError", "findOne"} /\ ctl.n > 0
       /\ ctl.index = TRUE => ctl.call = "createIndex"
       /\ ctl.call = "write" => ctl.acked = TRUE /\ ctl.write \in Writes /\ ctl.last = ctl.write
       /\ ctl.call \in {"getLastError", "findOne"} => ctl.write = NoWrite
  /\ ctl.pc = "wait" => conn.err = "SUCCESS" /\ (ctl.call = "findOne" => ctl.last = NoWrite)

\* The stream is known to hold nothing but what the call sent.
Trusted == /\ ctl.call # "createIndex"
           /\ ctl.pc = "idle" => ~Doubtful

TrustOK == Trusted /\ sock # 0 => StreamOK(net[sock], ctl, outcome)

Asserts == ctl.pc = "idle" /\ ctl.call = "getLastError" /\ (ctl.res = "ERROR" \/ conn.err = "SUCCESS")

\* What a call that has returned knows.
EndOK ==
  /\ Trusted /\ ctl.pc = "idle" => ctl.read # "other"
  /\ Asserts => Decided(ctl.last, outcome) /\ (ctl.res = "ERROR" <=> Failed(ctl.last, outcome))

CareOK == FlightOK /\ AskingOK /\ TrustOK /\ EndOK

LEMMA AskingStep == ASSUME TypeOK, AskingOK, Next PROVE AskingOK'
<1>1. ctl.n \in Nat /\ ctl.n + 1 > 0 /\ ctl.pc \in {"idle", "ask", "wait"} /\ ctl.index \in BOOLEAN
  BY DEF TypeOK, CtlRecord
<1>2. ASSUME NEW w \in Writes, NEW i, NEW inserts, NEW p, Write(w, i, inserts, p)
      PROVE  AskingOK'
  <2>1. /\ ctl'.call = "write" /\ ctl'.write = w /\ ctl'.n = ctl.n + 1 /\ ctl'.index = FALSE
        /\ Rejecting(w) \/ Sending(w)
    BY <1>2, WriteEffect
  <2>2. CASE Rejecting(w)
    BY <2>2 DEF Rejecting, AskingOK
  <2>3. CASE Sending(w)
    BY <1>1, <2>1, <2>3 DEF Sending, AskingOK
  <2> QED
    BY <2>1, <2>2, <2>3
<1>3. ASSUME NEW w \in Writes, NEW i, CreateIndex(w, i) PROVE AskingOK'
  <2>1. ctl'.call = "createIndex" /\ ctl'.n = ctl.n + 1 /\ ctl'.pc = "ask"
    BY <1>3, CreateIndexEffect
  <2> QED
    BY <1>1, <2>1 DEF AskingOK
<1>4. CASE GetLastError \/ FindOne
  <2>1. /\ ctl'.call \in {"getLastError", "findOne"} /\ ctl'.n = ctl.n + 1 /\ ctl'.pc = "ask"
        /\ ctl'.write = NoWrite /\ ctl'.index = FALSE
    BY <1>4, AskingEffect
  <2> QED
    BY <1>1, <2>1 DEF AskingOK
<1>5. ASSUME NEW p \in Concerns \cup {Null}, SetWriteConcern(p) PROVE AskingOK'
  <2>1. ctl'.pc = "idle"
    BY <1>5, SetWriteConcernEffect
  <2> QED
    BY <2>1 DEF AskingOK
<1>6. CASE Ask
  <2>1. /\ ctl.pc = "ask" /\ ctl'.call = ctl.call /\ ctl'.write = ctl.write /\ ctl'.n = ctl.n
    BY <1>6, AskEffect
  <2>2. PICK r \in Sent :
          /\ conn'.err = SendError(r)
          /\ \/ /\ r = "ok" /\ ctl'.pc = "wait" /\ ctl'.index = ctl.index
                /\ ctl'.acked = ctl.acked
                /\ ctl'.last = IF ctl.call = "findOne" THEN NoWrite ELSE ctl.last
             \/ /\ ctl'.index = FALSE /\ ctl'.last = ctl.last /\ ctl'.acked = ctl.acked
                /\ ctl'.pc \in {"ask", "idle"}
    BY <1>6, AskEffect
  <2> QED
    BY <2>1, <2>2 DEF AskingOK, SendError
<1>7. CASE Answer
  <2>1. /\ ctl.pc = "wait" /\ ctl'.call = ctl.call /\ ctl'.write = ctl.write /\ ctl'.n = ctl.n
        /\ ctl'.acked = ctl.acked /\ ctl'.last = ctl.last /\ ctl'.index = FALSE
    BY <1>7, AnswerEffect
  <2>2. ctl'.pc \in {"ask", "idle"}
    BY <1>7, AnswerEffect DEF Answering
  <2> QED
    BY <2>1, <2>2 DEF AskingOK
<1>8. CASE Reconnect
  <2>1. ctl'.pc = "idle"
    BY <1>8, ReconnectEffect
  <2> QED
    BY <2>1 DEF AskingOK
<1>9. CASE World /\ UNCHANGED <<conn, ctl, told>>
  BY <1>9 DEF AskingOK
<1> QED
  BY <1>2, <1>3, <1>4, <1>5, <1>6, <1>7, <1>8, <1>9 DEF Next

\* A careful application calls when it trusts the stream.
LEMMA CallsTrust ==
  ASSUME Careful, CanCall PROVE Trusted /\ ctl.pc = "idle"
  BY DEF CanCall, Trusted, Doubtful

LEMMA IdleStream ==
  ASSUME CareOK, Trusted, ctl.pc # "wait", sock # 0
  PROVE  /\ sock \in Socks /\ net[sock] \in SocketRecord /\ ~net[sock].torn
         /\ StreamOK(net[sock], ctl, outcome)
<1>1. sock \in Socks /\ net[sock] \in SocketRecord
  BY SockType DEF CareOK, FlightOK, TypeOK
<1>2. StreamOK(net[sock], ctl, outcome)
  BY DEF CareOK, TrustOK
<1> QED
  BY <1>1, <1>2 DEF StreamOK

\* Nothing is sent.
LEMMA IdleSame ==
  ASSUME CareOK, Trusted, ctl.pc # "wait", sock' = sock, net' = net, outcome' = outcome,
         ctl'.pc # "wait", ctl'.last = ctl.last
  PROVE  TrustOK'
<1>1. sock # 0 => StreamOK(net[sock], ctl, outcome)
  BY IdleStream
<1>2. sock # 0 => StreamOK(net[sock], ctl', outcome)
  BY <1>1 DEF StreamOK
<1> QED
  BY <1>2 DEF TrustOK

LEMMA SendingTrust ==
  ASSUME CareOK, Trusted, ctl.pc = "idle", NEW w \in Writes, Sending(w), ctl'.call = "write"
  PROVE  TrustOK'
<1> SUFFICES ASSUME Trusted', sock' # 0 PROVE StreamOK(net'[sock'], ctl', outcome')
  BY DEF TrustOK
<1> DEFINE m == [op |-> "write", write |-> w]
<1>1. PICK r \in Sent : Send(m, r) /\ conn'.err = SendError(r)
  BY DEF Sending
<1>2. ctl'.last = w /\ ctl'.pc \in {"ask", "idle"} /\ (r # "ok" => ctl'.pc = "idle")
  <2>1. PICK q \in Sent :
          /\ conn'.err = SendError(q) /\ ctl'.last = w
          /\ \/ q = "ok" /\ ctl'.pc = "ask"
             \/ ctl'.pc = "idle"
    BY DEF Sending
  <2> QED
    BY <1>1, <2>1 DEF SendError
<1>3. m \in Requests /\ WireTypeOK
  BY WriteMessage DEF CareOK, FlightOK, TypeOK
<1> HIDE DEF m
<1>4. /\ sock' = sock /\ outcome' = outcome
      /\ \/ net' = net /\ (r = "ok" => sock # 0 /\ (~Up \/ net[sock].torn))
         \/ r = "ok" /\ Up /\ ~net[sock].torn /\ net' = [net EXCEPT ![sock] = Appended(m)]
         \/ r # "ok" /\ Up
  BY <1>1, <1>3, SendEffect
<1>5. r = "ok"
  BY <1>1, <1>2 DEF Trusted, Doubtful, SendError
<1>6. /\ sock \in Socks /\ net[sock] \in SocketRecord /\ ~net[sock].torn
      /\ StreamOK(net[sock], ctl, outcome)
  BY <1>4, IdleStream
<1>7. CASE net' = net /\ (~Up \/ net[sock].torn)
  <2>1. ~net[sock].up
    BY <1>4, <1>6, <1>7 DEF Up
  <2> QED
    BY <1>2, <1>4, <1>6, <1>7, <2>1 DEF StreamOK
<1>8. CASE Up /\ net' = [net EXCEPT ![sock] = Appended(m)]
  <2>1. net[sock].req \in Seq(Requests) /\ Append(net[sock].req, m) \in Seq(Requests)
    BY <1>3, <1>6, QueueTypes, AppendSeq
  <2> DEFINE x == Appended(m)
  <2>2. /\ x \in SocketRecord /\ x.req = Append(net[sock].req, m) /\ x.rep = net[sock].rep
        /\ x.torn = net[sock].torn /\ x.skewed = net[sock].skewed
    BY <1>6, <2>1, ReqField DEF Appended
  <2>3. net'[sock] = x
    BY <1>3, <1>6, <1>8, <2>2, NetAt
  <2> HIDE DEF x
  <2>4. StreamOK(x, ctl', outcome)
    BY <1>2, <1>6, <2>2, StreamSent DEF m, CareOK, FlightOK, TypeOK
  <2> QED
    BY <1>4, <2>3, <2>4
<1> QED
  BY <1>4, <1>5, <1>7, <1>8

LEMMA AskTrust ==
  ASSUME CareOK, Ask PROVE TrustOK'
<1> SUFFICES ASSUME Trusted', sock' # 0 PROVE StreamOK(net'[sock'], ctl', outcome')
  BY DEF TrustOK
<1>1. /\ ctl.pc = "ask" /\ ctl' \in CtlRecord /\ ctl'.call = ctl.call /\ ctl'.n = ctl.n
      /\ ctl \in CtlRecord /\ WireTypeOK
  BY AskEffect DEF CareOK, FlightOK, TypeOK
<1>2. PICK r \in Sent :
        /\ Send(Question, r) /\ conn'.err = SendError(r)
        /\ \/ /\ r = "ok" /\ ctl'.pc = "wait"
              /\ ctl'.last = IF ctl.call = "findOne" THEN NoWrite ELSE ctl.last
           \/ r # "ok" /\ (ctl.index = TRUE \/ (ctl.index = FALSE /\ ctl'.pc = "idle"))
  BY AskEffect DEF CareOK, FlightOK
<1>3. /\ ctl.call # "createIndex" /\ Trusted /\ ctl.index = FALSE
      /\ ctl.call # "reconnect"
  BY <1>1 DEF Trusted, CareOK, AskingOK, CtlRecord
<1>4. r = "ok"
  BY <1>1, <1>2, <1>3 DEF Trusted, Doubtful, SendError
<1> DEFINE m == Question
<1>5. /\ m \in Requests /\ m.call = 2 * ctl.n + 1
      /\ m.op = IF ctl.call = "findOne" THEN "query" ELSE "getlasterror"
  BY <1>1, <1>3, QuestionType, TagType
<1> HIDE DEF m
<1>6. /\ sock' = sock /\ outcome' = outcome
      /\ \/ net' = net /\ (~Up \/ net[sock].torn)
         \/ Up /\ net' = [net EXCEPT ![sock] = Appended(m)]
  BY <1>1, <1>2, <1>4, <1>5, SendEffect DEF m
<1>7. /\ sock \in Socks /\ net[sock] \in SocketRecord /\ ~net[sock].torn
      /\ StreamOK(net[sock], ctl, outcome)
  BY <1>1, <1>3, <1>6, IdleStream
<1>8. CASE net' = net /\ (~Up \/ net[sock].torn)
  <2>1. ~net[sock].up
    BY <1>6, <1>7, <1>8 DEF Up
  <2> QED
    BY <1>1, <1>2, <1>4, <1>6, <1>7, <1>8, <2>1 DEF StreamOK
<1>9. CASE Up /\ net' = [net EXCEPT ![sock] = Appended(m)]
  <2>1. net[sock].req \in Seq(Requests) /\ Append(net[sock].req, m) \in Seq(Requests)
    BY <1>5, <1>7, QueueTypes, AppendSeq
  <2> DEFINE x == Appended(m)
  <2>2. /\ x \in SocketRecord /\ x.req = Append(net[sock].req, m) /\ x.rep = net[sock].rep
        /\ x.torn = net[sock].torn /\ x.skewed = net[sock].skewed /\ x.error = net[sock].error
    BY <1>7, <2>1, ReqField DEF Appended
  <2>3. net'[sock] = x
    BY <1>1, <1>7, <1>9, <2>2, NetAt
  <2> HIDE DEF x
  <2>4. net[sock].up
    BY <1>9 DEF Up
  <2>5. StreamOK(x, ctl', outcome)
    BY <1>1, <1>2, <1>4, <1>5, <1>7, <2>2, <2>4, StreamAsked
  <2> QED
    BY <1>6, <2>3, <2>5
<1> QED
  BY <1>6, <1>8, <1>9

\* Either the answer is its own and tells the truth ...
Knows ==
  /\ ctl'.read = "own" /\ TrustOK' /\ Decided(ctl.last, outcome)
  /\ ctl'.res = "ERROR" <=> Failed(ctl.last, outcome)
  /\ conn'.err = IF Failed(ctl.last, outcome) /\ ctl.call = "write" THEN "WRITE_ERROR"
                 ELSE "SUCCESS"

\* ... or an error was left.
Doubts ==
  /\ conn'.err \in {"IO_ERROR", "COMMAND_FAILED"}
  /\ IF ctl.call \in {"write", "findOne"} THEN conn'.err = "IO_ERROR" ELSE ctl'.res = "OK"

LEMMA AnswerKnows ==
  ASSUME CareOK, Answer, ctl.call # "createIndex"
  PROVE  /\ ctl'.pc = "idle" /\ outcome' = outcome
         /\ Tells(ctl.write, Verdict(ctl, ctl'.res, conn'.err))
         /\ Knows \/ Doubts
<1>0. PICK ok \in BOOLEAN, io \in BOOLEAN, v \in Replies, res \in {"OK", "ERROR"}, e \in Errors :
        Answering(ok, io, v, res, e)
  BY AnswerEffect DEF CareOK, FlightOK
<1>1. /\ WireTypeOK /\ ctl \in CtlRecord /\ ctl.index = FALSE /\ conn.err = "SUCCESS"
      /\ ctl.call \in {"write", "getLastError", "findOne"} /\ ctl.n > 0
      /\ ctl.pc = "wait" /\ ctl'.last = ctl.last
  BY AnswerEffect DEF CareOK, FlightOK, TypeOK, AskingOK, CtlRecord
<1>2. ctl'.pc = "idle" /\ ctl'.res = res /\ conn'.err = e /\ Read(ok, io, v)
      /\ Tells(ctl.write, Verdict(ctl, res, e))
  BY <1>0, <1>1 DEF Answering
<1>3. Tag = 2 * ctl.n + 1 /\ Tag # 0 /\ Garbage.call = 0
  BY <1>1, TagType, GarbageType
<1>4. /\ Checks <=> ctl.call = "write"
      /\ NoReply = IF ctl.call \in {"write", "findOne"} THEN "ERROR" ELSE "OK"
  BY <1>1 DEF Checks, NoReply
<1>5. /\ sock' = sock /\ outcome' = outcome
      /\ \/ /\ ok /\ ~io /\ sock # 0 /\ net[sock].rep # <<>>
            /\ v = Head(net[sock].rep) /\ net' = [net EXCEPT ![sock] = Taken]
         \/ sock # 0 /\ net[sock].skewed
         \/ io /\ v = Garbage
  BY <1>1, <1>2, ReadEffect
<1>6. sock # 0 => StreamOK(net[sock], ctl, outcome)
  BY <1>1 DEF CareOK, TrustOK, Trusted
<1>7. CASE io /\ v = Garbage
  <2>1. /\ e \in {"IO_ERROR", "COMMAND_FAILED"}
        /\ IF ctl.call \in {"write", "findOne"} THEN e = "IO_ERROR" ELSE res = "OK"
    BY <1>0, <1>1, <1>4, <1>7 DEF Answering
  <2> QED
    BY <1>2, <1>5, <2>1 DEF Doubts
<1>8. CASE sock # 0 /\ net[sock].skewed
  BY <1>6, <1>8 DEF StreamOK
<1>9. CASE /\ ok /\ ~io /\ sock # 0 /\ net[sock].rep # <<>>
           /\ v = Head(net[sock].rep) /\ net' = [net EXCEPT ![sock] = Taken]
  <2> DEFINE r == net[sock]  x == Taken
  <2>1. sock \in Socks /\ r \in SocketRecord /\ r.rep \in Seq(Replies) /\ StreamOK(r, ctl, outcome)
    BY <1>1, <1>6, <1>9, SockType, QueueTypes
  <2>2. Answered(r, ctl, outcome) /\ ~r.torn /\ ~r.skewed
    BY <1>1, <1>9, <2>1 DEF StreamOK, Calm, Asked
  <2>3. /\ Tail(r.rep) \in Seq(Replies) /\ Len(r.rep) \in Nat /\ Len(Tail(r.rep)) = Len(r.rep) - 1
        /\ v = r.rep[1]
    BY <1>9, <2>1, TailSeq
  <2>4. Tail(r.rep) = <<>>
    <3>1. Len(Tail(r.rep)) = 0
      BY <2>2, <2>3 DEF Answered
    <3> QED
      BY <2>3, <3>1, EmptySeq
  <2>5. /\ x \in SocketRecord /\ x.req = r.req /\ x.rep = Tail(r.rep) /\ x.up = r.up
        /\ x.torn = r.torn /\ x.skewed = r.skewed /\ x.error = r.error
    BY <2>1, <2>3, RepField DEF Taken
  <2>6. net'[sock] = x
    BY <1>1, <1>9, <2>1, <2>5, NetAt
  <2> HIDE DEF r, x
  <2>7. /\ v.call = Tag /\ Decided(ctl.last, outcome) /\ (v.error <=> Failed(ctl.last, outcome))
        /\ r.req = <<>> /\ (r.up => (r.error <=> Failed(ctl.last, outcome)))
    BY <1>3, <2>2, <2>3 DEF Answered
  <2>8. v # Garbage
    BY <1>3, <2>7
  <2>9. ctl'.read = "own"
    BY <1>0, <2>7 DEF Answering
  <2>10. ctl.call = "findOne" => ~Failed(ctl.last, outcome)
    BY <1>1 DEF CareOK, AskingOK, Failed
  <2>11. /\ res = "ERROR" <=> Failed(ctl.last, outcome)
         /\ e = IF Failed(ctl.last, outcome) /\ ctl.call = "write" THEN "WRITE_ERROR"
                ELSE "SUCCESS"
    BY <1>0, <1>1, <1>4, <1>9, <2>7, <2>8, <2>10 DEF Answering
  <2>12. StreamOK(x, ctl', outcome)
    <3>1. x.req = <<>> /\ x.rep = <<>> /\ Len(<<>>) = 0
      BY <2>4, <2>5, <2>7, EmptySeq
    <3>2. Calm(x)
      BY <3>1 DEF Calm, OnlyWrites
    <3>3. x.up => EndsWith(x, Len(x.req), ctl'.last, outcome)
      BY <1>1, <2>5, <2>7, <3>1 DEF EndsWith
    <3> QED
      BY <1>2, <2>2, <2>5, <3>2, <3>3 DEF StreamOK
  <2>13. TrustOK'
    BY <1>5, <2>6, <2>12 DEF TrustOK
  <2> QED
    BY <1>2, <1>5, <2>7, <2>9, <2>11, <2>13 DEF Knows
<1> QED
  BY <1>5, <1>7, <1>8, <1>9

LEMMA ReconnectTrust ==
  ASSUME CareOK, Reconnect PROVE TrustOK'
<1> SUFFICES ASSUME sock' # 0 PROVE StreamOK(net'[sock'], ctl', outcome')
  BY DEF TrustOK
<1>1. ctl'.pc = "idle" /\ ctl'.last = NoWrite /\ WireTypeOK
  BY ReconnectEffect DEF CareOK, FlightOK, TypeOK
<1>2. PICK n \in 0..(IF sock = 0 THEN 0 ELSE Len(net[sock].req)) :
        Connect(conn.connected, n) \/ RefusedConnect(conn.connected, n)
  BY ReconnectEffect DEF CareOK, FlightOK
<1>3. Connect(conn.connected, n)
  BY <1>2 DEF RefusedConnect
<1> DEFINE d == Disconnected(conn.connected, n)
<1>4. d \in [Socks -> SocketRecord]
  BY <1>1, DisconnectedEffect
<1> HIDE DEF d
<1>5. PICK s \in Socks : sock' = s /\ net' = [d EXCEPT ![s] = Fresh]
  BY <1>3 DEF Connect, d
<1>6. net'[sock'] = Fresh
  BY <1>4, <1>5
<1>7. /\ Fresh.req = <<>> /\ Fresh.rep = <<>> /\ ~Fresh.torn /\ ~Fresh.skewed /\ ~Fresh.error
      /\ Len(<<>>) = 0
  BY FreshType, EmptySeq
<1>8. Calm(Fresh)
  BY <1>7 DEF Calm, OnlyWrites
<1>9. EndsWith(Fresh, Len(Fresh.req), NoWrite, outcome')
  BY <1>7 DEF EndsWith, Decided, Failed
<1> QED
  BY <1>1, <1>6, <1>7, <1>8, <1>9 DEF StreamOK

\* What was decided about a write stays so.
LEMMA OutcomeKept ==
  ASSUME FlightOK, World
  PROVE  \A w \in Writes : outcome[w] # "none" => outcome'[w] = outcome[w]
<1>1. PICK s \in Socks : ServeWrite(s) \/ ServeQuery(s) \/ HangUp(s) \/ LinkBreaks(s)
  BY DEF World
<1>2. CASE ServeWrite(s)
  <2> DEFINE w == Head(net[s].req).write
  <2>1. /\ w \in Writes /\ outcome[w] = "none"
        /\ outcome' = [outcome EXCEPT ![w] = IF w \in Refused THEN "failed" ELSE "done"]
    BY <1>2, ServedWrite
  <2> HIDE DEF w
  <2> QED
    BY <2>1 DEF FlightOK, TypeOK, WireTypeOK
<1>3. CASE ServeQuery(s) \/ HangUp(s) \/ LinkBreaks(s)
  <2>1. outcome' = outcome
    BY <1>3, ServeQueryEffect, CutEffect DEF FlightOK, TypeOK
  <2> QED
    BY <2>1
<1> QED
  BY <1>1, <1>2, <1>3

LEMMA WorldTrust ==
  ASSUME CareOK, World, UNCHANGED <<conn, ctl, told>> PROVE TrustOK'
<1> SUFFICES ASSUME Trusted', sock' # 0 PROVE StreamOK(net'[sock'], ctl', outcome')
  BY DEF TrustOK
<1>1. PICK s \in Socks : ServeWrite(s) \/ ServeQuery(s) \/ HangUp(s) \/ LinkBreaks(s)
  BY DEF World
<1>2. FlightOK /\ WireTypeOK /\ ctl \in CtlRecord /\ ctl' = ctl
  BY DEF CareOK, FlightOK, TypeOK
<1>3. sock' = sock
  BY <1>1, <1>2, ServeWriteEffect, ServeQueryEffect, CutEffect
<1> DEFINE r == net[sock]
<1>4. sock \in Socks /\ r \in SocketRecord /\ StreamOK(r, ctl, outcome)
  <2>1. Trusted
    BY DEF Trusted, Doubtful
  <2> QED
    BY <1>2, <1>3, <2>1, SockType DEF CareOK, TrustOK
<1>5. CASE s # sock
  <2>1. net'[sock] = net[sock]
    <3>1. \E x \in SocketRecord : net' = [net EXCEPT ![s] = x]
      BY <1>1, <1>2, WorldOne
    <3> QED
      BY <1>2, <1>4, <1>5, <3>1, NetAt
  <2> QED
    BY <1>2, <1>3, <1>4, <2>1, StreamKept, OutcomeKept
<1>6. CASE s = sock /\ ServeWrite(s)
  <2> DEFINE w == Head(r.req).write  e == w \in Refused  x == Served(r, e)
  <2>1. /\ r.req # <<>> /\ Head(r.req).op = "write" /\ net' = [net EXCEPT ![sock] = x]
        /\ w \in Writes /\ e \in BOOLEAN
        /\ outcome' = [outcome EXCEPT ![w] = IF e THEN "failed" ELSE "done"]
    BY <1>2, <1>6, ServeWriteEffect
  <2>2. outcome'[w] # "none" /\ (e <=> outcome'[w] = "failed")
    BY <1>2, <2>1 DEF WireTypeOK
  <2>3. Head(r.req) = r.req[1]
    BY <1>4, <2>1, QueueTypes, TailSeq
  <2>4. w = r.req[1].write
    BY <2>3
  <2> HIDE DEF e, w
  <2>5. /\ x \in SocketRecord /\ x.req = Tail(r.req) /\ x.rep = r.rep /\ x.up = r.up
        /\ x.torn = r.torn /\ x.skewed = r.skewed /\ x.error = e
    BY <1>4, <2>1, ServedFields
  <2>6. net'[sock] = x
    BY <1>2, <1>4, <2>1, <2>5, NetAt
  <2> HIDE DEF x, r
  <2>7. StreamOK(x, ctl, outcome')
    BY <1>2, <1>4, <2>1, <2>2, <2>3, <2>4, <2>5, StreamServed
  <2> QED
    BY <1>2, <1>3, <2>6, <2>7
<1>7. CASE s = sock /\ ServeQuery(s)
  <2> DEFINE v == ServeQueryReply(s)  y == Replied(r, v)  e == v.error  x == Served(y, e)
  <2>1. /\ r.req # <<>> /\ Head(r.req).op # "write" /\ net' = [net EXCEPT ![sock] = x]
        /\ v \in Replies /\ v.call = Head(r.req).call /\ outcome' = outcome
        /\ e = (Head(r.req).op = "getlasterror" /\ r.error)
    BY <1>2, <1>7, ServeQueryEffect
  <2>2. Head(r.req) = r.req[1]
    BY <1>4, <2>1, QueueTypes, TailSeq
  <2> HIDE DEF v
  <2>3. /\ y \in SocketRecord /\ y.req = r.req /\ y.up = r.up
        /\ y.rep = (IF r.up THEN Append(r.rep, v) ELSE r.rep)
        /\ y.torn = r.torn /\ y.skewed = r.skewed
    BY <1>4, <2>1, RepliedFields
  <2>4. e \in BOOLEAN
    BY <2>1 DEF Replies
  <2> HIDE DEF y, e
  <2>5. /\ x \in SocketRecord /\ x.req = Tail(r.req) /\ x.rep = y.rep /\ x.up = r.up
        /\ x.torn = r.torn /\ x.skewed = r.skewed /\ x.error = e
    BY <2>1, <2>3, <2>4, ServedFields
  <2>6. net'[sock] = x
    BY <1>2, <1>4, <2>1, <2>5, NetAt
  <2> HIDE DEF x, r
  <2>7. /\ r.req[1].op # "write" /\ v.call = r.req[1].call
        /\ v.error <=> (r.req[1].op = "getlasterror" /\ r.error)
        /\ x.error = v.error
    BY <2>1, <2>2, <2>5 DEF e
  <2>8. x.rep = (IF r.up THEN Append(r.rep, v) ELSE r.rep)
    BY <2>3, <2>5
  <2>9. StreamOK(x, ctl, outcome)
    BY <1>2, <1>4, <2>1, <2>5, <2>7, <2>8, StreamReplied
  <2> QED
    BY <1>2, <1>3, <2>1, <2>6, <2>9
<1>8. CASE s = sock /\ (HangUp(s) \/ LinkBreaks(s))
  <2>1. r.up /\ outcome' = outcome
    BY <1>2, <1>8, CutEffect
  <2>2. PICK n \in 0..Len(r.req), m \in 0..Len(r.rep) : net' = [net EXCEPT ![sock] = Cut(r, n, m)]
    BY <1>2, <1>8, CutEffect
  <2> DEFINE x == Cut(r, n, m)
  <2>3. /\ x \in SocketRecord /\ ~x.up
        /\ x.req = SubSeq(r.req, 1, n) /\ x.rep = SubSeq(r.rep, 1, m)
        /\ x.torn = r.torn /\ x.skewed = r.skewed /\ x.error = r.error
    BY <1>4, CutFields
  <2>4. net'[sock] = x
    BY <1>2, <1>4, <2>2, <2>3, NetAt
  <2> HIDE DEF x, r
  <2>5. StreamOK(x, ctl, outcome)
    BY <1>2, <1>4, <2>1, <2>3, StreamCut
  <2> QED
    BY <1>2, <1>3, <2>1, <2>4, <2>5
<1> QED
  BY <1>1, <1>5, <1>6, <1>7, <1>8

LEMMA EndStep ==
  ASSUME Careful, CareOK, Next PROVE EndOK'
<1>1. TypeOK /\ FlightOK /\ AskingOK /\ ctl \in CtlRecord
  BY DEF CareOK, FlightOK, TypeOK
<1>2. ASSUME NEW w \in Writes, NEW i, NEW inserts, NEW p, Write(w, i, inserts, p)
      PROVE  EndOK'
  <2>1. ctl'.call = "write" /\ ctl'.read = "none"
    BY <1>1, <1>2, WriteEffect
  <2> QED
    BY <2>1 DEF EndOK, Asserts
<1>3. ASSUME NEW w \in Writes, NEW i, CreateIndex(w, i) PROVE EndOK'
  <2>1. ctl'.pc = "ask"
    BY <1>1, <1>3, CreateIndexEffect
  <2> QED
    BY <2>1 DEF EndOK, Asserts
<1>4. CASE GetLastError \/ FindOne
  <2>1. ctl'.pc = "ask"
    BY <1>1, <1>4, AskingEffect
  <2> QED
    BY <2>1 DEF EndOK, Asserts
<1>5. ASSUME NEW p \in Concerns \cup {Null}, SetWriteConcern(p) PROVE EndOK'
  <2>1. ctl'.call = "setWriteConcern" /\ ctl'.read = "none"
    BY <1>1, <1>5, SetWriteConcernEffect
  <2> QED
    BY <2>1 DEF EndOK, Asserts
<1>6. CASE Ask
  <2>1. ctl.pc = "ask" /\ ctl'.call = ctl.call /\ ctl.call # "reconnect"
    BY <1>1, <1>6, AskEffect DEF AskingOK
  <2>2. PICK r \in Sent :
          /\ conn'.err = SendError(r)
          /\ \/ ctl'.pc = "wait"
             \/ /\ r # "ok"
                /\ \/ ctl'.pc = "ask"
                   \/ ctl.index = FALSE /\ ctl'.pc = "idle" /\ ctl'.res = NoReply
    BY <1>1, <1>6, AskEffect
  <2>3. CASE ctl'.pc \in {"ask", "wait"}
    BY <2>3 DEF EndOK, Asserts
  <2>4. CASE r # "ok" /\ ctl.index = FALSE /\ ctl'.pc = "idle" /\ ctl'.res = NoReply
    <3>1. conn'.err = "IO_ERROR"
      BY <2>2, <2>4 DEF SendError
    <3>2. ~Trusted'
      BY <2>1, <2>4, <3>1 DEF Trusted, Doubtful
    <3>3. ctl.call = "getLastError" => NoReply = "OK"
      BY <2>4 DEF NoReply, Checks
    <3> QED
      BY <2>1, <2>4, <3>1, <3>2, <3>3 DEF EndOK, Asserts
  <2> QED
    BY <2>2, <2>3, <2>4
<1>7. CASE Answer
  <2>1. ctl.pc = "wait" /\ ctl'.call = ctl.call /\ ctl.call # "reconnect" /\ ctl'.last = ctl.last
    BY <1>1, <1>7, AnswerEffect DEF AskingOK
  <2>3. CASE ctl.call = "createIndex"
    BY <2>1, <2>3 DEF EndOK, Asserts, Trusted
  <2>4. CASE ctl.call # "createIndex"
    <3>1. ctl'.pc = "idle" /\ outcome' = outcome /\ (Knows \/ Doubts)
      BY <1>7, <2>4, AnswerKnows
    <3>3. CASE Knows
      BY <2>1, <3>1, <3>3 DEF EndOK, Knows
    <3>4. CASE Doubts
      <4>1. ~Trusted'
        BY <2>1, <3>1, <3>4 DEF Trusted, Doubtful, Doubts
      <4>2. ~Asserts'
        BY <2>1, <3>1, <3>4 DEF Asserts, Doubts
      <4> QED
        BY <4>1, <4>2 DEF EndOK
    <3> QED
      BY <3>1, <3>3, <3>4
  <2> QED
    BY <2>3, <2>4
<1>8. CASE Reconnect
  <2>1. ctl'.call = "reconnect" /\ ctl'.read = "none"
    BY <1>1, <1>8, ReconnectEffect
  <2> QED
    BY <2>1 DEF EndOK, Asserts
<1>9. CASE World /\ UNCHANGED <<conn, ctl, told>>
  <2>1. (Asserts' <=> Asserts) /\ (Trusted' <=> Trusted)
    BY <1>9 DEF Asserts, Trusted, Doubtful
  <2>2. \A w \in Writes : outcome[w] # "none" => outcome'[w] = outcome[w]
    BY <1>1, <1>9, OutcomeKept
  <2>3. ctl.last \in Writes \cup {NoWrite}
    BY <1>1 DEF CtlRecord
  <2>4. Decided(ctl.last, outcome) => /\ Decided(ctl.last, outcome')
                                      /\ Failed(ctl.last, outcome) <=> Failed(ctl.last, outcome')
    BY <2>2, <2>3 DEF Decided, Failed
  <2> QED
    BY <1>9, <2>1, <2>4 DEF EndOK, CareOK
<1> QED
  BY <1>2, <1>3, <1>4, <1>5, <1>6, <1>7, <1>8, <1>9 DEF Next

LEMMA CareInit == Init => CareOK
<1> SUFFICES ASSUME Init PROVE CareOK
  OBVIOUS
<1>1. FlightOK
  BY FlightInit
<1>2. AskingOK /\ EndOK
  BY DEF Init, AskingOK, EndOK, Asserts
<1>3. TrustOK
  <2> DEFINE y == TRUE  r == [Fresh EXCEPT !.opened = y, !.up = y]
  <2>1. y \in BOOLEAN /\ net[sock] = r
    BY WiresAssumption DEF Init, WireInit
  <2> HIDE DEF y
  <2>2. /\ r.req = <<>> /\ r.rep = <<>> /\ ~r.torn /\ ~r.skewed /\ ~r.error /\ Len(<<>>) = 0
    BY <2>1, FreshFields, EmptySeq
  <2> HIDE DEF r
  <2>3. Calm(r)
    BY <2>2 DEF Calm, OnlyWrites
  <2>4. EndsWith(r, Len(r.req), NoWrite, outcome)
    BY <2>2 DEF EndsWith, Decided, Failed
  <2>5. ctl.pc = "idle" /\ ctl.last = NoWrite
    BY DEF Init
  <2>6. StreamOK(r, ctl, outcome)
    BY <2>2, <2>3, <2>4, <2>5 DEF StreamOK
  <2> QED
    BY <2>1, <2>6 DEF TrustOK
<1> QED
  BY <1>1, <1>2, <1>3 DEF CareOK

LEMMA CareStep ==
  ASSUME Careful, CareOK, Next PROVE CareOK'
<1>1. TypeOK /\ FlightOK /\ AskingOK
  BY DEF CareOK, FlightOK
<1>2. FlightOK' /\ AskingOK' /\ EndOK'
  BY <1>1, FlightStep, AskingStep, EndStep
<1> SUFFICES TrustOK'
  BY <1>2 DEF CareOK
<1>3. ASSUME NEW w \in Writes, NEW i, NEW inserts, NEW p, Write(w, i, inserts, p)
      PROVE  TrustOK'
  <2>1. /\ CanCall /\ ctl'.call = "write"
        /\ Rejecting(w) \/ Sending(w)
    BY <1>1, <1>3, WriteEffect
  <2>2. Trusted /\ ctl.pc = "idle"
    BY <2>1, CallsTrust
  <2>3. CASE Rejecting(w)
    BY <2>2, <2>3, IdleSame DEF Rejecting
  <2>4. CASE Sending(w)
    BY <2>1, <2>2, <2>4, SendingTrust
  <2> QED
    BY <2>1, <2>3, <2>4
<1>4. ASSUME NEW w \in Writes, NEW i, CreateIndex(w, i) PROVE TrustOK'
  <2>1. ctl'.call = "createIndex"
    BY <1>1, <1>4, CreateIndexEffect
  <2> QED
    BY <2>1 DEF TrustOK, Trusted
<1>5. CASE GetLastError \/ FindOne
  <2>1. /\ CanCall /\ ctl'.pc = "ask" /\ ctl'.last = ctl.last
        /\ sock' = sock /\ net' = net /\ outcome' = outcome
    BY <1>1, <1>5, AskingEffect
  <2> QED
    BY <2>1, CallsTrust, IdleSame
<1>6. ASSUME NEW p \in Concerns \cup {Null}, SetWriteConcern(p) PROVE TrustOK'
  <2>1. /\ CanCall /\ ctl'.pc = "idle" /\ ctl'.last = ctl.last
        /\ sock' = sock /\ net' = net /\ outcome' = outcome
    BY <1>1, <1>6, SetWriteConcernEffect
  <2> QED
    BY <2>1, CallsTrust, IdleSame
<1>7. CASE Answer
  <2>1. ctl.pc = "wait" /\ ctl'.call = ctl.call /\ ctl.call # "reconnect" /\ ctl'.last = ctl.last
    BY <1>1, <1>7, AnswerEffect DEF AskingOK
  <2>3. CASE ctl.call = "createIndex"
    BY <2>1, <2>3 DEF TrustOK, Trusted
  <2>4. CASE ctl.call # "createIndex"
    <3>1. ctl'.pc = "idle" /\ (Knows \/ Doubts)
      BY <1>7, <2>4, AnswerKnows
    <3> QED
      BY <2>1, <3>1 DEF TrustOK, Trusted, Doubtful, Knows, Doubts
  <2> QED
    BY <2>3, <2>4
<1>8. CASE World /\ UNCHANGED <<conn, ctl, told>>
  BY <1>8, WorldTrust
<1> QED
  BY <1>3, <1>4, <1>5, <1>6, <1>7, <1>8, AskTrust, ReconnectTrust DEF Next

-----------------------------------------------------------------------------
(***************************************************************************)
(* What a careful application is promised                                  *)
(***************************************************************************)

LEMMA TellsTold ==
  ASSUME NEW w \in Writes, NEW t, Tells(w, t) PROVE told' = [told EXCEPT ![w] = t]
  BY WiresAssumption DEF Tells

\* A write of which nothing was told is called.
LEMMA PromiseCall ==
  ASSUME CareOK, ctl.pc = "idle", NEW w \in Writes, told[w] = "uncalled",
         NEW t \in {"called", "rejected", "unknown"}, Tells(w, t), outcome' = outcome
  PROVE  Promised!Next
<1>1. \A v \in Writes : told[v] # "called"
  BY NoneCalled DEF CareOK
<1>2. told' = [told EXCEPT ![w] = t]
  BY TellsTold
<1>3. Promised!Call(w, t)
  BY <1>1, <1>2 DEF Promised!Call
<1> QED
  BY <1>3 DEF Promised!Next

\* The write whose call goes on is told of, or the call goes on.
LEMMA PromiseTell ==
  ASSUME CareOK, ctl.pc # "idle",
         NEW t \in {"called", "done", "failed", "unknown"}, Tells(ctl.write, t),
         ctl.write \in Writes /\ t \in {"done", "failed"} => outcome[ctl.write] = t,
         outcome' = outcome
  PROVE  Promised!Next \/ UNCHANGED <<told, outcome>>
<1> DEFINE w == ctl.write
<1>1. w \in Writes \cup {NoWrite} /\ told \in [Writes -> Known]
  BY DEF CareOK, FlightOK, TypeOK, CtlRecord, Known
<1>2. CASE w = NoWrite
  BY <1>2 DEF Tells
<1>3. CASE w \in Writes
  <2>1. told[w] = "called"
    BY <1>3, WiresAssumption DEF CareOK, FlightOK, ToldOK
  <2>2. told' = [told EXCEPT ![w] = t]
    BY <1>3, TellsTold
  <2>3. CASE t = "called"
    BY <1>1, <2>1, <2>2, <2>3
  <2>4. CASE t # "called"
    <3>1. t \in {"done", "failed", "unknown"}
      BY <2>4
    <3>2. Promised!Tell(w, t) /\ t \in Promised!Verdicts
      BY <1>3, <2>1, <2>2, <3>1 DEF Promised!Tell, Promised!Verdicts
    <3> QED
      BY <1>3, <3>2 DEF Promised!Next
  <2> QED
    BY <2>3, <2>4
<1> QED
  BY <1>1, <1>2, <1>3

LEMMA PromiseStep ==
  ASSUME Careful, CareOK, Next PROVE Promised!Next \/ UNCHANGED <<told, outcome>>
<1>1. TypeOK /\ FlightOK /\ WireTypeOK
  BY DEF CareOK, FlightOK, TypeOK
<1>2. ASSUME NEW w \in Writes, NEW i, NEW inserts, NEW p, Write(w, i, inserts, p)
      PROVE  Promised!Next
  <2>1. CanCall /\ told[w] = "uncalled" /\ (Rejecting(w) \/ Sending(w))
    BY <1>1, <1>2, WriteEffect
  <2>2. Tells(w, "rejected") \/ Tells(w, "called") \/ Tells(w, "unknown")
    BY <2>1 DEF Rejecting, Sending
  <2>3. outcome' = outcome
    BY <1>1, <2>1, WriteMessage, SendEffect DEF Rejecting, Sending
  <2> QED
    BY <2>1, <2>2, <2>3, PromiseCall DEF CanCall
<1>3. ASSUME NEW w \in Writes, NEW i, CreateIndex(w, i) PROVE Promised!Next
  <2>1. /\ CanCall /\ told[w] = "uncalled" /\ Tells(w, "called")
        /\ \/ outcome' = outcome
           \/ \E r \in Sent : Send([op |-> "write", write |-> w], r)
    BY <1>1, <1>3, CreateIndexEffect
  <2>2. outcome' = outcome
    BY <1>1, <2>1, WriteMessage, SendEffect
  <2> QED
    BY <2>1, <2>2, PromiseCall DEF CanCall
<1>4. CASE GetLastError \/ FindOne
  BY <1>1, <1>4, AskingEffect
<1>5. ASSUME NEW p \in Concerns \cup {Null}, SetWriteConcern(p)
      PROVE  UNCHANGED <<told, outcome>>
  BY <1>1, <1>5, SetWriteConcernEffect
<1>6. CASE Ask
  <2>1. ctl.pc = "ask"
    BY <1>1, <1>6, AskEffect
  <2>2. PICK r \in Sent :
          /\ Send(Question, r)
          /\ told' = told \/ Tells(ctl.write, "called") \/ Tells(ctl.write, "unknown")
    BY <1>1, <1>6, AskEffect
  <2>3. outcome' = outcome
    BY <1>1, <2>2, QuestionType, SendEffect DEF TypeOK
  <2> QED
    BY <2>1, <2>2, <2>3, PromiseTell
<1>7. CASE Answer
  <2> DEFINE t == Verdict(ctl, ctl'.res, conn'.err)
  <2>1. ctl.pc = "wait"
    BY <1>1, <1>7, AnswerEffect
  <2>2. CASE ctl.call = "createIndex"
    <3>1. PICK ok \in BOOLEAN, io \in BOOLEAN, v \in Replies, res \in {"OK", "ERROR"}, e \in Errors :
            Answering(ok, io, v, res, e)
      BY <1>1, <1>7, AnswerEffect
    <3>2. Verdict(ctl, res, e) = "unknown"
      BY <2>2 DEF Verdict
    <3>3. Tells(ctl.write, "called") \/ Tells(ctl.write, "unknown")
      BY <3>1, <3>2 DEF Answering
    <3>4. outcome' = outcome
      BY <1>1, <3>1, ReadEffect DEF Answering
    <3> QED
      BY <2>1, <3>3, <3>4, PromiseTell
  <2>3. CASE ctl.call # "createIndex"
    <3>1. outcome' = outcome /\ Tells(ctl.write, t) /\ (Knows \/ Doubts)
      BY <1>7, <2>3, AnswerKnows
    <3>2. t \in {"done", "failed", "unknown"}
      BY VerdictType
    <3>3. ASSUME ctl.write \in Writes, t \in {"done", "failed"} PROVE outcome[ctl.write] = t
      <4>1. ctl.call = "write" /\ ctl.acked = TRUE /\ ctl.last = ctl.write
        BY <2>1, <2>3, <3>3, WiresAssumption DEF CareOK, AskingOK
      <4>2. conn'.err # "IO_ERROR"
        BY <3>3 DEF Verdict
      <4>3. Knows
        BY <3>1, <4>1, <4>2 DEF Doubts
      <4>4. outcome[ctl.write] \in {"done", "failed"}
        BY <1>1, <3>3, <4>1, <4>3, WiresAssumption DEF Knows, Decided, WireTypeOK
      <4>5. CASE Failed(ctl.write, outcome)
        <5>1. ctl'.res = "ERROR" /\ conn'.err = "WRITE_ERROR"
          BY <4>1, <4>3, <4>5 DEF Knows
        <5>2. t = "failed"
          BY <4>1, <5>1 DEF Verdict
        <5> QED
          BY <4>5, <5>2 DEF Failed
      <4>6. CASE ~Failed(ctl.write, outcome)
        <5>1. conn'.err = "SUCCESS"
          BY <4>1, <4>3, <4>6 DEF Knows
        <5>2. t # "failed"
          BY <4>1, <5>1 DEF Verdict
        <5> QED
          BY <3>3, <4>4, <4>6, <5>2, WiresAssumption DEF Failed
      <4> QED
        BY <4>5, <4>6
    <3> HIDE DEF t
    <3> QED
      BY <2>1, <3>1, <3>2, <3>3, PromiseTell
  <2> QED
    BY <2>2, <2>3
<1>8. CASE Reconnect
  BY <1>1, <1>8, ReconnectEffect
<1>9. CASE World /\ UNCHANGED <<conn, ctl, told>>
  <2>1. PICK s \in Socks : ServeWrite(s) \/ ServeQuery(s) \/ HangUp(s) \/ LinkBreaks(s)
    BY <1>9 DEF World
  <2>2. CASE ServeWrite(s)
    <3> DEFINE w == Head(net[s].req).write
    <3>1. /\ w \in Writes /\ outcome[w] = "none" /\ told[w] \notin Untold
          /\ outcome' = [outcome EXCEPT ![w] = IF w \in Refused THEN "failed" ELSE "done"]
      BY <1>1, <2>2, ServedWrite
    <3> HIDE DEF w
    <3>2. Promised!Serve(w)
      BY <1>9, <3>1 DEF Promised!Serve, Untold
    <3> QED
      BY <3>1, <3>2 DEF Promised!Next
  <2>3. CASE ServeQuery(s) \/ HangUp(s) \/ LinkBreaks(s)
    BY <1>1, <1>9, <2>3, ServeQueryEffect, CutEffect
  <2> QED
    BY <2>1, <2>2, <2>3
<1> QED
  BY <1>2, <1>3, <1>4, <1>5, <1>6, <1>7, <1>8, <1>9 DEF Next

\* Whatever the application does, a write that was rejected, or not called, is not on
\* its way and never done, and one that is on its way is there once (mongo.c 795-843).
THEOREM SentForACall == Spec => []FlightOK
<1>1. FlightOK /\ UNCHANGED vars => FlightOK'
  BY DEF vars, wire, FlightOK, TypeOK, WireTypeOK, PendingOK, Alone, Undone, ToldOK
<1> QED
  BY <1>1, FlightInit, FlightStep, PTL DEF Spec

LEMMA CareInvariant ==
  ASSUME Careful PROVE Spec => []CareOK
<1>1. CareOK /\ UNCHANGED vars => CareOK'
  BY DEF vars, wire, CareOK, FlightOK, TypeOK, WireTypeOK, PendingOK, Alone, Undone, ToldOK,
         AskingOK, TrustOK, Trusted, Doubtful, EndOK, Asserts
<1>2. CareOK /\ [Next]_vars => CareOK'
  BY <1>1, CareStep
<1> QED
  BY <1>2, CareInit, PTL DEF Spec

\* An application that reconnects after doubtful calls, and takes MONGO_OK for an
\* acknowledgement only if no error is left in conn->err, is told the truth about
\* its writes, and none is done twice (mongo.c 795-843), however many writes,
\* sockets, calls and faults there are.
THEOREM KeepsAckPromise ==
  ASSUME Careful PROVE Spec => AckPromise
<1>1. Init => Promised!Init
  BY DEF Init, WireInit, Promised!Init
<1>2. CareOK /\ [Next]_vars => [Promised!Next]_<<told, outcome>>
  BY PromiseStep DEF vars, wire
<1> QED
  BY <1>1, <1>2, CareInvariant, PTL DEF Spec, AckPromise, Promised!Spec

\* The replies it reads are those to its own requests, although mongo.c 308-344
\* compares nothing.
THEOREM TrustsItsReplies ==
  ASSUME Careful PROVE Spec => []TrustedReplyIsOwn
<1>1. CareOK => TrustedReplyIsOwn
  BY DEF CareOK, EndOK, Trusted, Doubtful, TrustedReplyIsOwn
<1> QED
  BY <1>1, CareInvariant, PTL

\* mongo_cmd_get_last_error speaks of the write before it (mongo.c 1609).
THEOREM LastErrorIsTrue ==
  ASSUME Careful PROVE Spec => []LastErrorSpeaks
<1>1. CareOK => LastErrorSpeaks
  BY DEF CareOK, EndOK, Asserts, Failed, LastErrorSpeaks
<1> QED
  BY <1>1, CareInvariant, PTL

=============================================================================
