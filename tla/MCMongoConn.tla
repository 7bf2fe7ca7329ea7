----------------------------- MODULE MCMongoConn -----------------------------
(***************************************************************************)
(* Instances of MongoConn: one replica set connection, one or two          *)
(* connections to single servers, and two threads.                         *)
(***************************************************************************)
EXTENDS MongoConn, TLC

CONSTANTS c1, c2, h1, h2, h3

\* h1 and h2 form the set "rs"; h3 is a server of its own.
McHosts == {h1, h2}
McHostList == h1 :> <<h1, h2>> @@ h2 :> <<h2, h1>>
McNodeSet == h1 :> "rs" @@ h2 :> "rs"

\* As McHosts, with a third node that belongs to no set and lists no hosts.
McMixedHosts == {h1, h2, h3}
McMixedList == h1 :> <<h2, h1>> @@ h2 :> <<h2, h1>> @@ h3 :> <<>>
McMixedSet == h1 :> "rs" @@ h2 :> "rs" @@ h3 :> "none"

\* In the two-thread run h2 is reached through a unix domain socket.
McUnix == {h2}

McOneConn == {c1}
McTwoConns == {c1, c2}

McTarget == [c \in Conns |-> h1]
McTargets == [c \in Conns |-> IF c = c1 THEN h1 ELSE h2]
McSeeds == [c \in Conns |-> <<h1, h2>>]
McMixedSeeds == [c \in Conns |-> <<h3, h1>>]
McRightName == [c \in Conns |-> "rs"]
\* What mongo.connect_replica_set of the Lua binding passes.
McLuaName == [c \in Conns |-> ""]

McReconnect == {"reconnect"}
McBoth == {"reconnect", "replicaSetClient"}

McAllFaults == {"refuse", "timeout", "fail", "restart", "elect", "stepDown", "drop"}
\* Servers change role and answer late, but no link breaks.
McNoBreaks == {"refuse", "timeout", "elect", "stepDown"}
McDrops == {"drop", "elect"}
McQuiet == {}

=============================================================================
