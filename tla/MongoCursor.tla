----------------------------- MODULE MongoCursor -----------------------------
(***************************************************************************)
(* The cursors of the C driver (mongo.c 776-793, 1125-1413): mongo_find,   *)
(* the cursor builder with mongo_cursor_next, and mongo_cursor_destroy,    *)
(* over a server that keeps a cursor of its own for each result it has not *)
(* sent completely.  Any number of cursors share one connection, which one *)
(* thread uses; between a request and its reply the server and the network *)
(* go on.                                                                  *)
(*                                                                         *)
(* A row is its number in the result; a reply holds the rows from+1 up to  *)
(* from+num.  Every reply answers the request before it: what a receive    *)
(* timeout does to that is not the subject of this module.                 *)
(***************************************************************************)
EXTENDS Integers, Sequences

CONSTANTS
  Cursors,
  Tailable,    \* those opened with MONGO_TAILABLE
  Limits,      \* the limits the application sets
  Queries,     \* what it gives as the query: a document that is finished and
               \* valid UTF-8, one that is not, or none
  InitRows,    \* how many rows a result may have at first
  FaultKinds,  \* the faults that happen
  MaxRows,     \* bound: rows of a result
  MaxBatch,    \* bound: rows the server puts in a reply
  MaxFaults    \* bound: faults in a behaviour

ASSUME CursorsAssumption == Tailable \subseteq Cursors
ASSUME InputsAssumption ==
  /\ Limits \subseteq Int /\ InitRows \subseteq 0..MaxRows
  /\ Queries \subseteq {"valid", "invalid", "null"}
ASSUME CursorFaultsAssumption ==
  FaultKinds \subseteq {"break", "queryFail", "moreFail", "expire"}
ASSUME CursorBoundsAssumption ==
  MaxRows \in Nat /\ MaxBatch \in Nat \ {0} /\ MaxFaults \in Nat

VARIABLES
  cur,      \* the fields of each mongo_cursor
  pc,       \* where each cursor is in a call
  srv,      \* the server's cursor for it: still open, and the rows sent
  rows,     \* how many rows its result has
  linked,   \* whether the connection works
  connErr,  \* conn->err
  got,      \* the rows mongo_cursor_next has put in cursor->current, in order
  told,     \* what its last return means to the application
  heap,     \* "corrupt" once freed memory was used
  faults

vars == <<cur, pc, srv, rows, linked, connErr, got, told, heap, faults>>

\* "held" says that the pointer is not NULL; "failed" that the reply holds an
\* '$err' document instead of a row.
Reply == [held : BOOLEAN, from : Nat, num : Nat, id : BOOLEAN, failed : BOOLEAN]

NoReply == [held |-> FALSE, from |-> 0, num |-> 0, id |-> FALSE, failed |-> FALSE]

CursorErrors == {"EXHAUSTED", "PENDING", "QUERY_FAIL", "BSON_ERROR"}

\* A "dangling" query is the address of a local of a mongo_cursor_op_query that
\* has returned.  pos is 0 while current.data is NULL, else the place of the
\* current row in the reply.
CursorRecord == [limit : Int, query : {"valid", "invalid", "null", "dangling"},
                 sent : BOOLEAN, seen : Nat, pos : Nat, err : CursorErrors,
                 reply : Reply]

NewCursor == [limit |-> 0, query |-> "null", sent |-> FALSE, seen |-> 0, pos |-> 0,
              err |-> "EXHAUSTED", reply |-> NoReply]

\* "find" and "query" wait for the reply to the query, in mongo_find and in
\* mongo_cursor_next; "more" and "moreEmpty" for the reply to a get_more, sent
\* after the last row of a reply and after a reply without rows.
CursorPoints == {"new", "idle", "find", "query", "more", "moreEmpty", "destroyed"}

Told == {"nothing", "row", "wait", "end", "error"}

TypeOK ==
  /\ cur \in [Cursors -> CursorRecord]
  /\ pc \in [Cursors -> CursorPoints]
  /\ srv \in [Cursors -> [open : BOOLEAN, at : Nat]]
  /\ rows \in [Cursors -> Nat]
  /\ linked \in BOOLEAN
  /\ connErr \in {"SUCCESS", "IO_ERROR", "BSON_INVALID"}
  /\ got \in [Cursors -> Seq(Nat)]
  /\ told \in [Cursors -> Told]
  /\ heap \in {"sound", "corrupt"}
  /\ faults \in Nat

Init ==
  /\ cur = [c \in Cursors |-> NewCursor]
  /\ pc = [c \in Cursors |-> "new"]
  /\ srv = [c \in Cursors |-> [open |-> FALSE, at |-> 0]]
  /\ rows \in [Cursors -> InitRows]
  /\ linked = TRUE
  /\ connErr = "SUCCESS"
  /\ got = [c \in Cursors |-> <<>>]
  /\ told = [c \in Cursors |-> "nothing"]
  /\ heap = "sound"
  /\ faults = 0

-----------------------------------------------------------------------------
(***************************************************************************)
(* The server (external to the driver)                                     *)
(***************************************************************************)

Fault(kind) == /\ kind \in FaultKinds
               /\ faults < MaxFaults /\ faults' = faults + 1

Sizes(rest, want) ==
  IF rest = 0 THEN {0}
  ELSE {n \in 1..rest : n <= MaxBatch /\ (want > 0 => n <= want)}

\* The batches of a result of which "at" rows were sent: at most "want" rows,
\* no bound if it is 0.  A cursor that is not tailable may be left open behind
\* the last row; "once" says that there is to be no cursor after this batch.
Batches(c, at, want, once) ==
  {b \in [held : {TRUE}, from : {at}, num : Sizes(rows[c] - at, want),
          id : BOOLEAN, failed : {FALSE}] :
     /\ once => ~b.id
     /\ ~once /\ (c \in Tailable \/ at + b.num < rows[c]) => b.id
     /\ b.num = 0 /\ c \notin Tailable => ~b.id}

QueryBatches(c) ==
  LET n == cur[c].limit
  IN  Batches(c, 0, IF n < 0 THEN -n ELSE n, n < 0 \/ n = 1)

\* A server cursor that has timed out is answered by an empty reply with the
\* flag CursorNotFound, which the driver does not look at.
MoreBatches(c, want) ==
  IF srv[c].open THEN Batches(c, srv[c].at, want, FALSE)
                 ELSE {[NoReply EXCEPT !.held = TRUE, !.from = srv[c].at]}

ErrReply == [held |-> TRUE, from |-> 0, num |-> 1, id |-> FALSE, failed |-> TRUE]

Sends(c, b) == srv' = [srv EXCEPT ![c] = [open |-> b.id, at |-> b.from + b.num]]

-----------------------------------------------------------------------------
(***************************************************************************)
(* Returning to the application                                            *)
(***************************************************************************)

Quiet == \A c \in Cursors : pc[c] \in {"new", "idle", "destroyed"}

SetsCursor(c, r, p) == /\ cur' = [cur EXCEPT ![c] = r]
                       /\ pc' = [pc EXCEPT ![c] = p]

\* How an application reads MONGO_ERROR: conn->err first, then cursor->err.
Reason(r, e) == CASE e = "SUCCESS" /\ r.err = "EXHAUSTED" -> "end"
                  [] e = "SUCCESS" /\ r.err = "PENDING" -> "wait"
                  [] OTHER -> "error"

\* mongo_cursor_next returns MONGO_ERROR ...
Stops(c, r) == /\ SetsCursor(c, r, "idle")
               /\ told' = [told EXCEPT ![c] = Reason(r, connErr')]
               /\ UNCHANGED got

\* ... or MONGO_OK, with the next row of the reply in cursor->current.
Gives(c, r) ==
  /\ SetsCursor(c, [r EXCEPT !.pos = @ + 1], "idle")
  /\ got' = [got EXCEPT ![c] =
               Append(@, IF r.reply.failed THEN 0 ELSE r.reply.from + r.pos + 1)]
  /\ told' = [told EXCEPT ![c] = "row"]

\* Freed memory is used: after mongo_cursor_get_more has freed the reply,
\* mongo_cursor_destroy reads it and frees it again.
Corrupts == /\ heap' = "corrupt"
            /\ UNCHANGED <<cur, pc, connErr, got, told>>

-----------------------------------------------------------------------------
(***************************************************************************)
(* mongo_find, mongo_cursor_init and mongo_cursor_op_query                 *)
(***************************************************************************)

\* The query fails: mongo_find destroys the cursor and returns NULL, and
\* mongo_cursor_next returns MONGO_ERROR.
QueryFails(c, r, p) ==
  \/ /\ p = "find"
     /\ SetsCursor(c, [r EXCEPT !.reply = NoReply], "destroyed")
     /\ told' = [told EXCEPT ![c] = "error"]
     /\ UNCHANGED got
  \/ p = "query" /\ Stops(c, r)

\* mongo_cursor_op_query up to the send.  Without a query it stores the address
\* of a local in cursor->query; a second call reads what is found there.
StartQuery(c, r, p) ==
  LET asked == [r EXCEPT !.query = IF @ = "null" THEN "dangling" ELSE @]
  IN  \/ /\ r.query \in {"invalid", "dangling"} /\ connErr' = "BSON_INVALID"
         /\ QueryFails(c, [r EXCEPT !.err = "BSON_ERROR"], p)
         /\ UNCHANGED heap
      \/ /\ r.query # "invalid" /\ ~linked /\ connErr' = "IO_ERROR"
         /\ QueryFails(c, asked, p)
         /\ UNCHANGED heap
      \/ /\ r.query # "invalid" /\ connErr' = "SUCCESS"
         /\ SetsCursor(c, asked, p)
         /\ UNCHANGED <<got, told, heap>>
      \/ r.query = "dangling" /\ Corrupts

Made(n, q) == [NewCursor EXCEPT !.limit = n, !.query = q]

Find(c, n, q) ==
  /\ pc[c] = "new" /\ Quiet /\ heap = "sound"
  /\ StartQuery(c, Made(n, q), "find")
  /\ UNCHANGED <<srv, rows, linked, faults>>

CursorInit(c, n, q) ==
  /\ pc[c] = "new" /\ Quiet /\ heap = "sound"
  /\ SetsCursor(c, Made(n, q), "idle")
  /\ UNCHANGED <<srv, rows, linked, connErr, got, told, heap, faults>>

-----------------------------------------------------------------------------
(***************************************************************************)
(* mongo_cursor_next and mongo_cursor_get_more                             *)
(***************************************************************************)

\* Mutant: a limit of 0 is taken for a limit.
LimitReachedZero(r) == r.limit >= 0 /\ r.seen >= r.limit

\* Mutant: the limit is only compared once a row too many was seen.
LimitReachedLate(r) == r.limit > 0 /\ r.seen > r.limit

LimitReached(r) == r.limit > 0 /\ r.seen >= r.limit

\* Up to the request: the reply is freed before the send, and a send that fails
\* destroys the cursor.
GetMore(c, r, p) ==
  \/ /\ LimitReached(r) \/ ~r.reply.id
     /\ Stops(c, [r EXCEPT !.err = "EXHAUSTED"])
     /\ UNCHANGED heap
  \/ /\ ~LimitReached(r) /\ r.reply.id
     /\ SetsCursor(c, [r EXCEPT !.reply = NoReply], p)
     /\ UNCHANGED <<got, told, heap>>
  \/ ~LimitReached(r) /\ r.reply.id /\ ~linked /\ Corrupts

\* mongo_cursor_next on a cursor r whose query has been answered.
NextRow(c, r) ==
  \/ r.pos < r.reply.num /\ Gives(c, r) /\ UNCHANGED heap
  \/ r.reply.num > 0 /\ r.pos = r.reply.num /\ GetMore(c, r, "more")
  \/ r.reply.num = 0 /\ r.reply.id /\ GetMore(c, r, "moreEmpty")
  \/ r.reply.num = 0 /\ ~r.reply.id /\ Stops(c, r) /\ UNCHANGED heap

CursorNext(c) ==
  /\ pc[c] = "idle" /\ Quiet /\ heap = "sound"
  /\ \/ cur[c].sent /\ UNCHANGED connErr /\ NextRow(c, cur[c])
     \/ ~cur[c].sent /\ StartQuery(c, cur[c], "query")
  /\ UNCHANGED <<srv, rows, linked, faults>>

\* The reply to the query.  A reply the cursor already holds, left by a query
\* that failed, is not freed.
QueryReply(c) ==
  LET refused == [cur[c] EXCEPT !.reply = ErrReply, !.err = "QUERY_FAIL"]
  IN  /\ pc[c] \in {"find", "query"} /\ heap = "sound"
      /\ \/ /\ ~linked /\ connErr' = "IO_ERROR"
            /\ QueryFails(c, cur[c], pc[c])
            /\ UNCHANGED <<srv, heap, faults>>
         \/ /\ linked /\ Fault("queryFail") /\ UNCHANGED connErr
            /\ QueryFails(c, refused, pc[c])
            /\ UNCHANGED <<srv, heap>>
         \/ \E b \in QueryBatches(c) :
              LET r == [cur[c] EXCEPT !.reply = b, !.seen = @ + b.num, !.sent = TRUE]
              IN  /\ linked /\ Sends(c, b) /\ UNCHANGED <<connErr, faults>>
                  /\ \/ /\ pc[c] = "find" /\ SetsCursor(c, r, "idle")
                        /\ UNCHANGED <<got, told, heap>>
                     \/ pc[c] = "query" /\ NextRow(c, r)
      /\ UNCHANGED <<rows, linked>>

Wanted(r) == IF r.limit > 0 THEN r.limit - r.seen ELSE 0

\* Mutant: the row before the first becomes the current one.
ReceivedBefore(r, b) == [r EXCEPT !.reply = b, !.seen = @ + b.num, !.pos = -1]

\* Mutant: current.data is not reset for a new reply.
ReceivedInPlace(r, b) == [r EXCEPT !.reply = b, !.seen = @ + b.num]

Received(r, b) == [r EXCEPT !.reply = b, !.seen = @ + b.num, !.pos = 0]

\* Mutant: every empty reply is said to be pending.
NothingNewAlways(r) == [r EXCEPT !.err = "PENDING"]

\* Mutant: an empty reply leaves cursor->err as it was.
NothingNewNever(r) == r

\* An empty reply after the last row of the previous one.
NothingNew(r) == IF r.reply.id THEN [r EXCEPT !.err = "PENDING"] ELSE r

\* The reply to a get_more: a recv that fails destroys the cursor, too.
MoreReply(c) ==
  /\ pc[c] \in {"more", "moreEmpty"} /\ heap = "sound"
  /\ \/ ~linked /\ Corrupts /\ UNCHANGED <<srv, faults>>
     \/ \E b \in MoreBatches(c, Wanted(cur[c])) :
          LET r == Received(cur[c], b)
          IN  /\ linked /\ Sends(c, b) /\ UNCHANGED <<connErr, heap, faults>>
              /\ \/ b.num > 0 /\ Gives(c, r)
                 \/ b.num = 0 /\ pc[c] = "more" /\ Stops(c, NothingNew(r))
                 \/ b.num = 0 /\ pc[c] = "moreEmpty" /\ Stops(c, r)
     \/ /\ linked /\ Fault("moreFail")
        /\ srv' = [srv EXCEPT ![c].open = FALSE]
        /\ Gives(c, Received(cur[c], ErrReply))
        /\ UNCHANGED <<connErr, heap>>
  /\ UNCHANGED <<rows, linked>>

-----------------------------------------------------------------------------
(***************************************************************************)
(* mongo_cursor_destroy                                                    *)
(***************************************************************************)

\* Mutant: a cursor that has rows left is killed, an exhausted one is not.
KillsUnread(r) == r.reply.id /\ r.pos < r.reply.num

\* OP_KILL_CURSORS is sent if the last reply says the server's cursor is open.
Kills(r) == r.reply.id

CursorDestroy(c) ==
  /\ pc[c] = "idle" /\ Quiet /\ heap = "sound"
  /\ SetsCursor(c, [cur[c] EXCEPT !.reply = NoReply], "destroyed")
  /\ \/ /\ Kills(cur[c]) /\ linked
        /\ srv' = [srv EXCEPT ![c].open = FALSE]
        /\ UNCHANGED connErr
     \/ /\ Kills(cur[c]) /\ ~linked
        /\ connErr' \in {connErr, "IO_ERROR"}
        /\ UNCHANGED srv
     \/ ~Kills(cur[c]) /\ UNCHANGED <<srv, connErr>>
  /\ UNCHANGED <<rows, linked, got, told, heap, faults>>

-----------------------------------------------------------------------------
(***************************************************************************)
(* What happens meanwhile                                                  *)
(***************************************************************************)

LinkBreaks ==
  /\ linked /\ Fault("break") /\ linked' = FALSE
  /\ UNCHANGED <<cur, pc, srv, rows, connErr, got, told, heap>>

\* The application calls mongo_reconnect; cursors outlive a connection.
Reconnect ==
  /\ ~linked /\ Quiet /\ heap = "sound" /\ linked' = TRUE
  /\ UNCHANGED <<cur, pc, srv, rows, connErr, got, told, heap, faults>>

\* The server forgets a cursor that was not used for too long.
Expires(c) ==
  /\ srv[c].open /\ Fault("expire")
  /\ srv' = [srv EXCEPT ![c].open = FALSE]
  /\ UNCHANGED <<cur, pc, rows, linked, connErr, got, told, heap>>

Insert(c) ==
  /\ c \in Tailable /\ rows[c] < MaxRows
  /\ rows' = [rows EXCEPT ![c] = @ + 1]
  /\ UNCHANGED <<cur, pc, srv, linked, connErr, got, told, heap, faults>>

Next ==
  \/ \E c \in Cursors, n \in Limits, q \in Queries : Find(c, n, q) \/ CursorInit(c, n, q)
  \/ \E c \in Cursors : \/ CursorNext(c) \/ QueryReply(c) \/ MoreReply(c)
                        \/ CursorDestroy(c) \/ Expires(c) \/ Insert(c)
  \/ LinkBreaks \/ Reconnect

Spec == Init /\ [][Next]_vars

\* Requests are answered or given up, and the application goes on asking each of
\* its cursors, whatever it does with the others in between.
FairSpec ==
  Spec /\ \A c \in Cursors :
            SF_vars(CursorNext(c)) /\ WF_vars(QueryReply(c)) /\ WF_vars(MoreReply(c))

-----------------------------------------------------------------------------
(***************************************************************************)
(* Properties                                                              *)
(***************************************************************************)

Stream == INSTANCE ResultStream
            WITH given <- got, avail <- rows, limit <- [c \in Cursors |-> cur[c].limit]

\* Whatever the batches, the limit, the failures of the query and the breaks of
\* the connection: the application is given the rows of the result in order and
\* once, is told the end only when it has them all, or as many as it asked for,
\* and is told to wait only when there is nothing new (mongo.c 1327-1383).
Promise == Stream!Spec

\* Nothing falls between the client and the server: the rows given, those left
\* in the reply and those the server has yet to send follow each other.
NoGap ==
  \A c \in Cursors :
    pc[c] = "idle" /\ cur[c].sent =>
      Len(got[c]) + (cur[c].reply.num - cur[c].pos) = srv[c].at

\* Destroying a cursor leaves none behind on the server, whether it was read to
\* the end, to its limit or not at all; as long as the connection holds.
NoneLeftOnServer == \A c \in Cursors : pc[c] = "destroyed" => ~srv[c].open

\* An application that stops at MONGO_CURSOR_EXHAUSTED never gives up a tail that
\* lives: once a cursor has given a row, that answer means that the server's last
\* reply named no cursor or that the limit is reached, whatever failed before
\* (mongo.c 1193-1262, 1365-1372).  Before the first row it does not: an empty first
\* reply of a live tailable cursor reads as EXHAUSTED too (1342-1346).  Nor does
\* PENDING mean that the cursor is alive, as mongo.h 65 says: nothing clears it when
\* the next reply says that the cursor is gone.
ExhaustedIsFinal ==
  \A c \in Cursors :
    pc[c] = "idle" /\ told[c] = "end" /\ got[c] # <<>> =>
      LimitReached(cur[c]) \/ ~cur[c].reply.id

\* MONGO_CURSOR_EXHAUSTED is said when there are no more results (mongo.h 63):
\* not for a result cut short because the server forgot its cursor, for which
\* mongo.h 64 has MONGO_CURSOR_INVALID.
EndIsEnd ==
  \A c \in Cursors : told[c] = "end" /\ pc[c] = "idle" => Stream!AllGiven(c)

\* An application that goes on asking a tailable cursor is given every row that
\* is inserted, as long as the server does not fail.
TailCatchesUp ==
  \A c \in Tailable, n \in 1..MaxRows :
    pc[c] = "idle" /\ rows[c] >= n ~>
      \/ Len(got[c]) >= n
      \/ 0 < cur[c].limit /\ cur[c].limit < n
      \/ pc[c] = "destroyed" \/ faults > 0

\* An application that goes on asking any other cursor comes to the end.
ScanEnds ==
  \A c \in Cursors \ Tailable :
    pc[c] = "idle" ~> told[c] \in {"end", "error"} \/ pc[c] = "destroyed"

=============================================================================
