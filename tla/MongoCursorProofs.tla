-------------------------- MODULE MongoCursorProofs --------------------------
(***************************************************************************)
(* Theorems about MongoCursor, for any cursors, limits, results, batches   *)
(* and bounds: type correctness, the rows between the client and the       *)
(* server, what is left on the server, and the promise of ResultStream.    *)
(***************************************************************************)
EXTENDS MongoCursor, TLAPS

-----------------------------------------------------------------------------
(***************************************************************************)
(* Types                                                                   *)
(***************************************************************************)

LEMMA InitType == Init => TypeOK
<1> SUFFICES ASSUME Init PROVE TypeOK
  OBVIOUS
<1>1. NewCursor \in CursorRecord
  BY DEF NewCursor, NoReply, CursorRecord, Reply, CursorErrors
<1>2. rows \in [Cursors -> Nat]
  <2>1. InitRows \subseteq Nat
    BY InputsAssumption, CursorBoundsAssumption
  <2> QED
    BY <2>1 DEF Init
<1>3. /\ cur \in [Cursors -> CursorRecord] /\ pc \in [Cursors -> CursorPoints]
      /\ got \in [Cursors -> Seq(Nat)] /\ told \in [Cursors -> Told]
  BY <1>1 DEF Init, CursorPoints, Told
<1>4. srv \in [Cursors -> [open : BOOLEAN, at : Nat]]
  BY DEF Init
<1> QED
  BY <1>2, <1>3, <1>4 DEF Init, TypeOK

\* The reasons are things the application can be told.
LEMMA ReasonTold == \A r, e : Reason(r, e) \in Told
  BY DEF Reason, Told

LEMMA NoReplyType == NoReply \in Reply
  BY DEF NoReply, Reply

LEMMA ErrReplyType == ErrReply \in Reply
  BY DEF ErrReply, Reply

\* A cursor of which one field was replaced.
LEMMA ReplyField ==
  ASSUME NEW r \in CursorRecord, NEW b \in Reply
  PROVE  LET s == [r EXCEPT !.reply = b]
         IN  /\ s \in CursorRecord /\ s.reply = b
             /\ s.limit = r.limit /\ s.query = r.query /\ s.sent = r.sent
             /\ s.seen = r.seen /\ s.pos = r.pos /\ s.err = r.err
  BY DEF CursorRecord

LEMMA CountField ==
  ASSUME NEW r \in CursorRecord, NEW n \in Nat
  PROVE  /\ LET s == [r EXCEPT !.seen = n]
             IN  /\ s \in CursorRecord /\ s.reply = r.reply
                 /\ s.limit = r.limit /\ s.query = r.query /\ s.sent = r.sent
                 /\ s.seen = n /\ s.pos = r.pos /\ s.err = r.err
         /\ LET s == [r EXCEPT !.pos = n]
             IN  /\ s \in CursorRecord /\ s.reply = r.reply
                 /\ s.limit = r.limit /\ s.query = r.query /\ s.sent = r.sent
                 /\ s.seen = r.seen /\ s.pos = n /\ s.err = r.err
  BY DEF CursorRecord

LEMMA ErrField ==
  ASSUME NEW r \in CursorRecord, NEW e \in CursorErrors
  PROVE  LET s == [r EXCEPT !.err = e]
         IN  /\ s \in CursorRecord /\ s.reply = r.reply
             /\ s.limit = r.limit /\ s.query = r.query /\ s.sent = r.sent
             /\ s.seen = r.seen /\ s.pos = r.pos /\ s.err = e
  BY DEF CursorRecord

LEMMA SentField ==
  ASSUME NEW r \in CursorRecord, NEW y \in BOOLEAN
  PROVE  LET s == [r EXCEPT !.sent = y]
         IN  /\ s \in CursorRecord /\ s.reply = r.reply
             /\ s.limit = r.limit /\ s.query = r.query /\ s.sent = y
             /\ s.seen = r.seen /\ s.pos = r.pos /\ s.err = r.err
  BY DEF CursorRecord

LEMMA AskedField ==
  ASSUME NEW r \in CursorRecord
  PROVE  LET s == [r EXCEPT !.query = IF @ = "null" THEN "dangling" ELSE @]
         IN  /\ s \in CursorRecord /\ s.reply = r.reply
             /\ s.limit = r.limit /\ s.sent = r.sent
             /\ s.seen = r.seen /\ s.pos = r.pos /\ s.err = r.err
<1> DEFINE q == IF r.query = "null" THEN "dangling" ELSE r.query
<1>1. q \in {"valid", "invalid", "null", "dangling"}
  BY DEF CursorRecord
<1> HIDE DEF q
<1>2. LET s == [r EXCEPT !.query = q]
      IN  /\ s \in CursorRecord /\ s.reply = r.reply
          /\ s.limit = r.limit /\ s.sent = r.sent
          /\ s.seen = r.seen /\ s.pos = r.pos /\ s.err = r.err
  BY <1>1 DEF CursorRecord
<1> QED
  BY <1>2 DEF q

LEMMA NewCursorType ==
  /\ NewCursor \in CursorRecord /\ ~NewCursor.sent /\ NewCursor.seen = 0
  /\ NewCursor.pos = 0 /\ NewCursor.err = "EXHAUSTED" /\ NewCursor.reply = NoReply
  /\ NewCursor.limit = 0
  BY NoReplyType DEF NewCursor, CursorRecord, CursorErrors

LEMMA MadeType ==
  ASSUME NEW n \in Limits, NEW q \in Queries
  PROVE  LET s == Made(n, q)
         IN  /\ s \in CursorRecord /\ s.limit = n /\ ~s.sent /\ s.seen = 0
             /\ s.pos = 0 /\ s.err = "EXHAUSTED" /\ s.reply = NoReply
<1>1. n \in Int /\ q \in {"valid", "invalid", "null", "dangling"}
  BY InputsAssumption
<1> DEFINE s1 == [NewCursor EXCEPT !.limit = n]
           s2 == [s1 EXCEPT !.query = q]
<1>2. /\ s1 \in CursorRecord /\ s1.limit = n /\ ~s1.sent /\ s1.seen = 0
      /\ s1.pos = 0 /\ s1.err = "EXHAUSTED" /\ s1.reply = NoReply
  BY <1>1, NewCursorType DEF CursorRecord
<1> HIDE DEF s1
<1>3. /\ s2 \in CursorRecord /\ s2.limit = n /\ ~s2.sent /\ s2.seen = 0
      /\ s2.pos = 0 /\ s2.err = "EXHAUSTED" /\ s2.reply = NoReply
  BY <1>1, <1>2 DEF CursorRecord
<1>4. Made(n, q) = s2
  BY DEF Made, s1
<1> QED
  BY <1>3, <1>4

\* The cursor after the reply b to a get_more ...
LEMMA ReceivedFields ==
  ASSUME NEW r \in CursorRecord, NEW b \in Reply
  PROVE  LET s == Received(r, b)
         IN  /\ s \in CursorRecord /\ s.reply = b
             /\ s.limit = r.limit /\ s.query = r.query /\ s.sent = r.sent
             /\ s.seen = r.seen + b.num /\ s.pos = 0 /\ s.err = r.err
<1>1. r.seen + b.num \in Nat
  BY DEF CursorRecord, Reply
<1> DEFINE s1 == [r EXCEPT !.reply = b]
           s2 == [s1 EXCEPT !.seen = r.seen + b.num]
           s3 == [s2 EXCEPT !.pos = 0]
<1>2. /\ s1 \in CursorRecord /\ s1.reply = b
      /\ s1.limit = r.limit /\ s1.query = r.query /\ s1.sent = r.sent /\ s1.err = r.err
  BY ReplyField
<1>3. Received(r, b) = s3
  BY DEF Received
<1> HIDE DEF s1
<1>4. /\ s2 \in CursorRecord /\ s2.reply = b /\ s2.seen = r.seen + b.num
      /\ s2.limit = r.limit /\ s2.query = r.query /\ s2.sent = r.sent /\ s2.err = r.err
  BY <1>1, <1>2, CountField
<1> HIDE DEF s2
<1>5. /\ s3 \in CursorRecord /\ s3.reply = b /\ s3.seen = r.seen + b.num /\ s3.pos = 0
      /\ s3.limit = r.limit /\ s3.query = r.query /\ s3.sent = r.sent /\ s3.err = r.err
  BY <1>4, CountField
<1> QED
  BY <1>3, <1>5

\* ... and to its query.
Answered(r, b) == [r EXCEPT !.reply = b, !.seen = @ + b.num, !.sent = TRUE]

LEMMA AnsweredFields ==
  ASSUME NEW r \in CursorRecord, NEW b \in Reply
  PROVE  LET s == Answered(r, b)
         IN  /\ s \in CursorRecord /\ s.reply = b
             /\ s.limit = r.limit /\ s.query = r.query /\ s.sent
             /\ s.seen = r.seen + b.num /\ s.pos = r.pos /\ s.err = r.err
<1>1. r.seen + b.num \in Nat
  BY DEF CursorRecord, Reply
<1> DEFINE s1 == [r EXCEPT !.reply = b]
           s2 == [s1 EXCEPT !.seen = r.seen + b.num]
           s3 == [s2 EXCEPT !.sent = TRUE]
<1>2. /\ s1 \in CursorRecord /\ s1.reply = b /\ s1.pos = r.pos
      /\ s1.limit = r.limit /\ s1.query = r.query /\ s1.err = r.err
  BY ReplyField
<1>3. Answered(r, b) = s3
  BY DEF Answered
<1> HIDE DEF s1
<1>4. /\ s2 \in CursorRecord /\ s2.reply = b /\ s2.seen = r.seen + b.num
      /\ s2.limit = r.limit /\ s2.query = r.query /\ s2.pos = r.pos /\ s2.err = r.err
  BY <1>1, <1>2, CountField
<1> HIDE DEF s2
<1>5. /\ s3 \in CursorRecord /\ s3.reply = b /\ s3.seen = r.seen + b.num /\ s3.sent = TRUE
      /\ s3.limit = r.limit /\ s3.query = r.query /\ s3.pos = r.pos /\ s3.err = r.err
  BY <1>4, SentField
<1> QED
  BY <1>3, <1>5

\* The server's batches are replies.
LEMMA BatchTypes ==
  ASSUME TypeOK, NEW c \in Cursors, NEW at \in Nat, NEW want \in Int, NEW once \in BOOLEAN
  PROVE  Batches(c, at, want, once) \subseteq Reply
<1>1. rows[c] \in Nat
  BY DEF TypeOK
<1>2. Sizes(rows[c] - at, want) \subseteq Nat
  BY <1>1 DEF Sizes
<1> QED
  BY <1>2 DEF Batches, Reply

LEMMA QueryBatchTypes ==
  ASSUME TypeOK, NEW c \in Cursors
  PROVE  QueryBatches(c) \subseteq Reply
<1>1. cur[c].limit \in Int
  BY DEF TypeOK, CursorRecord
<1> DEFINE want == IF cur[c].limit < 0 THEN -cur[c].limit ELSE cur[c].limit
           once == cur[c].limit < 0 \/ cur[c].limit = 1
<1>2. want \in Int /\ once \in BOOLEAN /\ 0 \in Nat
  BY <1>1
<1>3. QueryBatches(c) = Batches(c, 0, want, once)
  BY DEF QueryBatches
<1> HIDE DEF want, once
<1> QED
  BY <1>2, <1>3, BatchTypes

LEMMA MoreBatchTypes ==
  ASSUME TypeOK, NEW c \in Cursors, NEW want \in Int
  PROVE  MoreBatches(c, want) \subseteq Reply
<1>1. srv[c].at \in Nat
  BY DEF TypeOK
<1>2. Batches(c, srv[c].at, want, FALSE) \subseteq Reply
  BY <1>1, BatchTypes
<1>3. [NoReply EXCEPT !.held = TRUE, !.from = srv[c].at] \in Reply
  <2> DEFINE b1 == [NoReply EXCEPT !.held = TRUE]
  <2>1. b1 \in Reply
    BY NoReplyType DEF Reply
  <2> HIDE DEF b1
  <2>2. [b1 EXCEPT !.from = srv[c].at] \in Reply
    BY <1>1, <2>1 DEF Reply
  <2> QED
    BY <2>2 DEF b1
<1> QED
  BY <1>2, <1>3 DEF MoreBatches

LEMMA WantedType ==
  ASSUME NEW r \in CursorRecord PROVE Wanted(r) \in Int
  BY DEF Wanted, CursorRecord

LEMMA SendsType ==
  ASSUME TypeOK, NEW c \in Cursors, NEW b \in Reply, Sends(c, b)
  PROVE  srv' \in [Cursors -> [open : BOOLEAN, at : Nat]]
<1>1. b.id \in BOOLEAN /\ b.from + b.num \in Nat
  BY DEF Reply
<1>2. [open |-> b.id, at |-> b.from + b.num] \in [open : BOOLEAN, at : Nat]
  BY <1>1
<1> QED
  BY <1>2 DEF Sends, TypeOK

\* What the application sees of a cursor keeps its type.
SeenType == /\ cur \in [Cursors -> CursorRecord]
            /\ pc \in [Cursors -> CursorPoints]
            /\ got \in [Cursors -> Seq(Nat)]
            /\ told \in [Cursors -> Told]

LEMMA StopsType ==
  ASSUME TypeOK, NEW c \in Cursors, NEW r \in CursorRecord, Stops(c, r)
  PROVE  SeenType'
<1>1. Reason(r, connErr') \in Told
  BY ReasonTold
<1> QED
  BY <1>1 DEF Stops, SetsCursor, TypeOK, SeenType, CursorPoints

LEMMA GivesType ==
  ASSUME TypeOK, NEW c \in Cursors, NEW r \in CursorRecord, Gives(c, r)
  PROVE  SeenType'
<1> DEFINE row == IF r.reply.failed THEN 0 ELSE r.reply.from + r.pos + 1
<1>1. row \in Nat
  BY DEF CursorRecord, Reply
<1>2. [r EXCEPT !.pos = @ + 1] \in CursorRecord
  BY DEF CursorRecord
<1>3. got' = [got EXCEPT ![c] = Append(@, row)]
  BY DEF Gives
<1> HIDE DEF row
<1> QED
  BY <1>1, <1>2, <1>3 DEF Gives, SetsCursor, TypeOK, SeenType, CursorPoints, Told

LEMMA QueryFailsType ==
  ASSUME TypeOK, NEW c \in Cursors, NEW r \in CursorRecord, NEW p, QueryFails(c, r, p)
  PROVE  SeenType'
<1>1. [r EXCEPT !.reply = NoReply] \in CursorRecord
  BY NoReplyType DEF CursorRecord
<1>2. CASE p = "find"
  <2>1. SetsCursor(c, [r EXCEPT !.reply = NoReply], "destroyed") /\ UNCHANGED got
        /\ told' = [told EXCEPT ![c] = "error"]
    BY <1>2 DEF QueryFails
  <2>2. cur' \in [Cursors -> CursorRecord] /\ pc' \in [Cursors -> CursorPoints]
    BY <1>1, <2>1 DEF SetsCursor, TypeOK, CursorPoints
  <2>3. got' \in [Cursors -> Seq(Nat)] /\ told' \in [Cursors -> Told]
    BY <2>1 DEF TypeOK, Told
  <2> QED
    BY <2>2, <2>3 DEF SeenType
<1>3. CASE p = "query"
  BY <1>3, StopsType DEF QueryFails
<1> QED
  BY <1>2, <1>3 DEF QueryFails

LEMMA StartQueryType ==
  ASSUME TypeOK, NEW c \in Cursors, NEW r \in CursorRecord,
         NEW p \in {"find", "query"}, StartQuery(c, r, p)
  PROVE  SeenType' /\ connErr' \in {"SUCCESS", "IO_ERROR", "BSON_INVALID"}
                   /\ heap' \in {"sound", "corrupt"}
<1> DEFINE asked == [r EXCEPT !.query = IF @ = "null" THEN "dangling" ELSE @]
           refused == [r EXCEPT !.err = "BSON_ERROR"]
<1>1. asked \in CursorRecord /\ refused \in CursorRecord
  BY AskedField, ErrField DEF CursorErrors
<1>2. \/ connErr' = "BSON_INVALID" /\ QueryFails(c, refused, p) /\ UNCHANGED heap
      \/ connErr' = "IO_ERROR" /\ QueryFails(c, asked, p) /\ UNCHANGED heap
      \/ connErr' = "SUCCESS" /\ SetsCursor(c, asked, p) /\ UNCHANGED <<got, told, heap>>
      \/ Corrupts
  BY DEF StartQuery
<1> HIDE DEF asked, refused
<1>3. CASE connErr' = "SUCCESS" /\ SetsCursor(c, asked, p) /\ UNCHANGED <<got, told, heap>>
  BY <1>1, <1>3 DEF SetsCursor, TypeOK, SeenType, CursorPoints
<1>4. CASE Corrupts
  BY <1>4 DEF Corrupts, TypeOK, SeenType
<1> QED
  BY <1>1, <1>2, <1>3, <1>4, QueryFailsType DEF TypeOK, Corrupts

LEMMA NextRowType ==
  ASSUME TypeOK, NEW c \in Cursors, NEW r \in CursorRecord, NextRow(c, r)
  PROVE  SeenType' /\ heap' \in {"sound", "corrupt"}
<1> DEFINE over == [r EXCEPT !.err = "EXHAUSTED"]
           freed == [r EXCEPT !.reply = NoReply]
<1>1. over \in CursorRecord /\ freed \in CursorRecord
  BY NoReplyType DEF CursorRecord, CursorErrors
<1>2. \/ (Gives(c, r) \/ Stops(c, r) \/ Stops(c, over)) /\ UNCHANGED heap
      \/ \E p \in {"more", "moreEmpty"} :
           SetsCursor(c, freed, p) /\ UNCHANGED <<got, told, heap>>
      \/ Corrupts
  BY DEF NextRow, GetMore
<1> HIDE DEF over, freed
<1>3. CASE \E p \in {"more", "moreEmpty"} :
             SetsCursor(c, freed, p) /\ UNCHANGED <<got, told, heap>>
  BY <1>1, <1>3 DEF SetsCursor, TypeOK, SeenType, CursorPoints
<1>4. CASE Corrupts
  BY <1>4 DEF Corrupts, TypeOK, SeenType
<1> QED
  BY <1>1, <1>2, <1>3, <1>4, GivesType, StopsType DEF TypeOK


LEMMA TypeStep == TypeOK /\ [Next]_vars => TypeOK'
<1> SUFFICES ASSUME TypeOK, [Next]_vars PROVE TypeOK'
  OBVIOUS
<1>0. /\ \A c \in Cursors : cur[c] \in CursorRecord /\ srv[c].at \in Nat /\ rows[c] \in Nat
      /\ faults + 1 \in Nat
  BY DEF TypeOK
<1>1. ASSUME NEW c \in Cursors, NEW n \in Limits, NEW q \in Queries, Find(c, n, q)
      PROVE  TypeOK'
  <2>1. StartQuery(c, Made(n, q), "find") /\ UNCHANGED <<srv, rows, linked, faults>>
    BY <1>1 DEF Find
  <2>2. SeenType' /\ connErr' \in {"SUCCESS", "IO_ERROR", "BSON_INVALID"}
                  /\ heap' \in {"sound", "corrupt"}
    BY <2>1, MadeType, StartQueryType
  <2> QED
    BY <2>1, <2>2 DEF TypeOK, SeenType
<1>2. ASSUME NEW c \in Cursors, NEW n \in Limits, NEW q \in Queries, CursorInit(c, n, q)
      PROVE  TypeOK'
  <2>1. Made(n, q) \in CursorRecord
    BY MadeType
  <2> QED
    BY <1>2, <2>1 DEF CursorInit, SetsCursor, TypeOK, CursorPoints
<1>3. ASSUME NEW c \in Cursors, CursorNext(c) PROVE TypeOK'
  <2>1. /\ \/ UNCHANGED connErr /\ NextRow(c, cur[c])
           \/ StartQuery(c, cur[c], "query")
        /\ UNCHANGED <<srv, rows, linked, faults>>
    BY <1>3 DEF CursorNext
  <2>2. SeenType' /\ connErr' \in {"SUCCESS", "IO_ERROR", "BSON_INVALID"}
                  /\ heap' \in {"sound", "corrupt"}
    BY <1>0, <2>1, NextRowType, StartQueryType DEF TypeOK
  <2> QED
    BY <2>1, <2>2 DEF TypeOK, SeenType
<1>4. ASSUME NEW c \in Cursors, QueryReply(c) PROVE TypeOK'
  <2> DEFINE r == [cur[c] EXCEPT !.reply = ErrReply]
             refused == [r EXCEPT !.err = "QUERY_FAIL"]
  <2>1. r \in CursorRecord
    BY <1>0, ErrReplyType, ReplyField
  <2>2. [r EXCEPT !.err = "QUERY_FAIL"] \in CursorRecord
    <3> HIDE DEF r
    <3> QED BY <2>1, ErrField DEF CursorErrors
  <2>3. rows' = rows /\ linked' = linked
    BY <1>4 DEF QueryReply
  <2>4. \/ /\ connErr' = "IO_ERROR" /\ QueryFails(c, cur[c], pc[c])
           /\ UNCHANGED <<srv, heap, faults>>
        \/ /\ Fault("queryFail") /\ UNCHANGED connErr
           /\ QueryFails(c, refused, pc[c])
           /\ UNCHANGED <<srv, heap>>
        \/ \E b \in QueryBatches(c) :
             /\ Sends(c, b) /\ UNCHANGED <<connErr, faults>>
             /\ \/ /\ SetsCursor(c, Answered(cur[c], b), "idle")
                   /\ UNCHANGED <<got, told, heap>>
                \/ NextRow(c, Answered(cur[c], b))
    BY <1>4 DEF QueryReply, Answered
  <2> HIDE DEF r, refused
  <2>5. ASSUME NEW b \in QueryBatches(c),
               Sends(c, b) /\ UNCHANGED <<connErr, faults>>,
               \/ /\ SetsCursor(c, Answered(cur[c], b), "idle")
                  /\ UNCHANGED <<got, told, heap>>
               \/ NextRow(c, Answered(cur[c], b))
        PROVE  TypeOK'
    <3>1. b \in Reply
      BY QueryBatchTypes
    <3>2. Answered(cur[c], b) \in CursorRecord
      BY <1>0, <3>1, AnsweredFields
    <3>3. srv' \in [Cursors -> [open : BOOLEAN, at : Nat]]
      BY <2>5, <3>1, SendsType
    <3>4. SeenType' /\ heap' \in {"sound", "corrupt"}
      <4>1. CASE NextRow(c, Answered(cur[c], b))
        BY <3>2, <4>1, NextRowType
      <4>2. CASE /\ SetsCursor(c, Answered(cur[c], b), "idle")
                 /\ UNCHANGED <<got, told, heap>>
        BY <3>2, <4>2 DEF SetsCursor, TypeOK, SeenType, CursorPoints
      <4> QED BY <2>5, <4>1, <4>2
    <3> QED
      BY <2>3, <2>5, <3>3, <3>4 DEF TypeOK, SeenType
  <2>6. ASSUME NEW s \in CursorRecord, QueryFails(c, s, pc[c]), srv' = srv, heap' = heap,
               connErr' \in {"SUCCESS", "IO_ERROR", "BSON_INVALID"}, faults' \in Nat
        PROVE  TypeOK'
    <3>1. SeenType'
      BY <2>6, QueryFailsType
    <3> QED
      BY <2>3, <2>6, <3>1 DEF TypeOK, SeenType
  <2>7. refused \in CursorRecord
    BY <2>2 DEF refused
  <2> QED
    BY <1>0, <2>4, <2>5, <2>6, <2>7 DEF Fault, TypeOK
<1>5. ASSUME NEW c \in Cursors, MoreReply(c) PROVE TypeOK'
  <2>0. rows' = rows /\ linked' = linked
    BY <1>5 DEF MoreReply
  <2>1. \/ Corrupts /\ UNCHANGED <<srv, faults>>
        \/ \E b \in MoreBatches(c, Wanted(cur[c])) :
             /\ Sends(c, b) /\ UNCHANGED <<connErr, heap, faults>>
             /\ \/ Gives(c, Received(cur[c], b))
                \/ Stops(c, NothingNew(Received(cur[c], b)))
                \/ Stops(c, Received(cur[c], b))
        \/ /\ Fault("moreFail") /\ srv' = [srv EXCEPT ![c].open = FALSE]
           /\ Gives(c, Received(cur[c], ErrReply))
           /\ UNCHANGED <<connErr, heap>>
    BY <1>5 DEF MoreReply
  <2>2. CASE Corrupts /\ UNCHANGED <<srv, faults>>
    BY <2>0, <2>2 DEF Corrupts, TypeOK
  <2>3. ASSUME NEW b \in MoreBatches(c, Wanted(cur[c])),
               Sends(c, b) /\ UNCHANGED <<connErr, heap, faults>>,
               \/ Gives(c, Received(cur[c], b))
               \/ Stops(c, NothingNew(Received(cur[c], b)))
               \/ Stops(c, Received(cur[c], b))
        PROVE  TypeOK'
    <3>1. b \in Reply
      BY <1>0, WantedType, MoreBatchTypes
    <3>2. Received(cur[c], b) \in CursorRecord
      BY <1>0, <3>1, ReceivedFields
    <3>3. NothingNew(Received(cur[c], b)) \in CursorRecord
      BY <3>2, ErrField DEF NothingNew, CursorErrors
    <3>4. srv' \in [Cursors -> [open : BOOLEAN, at : Nat]]
      BY <2>3, <3>1, SendsType
    <3>5. SeenType'
      BY <2>3, <3>2, <3>3, GivesType, StopsType
    <3> QED
      BY <2>0, <2>3, <3>4, <3>5 DEF TypeOK, SeenType
  <2>4. CASE /\ Fault("moreFail") /\ srv' = [srv EXCEPT ![c].open = FALSE]
             /\ Gives(c, Received(cur[c], ErrReply))
             /\ UNCHANGED <<connErr, heap>>
    <3>1. Received(cur[c], ErrReply) \in CursorRecord
      BY <1>0, ErrReplyType, ReceivedFields
    <3>2. SeenType'
      BY <2>4, <3>1, GivesType
    <3>3. srv' \in [Cursors -> [open : BOOLEAN, at : Nat]]
      BY <2>4 DEF TypeOK
    <3> QED
      BY <1>0, <2>0, <2>4, <3>2, <3>3 DEF TypeOK, SeenType, Fault
  <2> QED
    BY <2>1, <2>2, <2>3, <2>4
<1>6. ASSUME NEW c \in Cursors, CursorDestroy(c) PROVE TypeOK'
  <2>1. [cur[c] EXCEPT !.reply = NoReply] \in CursorRecord
    BY <1>0, NoReplyType, ReplyField
  <2>2. /\ SetsCursor(c, [cur[c] EXCEPT !.reply = NoReply], "destroyed")
        /\ srv' = [srv EXCEPT ![c].open = FALSE] \/ srv' = srv
        /\ connErr' \in {connErr, "IO_ERROR"}
        /\ UNCHANGED <<rows, linked, got, told, heap, faults>>
    BY <1>6 DEF CursorDestroy
  <2>3. srv' \in [Cursors -> [open : BOOLEAN, at : Nat]]
    BY <2>2 DEF TypeOK
  <2> QED
    BY <2>1, <2>2, <2>3 DEF SetsCursor, TypeOK, CursorPoints
<1>7. ASSUME NEW c \in Cursors, Expires(c) PROVE TypeOK'
  <2>1. srv' \in [Cursors -> [open : BOOLEAN, at : Nat]]
    BY <1>7 DEF Expires, TypeOK
  <2> QED
    BY <1>0, <1>7, <2>1 DEF Expires, Fault, TypeOK
<1>8. ASSUME NEW c \in Cursors, Insert(c) PROVE TypeOK'
  <2>1. rows' \in [Cursors -> Nat]
    BY <1>8 DEF Insert, TypeOK
  <2> QED
    BY <1>8, <2>1 DEF Insert, TypeOK
<1>9. CASE LinkBreaks
  BY <1>0, <1>9 DEF LinkBreaks, Fault, TypeOK
<1>10. CASE Reconnect
  BY <1>10 DEF Reconnect, TypeOK
<1>11. CASE UNCHANGED vars
  BY <1>11 DEF vars, TypeOK
<1> QED
  BY <1>1, <1>2, <1>3, <1>4, <1>5, <1>6, <1>7, <1>8, <1>9, <1>10, <1>11 DEF Next

\* The fields of a cursor, the reply it holds, the server's cursor and what the
\* application was given and told stay what they are, whatever fails.
THEOREM CursorTypes == Spec => []TypeOK
  BY InitType, TypeStep, PTL DEF Spec

-----------------------------------------------------------------------------
(***************************************************************************)
(* The rows between the client and the server                              *)
(***************************************************************************)

\* The server does not break its word: it does not fail in the middle of a
\* result or forget a cursor, and a tailable result has a row from the start
\* (mongo.c 1342-1346 takes one without for exhausted).
KeepsWord == /\ FaultKinds \subseteq {"break", "queryFail"}
             /\ Tailable = {} \/ 0 \notin InitRows

\* A cursor r whose query was answered, between two calls: the server's cursor s,
\* n rows in the result, g rows given and t told so far.
Answers(r, s, n, g, t, tail) ==
  LET b == r.reply
  IN  /\ ~b.failed /\ b.held /\ r.pos <= b.num
      /\ s.at = b.from + b.num /\ s.open = b.id
      /\ g = b.from + r.pos /\ r.seen = s.at
      /\ r.limit > 0 => r.seen <= r.limit
      /\ r.limit < 0 => r.seen <= -r.limit
      /\ b.id => r.limit >= 0 /\ r.limit # 1
      /\ ~b.id => \/ r.limit < 0
                  \/ r.limit = 1 /\ r.seen = 1
                  \/ ~tail /\ r.seen = n
      /\ b.num = 0 /\ b.id => tail /\ r.err # "EXHAUSTED" /\ ~LimitReached(r)
      /\ r.err = "PENDING" => b.id
      /\ t = "end" => r.pos = b.num /\ (LimitReached(r) \/ ~b.id)
      /\ t = "wait" => b.num = 0 /\ b.id

\* ... before its query was answered ...
Unasked(r, g, t) == /\ g = 0 /\ r.seen = 0 /\ r.pos = 0
                    /\ t \notin {"end", "wait"} /\ r.err # "PENDING"

\* ... and while it waits for more rows.
Waits(r, s, g, t) == /\ r.sent /\ s.open /\ g = s.at /\ r.seen = g /\ t # "end"
                     /\ ~LimitReached(r) /\ r.limit >= 0 /\ r.limit # 1

CursorState(r, p, s, n, g, t, tail) ==
  /\ p = "new" => ~r.sent /\ t = "nothing"
  /\ p \in {"find", "query"} => ~r.sent
  /\ ~r.sent => Unasked(r, g, t)
  /\ p \in {"more", "moreEmpty"} => Waits(r, s, g, t)
  /\ p = "moreEmpty" => tail /\ r.err # "EXHAUSTED"
  /\ p = "idle" /\ r.sent => Answers(r, s, n, g, t, tail)
  /\ s.at <= n
  /\ r.err = "PENDING" => tail
  /\ tail => n > 0

CursorInv ==
  \A c \in Cursors :
    CursorState(cur[c], pc[c], srv[c], rows[c], Len(got[c]), told[c], c \in Tailable)


LEMMA InitCursorInv ==
  ASSUME KeepsWord
  PROVE  Init => CursorInv
<1> SUFFICES ASSUME Init, NEW c \in Cursors
             PROVE  CursorState(cur[c], pc[c], srv[c], rows[c], Len(got[c]), told[c],
                                c \in Tailable)
  BY DEF CursorInv
<1>1. InitRows \subseteq Nat
  BY InputsAssumption, CursorBoundsAssumption
<1>2. rows[c] \in Nat /\ (c \in Tailable => rows[c] > 0)
  <2>1. rows[c] \in InitRows
    BY DEF Init
  <2>2. c \in Tailable => 0 \notin InitRows
    BY DEF KeepsWord
  <2>3. rows[c] \in Nat
    BY <1>1, <2>1
  <2>4. ASSUME c \in Tailable PROVE rows[c] # 0
    BY <2>1, <2>2, <2>4
  <2> QED
    BY <2>3, <2>4
<1>3. /\ cur[c] = NewCursor /\ pc[c] = "new" /\ got[c] = <<>> /\ told[c] = "nothing"
      /\ srv[c].at = 0
  BY DEF Init
<1>4. Unasked(cur[c], Len(got[c]), told[c])
  BY <1>3, NewCursorType DEF Unasked
<1> QED
  BY <1>2, <1>3, <1>4, NewCursorType DEF CursorState

\* A step changes one cursor only.
LEMMA OneCursor ==
  ASSUME TypeOK, CursorInv, NEW c \in Cursors,
         NEW r, NEW p, NEW s, NEW g, NEW t,
         cur' = [cur EXCEPT ![c] = r], pc' = [pc EXCEPT ![c] = p],
         srv' = [srv EXCEPT ![c] = s], rows' = rows,
         got' = [got EXCEPT ![c] = g], told' = [told EXCEPT ![c] = t],
         CursorState(r, p, s, rows[c], Len(g), t, c \in Tailable)
  PROVE  CursorInv'
<1> SUFFICES ASSUME NEW d \in Cursors
             PROVE  CursorState(cur'[d], pc'[d], srv'[d], rows'[d], Len(got'[d]),
                                told'[d], d \in Tailable)
  BY DEF CursorInv
<1>1. CASE d = c
  <2>1. /\ cur'[d] = r /\ pc'[d] = p /\ srv'[d] = s /\ rows'[d] = rows[c]
        /\ got'[d] = g /\ told'[d] = t
    BY <1>1 DEF TypeOK
  <2> QED
    BY <1>1, <2>1
<1>2. CASE d # c
  <2>1. /\ cur'[d] = cur[d] /\ pc'[d] = pc[d] /\ srv'[d] = srv[d] /\ rows'[d] = rows[d]
        /\ got'[d] = got[d] /\ told'[d] = told[d]
    BY <1>2 DEF TypeOK
  <2>2. CursorState(cur[d], pc[d], srv[d], rows[d], Len(got[d]), told[d], d \in Tailable)
    BY DEF CursorInv
  <2> QED
    BY <2>1, <2>2
<1> QED
  BY <1>1, <1>2

\* What ResultStream lets a call end with: the rows g given so far and the word t.
Said(c, g, t) ==
  LET n == cur[c].limit
  IN  \/ g = got[c] /\ t \in {told[c], "error"}
      \/ /\ g = got[c] /\ t = "end"
         /\ \/ Len(g) = rows[c] /\ c \notin Tailable
            \/ n > 0 /\ Len(g) >= n
            \/ n < 0
      \/ g = got[c] /\ t = "wait" /\ c \in Tailable /\ Len(g) = rows[c]
      \/ /\ g = Append(got[c], Len(got[c]) + 1) /\ t = "row"
         /\ told[c] # "end" /\ Len(got[c]) < rows[c]
         /\ n > 0 => Len(got[c]) < n
         /\ n < 0 => Len(got[c]) < -n

LEMMA StreamStep ==
  ASSUME TypeOK, NEW c \in Cursors, NEW r, NEW g, NEW t,
         cur' = [cur EXCEPT ![c] = r], r.limit = cur[c].limit, rows' = rows,
         got' = [got EXCEPT ![c] = g], told' = [told EXCEPT ![c] = t], Said(c, g, t)
  PROVE  [Stream!Next]_(Stream!vars)
<1>1. [d \in Cursors |-> cur'[d].limit] = [d \in Cursors |-> cur[d].limit]
  <2>1. \A d \in Cursors : cur'[d].limit = cur[d].limit
    BY DEF TypeOK
  <2> QED
    BY <2>1
<1>2. cur[c].limit \in Int /\ [d \in Cursors |-> cur[d].limit][c] = cur[c].limit
  BY DEF TypeOK, CursorRecord
<1>3. CASE g = got[c] /\ t = told[c]
  <2>1. UNCHANGED <<got, told>>
    BY <1>3 DEF TypeOK
  <2> QED
    BY <1>1, <2>1 DEF Stream!vars
<1>4. CASE g = got[c] /\ t # told[c]
  <2>1. got' = got
    BY <1>4 DEF TypeOK
  <2>2. CASE t = "error"
    <3>1. Stream!Fail(c)
      BY <1>1, <2>1, <2>2 DEF Stream!Fail, Stream!Tell
    <3> QED
      BY <3>1 DEF Stream!Next
  <2>3. CASE t = "end"
    <3>1. Stream!AllGiven(c)
      BY <1>2, <1>4, <2>3 DEF Said, Stream!AllGiven
    <3>2. Stream!End(c)
      BY <1>1, <2>1, <2>3, <3>1 DEF Stream!End, Stream!Tell
    <3> QED
      BY <3>2 DEF Stream!Next
  <2>4. CASE t = "wait"
    <3>1. c \in Tailable /\ Len(got[c]) = rows[c]
      BY <1>4, <2>4 DEF Said
    <3>2. Stream!Wait(c)
      BY <1>1, <2>1, <2>4, <3>1 DEF Stream!Wait, Stream!Tell
    <3> QED
      BY <3>2 DEF Stream!Next
  <2>5. CASE t \notin {"error", "end", "wait"}
    <3>1. g = Append(got[c], Len(got[c]) + 1)
      BY <1>4, <2>5 DEF Said
    <3>2. Len(got[c]) \in Nat /\ Len(Append(got[c], Len(got[c]) + 1)) = Len(got[c]) + 1
      BY DEF TypeOK
    <3> QED
      BY <1>4, <3>1, <3>2
  <2> QED
    BY <2>2, <2>3, <2>4, <2>5
<1>5. CASE g # got[c]
  <2>1. /\ g = Append(got[c], Len(got[c]) + 1) /\ t = "row"
        /\ told[c] # "end" /\ Len(got[c]) < rows[c]
        /\ cur[c].limit > 0 => Len(got[c]) < cur[c].limit
        /\ cur[c].limit < 0 => Len(got[c]) < -cur[c].limit
    BY <1>5 DEF Said
  <2>2. Stream!Row(c)
    BY <1>1, <1>2, <2>1 DEF Stream!Row, Stream!Tell, Stream!Size
  <2> QED
    BY <2>2 DEF Stream!Next
<1> QED
  BY <1>3, <1>4, <1>5

\* mongo_find and mongo_cursor_init set the limit.
LEMMA LimitStep ==
  ASSUME TypeOK, NEW c \in Cursors, NEW r \in CursorRecord, told[c] = "nothing",
         cur' = [cur EXCEPT ![c] = r], UNCHANGED <<rows, got>>,
         told' = told \/ told' = [told EXCEPT ![c] = "error"]
  PROVE  Stream!Next
<1> DEFINE l2 == [d \in Cursors |-> cur'[d].limit]
<1>1. l2[c] \in Int
  BY DEF TypeOK, CursorRecord
<1>2. l2 = [[d \in Cursors |-> cur[d].limit] EXCEPT ![c] = l2[c]]
  BY DEF TypeOK
<1>3. Stream!Limit(c)
  BY <1>1, <1>2 DEF Stream!Limit, Stream!Tell
<1> QED
  BY <1>3 DEF Stream!Next


\* The next row is given.
LEMMA NextAnswers ==
  ASSUME NEW r \in CursorRecord, NEW r2 \in CursorRecord, NEW s, NEW n, NEW g \in Nat,
         NEW tail, Answers(r, s, n, g, "row", tail), r.pos < r.reply.num,
         r2.reply = r.reply, r2.limit = r.limit, r2.seen = r.seen,
         r2.pos = r.pos + 1, r2.err = r.err
  PROVE  Answers(r2, s, n, g + 1, "row", tail)
<1>1. r.reply \in Reply /\ r.pos \in Nat
  BY DEF CursorRecord
<1>2. r.reply.num \in Nat /\ r.reply.from \in Nat
  BY <1>1 DEF Reply
<1>3. r2.pos <= r2.reply.num /\ g + 1 = r2.reply.from + r2.pos
  BY <1>1, <1>2 DEF Answers
<1>4. LimitReached(r2) <=> LimitReached(r)
  BY DEF LimitReached
<1> QED
  BY <1>3, <1>4 DEF Answers

\* mongo_cursor_next gives the next row of the reply ...
LEMMA GivesStep ==
  ASSUME TypeOK, CursorInv, NEW c \in Cursors, NEW r \in CursorRecord,
         NEW s \in [open : BOOLEAN, at : Nat],
         Gives(c, r), srv' = [srv EXCEPT ![c] = s], rows' = rows,
         r.sent, r.limit = cur[c].limit, r.pos < r.reply.num, told[c] # "end",
         Answers(r, s, rows[c], Len(got[c]), "row", c \in Tailable),
         CursorState(r, "idle", s, rows[c], Len(got[c]), "row", c \in Tailable)
  PROVE  CursorInv' /\ [Stream!Next]_(Stream!vars)
<1> DEFINE r2 == [r EXCEPT !.pos = @ + 1]
           g == Append(got[c], Len(got[c]) + 1)
<1>1. /\ r.pos \in Nat /\ r.limit \in Int /\ r.seen \in Nat /\ r.reply \in Reply
      /\ r.reply.from \in Nat /\ r.reply.num \in Nat /\ rows[c] \in Nat
      /\ Len(got[c]) \in Nat /\ s.at \in Nat /\ r.pos + 1 \in Nat
  BY DEF TypeOK, CursorRecord, Reply
<1>2. /\ r2 \in CursorRecord /\ r2.reply = r.reply /\ r2.limit = r.limit /\ r2.sent = r.sent
      /\ r2.seen = r.seen /\ r2.pos = r.pos + 1 /\ r2.err = r.err
  BY <1>1 DEF CursorRecord
<1>3. /\ ~r.reply.failed /\ s.at = r.reply.from + r.reply.num
      /\ Len(got[c]) = r.reply.from + r.pos /\ r.seen = s.at /\ s.at <= rows[c]
      /\ r.limit > 0 => r.seen <= r.limit
      /\ r.limit < 0 => r.seen <= -r.limit
  BY DEF Answers, CursorState
<1>4. got' = [got EXCEPT ![c] = g]
  BY <1>1, <1>3 DEF Gives
<1>5. cur' = [cur EXCEPT ![c] = r2] /\ pc' = [pc EXCEPT ![c] = "idle"]
      /\ told' = [told EXCEPT ![c] = "row"]
  BY DEF Gives, SetsCursor
<1>6. Len(g) = Len(got[c]) + 1
  BY DEF TypeOK
<1>7. Said(c, g, "row")
  BY <1>1, <1>3 DEF Said
<1> HIDE DEF r2
<1>8. Answers(r2, s, rows[c], Len(got[c]) + 1, "row", c \in Tailable)
  BY <1>1, <1>2, NextAnswers
<1>9. CursorState(r2, "idle", s, rows[c], Len(g), "row", c \in Tailable)
  BY <1>1, <1>2, <1>6, <1>8 DEF CursorState
<1> HIDE DEF g
<1>10. CursorInv'
  BY <1>4, <1>5, <1>9, OneCursor
<1> QED
  BY <1>2, <1>4, <1>5, <1>7, <1>10, StreamStep

LEMMA Reasons ==
  ASSUME NEW r, NEW e
  PROVE  /\ Reason(r, e) \in {"error", "end", "wait"}
         /\ Reason(r, e) = "end" => e = "SUCCESS" /\ r.err = "EXHAUSTED"
         /\ Reason(r, e) = "wait" => r.err = "PENDING"
         /\ e # "SUCCESS" => Reason(r, e) = "error"
<1>1. CASE e # "SUCCESS"
  BY <1>1 DEF Reason
<1>2. CASE e = "SUCCESS" /\ r.err = "EXHAUSTED"
  BY <1>2 DEF Reason
<1>3. CASE e = "SUCCESS" /\ r.err = "PENDING"
  BY <1>3 DEF Reason
<1>4. CASE e = "SUCCESS" /\ r.err # "EXHAUSTED" /\ r.err # "PENDING"
  BY <1>4 DEF Reason
<1> QED
  BY <1>1, <1>2, <1>3, <1>4

\* ... or stops: with the word t, which the application may be told.
LEMMA StopsStep ==
  ASSUME TypeOK, CursorInv, NEW c \in Cursors, NEW r \in CursorRecord,
         NEW s \in [open : BOOLEAN, at : Nat],
         Stops(c, r), srv' = [srv EXCEPT ![c] = s], rows' = rows,
         r.limit = cur[c].limit,
         \A t \in {"error", "end", "wait"} :
           /\ t = "end" => r.err = "EXHAUSTED" /\ connErr' = "SUCCESS"
           /\ t = "wait" => r.err = "PENDING"
           /\ connErr' # "SUCCESS" => t = "error"
           => /\ CursorState(r, "idle", s, rows[c], Len(got[c]), t, c \in Tailable)
              /\ Said(c, got[c], t)
  PROVE  CursorInv' /\ [Stream!Next]_(Stream!vars)
<1> DEFINE t == Reason(r, connErr')
<1>1. /\ CursorState(r, "idle", s, rows[c], Len(got[c]), t, c \in Tailable)
      /\ Said(c, got[c], t)
  BY Reasons
<1>2. /\ cur' = [cur EXCEPT ![c] = r] /\ pc' = [pc EXCEPT ![c] = "idle"]
      /\ told' = [told EXCEPT ![c] = t]
  BY DEF Stops, SetsCursor
<1>3. got' = [got EXCEPT ![c] = got[c]]
  BY DEF Stops, TypeOK
<1> HIDE DEF t
<1>4. CursorInv'
  BY <1>1, <1>2, <1>3, OneCursor
<1> QED
  BY <1>1, <1>2, <1>3, <1>4, StreamStep

\* A call goes on without a word.
LEMMA SilentStep ==
  ASSUME TypeOK, CursorInv, NEW c \in Cursors, NEW r \in CursorRecord, NEW p,
         NEW s \in [open : BOOLEAN, at : Nat],
         SetsCursor(c, r, p), srv' = [srv EXCEPT ![c] = s], rows' = rows,
         UNCHANGED <<got, told>>, r.limit = cur[c].limit,
         CursorState(r, p, s, rows[c], Len(got[c]), told[c], c \in Tailable)
  PROVE  CursorInv' /\ [Stream!Next]_(Stream!vars)
<1>1. /\ cur' = [cur EXCEPT ![c] = r] /\ pc' = [pc EXCEPT ![c] = p]
      /\ told' = [told EXCEPT ![c] = told[c]] /\ got' = [got EXCEPT ![c] = got[c]]
  BY DEF SetsCursor, TypeOK
<1>2. Said(c, got[c], told[c])
  BY DEF Said
<1>3. CursorInv'
  BY <1>1, OneCursor
<1> QED
  BY <1>1, <1>2, <1>3, StreamStep


\* Nothing an application can see happens, to the heap apart.
LEMMA StutterStep ==
  ASSUME CursorInv, UNCHANGED <<cur, pc, srv, rows, got, told>>
  PROVE  CursorInv' /\ [Stream!Next]_(Stream!vars)
<1>1. CursorInv'
  BY DEF CursorInv
<1>2. UNCHANGED Stream!vars
  BY DEF Stream!vars
<1> QED
  BY <1>1, <1>2

\* mongo_cursor_next and mongo_cursor_get_more, for a cursor r whose query was
\* answered.
LEMMA NextRowStep ==
  ASSUME TypeOK, CursorInv, NEW c \in Cursors, NEW r \in CursorRecord,
         NEW s \in [open : BOOLEAN, at : Nat],
         NextRow(c, r), srv' = [srv EXCEPT ![c] = s], linked \/ srv' = srv, rows' = rows,
         r.sent, r.limit = cur[c].limit,
         CursorState(r, "idle", s, rows[c], Len(got[c]), told[c], c \in Tailable)
  PROVE  CursorInv' /\ [Stream!Next]_(Stream!vars)
<1> DEFINE n == rows[c]
           k == Len(got[c])
           tail == c \in Tailable
<1>1. /\ r.pos \in Nat /\ r.limit \in Int /\ r.seen \in Nat /\ r.reply \in Reply
      /\ r.reply.from \in Nat /\ r.reply.num \in Nat /\ n \in Nat
      /\ k \in Nat /\ s.at \in Nat /\ r.reply.id \in BOOLEAN
  BY DEF TypeOK, CursorRecord, Reply
<1>2. Answers(r, s, n, k, told[c], tail) /\ s.at <= n /\ (r.err = "PENDING" => tail)
  BY DEF CursorState
<1>3. CASE r.pos < r.reply.num /\ Gives(c, r)
  <2>1. told[c] # "end" /\ Answers(r, s, n, k, "row", tail)
    BY <1>1, <1>2, <1>3 DEF Answers
  <2>2. CursorState(r, "idle", s, n, k, "row", tail)
    BY <2>1 DEF CursorState
  <2> QED
    BY <1>3, <2>1, <2>2, GivesStep
<1>4. CASE r.reply.num > 0 /\ r.pos = r.reply.num /\ GetMore(c, r, "more")
  <2> DEFINE over == [r EXCEPT !.err = "EXHAUSTED"]
             freed == [r EXCEPT !.reply = NoReply]
  <2>1. /\ over \in CursorRecord /\ over.reply = r.reply /\ over.limit = r.limit
        /\ over.sent = r.sent /\ over.seen = r.seen /\ over.pos = r.pos
        /\ over.err = "EXHAUSTED"
    BY ErrField DEF CursorErrors
  <2>2. /\ freed \in CursorRecord /\ freed.reply = NoReply /\ freed.limit = r.limit
        /\ freed.sent = r.sent /\ freed.seen = r.seen /\ freed.pos = r.pos
        /\ freed.err = r.err
    BY NoReplyType, ReplyField
  <2>3. \/ (LimitReached(r) \/ ~r.reply.id) /\ Stops(c, over)
        \/ /\ ~LimitReached(r) /\ r.reply.id
           /\ SetsCursor(c, freed, "more") /\ UNCHANGED <<got, told>>
        \/ ~linked /\ Corrupts
    BY <1>4 DEF GetMore
  <2> HIDE DEF over, freed
  <2>4. CASE (LimitReached(r) \/ ~r.reply.id) /\ Stops(c, over)
    <3>1. LimitReached(over) <=> LimitReached(r)
      BY <2>1 DEF LimitReached
    <3>2. ASSUME NEW t \in {"error", "end"}
          PROVE  CursorState(over, "idle", s, n, k, t, tail) /\ Said(c, got[c], t)
      <4>1. Answers(over, s, n, k, t, tail)
        BY <1>1, <1>2, <1>4, <2>1, <2>4, <3>1, <3>2 DEF Answers
      <4>2. CursorState(over, "idle", s, n, k, t, tail)
        BY <2>1, <4>1 DEF CursorState
      <4>3. t = "end" => \/ k = n /\ ~tail
                         \/ r.limit > 0 /\ k >= r.limit
                         \/ r.limit < 0
        BY <1>1, <1>2, <1>4, <2>4 DEF Answers, LimitReached
      <4> QED
        BY <3>2, <4>2, <4>3 DEF Said
    <3> QED
      BY <2>1, <2>4, <3>2, StopsStep
  <2>5. CASE /\ ~LimitReached(r) /\ r.reply.id
             /\ SetsCursor(c, freed, "more") /\ UNCHANGED <<got, told>>
    <3>1. Waits(freed, s, k, told[c])
      BY <1>1, <1>2, <1>4, <2>2, <2>5 DEF Waits, Answers, LimitReached
    <3>2. CursorState(freed, "more", s, n, k, told[c], tail)
      BY <1>2, <2>2, <3>1 DEF CursorState
    <3> QED
      BY <2>2, <2>5, <3>2, SilentStep
  <2>6. CASE ~linked /\ Corrupts
    BY <2>6, StutterStep DEF Corrupts
  <2> QED
    BY <2>3, <2>4, <2>5, <2>6
<1>5. CASE r.reply.num = 0 /\ r.reply.id /\ GetMore(c, r, "moreEmpty")
  <2> DEFINE freed == [r EXCEPT !.reply = NoReply]
  <2>1. /\ freed \in CursorRecord /\ freed.reply = NoReply /\ freed.limit = r.limit
        /\ freed.sent = r.sent /\ freed.seen = r.seen /\ freed.pos = r.pos
        /\ freed.err = r.err
    BY NoReplyType, ReplyField
  <2>2. ~LimitReached(r) /\ tail /\ r.err # "EXHAUSTED"
    BY <1>2, <1>5 DEF Answers
  <2>3. \/ SetsCursor(c, freed, "moreEmpty") /\ UNCHANGED <<got, told>>
        \/ ~linked /\ Corrupts
    BY <1>5, <2>2 DEF GetMore
  <2> HIDE DEF freed
  <2>4. CASE SetsCursor(c, freed, "moreEmpty") /\ UNCHANGED <<got, told>>
    <3>1. Waits(freed, s, k, told[c])
      BY <1>1, <1>2, <1>5, <2>1, <2>2 DEF Waits, Answers, LimitReached
    <3>2. CursorState(freed, "moreEmpty", s, n, k, told[c], tail)
      BY <1>2, <2>1, <2>2, <3>1 DEF CursorState
    <3> QED
      BY <2>1, <2>4, <3>2, SilentStep
  <2>5. CASE ~linked /\ Corrupts
    BY <2>5, StutterStep DEF Corrupts
  <2> QED
    BY <2>3, <2>4, <2>5
<1>6. CASE r.reply.num = 0 /\ ~r.reply.id /\ Stops(c, r)
  <2>1. r.err # "PENDING" /\ r.pos = 0
    BY <1>1, <1>2, <1>6 DEF Answers
  <2>2. ASSUME NEW t \in {"error", "end"}
        PROVE  CursorState(r, "idle", s, n, k, t, tail) /\ Said(c, got[c], t)
    <3>1. Answers(r, s, n, k, t, tail)
      BY <1>1, <1>2, <1>6, <2>1, <2>2 DEF Answers
    <3>2. CursorState(r, "idle", s, n, k, t, tail)
      BY <3>1 DEF CursorState
    <3>3. t = "end" => \/ k = n /\ ~tail
                       \/ r.limit > 0 /\ k >= r.limit
                       \/ r.limit < 0
      BY <1>1, <1>2, <1>6, <2>1 DEF Answers
    <3> QED
      BY <2>2, <3>2, <3>3 DEF Said
  <2> QED
    BY <1>6, <2>1, <2>2, StopsStep
<1> QED
  BY <1>3, <1>4, <1>5, <1>6 DEF NextRow


\* A query r that has not been answered fails in mongo_find ...
LEMMA FindFails ==
  ASSUME TypeOK, CursorInv, NEW c \in Cursors, NEW r \in CursorRecord,
         QueryFails(c, r, "find"), UNCHANGED <<srv, rows>>,
         ~r.sent, Unasked(r, Len(got[c]), told[c])
  PROVE  /\ CursorInv'
         /\ cur' = [cur EXCEPT ![c] = [r EXCEPT !.reply = NoReply]]
         /\ told' = [told EXCEPT ![c] = "error"] /\ got' = got
<1> DEFINE r2 == [r EXCEPT !.reply = NoReply]
<1>1. /\ r2 \in CursorRecord /\ r2.sent = r.sent /\ r2.seen = r.seen /\ r2.pos = r.pos
      /\ r2.err = r.err
  BY NoReplyType, ReplyField
<1>2. /\ cur' = [cur EXCEPT ![c] = r2] /\ pc' = [pc EXCEPT ![c] = "destroyed"]
      /\ told' = [told EXCEPT ![c] = "error"] /\ got' = got
  BY DEF QueryFails, SetsCursor
<1>3. got' = [got EXCEPT ![c] = got[c]] /\ srv' = [srv EXCEPT ![c] = srv[c]]
  BY <1>2 DEF TypeOK
<1> HIDE DEF r2
<1>4. Unasked(r2, Len(got[c]), "error")
  BY <1>1 DEF Unasked
<1>5. srv[c].at <= rows[c] /\ (c \in Tailable => rows[c] > 0)
  BY DEF CursorInv, CursorState
<1>6. CursorState(r2, "destroyed", srv[c], rows[c], Len(got[c]), "error", c \in Tailable)
  BY <1>1, <1>4, <1>5 DEF CursorState, Unasked
<1>7. CursorInv'
  BY <1>2, <1>3, <1>6, OneCursor
<1> QED
  BY <1>2, <1>7 DEF r2

\* ... or in mongo_cursor_next.
LEMMA QueryFailsStep ==
  ASSUME TypeOK, CursorInv, NEW c \in Cursors, NEW r \in CursorRecord,
         NEW p \in {"find", "query"},
         QueryFails(c, r, p), UNCHANGED <<srv, rows>>, r.limit = cur[c].limit,
         ~r.sent, Unasked(r, Len(got[c]), told[c]),
         connErr' # "SUCCESS" \/ r.err \notin {"EXHAUSTED", "PENDING"}
  PROVE  CursorInv' /\ [Stream!Next]_(Stream!vars)
<1>1. CASE p = "find"
  <2> DEFINE r2 == [r EXCEPT !.reply = NoReply]
  <2>1. r2.limit = r.limit
    BY NoReplyType, ReplyField
  <2>2. /\ CursorInv' /\ cur' = [cur EXCEPT ![c] = r2]
        /\ told' = [told EXCEPT ![c] = "error"] /\ got' = got
    BY <1>1, FindFails
  <2>3. got' = [got EXCEPT ![c] = got[c]] /\ Said(c, got[c], "error")
    BY <2>2 DEF TypeOK, Said
  <2> HIDE DEF r2
  <2> QED
    BY <2>1, <2>2, <2>3, StreamStep
<1>2. CASE p = "query"
  <2>1. Stops(c, r)
    BY <1>2 DEF QueryFails
  <2>2. Unasked(r, Len(got[c]), "error")
    BY DEF Unasked
  <2>3. srv[c].at <= rows[c] /\ (c \in Tailable => rows[c] > 0)
    BY DEF CursorInv, CursorState
  <2>4. CursorState(r, "idle", srv[c], rows[c], Len(got[c]), "error", c \in Tailable)
    BY <2>2, <2>3 DEF CursorState, Unasked
  <2>5. Said(c, got[c], "error")
    BY DEF Said
  <2>6. srv' = [srv EXCEPT ![c] = srv[c]] /\ srv[c] \in [open : BOOLEAN, at : Nat]
    BY DEF TypeOK
  <2> QED
    BY <2>1, <2>4, <2>5, <2>6, StopsStep
<1> QED
  BY <1>1, <1>2

LEMMA FindStep ==
  ASSUME TypeOK, CursorInv, NEW c \in Cursors, NEW n \in Limits, NEW q \in Queries,
         Find(c, n, q)
  PROVE  CursorInv' /\ [Stream!Next]_(Stream!vars)
<1> DEFINE r == Made(n, q)
           asked == [r EXCEPT !.query = IF @ = "null" THEN "dangling" ELSE @]
           refused == [r EXCEPT !.err = "BSON_ERROR"]
<1>1. /\ r \in CursorRecord /\ ~r.sent /\ r.seen = 0 /\ r.pos = 0 /\ r.err = "EXHAUSTED"
  BY MadeType
<1>2. UNCHANGED <<srv, rows>> /\ StartQuery(c, r, "find") /\ pc[c] = "new"
  BY DEF Find
<1>3. \/ connErr' = "BSON_INVALID" /\ QueryFails(c, refused, "find")
      \/ connErr' = "IO_ERROR" /\ QueryFails(c, asked, "find")
      \/ SetsCursor(c, asked, "find") /\ UNCHANGED <<got, told>>
      \/ Corrupts
  BY <1>2 DEF StartQuery
<1> HIDE DEF r
<1>4. /\ asked \in CursorRecord /\ ~asked.sent /\ asked.seen = 0 /\ asked.pos = 0
      /\ asked.err = "EXHAUSTED"
  BY <1>1, AskedField
<1>5. /\ refused \in CursorRecord /\ ~refused.sent /\ refused.seen = 0 /\ refused.pos = 0
      /\ refused.err = "BSON_ERROR"
  BY <1>1, ErrField DEF CursorErrors
<1> HIDE DEF asked, refused
<1>6. CursorState(cur[c], "new", srv[c], rows[c], Len(got[c]), told[c], c \in Tailable)
  BY <1>2 DEF CursorInv
<1>7. told[c] = "nothing" /\ Len(got[c]) = 0
  BY <1>6 DEF CursorState, Unasked
<1>8. /\ Unasked(asked, Len(got[c]), told[c])
      /\ Unasked(refused, Len(got[c]), told[c])
  BY <1>4, <1>5, <1>7 DEF Unasked
<1>9. ASSUME NEW s \in CursorRecord, QueryFails(c, s, "find"), ~s.sent,
             Unasked(s, Len(got[c]), told[c])
      PROVE  CursorInv' /\ [Stream!Next]_(Stream!vars)
  <2>1. /\ CursorInv'
        /\ cur' = [cur EXCEPT ![c] = [s EXCEPT !.reply = NoReply]]
        /\ told' = [told EXCEPT ![c] = "error"] /\ got' = got
    BY <1>2, <1>9, FindFails
  <2>2. [s EXCEPT !.reply = NoReply] \in CursorRecord
    BY NoReplyType, ReplyField
  <2>3. Stream!Next
    BY <1>2, <1>7, <2>1, <2>2, LimitStep
  <2> QED
    BY <2>1, <2>3
<1>10. CASE SetsCursor(c, asked, "find") /\ UNCHANGED <<got, told>>
  <2>1. CursorState(asked, "find", srv[c], rows[c], Len(got[c]), told[c], c \in Tailable)
    BY <1>4, <1>6, <1>8 DEF CursorState
  <2>2. /\ cur' = [cur EXCEPT ![c] = asked] /\ pc' = [pc EXCEPT ![c] = "find"]
        /\ told' = [told EXCEPT ![c] = told[c]] /\ got' = [got EXCEPT ![c] = got[c]]
        /\ srv' = [srv EXCEPT ![c] = srv[c]]
    BY <1>2, <1>10 DEF SetsCursor, TypeOK
  <2>3. CursorInv'
    BY <1>2, <2>1, <2>2, OneCursor
  <2>4. Stream!Next
    BY <1>2, <1>4, <1>7, <1>10, LimitStep DEF SetsCursor
  <2> QED
    BY <2>3, <2>4
<1>11. CASE Corrupts
  BY <1>2, <1>11, StutterStep DEF Corrupts
<1> QED
  BY <1>3, <1>4, <1>5, <1>8, <1>9, <1>10, <1>11

LEMMA CursorInitStep ==
  ASSUME TypeOK, CursorInv, NEW c \in Cursors, NEW n \in Limits, NEW q \in Queries,
         CursorInit(c, n, q)
  PROVE  CursorInv' /\ [Stream!Next]_(Stream!vars)
<1> DEFINE r == Made(n, q)
<1>1. r \in CursorRecord /\ ~r.sent /\ r.seen = 0 /\ r.pos = 0 /\ r.err = "EXHAUSTED"
  BY MadeType
<1>2. /\ cur' = [cur EXCEPT ![c] = r] /\ pc' = [pc EXCEPT ![c] = "idle"]
      /\ UNCHANGED <<srv, rows, got, told>> /\ pc[c] = "new"
  BY DEF CursorInit, SetsCursor
<1> HIDE DEF r
<1>3. CursorState(cur[c], "new", srv[c], rows[c], Len(got[c]), told[c], c \in Tailable)
  BY <1>2 DEF CursorInv
<1>4. told[c] = "nothing" /\ Len(got[c]) = 0
  BY <1>3 DEF CursorState, Unasked
<1>5. CursorState(r, "idle", srv[c], rows[c], Len(got[c]), told[c], c \in Tailable)
  BY <1>1, <1>3, <1>4 DEF CursorState, Unasked
<1>6. /\ told' = [told EXCEPT ![c] = told[c]] /\ got' = [got EXCEPT ![c] = got[c]]
      /\ srv' = [srv EXCEPT ![c] = srv[c]]
  BY <1>2 DEF TypeOK
<1>7. CursorInv'
  <2>1. /\ cur' = [cur EXCEPT ![c] = r] /\ pc' = [pc EXCEPT ![c] = "idle"] /\ rows' = rows
    BY <1>2
  <2> QED
    BY <1>5, <1>6, <2>1, OneCursor
<1>8. Stream!Next
  BY <1>1, <1>2, <1>4, LimitStep
<1> QED
  BY <1>7, <1>8

LEMMA CursorNextStep ==
  ASSUME TypeOK, CursorInv, NEW c \in Cursors, CursorNext(c)
  PROVE  CursorInv' /\ [Stream!Next]_(Stream!vars)
<1> DEFINE r == cur[c]
           asked == [r EXCEPT !.query = IF @ = "null" THEN "dangling" ELSE @]
           refused == [r EXCEPT !.err = "BSON_ERROR"]
<1>1. r \in CursorRecord /\ srv[c] \in [open : BOOLEAN, at : Nat]
      /\ srv' = [srv EXCEPT ![c] = srv[c]]
  BY DEF CursorNext, TypeOK
<1>2. UNCHANGED <<srv, rows>> /\ pc[c] = "idle"
  BY DEF CursorNext
<1>3. CursorState(r, "idle", srv[c], rows[c], Len(got[c]), told[c], c \in Tailable)
  BY <1>2 DEF CursorInv
<1>4. CASE r.sent /\ NextRow(c, r)
  BY <1>1, <1>2, <1>3, <1>4, NextRowStep
<1>5. CASE ~r.sent /\ StartQuery(c, r, "query")
  <2>1. \/ connErr' = "BSON_INVALID" /\ QueryFails(c, refused, "query")
        \/ connErr' = "IO_ERROR" /\ QueryFails(c, asked, "query")
        \/ SetsCursor(c, asked, "query") /\ UNCHANGED <<got, told>>
        \/ Corrupts
    BY <1>5 DEF StartQuery
  <2>2. Unasked(r, Len(got[c]), told[c])
    BY <1>3, <1>5 DEF CursorState
  <2>3. /\ asked \in CursorRecord /\ asked.sent = r.sent /\ asked.seen = r.seen
        /\ asked.pos = r.pos /\ asked.err = r.err /\ asked.limit = r.limit
    BY <1>1, AskedField
  <2>4. /\ refused \in CursorRecord /\ refused.sent = r.sent /\ refused.seen = r.seen
        /\ refused.pos = r.pos /\ refused.err = "BSON_ERROR" /\ refused.limit = r.limit
    BY <1>1, ErrField DEF CursorErrors
  <2> HIDE DEF asked, refused, r
  <2>5. /\ Unasked(asked, Len(got[c]), told[c]) /\ ~asked.sent
        /\ Unasked(refused, Len(got[c]), told[c]) /\ ~refused.sent
    BY <1>5, <2>2, <2>3, <2>4 DEF Unasked
  <2>6. r.limit = cur[c].limit
    BY DEF r
  <2>7. CASE connErr' = "BSON_INVALID" /\ QueryFails(c, refused, "query")
    BY <1>2, <2>4, <2>5, <2>6, <2>7, QueryFailsStep
  <2>8. CASE connErr' = "IO_ERROR" /\ QueryFails(c, asked, "query")
    BY <1>2, <2>3, <2>5, <2>6, <2>8, QueryFailsStep
  <2>9. CASE SetsCursor(c, asked, "query") /\ UNCHANGED <<got, told>>
    <3>1. CursorState(asked, "query", srv[c], rows[c], Len(got[c]), told[c], c \in Tailable)
      BY <1>3, <2>3, <2>5 DEF CursorState
    <3> QED
      BY <1>1, <1>2, <2>3, <2>6, <2>9, <3>1, SilentStep
  <2>10. CASE Corrupts
    BY <1>2, <2>10, StutterStep DEF Corrupts
  <2> QED
    BY <2>1, <2>7, <2>8, <2>9, <2>10
<1> QED
  BY <1>4, <1>5 DEF CursorNext


\* What a batch of a result is.
LEMMA BatchFacts ==
  ASSUME TypeOK, NEW c \in Cursors, NEW at \in Nat, NEW want \in Int, NEW once \in BOOLEAN,
         NEW b \in Batches(c, at, want, once), at <= rows[c]
  PROVE  /\ b.held /\ ~b.failed /\ b.from = at /\ b.num \in Nat /\ b.num <= rows[c] - at
         /\ want > 0 => b.num <= want
         /\ b.num = 0 => at = rows[c]
         /\ once => ~b.id
         /\ ~once /\ (c \in Tailable \/ at + b.num < rows[c]) => b.id
         /\ b.num = 0 /\ c \notin Tailable => ~b.id
<1>1. rows[c] \in Nat
  BY DEF TypeOK
<1>2. b.held = TRUE /\ b.failed = FALSE /\ b.from = at /\ b.num \in Sizes(rows[c] - at, want)
  BY DEF Batches
<1>3. b.num \in Nat /\ b.num <= rows[c] - at /\ (want > 0 => b.num <= want)
      /\ (b.num = 0 => at = rows[c])
  BY <1>1, <1>2 DEF Sizes
<1>4. /\ once => ~b.id
      /\ ~once /\ (c \in Tailable \/ at + b.num < rows[c]) => b.id
      /\ b.num = 0 /\ c \notin Tailable => ~b.id
  BY DEF Batches
<1> QED
  BY <1>2, <1>3, <1>4

\* The first batch.
LEMMA FirstBatch ==
  ASSUME TypeOK, NEW c \in Cursors, NEW b \in QueryBatches(c), NEW r \in CursorRecord,
         NEW s, Unasked(cur[c], Len(got[c]), told[c]), c \in Tailable => rows[c] > 0,
         r.reply = b, r.limit = cur[c].limit, r.sent, r.seen = cur[c].seen + b.num,
         r.pos = cur[c].pos, r.err = cur[c].err,
         s.open = b.id, s.at = b.from + b.num
  PROVE  /\ Answers(r, s, rows[c], Len(got[c]), told[c], c \in Tailable)
         /\ CursorState(r, "idle", s, rows[c], Len(got[c]), told[c], c \in Tailable)
<1> DEFINE l == cur[c].limit
           want == IF l < 0 THEN -l ELSE l
           once == l < 0 \/ l = 1
<1>1. l \in Int /\ rows[c] \in Nat /\ 0 \in Nat /\ 0 <= rows[c]
  BY DEF TypeOK, CursorRecord
<1>2. want \in Int /\ once \in BOOLEAN
  BY <1>1
<1>3. b \in Batches(c, 0, want, once)
  BY DEF QueryBatches
<1>4. /\ l < 0 => want = -l
      /\ l > 0 => want = l
      /\ once <=> l < 0 \/ l = 1
  BY <1>1
<1> HIDE DEF want, once
<1>5. /\ b.held /\ ~b.failed /\ b.from = 0 /\ b.num \in Nat /\ b.num <= rows[c] - 0
      /\ want > 0 => b.num <= want
      /\ b.num = 0 => 0 = rows[c]
      /\ once => ~b.id
      /\ ~once /\ (c \in Tailable \/ 0 + b.num < rows[c]) => b.id
      /\ b.num = 0 /\ c \notin Tailable => ~b.id
  BY <1>1, <1>2, <1>3, BatchFacts
<1>6. r.seen = b.num /\ r.pos = 0 /\ s.at = b.num /\ Len(got[c]) = 0
      /\ told[c] \notin {"end", "wait"} /\ r.err # "PENDING"
  BY <1>5 DEF Unasked
<1>7. /\ l > 0 => b.num <= l
      /\ l < 0 => b.num <= -l
  BY <1>1, <1>2, <1>4, <1>5
<1>8. b.id => l >= 0 /\ l # 1
  BY <1>1, <1>4, <1>5
<1>14. c \in Tailable => b.num # 0
  <2> SUFFICES ASSUME c \in Tailable, b.num = 0 PROVE FALSE
    OBVIOUS
  <2>1. rows[c] > 0 /\ rows[c] = 0
    BY <1>5
  <2> QED
    BY <2>1
<1>9. ~(b.num = 0 /\ b.id)
  BY <1>5, <1>14
<1>10. ~b.id => \/ l < 0
                \/ l = 1 /\ b.num = 1
                \/ c \notin Tailable /\ b.num = rows[c]
  <2> SUFFICES ASSUME ~b.id, ~(l < 0), ~(c \notin Tailable /\ b.num = rows[c])
               PROVE  l = 1 /\ b.num = 1
    OBVIOUS
  <2>1. CASE ~once
    BY <1>1, <1>5, <2>1
  <2>2. CASE once
    <3>1. l = 1 /\ b.num <= 1
      BY <1>4, <1>7, <2>2
    <3>2. b.num # 0
      BY <1>5, <1>14
    <3> QED
      BY <1>5, <3>1, <3>2
  <2> QED
    BY <2>1, <2>2
<1> HIDE DEF l
<1>11. r.limit = l
  BY DEF l
<1>12. Answers(r, s, rows[c], Len(got[c]), told[c], c \in Tailable)
  BY <1>5, <1>6, <1>7, <1>8, <1>9, <1>10, <1>11 DEF Answers
<1>13. s.at <= rows[c]
  BY <1>1, <1>5, <1>6
<1> QED
  BY <1>6, <1>12, <1>13 DEF CursorState

LEMMA QueryReplyStep ==
  ASSUME TypeOK, CursorInv, NEW c \in Cursors, QueryReply(c)
  PROVE  CursorInv' /\ [Stream!Next]_(Stream!vars)
<1> DEFINE r0 == [cur[c] EXCEPT !.reply = ErrReply]
           refused == [r0 EXCEPT !.err = "QUERY_FAIL"]
<1>1. pc[c] \in {"find", "query"} /\ rows' = rows /\ cur[c] \in CursorRecord
  BY DEF QueryReply, TypeOK
<1>2. \/ connErr' = "IO_ERROR" /\ QueryFails(c, cur[c], pc[c]) /\ UNCHANGED srv
      \/ QueryFails(c, refused, pc[c]) /\ UNCHANGED srv
      \/ \E b \in QueryBatches(c) :
           /\ linked /\ Sends(c, b)
           /\ \/ /\ SetsCursor(c, Answered(cur[c], b), "idle")
                 /\ UNCHANGED <<got, told>>
              \/ NextRow(c, Answered(cur[c], b))
  BY DEF QueryReply, Answered
<1>3. CursorState(cur[c], pc[c], srv[c], rows[c], Len(got[c]), told[c], c \in Tailable)
  BY DEF CursorInv
<1>4. ~cur[c].sent /\ Unasked(cur[c], Len(got[c]), told[c])
      /\ (c \in Tailable => rows[c] > 0)
  BY <1>1, <1>3 DEF CursorState
<1>5. CASE connErr' = "IO_ERROR" /\ QueryFails(c, cur[c], pc[c]) /\ UNCHANGED srv
  BY <1>1, <1>4, <1>5, QueryFailsStep
<1>6. CASE QueryFails(c, refused, pc[c]) /\ UNCHANGED srv
  <2>1. /\ r0 \in CursorRecord /\ r0.limit = cur[c].limit /\ r0.sent = cur[c].sent
        /\ r0.seen = cur[c].seen /\ r0.pos = cur[c].pos
    BY <1>1, ErrReplyType, ReplyField
  <2> HIDE DEF r0
  <2>2. /\ refused \in CursorRecord /\ refused.limit = cur[c].limit
        /\ refused.sent = cur[c].sent /\ refused.seen = cur[c].seen
        /\ refused.pos = cur[c].pos /\ refused.err = "QUERY_FAIL"
    BY <2>1, ErrField DEF CursorErrors
  <2> HIDE DEF refused
  <2>3. ~refused.sent /\ Unasked(refused, Len(got[c]), told[c])
    BY <1>4, <2>2 DEF Unasked
  <2> QED
    BY <1>1, <1>6, <2>2, <2>3, QueryFailsStep
<1>7. ASSUME NEW b \in QueryBatches(c), linked, Sends(c, b),
             \/ /\ SetsCursor(c, Answered(cur[c], b), "idle")
                /\ UNCHANGED <<got, told>>
             \/ NextRow(c, Answered(cur[c], b))
      PROVE  CursorInv' /\ [Stream!Next]_(Stream!vars)
  <2> DEFINE r == Answered(cur[c], b)
             s == [open |-> b.id, at |-> b.from + b.num]
  <2>1. b \in Reply
    BY QueryBatchTypes
  <2>2. /\ r \in CursorRecord /\ r.reply = b /\ r.limit = cur[c].limit /\ r.sent
        /\ r.seen = cur[c].seen + b.num /\ r.pos = cur[c].pos /\ r.err = cur[c].err
    BY <1>1, <2>1, AnsweredFields
  <2>3. s \in [open : BOOLEAN, at : Nat] /\ s.open = b.id /\ s.at = b.from + b.num
    BY <2>1 DEF Reply
  <2>4. srv' = [srv EXCEPT ![c] = s]
    BY <1>7 DEF Sends
  <2> HIDE DEF s
  <2>5. CASE NextRow(c, r)
    <3> HIDE DEF r
    <3>1. CursorState(r, "idle", s, rows[c], Len(got[c]), told[c], c \in Tailable)
      BY <1>4, <2>2, <2>3, FirstBatch
    <3> QED
      BY <1>1, <1>7, <2>2, <2>3, <2>4, <2>5, <3>1, NextRowStep
  <2>6. CASE SetsCursor(c, r, "idle") /\ UNCHANGED <<got, told>>
    <3> HIDE DEF r
    <3>1. CursorState(r, "idle", s, rows[c], Len(got[c]), told[c], c \in Tailable)
      BY <1>4, <2>2, <2>3, FirstBatch
    <3> QED
      BY <1>1, <2>2, <2>3, <2>4, <2>6, <3>1, SilentStep
  <2> QED
    BY <1>7, <2>5, <2>6
<1> QED
  BY <1>2, <1>5, <1>6, <1>7


\* A further batch.
LEMMA FurtherBatch ==
  ASSUME TypeOK, NEW c \in Cursors, NEW r \in CursorRecord, NEW r1 \in CursorRecord, NEW s,
         NEW once \in BOOLEAN, ~once, NEW b, b \in Batches(c, srv[c].at, Wanted(r), once),
         Waits(r, srv[c], Len(got[c]), told[c]), srv[c].at <= rows[c],
         r1.reply = b, r1.limit = r.limit, r1.sent, r1.seen = r.seen + b.num, r1.pos = 0,
         s.open = b.id, s.at = b.from + b.num
  PROVE  /\ s.at <= rows[c] /\ r1.seen = s.at
         /\ ~b.failed /\ b.held /\ b.from = Len(got[c])
         /\ r.limit > 0 => r1.seen <= r.limit
         /\ ~b.id => c \notin Tailable /\ r1.seen = rows[c]
         /\ b.num = 0 => Len(got[c]) = rows[c] /\ (b.id => c \in Tailable)
         /\ b.num = 0 => ~LimitReached(r1)
<1>1. /\ srv[c].at \in Nat /\ rows[c] \in Nat /\ r.limit \in Int /\ r.seen \in Nat
      /\ Len(got[c]) \in Nat
  BY DEF TypeOK, CursorRecord
<1>2. Wanted(r) \in Int
  BY WantedType
<1>3. /\ b.held /\ ~b.failed /\ b.from = srv[c].at /\ b.num \in Nat
      /\ b.num <= rows[c] - srv[c].at
      /\ Wanted(r) > 0 => b.num <= Wanted(r)
      /\ b.num = 0 => srv[c].at = rows[c]
      /\ ~once /\ (c \in Tailable \/ srv[c].at + b.num < rows[c]) => b.id
      /\ b.num = 0 /\ c \notin Tailable => ~b.id
  BY <1>1, <1>2, BatchFacts
<1>4. /\ Len(got[c]) = srv[c].at /\ r.seen = srv[c].at
      /\ ~(r.limit > 0 /\ r.seen >= r.limit)
  BY DEF Waits, LimitReached
<1>5. r.limit > 0 => Wanted(r) = r.limit - r.seen
  BY <1>1 DEF Wanted
<1>6. r.limit > 0 => r1.seen <= r.limit
  BY <1>1, <1>3, <1>4, <1>5
<1>7. s.at <= rows[c] /\ r1.seen = s.at
  BY <1>1, <1>3, <1>4
<1>8. ~b.id => c \notin Tailable /\ r1.seen = rows[c]
  <2> SUFFICES ASSUME ~b.id PROVE c \notin Tailable /\ r1.seen = rows[c]
    OBVIOUS
  <2>1. c \notin Tailable /\ ~(srv[c].at + b.num < rows[c])
    BY <1>3
  <2>2. r1.seen = rows[c]
    <3>1. b.num \in Nat /\ b.num <= rows[c] - srv[c].at
      BY <1>3
    <3>2. srv[c].at + b.num = rows[c]
      BY <1>1, <2>1, <3>1
    <3> QED
      BY <1>4, <3>2
  <2> QED
    BY <2>1, <2>2
<1>9. b.num = 0 => ~LimitReached(r1)
  BY <1>1, <1>4 DEF LimitReached
<1> QED
  BY <1>3, <1>4, <1>6, <1>7, <1>8, <1>9

LEMMA MoreReplyStep ==
  ASSUME TypeOK, CursorInv, KeepsWord, NEW c \in Cursors, MoreReply(c)
  PROVE  CursorInv' /\ [Stream!Next]_(Stream!vars)
<1> DEFINE n == rows[c]
           k == Len(got[c])
           tail == c \in Tailable
<1>1. pc[c] \in {"more", "moreEmpty"} /\ rows' = rows /\ cur[c] \in CursorRecord
  BY DEF MoreReply, TypeOK
<1>2. CursorState(cur[c], pc[c], srv[c], n, k, told[c], tail)
  BY DEF CursorInv
<1>3. /\ Waits(cur[c], srv[c], k, told[c]) /\ srv[c].at <= n
      /\ pc[c] = "moreEmpty" => tail /\ cur[c].err # "EXHAUSTED"
      /\ cur[c].err = "PENDING" => tail
      /\ tail => n > 0
  BY <1>1, <1>2 DEF CursorState
<1>4. srv[c].open /\ cur[c].sent /\ told[c] # "end" /\ cur[c].limit >= 0 /\ cur[c].limit # 1
  BY <1>3 DEF Waits
<1>5. ~Fault("moreFail")
  BY DEF KeepsWord, Fault
<1>6. MoreBatches(c, Wanted(cur[c])) = Batches(c, srv[c].at, Wanted(cur[c]), FALSE)
  BY <1>4 DEF MoreBatches
<1>7. \/ Corrupts /\ UNCHANGED srv
      \/ \E b \in Batches(c, srv[c].at, Wanted(cur[c]), FALSE) :
           /\ Sends(c, b)
           /\ \/ b.num > 0 /\ Gives(c, Received(cur[c], b))
              \/ b.num = 0 /\ pc[c] = "more" /\ Stops(c, NothingNew(Received(cur[c], b)))
              \/ b.num = 0 /\ pc[c] = "moreEmpty" /\ Stops(c, Received(cur[c], b))
  BY <1>5, <1>6 DEF MoreReply
<1>8. CASE Corrupts /\ UNCHANGED srv
  BY <1>1, <1>8, StutterStep DEF Corrupts
<1>9. ASSUME NEW b \in Batches(c, srv[c].at, Wanted(cur[c]), FALSE), Sends(c, b),
             \/ b.num > 0 /\ Gives(c, Received(cur[c], b))
             \/ b.num = 0 /\ pc[c] = "more" /\ Stops(c, NothingNew(Received(cur[c], b)))
             \/ b.num = 0 /\ pc[c] = "moreEmpty" /\ Stops(c, Received(cur[c], b))
      PROVE  CursorInv' /\ [Stream!Next]_(Stream!vars)
  <2> DEFINE r == Received(cur[c], b)
             s == [open |-> b.id, at |-> b.from + b.num]
  <2>1. b \in Reply
    BY <1>1, <1>6, WantedType, MoreBatchTypes
  <2>2. /\ r \in CursorRecord /\ r.reply = b /\ r.limit = cur[c].limit /\ r.sent
        /\ r.seen = cur[c].seen + b.num /\ r.pos = 0 /\ r.err = cur[c].err
    BY <1>1, <1>4, <2>1, ReceivedFields
  <2>3. s \in [open : BOOLEAN, at : Nat] /\ s.open = b.id /\ s.at = b.from + b.num
    BY <2>1 DEF Reply
  <2>4. srv' = [srv EXCEPT ![c] = s]
    BY <1>9 DEF Sends
  <2>5. \/ b.num > 0 /\ Gives(c, r)
        \/ b.num = 0 /\ pc[c] = "more" /\ Stops(c, NothingNew(r))
        \/ b.num = 0 /\ pc[c] = "moreEmpty" /\ Stops(c, r)
    BY <1>9
  <2> HIDE DEF r, s
  <2>6. /\ s.at <= n /\ r.seen = s.at /\ ~b.failed /\ b.held /\ b.from = k
        /\ r.limit > 0 => r.seen <= r.limit
        /\ ~b.id => ~tail /\ r.seen = n
        /\ b.num = 0 => k = n /\ (b.id => tail)
        /\ b.num = 0 => ~LimitReached(r)
    <3> DEFINE once == FALSE
    <3>1. once \in BOOLEAN /\ ~once /\ b \in Batches(c, srv[c].at, Wanted(cur[c]), once)
      OBVIOUS
    <3> HIDE DEF once
    <3> QED
      BY <1>1, <1>3, <2>2, <2>3, <3>1, FurtherBatch
  <2>7. b.num \in Nat /\ b.from \in Nat /\ b.id \in BOOLEAN /\ r.limit \in Int
    BY <2>1, <2>2 DEF Reply, CursorRecord
  <2>8. r.err = "PENDING" => tail /\ b.id
    BY <1>3, <2>2, <2>6
  <2>9. CASE b.num > 0 /\ Gives(c, r)
    <3>1. ~(b.num = 0)
      BY <2>7, <2>9
    <3>2. Answers(r, s, n, k, "row", tail)
      BY <1>4, <2>2, <2>3, <2>6, <2>7, <2>8, <3>1 DEF Answers
    <3>3. CursorState(r, "idle", s, n, k, "row", tail)
      BY <1>3, <2>2, <2>6, <3>2 DEF CursorState
    <3> QED
      BY <1>1, <1>4, <2>2, <2>3, <2>4, <2>9, <3>2, <3>3, GivesStep
  <2>10. ASSUME b.num = 0, NEW q \in CursorRecord, Stops(c, q), q.reply = b,
                q.limit = cur[c].limit, q.sent, q.seen = r.seen, q.pos = 0,
                b.id => q.err # "EXHAUSTED",
                q.err = "PENDING" => b.id /\ tail
         PROVE  CursorInv' /\ [Stream!Next]_(Stream!vars)
    <3>1. LimitReached(q) <=> LimitReached(r)
      BY <2>2, <2>10 DEF LimitReached
    <3>2. ASSUME NEW t \in {"error", "end", "wait"},
                 t = "end" => q.err = "EXHAUSTED", t = "wait" => q.err = "PENDING"
          PROVE  CursorState(q, "idle", s, n, k, t, tail) /\ Said(c, got[c], t)
      <4>1. t = "end" => ~b.id
        BY <2>10, <3>2
      <4>2. t = "wait" => b.id /\ tail
        BY <2>10, <3>2
      <4>3. Answers(q, s, n, k, t, tail)
        BY <1>4, <2>2, <2>3, <2>6, <2>7, <2>10, <3>1, <4>1, <4>2 DEF Answers
      <4>4. CursorState(q, "idle", s, n, k, t, tail)
        BY <1>3, <2>6, <2>10, <4>3 DEF CursorState
      <4>5. Said(c, got[c], t)
        BY <2>6, <2>10, <3>2, <4>1, <4>2 DEF Said
      <4> QED
        BY <4>4, <4>5
    <3> QED
      BY <1>1, <2>3, <2>4, <2>10, <3>2, StopsStep
  <2>11. CASE b.num = 0 /\ pc[c] = "moreEmpty" /\ Stops(c, r)
    BY <1>3, <2>2, <2>8, <2>10, <2>11
  <2>12. CASE b.num = 0 /\ pc[c] = "more" /\ Stops(c, NothingNew(r))
    <3>1. CASE b.id
      <4> DEFINE q == [r EXCEPT !.err = "PENDING"]
      <4>1. NothingNew(r) = q
        BY <2>2, <3>1 DEF NothingNew
      <4>2. /\ q \in CursorRecord /\ q.reply = r.reply /\ q.limit = r.limit
            /\ q.sent = r.sent /\ q.seen = r.seen /\ q.pos = r.pos /\ q.err = "PENDING"
        BY <2>2, ErrField DEF CursorErrors
      <4> HIDE DEF q
      <4> QED
        BY <2>2, <2>6, <2>10, <2>12, <3>1, <4>1, <4>2
    <3>2. CASE ~b.id
      <4>1. NothingNew(r) = r
        BY <2>2, <3>2 DEF NothingNew
      <4> QED
        BY <2>2, <2>8, <2>10, <2>12, <3>2, <4>1
    <3> QED
      BY <3>1, <3>2
  <2> QED
    BY <2>5, <2>9, <2>11, <2>12
<1> QED
  BY <1>7, <1>8, <1>9

LEMMA DestroyStep ==
  ASSUME TypeOK, CursorInv, NEW c \in Cursors, CursorDestroy(c)
  PROVE  CursorInv' /\ [Stream!Next]_(Stream!vars)
<1> DEFINE r == [cur[c] EXCEPT !.reply = NoReply]
           s == srv'[c]
<1>1. cur[c] \in CursorRecord /\ pc[c] = "idle" /\ rows' = rows /\ UNCHANGED <<got, told>>
      /\ SetsCursor(c, r, "destroyed")
  BY DEF CursorDestroy, TypeOK
<1>2. /\ r \in CursorRecord /\ r.limit = cur[c].limit /\ r.sent = cur[c].sent
      /\ r.seen = cur[c].seen /\ r.pos = cur[c].pos /\ r.err = cur[c].err
  BY <1>1, NoReplyType, ReplyField
<1>3. srv' = [srv EXCEPT ![c] = s] /\ s \in [open : BOOLEAN, at : Nat] /\ s.at = srv[c].at
  <2>1. srv \in [Cursors -> [open : BOOLEAN, at : Nat]]
    BY DEF TypeOK
  <2>2. srv' = srv \/ srv' = [srv EXCEPT ![c].open = FALSE]
    BY DEF CursorDestroy
  <2>3. CASE srv' = srv
    BY <2>1, <2>3
  <2>4. CASE srv' = [srv EXCEPT ![c].open = FALSE]
    <3>1. s = [srv[c] EXCEPT !.open = FALSE]
      BY <2>1, <2>4
    <3> QED
      BY <2>1, <2>4, <3>1
  <2> QED
    BY <2>2, <2>3, <2>4
<1> HIDE DEF r, s
<1>4. CursorState(cur[c], "idle", srv[c], rows[c], Len(got[c]), told[c], c \in Tailable)
  BY <1>1 DEF CursorInv
<1>5. CursorState(r, "destroyed", s, rows[c], Len(got[c]), told[c], c \in Tailable)
  BY <1>2, <1>3, <1>4 DEF CursorState, Unasked
<1> QED
  BY <1>1, <1>2, <1>3, <1>5, SilentStep

LEMMA InsertStep ==
  ASSUME TypeOK, CursorInv, NEW c \in Cursors, Insert(c)
  PROVE  CursorInv' /\ [Stream!Next]_(Stream!vars)
<1>1. /\ c \in Tailable /\ rows' = [rows EXCEPT ![c] = @ + 1]
      /\ UNCHANGED <<cur, pc, srv, got, told>>
  BY DEF Insert
<1>2. Stream!Grow(c)
  BY <1>1 DEF Stream!Grow
<1>3. ASSUME NEW d \in Cursors
      PROVE  CursorState(cur[d], pc[d], srv[d], rows'[d], Len(got[d]), told[d], d \in Tailable)
  <2>1. CursorState(cur[d], pc[d], srv[d], rows[d], Len(got[d]), told[d], d \in Tailable)
    BY DEF CursorInv
  <2>2. CASE d # c
    BY <1>1, <2>1, <2>2 DEF TypeOK
  <2>3. CASE d = c
    <3>1. rows'[d] = rows[d] + 1 /\ rows[d] \in Nat /\ srv[d].at \in Nat /\ d \in Tailable
      BY <1>1, <2>3 DEF TypeOK
    <3>2. ASSUME NEW r, NEW s, NEW k, NEW t, Answers(r, s, rows[d], k, t, TRUE)
          PROVE  Answers(r, s, rows'[d], k, t, TRUE)
      BY <3>2 DEF Answers
    <3>3. (d \in Tailable) = TRUE
      BY <3>1
    <3>4. srv[d].at <= rows'[d] /\ rows'[d] > 0
      BY <2>1, <3>1 DEF CursorState
    <3>5. CursorState(cur[d], pc[d], srv[d], rows'[d], Len(got[d]), told[d], TRUE)
      BY <2>1, <3>2, <3>3, <3>4 DEF CursorState
    <3> QED
      BY <3>3, <3>5
  <2> QED
    BY <2>2, <2>3
<1>4. CursorInv'
  BY <1>1, <1>3 DEF CursorInv
<1> QED
  BY <1>2, <1>4 DEF Stream!Next

LEMMA CursorStep ==
  ASSUME KeepsWord
  PROVE  TypeOK /\ CursorInv /\ [Next]_vars => CursorInv' /\ [Stream!Next]_(Stream!vars)
<1> SUFFICES ASSUME TypeOK, CursorInv, [Next]_vars
             PROVE  CursorInv' /\ [Stream!Next]_(Stream!vars)
  OBVIOUS
<1>1. ASSUME NEW c \in Cursors, Expires(c) PROVE FALSE
  BY <1>1 DEF Expires, Fault, KeepsWord
<1>2. CASE LinkBreaks \/ Reconnect \/ UNCHANGED vars
  BY <1>2, StutterStep DEF LinkBreaks, Reconnect, vars
<1> QED
  BY <1>1, <1>2, FindStep, CursorInitStep, CursorNextStep, QueryReplyStep, MoreReplyStep,
     DestroyStep, InsertStep DEF Next

\* Nothing falls between the client and the server (mongo.c 1327-1383), whatever
\* the limits and the batches.
THEOREM NothingLost ==
  ASSUME KeepsWord
  PROVE  Spec => []NoGap
<1>1. TypeOK /\ CursorInv => NoGap
  <2> SUFFICES ASSUME TypeOK, CursorInv, NEW c \in Cursors, pc[c] = "idle", cur[c].sent
               PROVE  Len(got[c]) + (cur[c].reply.num - cur[c].pos) = srv[c].at
    BY DEF NoGap
  <2>1. Answers(cur[c], srv[c], rows[c], Len(got[c]), told[c], c \in Tailable)
    BY DEF CursorInv, CursorState
  <2>2. cur[c].reply.num \in Nat /\ cur[c].reply.from \in Nat /\ cur[c].pos \in Nat
    BY DEF TypeOK, CursorRecord, Reply
  <2> QED
    BY <2>1, <2>2 DEF Answers
<1>2. TypeOK /\ CursorInv /\ [Next]_vars => CursorInv'
  BY CursorStep
<1> QED
  BY InitType, TypeStep, InitCursorInv, <1>1, <1>2, PTL DEF Spec

\* A cursor of the driver implements ResultStream: whatever the batches, the
\* limit, the refused queries and the broken connections, rows are given in order
\* and once, and the words at the end are true.
THEOREM PromiseKept ==
  ASSUME KeepsWord
  PROVE  Spec => Promise
<1>1. Init => Stream!Init
  <2> SUFFICES ASSUME Init PROVE Stream!Init
    OBVIOUS
  <2>1. rows \in [Cursors -> Nat]
    BY InitType DEF TypeOK
  <2>2. [c \in Cursors |-> cur[c].limit] = [c \in Cursors |-> 0]
    BY NewCursorType DEF Init
  <2> QED
    BY <2>1, <2>2 DEF Init, Stream!Init
<1>2. TypeOK /\ CursorInv /\ [Next]_vars => CursorInv' /\ [Stream!Next]_(Stream!vars)
  BY CursorStep
<1> QED
  BY InitType, TypeStep, InitCursorInv, <1>1, <1>2, PTL DEF Spec, Promise, Stream!Spec


-----------------------------------------------------------------------------
(***************************************************************************)
(* What is left on the server                                              *)
(***************************************************************************)

\* A cursor open on the server is one the driver knows of.
Known(r, p, open) ==
  open => r.sent /\ p \in {"idle", "more", "moreEmpty"} /\ (p = "idle" => r.reply.id)

KnownInv == linked /\ \A c \in Cursors : Known(cur[c], pc[c], srv[c].open)

LEMMA KnownStep ==
  ASSUME TypeOK, KnownInv, NEW c \in Cursors, NEW r, NEW p,
         SetsCursor(c, r, p), \A d \in Cursors \ {c} : srv'[d] = srv[d],
         linked' = linked, Known(r, p, srv'[c].open)
  PROVE  KnownInv'
<1>1. \A d \in Cursors \ {c} : cur'[d] = cur[d] /\ pc'[d] = pc[d]
  BY DEF SetsCursor, TypeOK
<1>2. cur'[c] = r /\ pc'[c] = p
  BY DEF SetsCursor, TypeOK
<1> QED
  BY <1>1, <1>2 DEF KnownInv

\* mongo_cursor_next on an answered cursor, of which srv' is up to date.
LEMMA KnownRow ==
  ASSUME TypeOK, KnownInv, NEW c \in Cursors, NEW r \in CursorRecord, NextRow(c, r),
         \A d \in Cursors \ {c} : srv'[d] = srv[d], linked' = linked,
         r.sent, srv'[c].open => r.reply.id
  PROVE  KnownInv'
<1> DEFINE over == [r EXCEPT !.err = "EXHAUSTED"]
           freed == [r EXCEPT !.reply = NoReply]
           next == [r EXCEPT !.pos = @ + 1]
<1>1. /\ over.sent = r.sent /\ over.reply = r.reply
      /\ next.sent = r.sent /\ next.reply = r.reply /\ freed.sent = r.sent
  BY DEF CursorRecord
<1>2. \/ SetsCursor(c, next, "idle") \/ SetsCursor(c, r, "idle") \/ SetsCursor(c, over, "idle")
      \/ SetsCursor(c, freed, "more") \/ SetsCursor(c, freed, "moreEmpty")
  BY DEF NextRow, GetMore, Gives, Stops, KnownInv
<1> HIDE DEF over, freed, next
<1>3. /\ Known(next, "idle", srv'[c].open) /\ Known(r, "idle", srv'[c].open)
      /\ Known(over, "idle", srv'[c].open) /\ Known(freed, "more", srv'[c].open)
      /\ Known(freed, "moreEmpty", srv'[c].open)
  BY <1>1 DEF Known
<1> QED
  BY <1>2, <1>3, KnownStep

\* A query that is not answered has no cursor on the server.
LEMMA KnownFails ==
  ASSUME TypeOK, KnownInv, NEW c \in Cursors, NEW r, NEW p \in {"find", "query"},
         QueryFails(c, r, p), srv' = srv, linked' = linked, ~srv[c].open
  PROVE  KnownInv'
<1>1. \/ SetsCursor(c, [r EXCEPT !.reply = NoReply], "destroyed")
      \/ SetsCursor(c, r, "idle")
  BY DEF QueryFails, Stops
<1>2. \A q, s : Known(q, s, srv'[c].open)
  BY DEF Known
<1> QED
  BY <1>1, <1>2, KnownStep

LEMMA KnownNext ==
  ASSUME "break" \notin FaultKinds
  PROVE  TypeOK /\ KnownInv /\ [Next]_vars => KnownInv'
<1> SUFFICES ASSUME TypeOK, KnownInv, [Next]_vars PROVE KnownInv'
  OBVIOUS
<1>0. linked
  BY DEF KnownInv
<1>1. ASSUME NEW c \in Cursors, NEW r, NEW p \in {"find", "query"}, StartQuery(c, r, p),
             srv' = srv, linked' = linked, ~srv[c].open
      PROVE  KnownInv'
  <2> DEFINE asked == [r EXCEPT !.query = IF @ = "null" THEN "dangling" ELSE @]
             refused == [r EXCEPT !.err = "BSON_ERROR"]
  <2>1. \/ QueryFails(c, refused, p) \/ QueryFails(c, asked, p) \/ SetsCursor(c, asked, p)
        \/ Corrupts
    BY <1>1 DEF StartQuery
  <2> HIDE DEF asked, refused
  <2>2. \A q, s : Known(q, s, srv'[c].open)
    BY <1>1 DEF Known
  <2>3. CASE Corrupts
    BY <1>1, <2>3 DEF Corrupts, KnownInv
  <2>4. CASE SetsCursor(c, asked, p)
    BY <1>1, <2>2, <2>4, KnownStep
  <2> QED
    BY <1>1, <2>1, <2>3, <2>4, KnownFails
<1>2. ASSUME NEW c \in Cursors, NEW n \in Limits, NEW q \in Queries, Find(c, n, q)
      PROVE  KnownInv'
  <2>1. ~srv[c].open
    BY <1>2 DEF Find, KnownInv, Known
  <2>2. StartQuery(c, Made(n, q), "find") /\ srv' = srv /\ linked' = linked
    BY <1>2 DEF Find
  <2> QED
    BY <1>1, <2>1, <2>2
<1>3. ASSUME NEW c \in Cursors, NEW n \in Limits, NEW q \in Queries, CursorInit(c, n, q)
      PROVE  KnownInv'
  <2>1. SetsCursor(c, Made(n, q), "idle") /\ srv' = srv /\ linked' = linked /\ ~srv[c].open
    BY <1>3 DEF CursorInit, KnownInv, Known
  <2>2. Known(Made(n, q), "idle", srv'[c].open)
    BY <2>1 DEF Known
  <2> QED
    BY <2>1, <2>2, KnownStep
<1>4. ASSUME NEW c \in Cursors, CursorNext(c) PROVE KnownInv'
  <2>1. /\ cur[c] \in CursorRecord /\ srv' = srv /\ linked' = linked /\ pc[c] = "idle"
        /\ \/ cur[c].sent /\ NextRow(c, cur[c])
           \/ ~cur[c].sent /\ StartQuery(c, cur[c], "query")
    BY <1>4 DEF CursorNext, TypeOK
  <2>2. Known(cur[c], "idle", srv[c].open)
    BY <2>1 DEF KnownInv
  <2>3. CASE cur[c].sent /\ NextRow(c, cur[c])
    BY <2>1, <2>2, <2>3, KnownRow DEF Known
  <2>4. CASE ~cur[c].sent /\ StartQuery(c, cur[c], "query")
    BY <1>1, <2>1, <2>2, <2>4 DEF Known
  <2> QED
    BY <2>1, <2>3, <2>4
<1>5. ASSUME NEW c \in Cursors, QueryReply(c) PROVE KnownInv'
  <2> DEFINE refused == [cur[c] EXCEPT !.reply = ErrReply, !.err = "QUERY_FAIL"]
  <2>1. /\ pc[c] \in {"find", "query"} /\ linked' = linked /\ cur[c] \in CursorRecord
        /\ ~srv[c].open
    BY <1>5 DEF QueryReply, TypeOK, KnownInv, Known
  <2>2. \/ QueryFails(c, refused, pc[c]) /\ UNCHANGED srv
        \/ \E b \in QueryBatches(c) :
             /\ Sends(c, b)
             /\ \/ SetsCursor(c, Answered(cur[c], b), "idle")
                \/ NextRow(c, Answered(cur[c], b))
    BY <1>0, <1>5 DEF QueryReply, Answered
  <2> HIDE DEF refused
  <2>3. CASE QueryFails(c, refused, pc[c]) /\ UNCHANGED srv
    BY <2>1, <2>3, KnownFails
  <2>4. ASSUME NEW b \in QueryBatches(c), Sends(c, b),
               \/ SetsCursor(c, Answered(cur[c], b), "idle")
               \/ NextRow(c, Answered(cur[c], b))
        PROVE  KnownInv'
    <3> DEFINE r == Answered(cur[c], b)
    <3>1. b \in Reply
      BY QueryBatchTypes
    <3>2. r \in CursorRecord /\ r.sent /\ r.reply = b
      BY <2>1, <3>1, AnsweredFields
    <3>3. srv'[c].open = b.id /\ \A d \in Cursors \ {c} : srv'[d] = srv[d]
      BY <2>4 DEF Sends, TypeOK
    <3>4. CASE NextRow(c, r)
      <4> HIDE DEF r
      <4> QED BY <2>1, <3>2, <3>3, <3>4, KnownRow
    <3>5. CASE SetsCursor(c, r, "idle")
      <4> HIDE DEF r
      <4>1. Known(r, "idle", srv'[c].open)
        BY <3>2, <3>3 DEF Known
      <4> QED BY <2>1, <3>3, <3>5, <4>1, KnownStep
    <3> QED
      BY <2>4, <3>4, <3>5
  <2> QED
    BY <2>2, <2>3, <2>4
<1>6. ASSUME NEW c \in Cursors, MoreReply(c) PROVE KnownInv'
  <2>1. /\ pc[c] \in {"more", "moreEmpty"} /\ linked' = linked /\ cur[c] \in CursorRecord
        /\ srv[c].open => cur[c].sent
    BY <1>6 DEF MoreReply, TypeOK, KnownInv, Known
  <2>2. ASSUME NEW b \in Reply, ~srv'[c].open \/ (cur[c].sent /\ b.id),
               \A d \in Cursors \ {c} : srv'[d] = srv[d],
               \/ Gives(c, Received(cur[c], b))
               \/ Stops(c, NothingNew(Received(cur[c], b)))
               \/ Stops(c, Received(cur[c], b))
        PROVE  KnownInv'
    <3> DEFINE r == Received(cur[c], b)
               next == [r EXCEPT !.pos = @ + 1]
               q == NothingNew(r)
    <3>1. r \in CursorRecord /\ r.sent = cur[c].sent /\ r.reply = b
      BY <2>1, ReceivedFields
    <3>2. \/ SetsCursor(c, next, "idle") \/ SetsCursor(c, q, "idle") \/ SetsCursor(c, r, "idle")
      BY <2>2 DEF Gives, Stops
    <3> HIDE DEF r
    <3>3. next.sent = r.sent /\ next.reply = r.reply
      BY <3>1 DEF CursorRecord
    <3>4. q.sent = r.sent /\ q.reply = r.reply
      BY <3>1, ErrField DEF NothingNew, CursorErrors
    <3> HIDE DEF next, q
    <3>5. /\ Known(r, "idle", srv'[c].open) /\ Known(next, "idle", srv'[c].open)
          /\ Known(q, "idle", srv'[c].open)
      BY <2>2, <3>1, <3>3, <3>4 DEF Known
    <3> QED
      BY <2>1, <2>2, <3>2, <3>5, KnownStep
  <2>3. ASSUME NEW b \in MoreBatches(c, Wanted(cur[c])), Sends(c, b),
               \/ Gives(c, Received(cur[c], b))
               \/ Stops(c, NothingNew(Received(cur[c], b)))
               \/ Stops(c, Received(cur[c], b))
        PROVE  KnownInv'
    <3>1. b \in Reply
      BY <2>1, WantedType, MoreBatchTypes
    <3>2. srv'[c].open = b.id /\ \A d \in Cursors \ {c} : srv'[d] = srv[d]
      BY <2>3 DEF Sends, TypeOK
    <3>3. b.id => srv[c].open
      <4> SUFFICES ASSUME ~srv[c].open PROVE ~b.id
        BY <3>1 DEF Reply
      <4>1. b = [NoReply EXCEPT !.held = TRUE, !.from = srv[c].at]
        BY DEF MoreBatches
      <4> DEFINE b1 == [NoReply EXCEPT !.held = TRUE]
      <4>2. b1 \in Reply /\ b1.id = FALSE
        BY NoReplyType DEF Reply, NoReply
      <4> HIDE DEF b1
      <4>3. [b1 EXCEPT !.from = srv[c].at].id = FALSE
        BY <4>2 DEF Reply
      <4> QED
        BY <4>1, <4>3 DEF b1
    <3> QED
      BY <2>1, <2>2, <2>3, <3>1, <3>2, <3>3
  <2>4. CASE srv' = [srv EXCEPT ![c].open = FALSE] /\ Gives(c, Received(cur[c], ErrReply))
    <3>1. ~srv'[c].open /\ \A d \in Cursors \ {c} : srv'[d] = srv[d]
      BY <2>4 DEF TypeOK
    <3> QED
      BY <2>2, <2>4, <3>1, ErrReplyType
  <2> QED
    BY <1>0, <1>6, <2>3, <2>4 DEF MoreReply
<1>7. ASSUME NEW c \in Cursors, CursorDestroy(c) PROVE KnownInv'
  <2>1. /\ SetsCursor(c, [cur[c] EXCEPT !.reply = NoReply], "destroyed") /\ linked' = linked
        /\ pc[c] = "idle"
        /\ \/ srv' = [srv EXCEPT ![c].open = FALSE]
           \/ ~cur[c].reply.id /\ srv' = srv
    BY <1>0, <1>7 DEF CursorDestroy, Kills
  <2>2. ~srv'[c].open /\ \A d \in Cursors \ {c} : srv'[d] = srv[d]
    BY <2>1 DEF KnownInv, Known, TypeOK
  <2>3. \A q, s : Known(q, s, srv'[c].open)
    BY <2>2 DEF Known
  <2> QED
    BY <2>1, <2>2, <2>3, KnownStep
<1>8. ASSUME NEW c \in Cursors, Expires(c) PROVE KnownInv'
  <2>1. /\ UNCHANGED <<cur, pc, linked>> /\ ~srv'[c].open
        /\ \A d \in Cursors \ {c} : srv'[d] = srv[d]
    BY <1>8 DEF Expires, TypeOK
  <2> QED
    BY <2>1 DEF KnownInv, Known
<1>9. ASSUME NEW c \in Cursors, Insert(c) PROVE KnownInv'
  BY <1>9 DEF Insert, KnownInv
<1>10. ~LinkBreaks
  BY DEF LinkBreaks, Fault
<1>11. CASE Reconnect \/ UNCHANGED vars
  BY <1>11 DEF Reconnect, vars, KnownInv
<1> QED
  BY <1>2, <1>3, <1>4, <1>5, <1>6, <1>7, <1>8, <1>9, <1>10, <1>11 DEF Next

\* While the connection holds, mongo_cursor_destroy leaves no cursor behind on the
\* server (mongo.c 1385-1413), whatever else fails.
THEOREM NothingLeft ==
  ASSUME "break" \notin FaultKinds PROVE Spec => []NoneLeftOnServer
<1>1. Init => KnownInv
  BY DEF Init, KnownInv, Known
<1>2. TypeOK /\ KnownInv /\ [Next]_vars => KnownInv'
  BY KnownNext
<1>3. KnownInv => NoneLeftOnServer
  BY DEF KnownInv, Known, NoneLeftOnServer
<1> QED
  BY InitType, TypeStep, <1>1, <1>2, <1>3, PTL DEF Spec

-----------------------------------------------------------------------------
(***************************************************************************)
(* What MONGO_CURSOR_EXHAUSTED means                                       *)
(***************************************************************************)

\* What holds of a cursor with the fields r at the point p, which has given rows
\* (g) and told the application t last: after an empty reply from a cursor that
\* lives, cursor->err is no longer 0.
Final(r, p, t, g) ==
  /\ g => p \notin {"new", "find", "query"} /\ (p = "idle" => r.sent)
  /\ p \in {"more", "moreEmpty"} => r.sent
  /\ g /\ p = "idle" /\ t = "end" => LimitReached(r) \/ ~r.reply.id
  /\ g /\ p = "idle" /\ r.reply.num = 0 /\ r.reply.id =>
       LimitReached(r) \/ r.err # "EXHAUSTED"
  /\ g /\ p = "moreEmpty" => r.err # "EXHAUSTED"

FinalInv == \A c \in Cursors : Final(cur[c], pc[c], told[c], got[c] # <<>>)

LEMMA FinalStep ==
  ASSUME TypeOK, FinalInv, NEW c \in Cursors, NEW r, NEW p, SetsCursor(c, r, p),
         \A d \in Cursors \ {c} : told'[d] = told[d] /\ got'[d] = got[d],
         Final(r, p, told'[c], got'[c] # <<>>)
  PROVE  FinalInv'
<1>1. \A d \in Cursors \ {c} : cur'[d] = cur[d] /\ pc'[d] = pc[d]
  BY DEF SetsCursor, TypeOK
<1>2. cur'[c] = r /\ pc'[c] = p
  BY DEF SetsCursor, TypeOK
<1> QED
  BY <1>1, <1>2 DEF FinalInv

\* A call that stops says EXHAUSTED only if cursor->err is 0 ...
LEMMA FinalStops ==
  ASSUME TypeOK, FinalInv, NEW c \in Cursors, NEW r \in CursorRecord, Stops(c, r),
         got[c] # <<>> => /\ r.sent
                          /\ LimitReached(r) \/ ~r.reply.id \/ r.err # "EXHAUSTED"
  PROVE  FinalInv'
<1>1. /\ SetsCursor(c, r, "idle") /\ got' = got
      /\ told' = [told EXCEPT ![c] = Reason(r, connErr')]
  BY DEF Stops
<1>2. told'[c] = Reason(r, connErr') /\ \A d \in Cursors \ {c} : told'[d] = told[d]
  BY <1>1 DEF TypeOK
<1>3. r.err # "EXHAUSTED" => told'[c] # "end"
  BY <1>2 DEF Reason
<1>4. Final(r, "idle", told'[c], got'[c] # <<>>)
  BY <1>1, <1>3 DEF Final
<1> QED
  BY <1>1, <1>2, <1>4, FinalStep

\* ... and one that gives a row has no empty reply.
LEMMA FinalGives ==
  ASSUME TypeOK, FinalInv, NEW c \in Cursors, NEW r \in CursorRecord, Gives(c, r),
         r.sent, r.reply.num > 0
  PROVE  FinalInv'
<1> DEFINE next == [r EXCEPT !.pos = @ + 1]
<1>1. next.sent = r.sent /\ next.reply = r.reply
  BY DEF CursorRecord
<1>2. SetsCursor(c, next, "idle") /\ told' = [told EXCEPT ![c] = "row"]
      /\ \E row : got' = [got EXCEPT ![c] = row]
  BY DEF Gives
<1>3. told'[c] = "row" /\ \A d \in Cursors \ {c} : told'[d] = told[d] /\ got'[d] = got[d]
  BY <1>2 DEF TypeOK
<1> HIDE DEF next
<1>4. r.reply.num # 0
  BY DEF CursorRecord, Reply
<1>5. Final(next, "idle", told'[c], got'[c] # <<>>)
  BY <1>1, <1>3, <1>4 DEF Final
<1> QED
  BY <1>2, <1>3, <1>5, FinalStep

\* mongo_cursor_next on an answered cursor.
LEMMA FinalRow ==
  ASSUME TypeOK, FinalInv, NEW c \in Cursors, NEW r \in CursorRecord, NextRow(c, r), r.sent,
         got[c] # <<>> /\ r.reply.num = 0 /\ r.reply.id =>
           LimitReached(r) \/ r.err # "EXHAUSTED"
  PROVE  FinalInv'
<1> DEFINE over == [r EXCEPT !.err = "EXHAUSTED"]
           freed == [r EXCEPT !.reply = NoReply]
<1>1. /\ over \in CursorRecord /\ over.sent /\ over.reply = r.reply
      /\ LimitReached(over) = LimitReached(r)
  BY DEF CursorRecord, CursorErrors, LimitReached
<1>2. freed.err = r.err /\ freed.sent = r.sent
  BY DEF CursorRecord
<1>3. \/ r.pos < r.reply.num /\ Gives(c, r)
      \/ Stops(c, over) /\ (LimitReached(r) \/ ~r.reply.id)
      \/ Stops(c, r) /\ ~r.reply.id
      \/ SetsCursor(c, freed, "more") /\ UNCHANGED <<got, told>>
      \/ /\ SetsCursor(c, freed, "moreEmpty") /\ UNCHANGED <<got, told>>
         /\ r.reply.num = 0 /\ r.reply.id /\ ~LimitReached(r)
      \/ Corrupts
  BY DEF NextRow, GetMore
<1> HIDE DEF over, freed
<1>4. CASE r.pos < r.reply.num /\ Gives(c, r)
  <2>1. r.reply.num > 0
    BY <1>4 DEF CursorRecord, Reply
  <2> QED
    BY <1>4, <2>1, FinalGives
<1>5. CASE Stops(c, over) /\ (LimitReached(r) \/ ~r.reply.id)
  BY <1>1, <1>5, FinalStops
<1>6. CASE Stops(c, r) /\ ~r.reply.id
  BY <1>6, FinalStops
<1>7. CASE SetsCursor(c, freed, "more") /\ UNCHANGED <<got, told>>
  <2>1. Final(freed, "more", told'[c], got'[c] # <<>>)
    BY <1>2 DEF Final
  <2> QED
    BY <1>7, <2>1, FinalStep
<1>8. CASE /\ SetsCursor(c, freed, "moreEmpty") /\ UNCHANGED <<got, told>>
           /\ r.reply.num = 0 /\ r.reply.id /\ ~LimitReached(r)
  <2>1. Final(freed, "moreEmpty", told'[c], got'[c] # <<>>)
    BY <1>2, <1>8 DEF Final
  <2> QED
    BY <1>8, <2>1, FinalStep
<1>9. CASE Corrupts
  BY <1>9 DEF Corrupts, FinalInv
<1> QED
  BY <1>3, <1>4, <1>5, <1>6, <1>7, <1>8, <1>9

\* A cursor that has given nothing yet may fail in any way.
LEMMA FinalFails ==
  ASSUME TypeOK, FinalInv, NEW c \in Cursors, NEW r, NEW p \in {"find", "query"},
         QueryFails(c, r, p), got[c] = <<>>
  PROVE  FinalInv'
<1>1. /\ \/ SetsCursor(c, [r EXCEPT !.reply = NoReply], "destroyed")
         \/ SetsCursor(c, r, "idle")
      /\ got' = got /\ \E t : told' = [told EXCEPT ![c] = t]
  BY DEF QueryFails, Stops
<1>2. \A q, t : /\ Final(q, "destroyed", t, got'[c] # <<>>)
               /\ Final(q, "idle", t, got'[c] # <<>>)
  BY <1>1 DEF Final
<1>3. \A d \in Cursors \ {c} : told'[d] = told[d] /\ got'[d] = got[d]
  BY <1>1 DEF TypeOK
<1> QED
  BY <1>1, <1>2, <1>3, FinalStep

LEMMA FinalStart ==
  ASSUME TypeOK, FinalInv, NEW c \in Cursors, NEW r, NEW p \in {"find", "query"},
         StartQuery(c, r, p), got[c] = <<>>
  PROVE  FinalInv'
<1> DEFINE asked == [r EXCEPT !.query = IF @ = "null" THEN "dangling" ELSE @]
           refused == [r EXCEPT !.err = "BSON_ERROR"]
<1>1. \/ QueryFails(c, refused, p) \/ QueryFails(c, asked, p)
      \/ SetsCursor(c, asked, p) /\ UNCHANGED <<got, told>>
      \/ Corrupts
  BY DEF StartQuery
<1> HIDE DEF asked, refused
<1>2. CASE Corrupts
  BY <1>2 DEF Corrupts, FinalInv
<1>3. CASE SetsCursor(c, asked, p) /\ UNCHANGED <<got, told>>
  <2>1. Final(asked, p, told'[c], got'[c] # <<>>)
    BY <1>3 DEF Final
  <2> QED
    BY <1>3, <2>1, FinalStep
<1> QED
  BY <1>1, <1>2, <1>3, FinalFails

LEMMA FinalNext == TypeOK /\ FinalInv /\ [Next]_vars => FinalInv'
<1> SUFFICES ASSUME TypeOK, FinalInv, [Next]_vars PROVE FinalInv'
  OBVIOUS
<1>1. ASSUME NEW c \in Cursors, NEW n \in Limits, NEW q \in Queries,
             Find(c, n, q) \/ CursorInit(c, n, q)
      PROVE  FinalInv'
  <2>1. got[c] = <<>>
    BY <1>1 DEF Find, CursorInit, FinalInv, Final
  <2>2. CASE Find(c, n, q)
    BY <2>1, <2>2, FinalStart DEF Find
  <2>3. CASE CursorInit(c, n, q)
    <3>1. SetsCursor(c, Made(n, q), "idle") /\ UNCHANGED <<got, told>>
      BY <2>3 DEF CursorInit
    <3>2. Final(Made(n, q), "idle", told'[c], got'[c] # <<>>)
      BY <2>1, <3>1 DEF Final
    <3> QED
      BY <3>1, <3>2, FinalStep
  <2> QED
    BY <1>1, <2>2, <2>3
<1>2. ASSUME NEW c \in Cursors, CursorNext(c) PROVE FinalInv'
  <2>1. /\ cur[c] \in CursorRecord /\ pc[c] = "idle"
        /\ \/ cur[c].sent /\ NextRow(c, cur[c])
           \/ ~cur[c].sent /\ StartQuery(c, cur[c], "query")
    BY <1>2 DEF CursorNext, TypeOK
  <2>2. Final(cur[c], "idle", told[c], got[c] # <<>>)
    BY <2>1 DEF FinalInv
  <2>3. CASE cur[c].sent /\ NextRow(c, cur[c])
    BY <2>1, <2>2, <2>3, FinalRow DEF Final
  <2>4. CASE ~cur[c].sent /\ StartQuery(c, cur[c], "query")
    BY <2>2, <2>4, FinalStart DEF Final
  <2> QED
    BY <2>1, <2>3, <2>4
<1>3. ASSUME NEW c \in Cursors, QueryReply(c) PROVE FinalInv'
  <2> DEFINE refused == [cur[c] EXCEPT !.reply = ErrReply, !.err = "QUERY_FAIL"]
  <2>1. pc[c] \in {"find", "query"} /\ cur[c] \in CursorRecord /\ got[c] = <<>>
    BY <1>3 DEF QueryReply, TypeOK, FinalInv, Final
  <2>2. \/ QueryFails(c, refused, pc[c]) \/ QueryFails(c, cur[c], pc[c])
        \/ \E b \in QueryBatches(c) :
             \/ SetsCursor(c, Answered(cur[c], b), "idle") /\ UNCHANGED <<got, told>>
             \/ NextRow(c, Answered(cur[c], b))
    BY <1>3 DEF QueryReply, Answered
  <2> HIDE DEF refused
  <2>3. ASSUME NEW b \in QueryBatches(c),
               \/ SetsCursor(c, Answered(cur[c], b), "idle") /\ UNCHANGED <<got, told>>
               \/ NextRow(c, Answered(cur[c], b))
        PROVE  FinalInv'
    <3> DEFINE r == Answered(cur[c], b)
    <3>1. b \in Reply
      BY QueryBatchTypes
    <3>2. r \in CursorRecord /\ r.sent
      BY <2>1, <3>1, AnsweredFields
    <3> HIDE DEF r
    <3>3. CASE NextRow(c, r)
      BY <2>1, <3>2, <3>3, FinalRow
    <3>4. CASE SetsCursor(c, r, "idle") /\ UNCHANGED <<got, told>>
      <4>1. Final(r, "idle", told'[c], got'[c] # <<>>)
        BY <2>1, <3>4 DEF Final
      <4> QED
        BY <3>4, <4>1, FinalStep
    <3> QED
      BY <2>3, <3>3, <3>4 DEF r
  <2> QED
    BY <2>1, <2>2, <2>3, FinalFails
<1>4. ASSUME NEW c \in Cursors, MoreReply(c) PROVE FinalInv'
  <2>1. /\ pc[c] \in {"more", "moreEmpty"} /\ cur[c] \in CursorRecord /\ cur[c].sent
        /\ got[c] # <<>> /\ pc[c] = "moreEmpty" => cur[c].err # "EXHAUSTED"
    BY <1>4 DEF MoreReply, TypeOK, FinalInv, Final
  <2>2. \/ Corrupts
        \/ \E b \in MoreBatches(c, Wanted(cur[c])) :
             \/ b.num > 0 /\ Gives(c, Received(cur[c], b))
             \/ Stops(c, NothingNew(Received(cur[c], b)))
             \/ pc[c] = "moreEmpty" /\ Stops(c, Received(cur[c], b))
        \/ Gives(c, Received(cur[c], ErrReply))
    BY <1>4 DEF MoreReply
  <2>3. CASE Corrupts
    BY <2>3 DEF Corrupts, FinalInv
  <2>4. ASSUME NEW b \in MoreBatches(c, Wanted(cur[c])),
               \/ b.num > 0 /\ Gives(c, Received(cur[c], b))
               \/ Stops(c, NothingNew(Received(cur[c], b)))
               \/ pc[c] = "moreEmpty" /\ Stops(c, Received(cur[c], b))
        PROVE  FinalInv'
    <3> DEFINE r == Received(cur[c], b)
               q == NothingNew(r)
    <3>1. b \in Reply
      BY <2>1, WantedType, MoreBatchTypes
    <3>2. r \in CursorRecord /\ r.sent /\ r.reply = b /\ r.err = cur[c].err
      BY <2>1, <3>1, ReceivedFields
    <3> HIDE DEF r
    <3>3. /\ q \in CursorRecord /\ q.sent
          /\ ~q.reply.id \/ q.err # "EXHAUSTED"
      <4>1. CASE r.reply.id
        <5> DEFINE w == [r EXCEPT !.err = "PENDING"]
        <5>1. w \in CursorRecord /\ w.sent = r.sent /\ w.err = "PENDING"
          BY <3>2, ErrField DEF CursorErrors
        <5>2. q = w
          BY <4>1 DEF NothingNew
        <5> HIDE DEF w, q
        <5> QED
          BY <3>2, <5>1, <5>2
      <4>2. CASE ~r.reply.id
        <5>1. q = r
          BY <4>2 DEF NothingNew
        <5> QED
          BY <3>2, <4>2, <5>1
      <4> QED
        BY <4>1, <4>2
    <3> HIDE DEF q
    <3>4. CASE b.num > 0 /\ Gives(c, r)
      BY <3>2, <3>4, FinalGives
    <3>5. CASE Stops(c, q)
      BY <3>3, <3>5, FinalStops
    <3>6. CASE pc[c] = "moreEmpty" /\ Stops(c, r)
      BY <2>1, <3>2, <3>6, FinalStops
    <3> QED
      BY <2>4, <3>4, <3>5, <3>6 DEF q, r
  <2>5. CASE Gives(c, Received(cur[c], ErrReply))
    <3> DEFINE r == Received(cur[c], ErrReply)
    <3>1. r \in CursorRecord /\ r.sent /\ r.reply = ErrReply
      BY <2>1, ErrReplyType, ReceivedFields
    <3>2. ErrReply.num > 0
      BY DEF ErrReply
    <3> HIDE DEF r
    <3> QED
      BY <2>5, <3>1, <3>2, FinalGives DEF r
  <2> QED
    BY <2>2, <2>3, <2>4, <2>5
<1>5. ASSUME NEW c \in Cursors, CursorDestroy(c) PROVE FinalInv'
  <2>1. /\ SetsCursor(c, [cur[c] EXCEPT !.reply = NoReply], "destroyed")
        /\ UNCHANGED <<got, told>>
    BY <1>5 DEF CursorDestroy
  <2>2. \A q : Final(q, "destroyed", told'[c], got'[c] # <<>>)
    BY DEF Final
  <2> QED
    BY <2>1, <2>2, FinalStep
<1>6. ASSUME NEW c \in Cursors, Expires(c) \/ Insert(c) PROVE FinalInv'
  BY <1>6 DEF Expires, Insert, FinalInv
<1>7. CASE LinkBreaks \/ Reconnect \/ UNCHANGED vars
  BY <1>7 DEF LinkBreaks, Reconnect, vars, FinalInv
<1> QED
  BY <1>1, <1>2, <1>3, <1>4, <1>5, <1>6, <1>7 DEF Next

\* An application that stops at MONGO_CURSOR_EXHAUSTED after a row gives up no tail
\* that lives, short of its limit: whatever the server refuses or forgets, and
\* whenever the connection breaks (mongo.c 1193-1262, 1327-1383).
THEOREM ExhaustedIsTheEnd == Spec => []ExhaustedIsFinal
<1>1. Init => FinalInv
  <2> SUFFICES ASSUME Init, NEW c \in Cursors
               PROVE  Final(cur[c], pc[c], told[c], got[c] # <<>>)
    BY DEF FinalInv
  <2>1. pc[c] = "new" /\ got[c] = <<>>
    BY DEF Init
  <2> QED
    BY <2>1 DEF Final
<1>2. TypeOK /\ FinalInv /\ [Next]_vars => FinalInv'
  BY FinalNext
<1>3. FinalInv => ExhaustedIsFinal
  BY DEF FinalInv, Final, ExhaustedIsFinal
<1> QED
  BY InitType, TypeStep, <1>1, <1>2, <1>3, PTL DEF Spec

=============================================================================
