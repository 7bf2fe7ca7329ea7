----------------------------- MODULE MongoWrites -----------------------------
(***************************************************************************)
(* The writes of the C driver (mongo.c 744-1044, 1417-1452, 1609-1642):    *)
(* insert, insert_batch, update and remove under a write concern,          *)
(* create_index, get_last_error, and find_one among them, over one         *)
(* connection (MongoWire).  An acknowledged write is two messages, the     *)
(* write and a getlasterror command; only the second has a reply.          *)
(***************************************************************************)
EXTENDS MongoWire, Functions

CONSTANTS
  Inputs,    \* what a write is called with: its namespace and its document
  Concerns,  \* the write concern objects
  Null,
  Careful,   \* the application reconnects after a doubtful call
  MaxCalls   \* bound: calls in a behaviour

ASSUME CallsAssumption ==
  /\ Null \notin Concerns /\ Careful \in BOOLEAN /\ MaxCalls \in Nat
  /\ Concerns \subseteq [w : Int, finished : BOOLEAN]
  /\ Inputs \subseteq [ns : BOOLEAN, doc : {"fine", "unfinished", "tooLarge",
                                            "notUtf8", "badKey"}]

VARIABLES
  conn,  \* conn->connected, err and write_concern
  ctl,   \* where the application's thread is, and how its last call returned
  told   \* what the application knows of each write

vars == <<wire, conn, ctl, told>>

Errors == {"SUCCESS", "IO_ERROR", "CONN_FAIL", "COMMAND_FAILED", "WRITE_ERROR",
           "NS_INVALID", "BSON_NOT_FINISHED", "BSON_TOO_LARGE", "BSON_INVALID",
           "WRITE_CONCERN_INVALID"}

Calls == {"none", "write", "createIndex", "getLastError", "findOne", "reconnect",
          "setWriteConcern"}

\* The thread sends a query ("ask") and waits for the reply ("wait"); "index" is
\* the first half of mongo_create_index.  "read" says whether the reply answered
\* this call, and "last" is the write sent last on this socket, if the server was
\* asked nothing else after it.
CtlRecord == [pc : {"idle", "ask", "wait"}, call : Calls, index : BOOLEAN,
              write : Writes \cup {NoWrite}, acked : BOOLEAN, n : Nat,
              res : {"none", "OK", "ERROR"}, read : {"none", "own", "other"},
              last : Writes \cup {NoWrite}]

TypeOK ==
  /\ WireTypeOK
  /\ conn \in [connected : BOOLEAN, err : Errors, wc : Concerns \cup {Null}]
  /\ ctl \in CtlRecord
  /\ told \in [Writes -> {"uncalled", "called", "done", "failed", "rejected", "unknown"}]

Init ==
  /\ WireInit
  /\ conn \in [connected : {TRUE}, err : {"SUCCESS"}, wc : Concerns \cup {Null}]
  /\ ctl = [pc |-> "idle", call |-> "none", index |-> FALSE, write |-> NoWrite,
            acked |-> FALSE, n |-> 0, res |-> "none", read |-> "none", last |-> NoWrite]
  /\ told = [w \in Writes |-> "uncalled"]

-----------------------------------------------------------------------------
(***************************************************************************)
(* Control                                                                 *)
(***************************************************************************)

\* A reply may still come: after an I/O error, which MONGO_COMMAND_FAILED and
\* mongo_create_index may hide.
Doubtful == /\ ctl.call # "reconnect"
            /\ conn.err \in {"IO_ERROR", "COMMAND_FAILED"} \/ ctl.call = "createIndex"

CanCall == ctl.pc = "idle" /\ ctl.n < MaxCalls /\ (Careful => ~Doubtful)

SetErr(e) == conn' = [conn EXCEPT !.err = e]

\* The error a message that could not be sent leaves.
SendErr(r) == conn' = [conn EXCEPT !.err = IF r = "ok" THEN "SUCCESS" ELSE "IO_ERROR",
                                   !.connected = @ /\ r # "epipe"]

Calling(name, w, index) ==
  [pc |-> "idle", call |-> name, index |-> index, write |-> w, acked |-> FALSE,
   n |-> ctl.n + 1, res |-> "none", read |-> "none", last |-> ctl.last]

\* How a careful application reads the end of a write: MONGO_OK counts only if no
\* error is left in conn->err, for mongo_read_response goes on after a header it
\* could not read and may take what it finds for a reply (mongo.c 315-343).
Verdict(c, res, e) ==
  IF e = "IO_ERROR" \/ c.call = "createIndex" \/ ~c.acked THEN "unknown"
  ELSE IF res = "OK" THEN "done"
  ELSE IF e = "WRITE_ERROR" THEN "failed" ELSE "unknown"

\* A call c ends with res and err; after its insert mongo_create_index goes on.
Ends(c, res, e) ==
  \/ /\ c.index
     /\ ctl' = [c EXCEPT !.pc = "ask", !.index = FALSE]
     /\ told' = IF c.write = NoWrite THEN told ELSE [told EXCEPT ![c.write] = "called"]
  \/ /\ ~c.index
     /\ ctl' = [c EXCEPT !.pc = "idle", !.res = res]
     /\ told' = IF c.write = NoWrite THEN told
                ELSE [told EXCEPT ![c.write] = Verdict(c, res, e)]

-----------------------------------------------------------------------------
(***************************************************************************)
(* The write functions                                                     *)
(***************************************************************************)

\* mongo_validate_ns and mongo_bson_valid; a document to insert has its keys
\* checked, an update or a remove has neither these nor its namespace checked.
Complaint(i, inserts) ==
  IF inserts /\ ~i.ns THEN "NS_INVALID"
  ELSE IF i.doc = "unfinished" THEN "BSON_NOT_FINISHED"
  ELSE IF i.doc = "tooLarge" THEN "BSON_TOO_LARGE"
  ELSE IF i.doc = "notUtf8" \/ (inserts /\ i.doc = "badKey") THEN "BSON_INVALID"
  ELSE "SUCCESS"

\* mongo_choose_write_concern: a concern with w < 1 asks for no getlasterror.
Chosen(custom) ==
  LET p == IF custom # Null THEN custom ELSE conn.wc
  IN  IF p # Null /\ p.w < 1 THEN Null ELSE p

Unusable(p) == p # Null /\ ~p.finished

\* The complaints come before anything is sent.
Rejects(w, c, e) ==
  /\ SetErr(e)
  /\ ctl' = [c EXCEPT !.pc = "idle", !.res = "ERROR"]
  /\ told' = [told EXCEPT ![w] = "rejected"]
  /\ UNCHANGED wire

Sends(w, c, p) ==
  \E r \in Sent :
    /\ Send([op |-> "write", write |-> w], r) /\ SendErr(r)
    /\ \/ /\ r = "ok" /\ p # Null
          /\ ctl' = [c EXCEPT !.pc = "ask", !.acked = TRUE, !.last = w]
          /\ told' = [told EXCEPT ![w] = "called"]
       \/ r = "ok" /\ p = Null /\ Ends([c EXCEPT !.last = w], "OK", "SUCCESS")
       \/ r # "ok" /\ Ends([c EXCEPT !.last = w], "ERROR", "IO_ERROR")

\* mongo_insert and mongo_insert_batch ("inserts"), mongo_update, mongo_remove.
\* How many documents of a batch the server stores before it refuses one is its
\* business: a batch is refused or not.
Write(w, i, inserts, custom) ==
  LET e == Complaint(i, inserts)
      p == Chosen(custom)
      c == Calling("write", w, FALSE)
  IN  /\ CanCall /\ told[w] = "uncalled"
      /\ \/ e # "SUCCESS" /\ Rejects(w, c, e)
         \/ e = "SUCCESS" /\ Unusable(p) /\ Rejects(w, c, "WRITE_CONCERN_INVALID")
         \/ e = "SUCCESS" /\ ~Unusable(p) /\ Sends(w, c, p)

\* mongo_create_index inserts the description of the index, whatever comes of it: it
\* may be too large or, for its key, no UTF-8, but it is finished and its own keys
\* are fixed ...
CreateIndex(w, i) ==
  LET c == Calling("createIndex", w, TRUE)
      e == IF Complaint(i, TRUE) # "SUCCESS" THEN Complaint(i, TRUE)
           ELSE IF Unusable(Chosen(Null)) THEN "WRITE_CONCERN_INVALID" ELSE "SUCCESS"
  IN  /\ CanCall /\ told[w] = "uncalled" /\ i.doc \notin {"unfinished", "badKey"}
      /\ \/ e # "SUCCESS" /\ SetErr(e) /\ Ends(c, "ERROR", e) /\ UNCHANGED wire
         \/ e = "SUCCESS" /\ Sends(w, c, Chosen(Null))

\* ... and asks for the last error, as mongo_cmd_get_last_error does.
GetLastError ==
  /\ CanCall
  /\ ctl' = [Calling("getLastError", NoWrite, FALSE) EXCEPT !.pc = "ask"]
  /\ UNCHANGED <<wire, conn, told>>

FindOne ==
  /\ CanCall
  /\ ctl' = [Calling("findOne", NoWrite, FALSE) EXCEPT !.pc = "ask"]
  /\ UNCHANGED <<wire, conn, told>>

SetWriteConcern(p) ==
  /\ CanCall /\ p # conn.wc
  /\ conn' = [conn EXCEPT !.wc = p]
  /\ ctl' = [Calling("setWriteConcern", NoWrite, FALSE) EXCEPT !.res = "OK"]
  /\ UNCHANGED <<wire, told>>

-----------------------------------------------------------------------------
(***************************************************************************)
(* mongo_find_one, for a document or for the reply to a command            *)
(***************************************************************************)

\* Whether it is mongo_check_last_error that asks, or get_last_error itself.
Checks == ctl.call = "write" \/ ctl.index

Tag == 2 * ctl.n + (IF ctl.index THEN 0 ELSE 1)

\* mongo_cmd_get_error_helper returns MONGO_OK if its command fails.
NoReply == IF Checks \/ ctl.call = "findOne" THEN "ERROR" ELSE "OK"

\* The errors are cleared and the query is sent.
Ask ==
  LET op == IF ctl.call = "findOne" THEN "query" ELSE "getlasterror"
  IN  /\ ctl.pc = "ask"
      /\ \E r \in Sent :
           /\ Send([op |-> op, call |-> Tag], r) /\ SendErr(r)
           /\ \/ /\ r = "ok" /\ UNCHANGED told
                 /\ ctl' = [ctl EXCEPT !.pc = "wait",
                                       !.last = IF op = "query" THEN NoWrite ELSE @]
              \/ r # "ok" /\ Ends(ctl, NoReply, "IO_ERROR")

\* Mutant: a recv that fails leaves no error.
ReadErrSilent(io) == conn.err

ReadErr(io) == IF io THEN "IO_ERROR" ELSE conn.err

\* Mutant: the reply to getlasterror is not looked at.
CheckedBlindly(v, e) == {<<"OK", e>>}

\* mongo_check_last_error looks for a string "err" ...
Checked(v, e) == IF v.error THEN {<<"ERROR", "WRITE_ERROR">>} ELSE {<<"OK", e>>}

\* Mutant: haserror is the opposite.
LastErrorInverted(v, e) == IF v.error THEN {<<"OK", e>>} ELSE {<<"ERROR", e>>}

\* ... and mongo_cmd_get_error_helper for any "err" that is not null.
LastError(v, e) == IF v.error THEN {<<"ERROR", e>>} ELSE {<<"OK", e>>}

\* How the call ends and with which error, given the reply v and the error e.
\* Garbage is no document, or none in which anything is found.
Ending(v, e) ==
  IF v = Garbage
  THEN {<<"OK", e>>, IF NoReply = "ERROR" THEN <<"ERROR", e>> ELSE <<"OK", "COMMAND_FAILED">>}
  ELSE IF Checks THEN Checked(v, e)
  ELSE IF ctl.call = "findOne" THEN {<<"OK", e>>} ELSE LastError(v, e)

Answer ==
  /\ ctl.pc = "wait"
  /\ \E ok, io \in BOOLEAN, v \in {Garbage} \cup (IF sock = 0 THEN {} ELSE Range(net[sock].rep)) :
       LET c == [ctl EXCEPT !.read = IF v.call = Tag THEN "own" ELSE "other"]
           ends == IF ok THEN Ending(v, ReadErr(io)) ELSE {<<NoReply, ReadErr(io)>>}
       IN  /\ Read(ok, io, v)
           /\ \E end \in ends : SetErr(end[2]) /\ Ends(c, end[1], end[2])

-----------------------------------------------------------------------------
(***************************************************************************)
(* mongo_reconnect, for a connection to a single server                    *)
(***************************************************************************)

Reconnect ==
  LET c == [Calling("reconnect", NoWrite, FALSE) EXCEPT !.last = NoWrite]
  IN  /\ ctl.pc = "idle" /\ ctl.n < MaxCalls
      /\ \E n \in 0..(IF sock = 0 THEN 0 ELSE Len(net[sock].req)) :
           \/ /\ Connect(conn.connected, n)
              /\ conn' = [conn EXCEPT !.connected = TRUE]
              /\ ctl' = [c EXCEPT !.res = "OK"]
           \/ /\ RefusedConnect(conn.connected, n)
              /\ conn' = [conn EXCEPT !.connected = FALSE, !.err = "CONN_FAIL"]
              /\ ctl' = [c EXCEPT !.res = "ERROR"]
      /\ UNCHANGED <<outcome, told>>

Next ==
  \/ \E w \in Writes, i \in Inputs, inserts \in BOOLEAN, p \in Concerns \cup {Null} :
       Write(w, i, inserts, p)
  \/ \E w \in Writes, i \in Inputs : CreateIndex(w, i)
  \/ GetLastError \/ FindOne
  \/ \E p \in Concerns \cup {Null} : SetWriteConcern(p)
  \/ Ask \/ Answer \/ Reconnect
  \/ World /\ UNCHANGED <<conn, ctl, told>>

Spec == Init /\ [][Next]_vars

-----------------------------------------------------------------------------
(***************************************************************************)
(* Properties                                                              *)
(***************************************************************************)

Promised == INSTANCE AckedWrites

\* With an application that reconnects after doubtful calls: a write for which
\* MONGO_OK is returned with no error left in conn->err, under a concern of w >= 1,
\* was done, one that is said to be a MONGO_WRITE_ERROR was refused, one rejected
\* before it was sent never reaches the server, and none is done twice; whatever
\* timeouts and breaks do to the messages before it (mongo.c 795-843).  MONGO_OK
\* alone promises less: it is also returned, with MONGO_IO_ERROR left behind, for a
\* write that was not done, against write_concern.rst 40.
AckPromise == Promised!Spec

\* With such an application, a call that returns MONGO_OK and leaves no error read
\* the reply to its own request, although nothing compares them (mongo.c 308-344);
\* mongo_create_index may read the reply to the getlasterror of its insert.
TrustedReplyIsOwn ==
  ctl.pc = "idle" /\ ctl.res = "OK" /\ conn.err = "SUCCESS" /\ ctl.call # "createIndex"
    => ctl.read # "other"

\* With such an application, mongo_cmd_get_last_error reports the refusal of the
\* write before it, no other, and not one a query has come after (mongo.c 1609).
LastErrorSpeaks ==
  ctl.pc = "idle" /\ ctl.call = "getLastError" /\ (ctl.res = "ERROR" \/ conn.err = "SUCCESS")
    => (ctl.res = "ERROR" <=> ctl.last # NoWrite /\ outcome[ctl.last] = "failed")

\* "w = 1: acknowledged" (write_concern.rst 40): a write for which MONGO_OK was
\* returned with no error left was done.
AckedIsDone == \A w \in Writes : told[w] = "done" => outcome[w] = "done"

\* mongo_create_index returns MONGO_OK if the index was created (mongo.h 666).
CreatedIndexIsDone ==
  ctl.pc = "idle" /\ ctl.call = "createIndex" /\ ctl.res = "OK"
    => outcome[ctl.write] = "done"

=============================================================================
