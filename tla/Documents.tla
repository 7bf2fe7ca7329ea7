----------------------------- MODULE Documents -----------------------------
(***************************************************************************)
(* Documents from the program that describes them to the wire, and back:   *)
(* Lua tables (LuaBson), BCON arrays (Bcon) and the calls of a C program   *)
(* drive the builder, ids come from bson_oid_gen, mongo_insert looks at    *)
(* the result before it sends it (the sending is in MongoWrites), and      *)
(* mongo.insert reads it again for the id.                                 *)
(***************************************************************************)
EXTENDS LuaBson, Bcon, MongoNs

CONSTANTS
  Assignments,      \* the jobs the threads may start with
  MaxBson,          \* conn->max_bson_size
  CNames, CTexts,   \* keys and strings a C program uses
  MaxCalls,         \* bound: builder calls of a C program
  MaxIds            \* bound: ids a program makes

\* Tables are finite and have one value for a key. The strings of a job and the
\* name of its collection are made of bytes, and the tables and lists it refers to
\* are there. Number keys have one digit, and arrays in lists no more than 100
\* elements, so that their keys have two.
PairOK(heap, p) ==
  /\ p = <<p[1], p[2]>> /\ p[1] = <<p[1][1], p[1][2]>> /\ p[2] = <<p[2][1], p[2][2]>>
  /\ p[1][1] = "number" => p[1][2] \in -9..9
  /\ p[1][1] = "string" => p[1][2] \in Seq(Byte)
  /\ p[2][1] = "string" => p[2][2] \in Seq(Byte)
  /\ p[2][1] = "table" => p[2][2] \in DOMAIN heap

TableOK(heap, x) ==
  /\ IsFiniteSet(heap[x])
  /\ \A p \in heap[x] : PairOK(heap, p)
  /\ \A p, q \in heap[x] : p[1] = q[1] => p = q

ListOK(lists, list) ==
  /\ Len(list) \in 0..100
  /\ \A i \in 1..Len(list) :
       /\ list[i][1] = "text" => list[i][2] \in Seq(Byte)
       /\ list[i][1] = "list" => list[i][2] \in DOMAIN lists

JobOK(j) ==
  /\ j.root \in DOMAIN j.heap /\ "main" \in DOMAIN j.lists /\ j.ns \in Seq(Byte)
  /\ \A x \in DOMAIN j.heap : TableOK(j.heap, x)
  /\ \A l \in DOMAIN j.lists : ListOK(j.lists, j.lists[l])

ASSUME DocumentsAssumption ==
  /\ \A jobs \in Assignments : \A t \in Threads : JobOK(jobs[t])
  /\ CNames \subseteq Seq(Byte) /\ CTexts \subseteq Seq(Byte)
  /\ MaxBson \in Nat /\ MaxCalls \in Nat /\ MaxIds \in Nat

VARIABLE calls      \* calls[t]: how many calls the C program of t made

vars == <<threadVars, oidVars, luaVars, parse, calls>>

Init ==
  /\ OidInit
  /\ job \in Assignments
  /\ pc = [t \in Threads |-> IF job[t].kind = "none" THEN "done" ELSE "build"]
  /\ doc = [t \in Threads |-> NewBson]
  /\ walk = [t \in Threads |->
       IF job[t].kind = "lua" THEN <<StartWalk(t, job[t].root, FALSE)>> ELSE <<>>]
  /\ visited = [t \in Threads |-> IF job[t].kind = "lua" THEN {job[t].root} ELSE {}]
  /\ it = [t \in Threads |-> <<>>]
  /\ back = [t \in Threads |-> [p \in {} |-> TableMark]]
  /\ parse = [t \in Threads |->
       IF job[t].kind = "bcon" THEN <<StartParse("main", "Element")>> ELSE <<>>]
  /\ calls = [t \in Threads |-> 0]

-----------------------------------------------------------------------------
(* A C program: calls of the builder in any order, whose results it does   *)
(* not look at.                                                            *)

Another == Finish(AppendFixed(NewBson, "INT", <<97, Dot>>, 1).b).b

CallC(t, b) ==
  /\ At(t, "build") /\ job[t].kind = "c" /\ calls[t] < MaxCalls
  /\ calls' = [calls EXCEPT ![t] = @ + 1]
  /\ Build(t, b, "build")
  /\ UNCHANGED luaVars /\ UNCHANGED parse /\ UNCHANGED oidVars

CProgram(t) ==
  \/ \E name \in CNames :
       \/ \E type \in {"INT", "TIMESTAMP"} : CallC(t, AppendFixed(doc[t], type, name, 1).b)
       \/ \E old \in BOOLEAN : CallC(t, AppendBinary(doc[t], old, name, <<1>>).b)
       \/ CallC(t, AppendCodeWScope(doc[t], name, <<97>>, Another).b)
       \/ CallC(t, StartObject(doc[t], name).b)
       \/ CallC(t, StartArray(doc[t], name).b)
       \/ CallC(t, AppendBson(doc[t], name, Another).b)
       \/ 4 \in DOMAIN Another.data /\ CallC(t, AppendElement(doc[t], name, Another, 4).b)
       \/ \E s \in CTexts :
            \/ CallC(t, AppendStringBase(doc[t], "STRING", name, s).b)
            \/ CallC(t, AppendRegex(doc[t], name, s, <<>>).b)
  \/ 4 \in DOMAIN Another.data /\ CallC(t, AppendElementAsIs(doc[t], Another, 4).b)
  \/ CallC(t, FinishObject(doc[t]).b)
  \/ CallC(t, Finish(doc[t]).b)
  \/ doc[t].finished /\ CallC(t, CopyBson(doc[t]))

CInsert(t) ==
  /\ At(t, "build") /\ job[t].kind = "c"
  /\ Build(t, doc[t], "insert")
  /\ UNCHANGED luaVars /\ UNCHANGED oidVars /\ UNCHANGED <<parse, calls>>

\* A program that makes ids itself.
OidCall(t) ==
  /\ At(t, "build") /\ job[t].kind = "oid" /\ calls[t] < MaxIds
  /\ GenStart(t)
  /\ UNCHANGED threadVars /\ UNCHANGED luaVars /\ UNCHANGED <<parse, calls>>

OidReturn(t) ==
  /\ Sane /\ pc[t] = "build" /\ job[t].kind = "oid"
  /\ GenOut(t)
  /\ calls' = [calls EXCEPT ![t] = @ + 1]
  /\ Build(t, doc[t], IF calls[t] + 1 = MaxIds THEN "done" ELSE "build")
  /\ UNCHANGED luaVars /\ UNCHANGED parse

-----------------------------------------------------------------------------
(* mongo_insert, up to the message. Then the document is read: by          *)
(* mongo.insert for its id, or by a Lua program that finds it.             *)

BsonValid(b) ==
  /\ b.finished
  /\ b.size <= MaxBson
  /\ b.err \cap {"NOT_UTF8", "FIELD_HAS_DOT", "FIELD_INIT_DOLLAR"} = {}

\* Documents that are not whole are not followed any further.
Damaged(b) == b.slips \cap {"early", "forgot", "headless", "late"} # {}

Insert(t) ==
  /\ At(t, "insert")
  /\ LET accepted == ValidateNs(job[t].ns) /\ BsonValid(doc[t])
         read == accepted /\ ~Damaged(doc[t])
     IN  /\ pc' = [pc EXCEPT ![t] = IF ~accepted THEN "refused"
                                    ELSE IF read THEN "read" ELSE "done"]
         /\ it' = [it EXCEPT ![t] = IF read THEN <<StartRead(0, FALSE, <<>>)>> ELSE @]
  /\ UNCHANGED <<job, doc, walk, visited, back, parse, calls>> /\ UNCHANGED oidVars

-----------------------------------------------------------------------------
Inside(t) ==
  /\ Sane /\ GenInside(t)
  /\ UNCHANGED threadVars /\ UNCHANGED luaVars /\ UNCHANGED <<parse, calls>>

Step(t) ==
  \/ LuaStep(t) /\ UNCHANGED <<parse, calls>>
  \/ BconStep(t) /\ UNCHANGED luaVars /\ UNCHANGED calls
  \/ CProgram(t) \/ CInsert(t) \/ OidCall(t) \/ OidReturn(t)
  \/ Insert(t) \/ Inside(t)

Ended(t) == ~Sane \/ pc[t] \in {"done", "refused", "error"}

\* The programs have come to their ends.
Exit == (\A t \in Threads : Ended(t)) /\ UNCHANGED vars

Next == (\E t \in Threads : <<Step(t)>>_vars) \/ Exit

Spec == Init /\ [][Next]_vars

\* Weak fairness of the steps of t, none of which waits for anything. The first
\* disjunct stands for ENABLED: that a thread can go on until it has ended is what
\* checking for deadlock shows.
GoesOn(t) == []<>Ended(t) \/ []<><<Step(t)>>_vars

FairSpec == Spec /\ \A t \in Threads : GoesOn(t)

-----------------------------------------------------------------------------
(* Properties.                                                             *)

Sent(t) == job[t].kind \in {"lua", "bcon", "c"} /\ pc[t] \in {"read", "done"}

BsonOK(b) ==
  /\ DOMAIN b.data \subseteq Nat
  /\ \A p \in DOMAIN b.data : b.data[p].type \in Types /\ b.data[p].len \in Nat
  /\ b.cur \in Nat /\ b.dataSize \in 0..IntMax /\ b.size \in Nat
  /\ b.finished \in BOOLEAN
  /\ b.stack \in Seq(Nat) /\ Len(b.stack) <= StackSize
  /\ b.err \subseteq Flags /\ b.slips \subseteq Slips
  /\ b.bad \in {"no", "deep", "under", "over"}

\* The variables have their types.
TypeOK ==
  /\ OidTypeOK
  /\ pc \in [Threads -> {"build", "insert", "read", "done", "refused", "error"}]
  /\ \A t \in Threads : BsonOK(doc[t])
  /\ calls \in [Threads -> Nat]

\* bson_ensure_space makes room for all that is written: no byte lands behind
\* the buffer, whatever is appended in whatever order, unless the document gets
\* longer than INT_MAX, where the sums wrap, or bson_append_element goes on after
\* bson_append_estart has failed.
InBuffer == \A t \in Threads : InsideBuffer(doc[t])

\* A document that is sent is one that iterators can read: the lengths written
\* by bson_append_finish_object and bson_finish lead from element to element, to
\* the end. Excepted are documents finished with a sub-object still open or written
\* to after they were finished, those whose flags were overwritten by
\* BSON_SIZE_OVERFLOW, so that an element left without a value was forgotten, and
\* values without the start of an element.
SentReadable ==
  \A t \in Threads : Sent(t) /\ ~Damaged(doc[t]) => Readable(doc[t])

\* The iterators of bson_to_table never leave the elements.
ReadInside ==
  \A t \in Threads : pc[t] = "read" =>
    \A k \in 1..Len(it[t]) : it[t][k].i.at \in DOMAIN doc[t].data

\* No two ids of a process are the same unless calls raced.
IdsAreUnique == IdsDiffer

\* mongo_insert lets a document pass if and only if the name of the collection is
\* legal and the document finished, not too long, its keys and strings UTF-8 (in
\* the sense of the driver) and its keys free of dots and leading dollars. Flags do
\* not come along with the bytes of another object; and a C program can raise
\* one after the end of a document that is fine.
LegalKey(s) ==
  /\ MadeOf(s, LAMBDA c : /\ EncodesACodePoint(c) \/ TakenForACharacter(c)
                          /\ c # <<Dot>>)
  /\ Len(s) > 0 /\ s[1] = Dollar =>
       \/ Len(s) > 3 /\ SubSeq(s, 2, 4) = <<114, 101, 102>>
       \/ s \in {<<Dollar, 105, 100>>, <<Dollar, 100, 98>>}

LegalDoc(b) ==
  /\ b.finished /\ b.size <= MaxBson
  /\ \A p \in DOMAIN b.data :
       /\ LegalKey(b.data[p].key)
       /\ b.data[p].type \in {"STRING", "SYMBOL"} => AcceptedText(b.data[p].val)

SentIffLegal ==
  \A t \in Threads : doc[t].slips \cap {"forgot", "foreign"} = {} =>
    /\ Sent(t) => LegalNs(job[t].ns) /\ LegalDoc(doc[t])
    /\ pc[t] = "refused" /\ job[t].kind # "c" => ~(LegalNs(job[t].ns) /\ LegalDoc(doc[t]))

-----------------------------------------------------------------------------
(* Tables that bson.lua is meant for: trees no deeper than the stack, with *)
(* keys that are strings, or 1, 2, ... below the top; no zero bytes; ids   *)
(* in lower-case digits.                                                   *)

Subtables(heap, x) == {p \in heap[x] : p[2][1] = "table"}

IsTree(heap, root) ==
  \A x, y \in DOMAIN heap : \A p \in Subtables(heap, x), q \in Subtables(heap, y) :
    /\ p[2][2] # root
    /\ p[2] = q[2] => x = y /\ p = q

\* The ways down from a table: pairs, each one of the table the one before leads to.
Ways(heap, root) ==
  LET pairs == UNION {heap[x] : x \in DOMAIN heap}
  IN  {way \in UNION {[1..n -> pairs] : n \in 1..(StackSize + 1)} :
         /\ way[1] \in heap[root]
         /\ \A i \in 2..Len(way) : way[i - 1][2][1] = "table" /\ way[i] \in heap[way[i - 1][2][2]]}

Shallow(heap, root) ==
  \A way \in Ways(heap, root) : Len(way) = StackSize + 1 => Last(way)[2][1] # "table"

PlainText(s) == IsUTF8(s) /\ \A i \in 1..Len(s) : s[i] # 0

IdText(s) == Len(s) = 24 /\ \A i \in 1..24 : s[i] \in (48..57) \cup (97..102)

Plain(j) ==
  /\ IsTree(j.heap, j.root) /\ Shallow(j.heap, j.root)
  /\ \A x \in DOMAIN j.heap :
       /\ j.meta[x] = "none"
       /\ \/ \A p \in j.heap[x] : p[1][1] = "string" /\ PlainText(p[1][2])
          \/ x # j.root /\ TIsArray(j.heap[x])
       /\ \A p \in j.heap[x] :
            /\ p[2][1] \in {"number", "boolean", "string", "table"}
            /\ p[2][1] = "string" => PlainText(p[2][2])
            /\ p[1] = <<"string", IdField>> /\ p[2][1] = "string" => IdText(p[2][2])

\* Everything under the table root, as pairs of path and value.
Contents(heap, root) ==
  {<<[i \in 1..Len(way) |-> way[i][1]], IF Last(way)[2][1] = "table" THEN TableMark ELSE Last(way)[2]>> :
     way \in Ways(heap, root)}

\* A plain table is converted without an error, and reading the document gives
\* the table again, with the id if one was made. (The documents of tables that
\* share sub-tables, and of all but plain ones, are another matter.)
RoundTrip ==
  \A t \in Threads :
    /\ job[t].kind = "lua" /\ Plain(job[t])
    /\ doc[t].bad # "over" /\ "SIZE_OVERFLOW" \notin doc[t].err
    => LET read == {<<p, back[t][p]>> : p \in DOMAIN back[t]}
           source == Contents(job[t].heap, job[t].root)
           made == <<<<"string", IdField>>>>
       IN  /\ pc[t] # "error" /\ doc[t].bad = "no"
           /\ pc[t] = "done" =>
                IF HasId(t) \/ ~job[t].generate THEN read = source
                ELSE {e \in read : e[1] # made} = {e \in source : e[1] # made}
                     /\ \E k \in 1..Len(ids) :
                          <<made, <<"string", OidToString(OidBytes(ids[k]))>>>> \in read

\* The elements of an array that BCON builds have the keys 0, 1, 2, ..., however
\* arrays and documents nest, unless one was left out for a null pointer or because
\* there was no room for it, which nobody looks at.
Within(b, p, q) ==
  b.data[p].type \in {"OBJECT", "ARRAY"} /\ q > p /\ q < NextOffset(b, p) - 1

Children(b, p) ==
  {q \in DOMAIN b.data : Within(b, p, q) /\ b.data[q].type # "EOO"
                         /\ \A r \in DOMAIN b.data : Within(b, p, r) => ~Within(b, r, q)}

BconArrayKeys ==
  \A t \in Threads :
    LET b == doc[t]
    IN  /\ job[t].kind = "bcon" /\ Sent(t)
           /\ "early" \notin b.slips /\ "SIZE_OVERFLOW" \notin b.err
        /\ \A l \in DOMAIN job[t].lists : \A i \in 1..Len(job[t].lists[l]) :
             job[t].lists[l][i] # <<"null">>
        => \A p \in DOMAIN b.data : b.data[p].type = "ARRAY" =>
             \A q \in Children(b, p) :
               b.data[q].key = ArrayKeyString(Cardinality({r \in Children(b, p) : r < q}))

\* Every program comes to its end, the conversion of a table that contains itself
\* and the reading of a document included.
JobsEnd ==
  \A t \in Threads : <>Ended(t)
=============================================================================
