------------------------------ MODULE LuaBson ------------------------------
(***************************************************************************)
(* bson.lua: tables to documents and back.                                 *)
(*                                                                         *)
(* job[t].heap maps the tables of the thread to the pairs of key and value *)
(* they hold; a key or value is a pair of its Lua type and its content,    *)
(* strings are sequences of bytes. walk[t] are the calls of values_to_bson *)
(* under way, from the outside in: the table, the pairs still to come, and *)
(* array_mode. it[t] are the calls of iterator_to_table and                *)
(* iterator_to_array under way. back[t] is the table read so far: a        *)
(* function from the path to a value, the keys on the way to it, to the    *)
(* value, tables being marked by TableMark.                                *)
(***************************************************************************)
EXTENDS DocThreads

CONSTANT Behind   \* bytes that may lie behind a string

ASSUME LuaAssumption == Behind \subseteq Byte

VARIABLES walk, visited, it, back

luaVars == <<walk, visited, it, back>>

IdField == <<95, 105, 100>>     \* MONGO_ID_FIELD
TableMark == <<"table">>

-----------------------------------------------------------------------------
(* table_to_bson                                                           *)

TextOfNumber(n) == IF n < 0 THEN <<45, 48 - n>> ELSE <<48 + n>>
NumberOfText(s) == IF s[1] = 45 THEN 48 - s[2] ELSE s[1] - 48
IsNumberText(s) == \E n \in -9..9 : s = TextOfNumber(n)

KeyText(k) ==
  CASE k[1] = "number"  -> TextOfNumber(k[2])
    [] k[1] = "boolean" -> IF k[2] THEN <<116, 114, 117, 101>> ELSE <<102, 97, 108, 115, 101>>
    [] k[1] = "string"  -> k[2]

\* tisarray of lua-nucleo: the keys are 1, 2, ... n.
TIsArray(pairs) == {p[1] : p \in pairs} = {<<"number", i>> : i \in 1..Cardinality(pairs)}

\* An empty table is an object; a field is_array of its metatable decides.
IsArray(t, tbl) ==
  LET pairs == job[t].heap[tbl]  meta == job[t].meta[tbl]
  IN  pairs # {} /\ IF meta = "none" THEN TIsArray(pairs) ELSE meta = "array"

StartWalk(t, tbl, array) == [tbl |-> tbl, left |-> job[t].heap[tbl], array |-> array]

\* The pair p has been taken in the innermost call.
Without(calling, p) == [calling EXCEPT ![Len(calling)].left = @ \ {p}]

\* pairs() gives the pairs of a table in any order. In a call with array_mode
\* one is subtracted from the key: it must be a number, or the text of one.
NextPair(t, p) ==
  /\ At(t, "build") /\ job[t].kind = "lua" /\ walk[t] # <<>>
  /\ p \in Last(walk[t]).left

ConvertibleKey(t, p) ==
  /\ p[1][1] \in {"number", "boolean", "string"}
  /\ Last(walk[t]).array => \/ p[1][1] = "number"
                            \/ p[1][1] = "string" /\ IsNumberText(p[1][2])

\* Mutant: arrays count from one.
PairKeyOneBased(t, p) == KeyText(p[1])

PairKey(t, p) ==
  IF Last(walk[t]).array THEN TextOfNumber(NumberOfText(KeyText(p[1])) - 1)
                         ELSE KeyText(p[1])

BadPair(t) ==
  \E p \in Last(walk[t]).left :
    /\ NextPair(t, p)
    /\ ~ConvertibleKey(t, p) \/ p[2][1] \notin {"number", "boolean", "string", "table"}
    /\ Build(t, doc[t], "error")
    /\ UNCHANGED luaVars /\ UNCHANGED oidVars

\* value_handlers of number, boolean and string: a string under the key _id,
\* in any table, is taken for the digits of an object id.
ScalarAppended(t, key, v, behind) ==
  LET name == CString(key)
  IN  CASE v[1] = "number"  -> AppendFixed(doc[t], "DOUBLE", name, v[2])
        [] v[1] = "boolean" -> AppendFixed(doc[t], "BOOL", name, v[2])
        [] v[1] = "string" /\ key = IdField ->
             AppendOid(doc[t], name, OidFromString(v[2], behind))
        [] OTHER -> AppendStringBase(doc[t], "STRING", name, CString(v[2]))

ScalarPair(t) ==
  \E p \in Last(walk[t]).left, behind \in Behind :
    /\ NextPair(t, p)
    /\ ConvertibleKey(t, p) /\ p[2][1] \in {"number", "boolean", "string"}
    /\ LET r == ScalarAppended(t, PairKey(t, p), p[2], behind)
       IN  Build(t, r.b, IF r.ok THEN "build" ELSE "error")
    /\ walk' = [walk EXCEPT ![t] = Without(@, p)]
    /\ UNCHANGED <<visited, it, back>> /\ UNCHANGED oidVars

\* value_handlers of table. A table that was seen before, anywhere in the
\* document, is taken for a recursive one.
TablePair(t) ==
  \E p \in Last(walk[t]).left :
    /\ NextPair(t, p)
    /\ ConvertibleKey(t, p) /\ p[2][1] = "table"
    /\ LET sub == p[2][2]
           name == CString(PairKey(t, p))
           r == IF IsArray(t, sub) THEN StartArray(doc[t], name) ELSE StartObject(doc[t], name)
           fine == r.ok /\ sub \notin visited[t]
       IN  /\ Build(t, r.b, IF fine THEN "build" ELSE "error")
           /\ visited' = [visited EXCEPT ![t] = @ \cup {sub}]
           /\ walk' = [walk EXCEPT ![t] =
                IF fine THEN Append(Without(@, p), StartWalk(t, sub, IsArray(t, sub)))
                        ELSE @]
    /\ UNCHANGED <<it, back>> /\ UNCHANGED oidVars

EndOfTable(t) ==
  /\ At(t, "build") /\ job[t].kind = "lua" /\ Len(walk[t]) > 1
  /\ Last(walk[t]).left = {}
  /\ LET r == FinishObject(doc[t])
     IN  Build(t, r.b, IF r.ok THEN "build" ELSE "error")
  /\ walk' = [walk EXCEPT ![t] = Front(@)]
  /\ UNCHANGED <<visited, it, back>> /\ UNCHANGED oidVars

\* `not t._id` holds for false, too.
HasId(t) ==
  \E p \in job[t].heap[job[t].root] :
    p[1] = <<"string", IdField>> /\ p[2] # <<"boolean", FALSE>>

EndOfRoot(t) ==
  /\ At(t, "build") /\ job[t].kind = "lua" /\ Len(walk[t]) = 1
  /\ Last(walk[t]).left = {}
  /\ walk' = [walk EXCEPT ![t] = <<>>]
  /\ IF HasId(t) \/ ~job[t].generate
       THEN /\ Build(t, Finish(doc[t]).b, "insert")
            /\ UNCHANGED oidVars
       ELSE GenStart(t) /\ UNCHANGED threadVars
  /\ UNCHANGED <<visited, it, back>>

\* What bson_append_new_oid and bson_finish return is not looked at.
NewId(t) ==
  /\ Sane /\ pc[t] = "build" /\ job[t].kind = "lua" /\ walk[t] = <<>>
  /\ GenOut(t)
  /\ Build(t, Finish(AppendOid(doc[t], IdField, OidBytes(Made(t))).b).b, "insert")
  /\ UNCHANGED luaVars

-----------------------------------------------------------------------------
(* bson_to_table                                                           *)

StartRead(offset, array, path) ==
  [i |-> IteratorFromBuffer(offset), array |-> array, path |-> path]

\* t[key] = value, which forgets what was there. Nothing can be put into a
\* table that is not there: nil under a key removes it.
Assign(table, path, value) ==
  LET others == {q \in DOMAIN table : ~(Len(q) >= Len(path) /\ SubSeq(q, 1, Len(path)) = path)}
  IN  [q \in others \cup (IF value = <<"nil">> THEN {} ELSE {path}) |->
         IF q = path THEN value ELSE table[q]]

\* The element the innermost iterator is at, if there is one there.
ReadsAt(t, types) ==
  /\ At(t, "read")
  /\ Last(it[t]).i.at \in DOMAIN doc[t].data
  /\ doc[t].data[Last(it[t]).i.at].type \in types

ReadPath(t) ==
  LET r == Last(it[t])
      key == doc[t].data[r.i.at].key
  IN  Append(r.path, IF r.array THEN <<"number", NumberOfText(key) + 1>> ELSE <<"string", key>>)

ReadableKey(t) == Last(it[t]).array => IsNumberText(doc[t].data[Last(it[t]).i.at].key)

NumberTypes == {"DOUBLE", "INT", "LONG", "DATE", "TIMESTAMP"}
TableTypes  == {"OBJECT", "ARRAY"}
ValueTypes  == NumberTypes \cup {"BOOL", "STRING", "OID", "NULL"}

LuaValue(element) ==
  CASE element.type \in NumberTypes -> <<"number", element.val>>
    [] element.type = "BOOL"   -> <<"boolean", element.val>>
    [] element.type = "STRING" -> <<"string", element.val>>
    [] element.type = "OID"    -> <<"string", OidToString(element.val)>>
    [] element.type = "NULL"   -> <<"nil">>

Passed(t, its) ==
  [its EXCEPT ![Len(its)].i = IteratorNext(doc[t], @)]

ReadScalar(t) ==
  /\ ReadsAt(t, ValueTypes)
  /\ ReadableKey(t)
  /\ back' = [back EXCEPT ![t] =
       Assign(@, ReadPath(t), LuaValue(doc[t].data[Last(it[t]).i.at]))]
  /\ it' = [it EXCEPT ![t] = Passed(t, @)]
  /\ UNCHANGED <<walk, visited>> /\ UNCHANGED threadVars /\ UNCHANGED oidVars

\* A sub-object is read as a whole before the iterator passes it.
ReadTable(t) ==
  /\ ReadsAt(t, TableTypes)
  /\ ReadableKey(t)
  /\ back' = [back EXCEPT ![t] = Assign(@, ReadPath(t), TableMark)]
  /\ it' = [it EXCEPT ![t] =
       LET at == Last(@).i.at
       IN  Append(@, StartRead(Body(doc[t], at), doc[t].data[at].type = "ARRAY", ReadPath(t)))]
  /\ UNCHANGED <<walk, visited>> /\ UNCHANGED threadVars /\ UNCHANGED oidVars

ReadEnd(t) ==
  /\ ReadsAt(t, {"EOO"})
  /\ it' = [it EXCEPT ![t] = IF Len(@) > 1 THEN Passed(t, Front(@)) ELSE <<>>]
  /\ pc' = [pc EXCEPT ![t] = IF Len(it[t]) > 1 THEN "read" ELSE "done"]
  /\ UNCHANGED <<walk, visited, back, job, doc>> /\ UNCHANGED oidVars

\* A type without a handler, or a key of an array that is not a number.
ReadError(t) ==
  /\ \/ ReadsAt(t, Types \ (ValueTypes \cup TableTypes \cup {"EOO"}))
     \/ ReadsAt(t, Types \ {"EOO"}) /\ ~ReadableKey(t)
  /\ pc' = [pc EXCEPT ![t] = "error"]
  /\ UNCHANGED <<job, doc>> /\ UNCHANGED luaVars /\ UNCHANGED oidVars

LuaStep(t) ==
  \/ walk[t] # <<>> /\ (BadPair(t) \/ ScalarPair(t) \/ TablePair(t))
  \/ EndOfTable(t) \/ EndOfRoot(t) \/ NewId(t)
  \/ ReadScalar(t) \/ ReadTable(t) \/ ReadEnd(t) \/ ReadError(t)
=============================================================================
