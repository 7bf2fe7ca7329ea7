-------------------------------- MODULE Bcon --------------------------------
(***************************************************************************)
(* bcon.c: documents written as C arrays of strings and values, parsed by  *)
(* a state machine.                                                        *)
(*                                                                         *)
(* job[t].lists maps names to such arrays, the one parsed is "main". An    *)
(* element is <<"text", bytes>> or, behind a type specifier, a value:      *)
(* <<"number", n>>, <<"list", name>> for an array that is embedded,        *)
(* <<"null">> for a null pointer. parse[t] are the calls of                *)
(* bson_append_bcon_with_state under way, from the outside in.             *)
(***************************************************************************)
EXTENDS DocThreads

VARIABLE parse

BconToken(e) ==
  LET s == e[2]
  IN  CASE e[1] # "text" -> "Default"
        [] Len(s) = 4 /\ s[1] = 58 /\ s[4] = 58 /\ s[2] \in {95, 80, 82} -> "Typespec"
        [] s = <<123>> -> "OpenBrace"
        [] s = <<125>> -> "CloseBrace"
        [] s = <<91>>  -> "OpenBracket"
        [] s = <<93>>  -> "CloseBracket"
        [] s = <<46>>  -> "End"
        [] OTHER -> "Default"

\* The letters of a specifier: `_`, `R` and `P` (a pointer that may be null),
\* and the type; a string where there is no specifier.
NoSpec == <<58, 95, 95, 58>>
IsPointer(spec) == spec[2] = 80
FixedTypeOf(spec) ==
  CASE spec[3] = 102 -> "DOUBLE" [] spec[3] = 98 -> "BOOL" [] spec[3] = 116 -> "DATE"
    [] spec[3] = 118 -> "NULL"   [] spec[3] = 105 -> "INT" [] spec[3] = 108 -> "LONG"
    [] OTHER -> "none"

\* Numbers of one or two digits.
ArrayKeyString(n) == IF n < 10 THEN <<48 + n>> ELSE <<48 + (n \div 10), 48 + (n % 10)>>

\* A call: its array and the place in it, the state, the states and the array
\* indices to return to, and whether a call for an embedded array failed.
StartParse(list, state) ==
  [list |-> list, at |-> 1, state |-> state, start |-> state, key |-> <<>>,
   spec |-> NoSpec, docs |-> <<>>, index |-> 0, indices |-> <<>>, failed |-> FALSE]

Current(t) == Last(parse[t])
Element(t) == job[t].lists[Current(t).list][Current(t).at]
IsText(t) == Element(t)[1] = "text"
InArray(f) == f.state \in {"ArraySpecValue", "ArrayValue"}

\* The innermost call is in one of the states and reads one of the tokens. Where a
\* key or a string is due the array has one (`IsText`), and it ends in ".".
Reads(t, states, tokens) ==
  /\ At(t, "build") /\ job[t].kind = "bcon" /\ parse[t] # <<>>
  /\ ~Current(t).failed
  /\ Current(t).at \in 1..Len(job[t].lists[Current(t).list])
  /\ Current(t).state \in states
  /\ BconToken(Element(t)) \in tokens

Continue(t, b, f) ==
  /\ Build(t, b, "build")
  /\ parse' = [parse EXCEPT ![t] = Append(Front(@), [f EXCEPT !.at = @ + 1])]
  /\ UNCHANGED oidVars

BconKey(t) ==
  /\ Reads(t, {"Element"}, {"Typespec", "OpenBrace", "OpenBracket", "CloseBracket", "Default"})
  /\ IsText(t)
  /\ Continue(t, doc[t], [Current(t) EXCEPT !.key = Element(t)[2], !.state = "DocSpecValue"])

BconSpec(t) ==
  /\ Reads(t, {"DocSpecValue", "ArraySpecValue"}, {"Typespec"})
  /\ LET f == Current(t)
     IN  Continue(t, doc[t], [f EXCEPT !.spec = Element(t)[2],
                                       !.state = IF InArray(f) THEN "ArrayValue" ELSE "DocValue"])

-----------------------------------------------------------------------------
(* Brackets. Whether the object could be started or finished is not looked *)
(* at.                                                                     *)

\* The key of the next value: in an array, its index, which is counted.
NextKey(f) == IF InArray(f) THEN ArrayKeyString(f.index) ELSE f.key
\* Mutant: the index is not counted behind a sub-array or a value with a type.
CountedPlain(f) ==
  IF InArray(f) /\ f.state = "ArraySpecValue" THEN f.index + 1 ELSE f.index

Counted(f) == IF InArray(f) THEN f.index + 1 ELSE f.index
Resting(f) == IF InArray(f) THEN "ArraySpecValue" ELSE "Element"

BconOpenBrace(t) ==
  /\ Reads(t, {"DocSpecValue", "ArraySpecValue"}, {"OpenBrace"})
  /\ LET f == Current(t)
     IN  Continue(t, StartObject(doc[t], NextKey(f)).b,
           [f EXCEPT !.docs = Append(@, Resting(f)), !.state = "Element", !.index = Counted(f)])

BconOpenBracket(t) ==
  /\ Reads(t, {"DocSpecValue", "ArraySpecValue"}, {"OpenBracket"})
  /\ LET f == Current(t)
     IN  Continue(t, StartArray(doc[t], NextKey(f)).b,
           [f EXCEPT !.docs = Append(@, Resting(f)), !.state = "ArraySpecValue",
                     !.indices = Append(@, Counted(f)), !.index = 0])

\* One bracket too many reads in front of the stack of states.
Closed(f, b) ==
  LET r == FinishObject(b).b IN IF f.docs = <<>> THEN [r EXCEPT !.bad = "under"] ELSE r

BconCloseBrace(t) ==
  /\ Reads(t, {"Element"}, {"CloseBrace"})
  /\ LET f == Current(t)
     IN  Continue(t, Closed(f, doc[t]),
           [f EXCEPT !.docs = Front(@), !.state = IF f.docs = <<>> THEN @ ELSE Last(f.docs)])

BconCloseBracket(t) ==
  /\ Reads(t, {"ArraySpecValue"}, {"CloseBracket"})
  /\ LET f == Current(t)
     IN  Continue(t, Closed(f, doc[t]),
           [f EXCEPT !.docs = Front(@), !.state = IF f.docs = <<>> THEN @ ELSE Last(f.docs),
                     !.index = IF f.indices = <<>> THEN @ ELSE Last(f.indices),
                     !.indices = Front(@)])

-----------------------------------------------------------------------------
(* bson_bcon_key_value.                                                    *)

ReadsValue(t) ==
  \/ Reads(t, {"DocSpecValue"}, {"CloseBrace", "CloseBracket", "Default"})
  \/ Reads(t, {"ArraySpecValue"}, {"CloseBrace", "Default"})
  \/ Reads(t, {"DocValue", "ArrayValue"},
              {"Typespec", "OpenBrace", "CloseBrace", "OpenBracket", "CloseBracket", "End", "Default"})

AfterValue(f) ==
  [f EXCEPT !.state = Resting(f), !.spec = NoSpec, !.index = Counted(f)]

Skipped(t) == IsPointer(Current(t).spec) /\ Element(t) = <<"null">>

BconAppended(b, key, spec, v) ==
  LET type == FixedTypeOf(spec)
      value == CASE type = "BOOL" -> v # 0 [] type = "DATE" -> v * 1000 [] OTHER -> v
  IN  IF type # "none" THEN AppendFixed(b, type, key, value)
      ELSE IF spec[3] = 111 THEN AppendOid(b, key, OidFromString(v, 0))
      ELSE AppendStringBase(b, IF spec[3] = 120 THEN "SYMBOL" ELSE "STRING", key, v)

\* Letters that are not known end the program in an assertion; it has none.
BconScalar(t) ==
  /\ ReadsValue(t) /\ ~Skipped(t)
  /\ LET f == Current(t)
         v == IF Element(t) = <<"null">> THEN 0 ELSE Element(t)[2]
     IN  /\ \/ FixedTypeOf(f.spec) # "none"
            \/ f.spec[3] \in {95, 115, 120, 111} /\ IsText(t)
         /\ f.spec[3] = 111 => v # <<>>
         /\ Continue(t, BconAppended(doc[t], NextKey(f), f.spec, v).b, AfterValue(f))

\* A null pointer leaves the element out, and its index in an array used.
BconSkip(t) ==
  /\ ReadsValue(t) /\ Skipped(t)
  /\ Continue(t, doc[t], AfterValue(Current(t)))

\* An empty text for an object id asks for a new one.
BconNewId(t) ==
  /\ ReadsValue(t) /\ Current(t).spec[3] = 111 /\ Element(t) = <<"text", <<>>>>
  /\ GenStart(t)
  /\ UNCHANGED threadVars /\ UNCHANGED parse

BconTakeId(t) ==
  /\ Sane /\ pc[t] = "build" /\ job[t].kind = "bcon" /\ parse[t] # <<>>
  /\ GenOut(t)
  /\ LET f == Current(t)
     IN  /\ Build(t, AppendOid(doc[t], NextKey(f), OidBytes(Made(t))).b, "build")
         /\ parse' = [parse EXCEPT ![t] =
              Append(Front(@), [AfterValue(f) EXCEPT !.at = @ + 1])]

\* The call for an embedded document or array.
BconEmbed(t) ==
  /\ ReadsValue(t) /\ Element(t)[1] = "list" /\ Current(t).spec[3] \in {65, 68}
  /\ LET f == Current(t)
         array == f.spec[3] = 65
         r == IF array THEN StartArray(doc[t], NextKey(f)) ELSE StartObject(doc[t], NextKey(f))
     IN  /\ Build(t, r.b, "build")
         /\ parse' = [parse EXCEPT ![t] =
              Append(Append(Front(@), [AfterValue(f) EXCEPT !.at = @ + 1]),
                     StartParse(Element(t)[2], IF array THEN "ArraySpecValue" ELSE "Element"))]
         /\ UNCHANGED oidVars

-----------------------------------------------------------------------------
\* The end of a call: at its ".", or because an embedded array failed. What it
\* returns depends on the state alone, so the failure of an embedded array gets
\* lost one level up, with the rest of that level. The outermost call is that
\* of bson_from_bcon.
Ends(t) ==
  /\ At(t, "build") /\ job[t].kind = "bcon" /\ parse[t] # <<>>
  /\ \/ Current(t).failed
     \/ Reads(t, {"Element", "DocSpecValue", "ArraySpecValue"}, {"End"})

BconEnd(t) ==
  /\ Ends(t)
  /\ LET f == Current(t)
         ok == f.state = f.start
         outer == Front(parse[t])
         finished == Finish(doc[t])
     IN  IF outer # <<>>
           THEN /\ Build(t, FinishObject(doc[t]).b, "build")
                /\ parse' = [parse EXCEPT ![t] = [outer EXCEPT ![Len(outer)].failed = ~ok]]
           ELSE /\ Build(t, IF ok THEN finished.b ELSE doc[t],
                            IF ok /\ finished.ok THEN "insert" ELSE "error")
                /\ parse' = [parse EXCEPT ![t] = <<>>]
  /\ UNCHANGED oidVars

BconStep(t) ==
  \/ BconKey(t) \/ BconSpec(t)
  \/ BconOpenBrace(t) \/ BconOpenBracket(t) \/ BconCloseBrace(t) \/ BconCloseBracket(t)
  \/ BconScalar(t) \/ BconSkip(t) \/ BconNewId(t) \/ BconTakeId(t) \/ BconEmbed(t)
  \/ BconEnd(t)
=============================================================================
