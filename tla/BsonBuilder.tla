----------------------------- MODULE BsonBuilder -----------------------------
(***************************************************************************)
(* The `bson` object of bson.c: a buffer that grows, the sub-objects still *)
(* open, the flags of what went wrong.                                     *)
(*                                                                         *)
(* The buffer is a function from the offsets where an element (or the zero *)
(* byte that ends an object) starts to that element: its type, key and     *)
(* value, and the length its value takes as an iterator computes it. The   *)
(* element at p has its value at Body(b, p). An operation returns the code *)
(* it returns and the object as it leaves it. `bad` says that the code     *)
(* wrote outside of an array: nothing is known after that. `slips` is      *)
(* history, for the properties.                                            *)
(***************************************************************************)
EXTENDS Encoding

CONSTANTS
  InitialSize,  \* initialBufferSize, 128 in the code
  StackSize,    \* places for open sub-objects, 32 in the code
  IntMax        \* INT_MAX

ASSUME BuilderAssumption ==
  /\ InitialSize \in Nat /\ InitialSize >= 4
  /\ StackSize \in Nat
  /\ IntMax \in Nat /\ IntMax >= InitialSize /\ IntMax >= 127

Types == {"EOO", "DOUBLE", "STRING", "OBJECT", "ARRAY", "BINDATA", "UNDEFINED",
          "OID", "BOOL", "DATE", "NULL", "REGEX", "CODE", "SYMBOL", "CODEWSCOPE",
          "INT", "TIMESTAMP", "LONG"}
Flags == {"SIZE_OVERFLOW", "NOT_UTF8", "FIELD_HAS_DOT", "FIELD_INIT_DOLLAR",
          "ALREADY_FINISHED"}
Slips == {"early",     \* finished while a sub-object was open
          "torn",      \* an element was left without its value
          "headless",  \* a value was written without the start of its element
          "late",      \* an element was written into a finished object
          "forgot",    \* flags were overwritten
          "foreign",   \* keys came in from another object, with no flags
          "wrapped"}   \* the length of the document did not fit an int

Result(ok, b) == [ok |-> ok, b |-> b]
Flag(b, flags) == [b EXCEPT !.err = @ \cup flags]

\* int arithmetic of the builds: a sum of two ints wraps, a double that does not
\* fit becomes the least int.
WrapInt(n) == IF n > IntMax THEN n - 2 * (IntMax + 1) ELSE n
FitInt(n)  == IF n > IntMax THEN -(IntMax + 1) ELSE n

-----------------------------------------------------------------------------
NoElements == [p \in {} |-> [type |-> "EOO", key |-> <<>>, val |-> <<>>, len |-> 0]]

InitBson(bytes) ==
  [data |-> NoElements, cur |-> 4, dataSize |-> bytes, size |-> 0,
   finished |-> FALSE, stack |-> <<>>, err |-> {}, bad |-> "no", slips |-> {}]

NewBson == InitBson(InitialSize)

\* The copy of a finished object has its bytes, and forgets its flags.
CopyBson(b) ==
  LET copied == {p \in DOMAIN b.data : p < b.size}
  IN  [InitBson(b.size) EXCEPT !.data = [p \in copied |-> b.data[p]], !.size = b.size,
                               !.finished = TRUE, !.slips = b.slips \cup {"foreign"}]

\* Mutant: neither the sum nor the product is clamped to an int.
GrownUnclamped(b, needed) == (3 * (b.dataSize + needed)) \div 2

Grown(b, needed) ==
  LET sum == WrapInt(b.dataSize + needed)
      newSize == FitInt((3 * sum) \div 2)
  IN  IF newSize >= b.dataSize THEN newSize
      ELSE IF sum < IntMax THEN IntMax ELSE -1

\* Mutant: one byte more than there is counts as room.
EnsureSpaceOff(b, needed) ==
  LET kept == IF b.cur + needed > IntMax THEN [b EXCEPT !.slips = @ \cup {"wrapped"}] ELSE b
  IN  IF WrapInt(b.cur + needed) <= b.dataSize + 1 THEN Result(TRUE, kept)
      ELSE IF Grown(b, needed) # -1
        THEN Result(TRUE, [kept EXCEPT !.dataSize = Grown(b, needed)])
      ELSE Result(FALSE, [b EXCEPT !.err = {"SIZE_OVERFLOW"}])

EnsureSpace(b, needed) ==
  LET kept == IF b.cur + needed > IntMax THEN [b EXCEPT !.slips = @ \cup {"wrapped"}] ELSE b
  IN  IF WrapInt(b.cur + needed) <= b.dataSize THEN Result(TRUE, kept)
      ELSE IF Grown(b, needed) # -1
        THEN Result(TRUE, [kept EXCEPT !.dataSize = Grown(b, needed)])
      ELSE Result(FALSE, [b EXCEPT !.err = {"SIZE_OVERFLOW"},
                            !.slips = IF b.err = {} THEN @ ELSE @ \cup {"forgot"}])

\* n bytes at the current position.
Advance(b, n) ==
  [b EXCEPT !.cur = @ + n, !.bad = IF @ = "no" /\ b.cur + n > b.dataSize THEN "over" ELSE @]

Place(b, element) ==
  [b EXCEPT !.data = [p \in DOMAIN @ \cup {b.cur} |-> IF p = b.cur THEN element ELSE @[p]]]

AppendZero(b) ==
  Advance(Place(b, [type |-> "EOO", key |-> <<>>, val |-> <<>>, len |-> 0]), 1)

Estart(b, type, name, val, len, dataSize) ==
  LET space == EnsureSpace(b, 1 + Len(name) + 1 + dataSize)
      check == CheckFieldName(name)
      element == [type |-> type, key |-> name, val |-> val, len |-> len]
  IN  IF b.finished THEN Result(FALSE, Flag(b, {"ALREADY_FINISHED"}))
      ELSE IF ~space.ok THEN space
      ELSE IF ~check.ok THEN Result(FALSE, Flag(space.b, check.err))
      ELSE Result(TRUE, Advance(Place(Flag(space.b, check.err), element), 2 + Len(name)))

-----------------------------------------------------------------------------
(* Elements.                                                               *)

AppendValue(b, type, name, val, len) ==
  LET e == Estart(b, type, name, val, len, len)
  IN  IF e.ok THEN Result(TRUE, Advance(e.b, len)) ELSE e

FixedSize(type) ==
  CASE type \in {"LONG", "DOUBLE", "DATE", "TIMESTAMP"} -> 8
    [] type = "INT" -> 4
    [] type = "BOOL" -> 1
    [] type \in {"NULL", "UNDEFINED"} -> 0

AppendFixed(b, type, name, val) == AppendValue(b, type, name, val, FixedSize(type))

\* string, symbol, code
AppendStringBase(b, type, name, s) ==
  IF CheckString(s).ok THEN AppendValue(b, type, name, s, 4 + Len(s) + 1)
  ELSE Result(FALSE, Flag(b, CheckString(s).err))

\* Code is not looked at here.
AppendCodeWScope(b, name, code, scope) ==
  AppendValue(b, "CODEWSCOPE", name, <<code, scope>>, 8 + Len(code) + 1 + scope.size)

\* The old subtype has the length twice.
AppendBinary(b, old, name, bytes) ==
  AppendValue(b, "BINDATA", name, bytes, (IF old THEN 9 ELSE 5) + Len(bytes))

AppendOid(b, name, oid) == AppendValue(b, "OID", name, oid, 12)

\* The pattern is looked at when the element has been started.
AppendRegex(b, name, pattern, opts) ==
  LET bytes == Len(pattern) + 1 + Len(opts) + 1
      e == Estart(b, "REGEX", name, <<pattern, opts>>, bytes, bytes)
  IN  IF ~e.ok THEN e
      ELSE IF CheckString(pattern).ok THEN Result(TRUE, Advance(e.b, bytes))
      ELSE Result(FALSE, [Flag(e.b, CheckString(pattern).err) EXCEPT !.slips = @ \cup {"torn"}])

\* The bytes of `from` between two offsets, moved to `to`.
Moved(b, from, first, last, to) ==
  LET moved == {to + p - first : p \in {p \in DOMAIN from.data : first <= p /\ p < last}}
  IN  [b EXCEPT !.data = [p \in DOMAIN b.data \cup moved |->
                            IF p \in moved THEN from.data[p - to + first] ELSE b.data[p]],
                !.slips = @ \cup {"foreign"} \cup from.slips]

\* The bytes of another object as a sub-object.
AppendBson(b, name, sub) ==
  LET e == Estart(b, "OBJECT", name, <<>>, sub.size, sub.size)
  IN  IF ~e.ok THEN e
      ELSE Result(TRUE, Moved(Advance(e.b, sub.size), sub, 0, sub.size, e.b.cur))

\* Mutant: the zero byte behind the key is not counted.
NextOffsetNoZero(b, p) == p + 1 + Len(b.data[p].key) + b.data[p].len

\* Where bson_iterator_next finds the element after that at p.  It computes the
\* length of a value from its type (bson.c 316-369) and agrees for every type with
\* what the builder reserved, which stands for it here; the length of a sub-object
\* is read from the document.
NextOffset(b, p) == p + 2 + Len(b.data[p].key) + b.data[p].len

\* The element at p of another object, as it is: that b may be finished is not
\* looked at.
AppendElementAsIs(b, from, p) ==
  LET size == NextOffset(from, p) - p
      space == EnsureSpace(b, size)
      all == Moved(Advance(space.b, size), from, p, p + size, space.b.cur)
  IN  IF ~space.ok THEN space
      ELSE Result(TRUE, IF b.finished THEN [all EXCEPT !.slips = @ \cup {"late"}] ELSE all)

\* The same under another name. Whether the element could be started is not
\* looked at.
AppendElement(b, name, from, p) ==
  LET old == from.data[p]
      e == Estart(b, old.type, name, old.val, old.len, old.len)
      first == NextOffset(from, p) - old.len
      all == Moved(Advance(e.b, old.len), from, first, first + old.len, e.b.cur)
  IN  Result(TRUE, IF e.ok THEN all ELSE [all EXCEPT !.slips = @ \cup {"headless"}])

\* The places of the stack are not counted.
StartSub(b, type, name) ==
  LET e == Estart(b, type, name, <<>>, 0, 5)
  IN  IF ~e.ok THEN e
      ELSE IF Len(b.stack) = StackSize THEN Result(TRUE, [e.b EXCEPT !.bad = "deep"])
      ELSE Result(TRUE, Advance([e.b EXCEPT !.stack = Append(@, e.b.cur)], 4))

StartObject(b, name) == StartSub(b, "OBJECT", name)
StartArray(b, name)  == StartSub(b, "ARRAY", name)

Body(b, p) == p + 2 + Len(b.data[p].key)

\* Mutant: the length is taken before the zero byte is written.
FinishObjectShort(b) ==
  LET space == EnsureSpace(b, 1)
      z == AppendZero(space.b)
      start == b.stack[Len(b.stack)]
      patched == [p \in DOMAIN z.data |->
                    IF z.data[p].type # "EOO" /\ Body(z, p) = start
                      THEN [z.data[p] EXCEPT !.len = space.b.cur - start] ELSE z.data[p]]
  IN  IF ~space.ok THEN space
      ELSE IF b.stack = <<>> THEN Result(TRUE, [z EXCEPT !.bad = "under"])
      ELSE Result(TRUE, [z EXCEPT !.data = patched,
                                  !.stack = SubSeq(@, 1, Len(@) - 1)])

\* Nor whether there is one that is open.
FinishObject(b) ==
  LET space == EnsureSpace(b, 1)
      z == AppendZero(space.b)
      start == b.stack[Len(b.stack)]
      patched == [p \in DOMAIN z.data |->
                    IF z.data[p].type # "EOO" /\ Body(z, p) = start
                      THEN [z.data[p] EXCEPT !.len = z.cur - start] ELSE z.data[p]]
  IN  IF ~space.ok THEN space
      ELSE IF b.stack = <<>> THEN Result(TRUE, [z EXCEPT !.bad = "under"])
      ELSE Result(TRUE, [z EXCEPT !.data = patched,
                                  !.stack = SubSeq(@, 1, Len(@) - 1)])

Finish(b) ==
  LET space == EnsureSpace(b, 1)
      z == AppendZero(space.b)
  IN  IF "NOT_UTF8" \in b.err THEN Result(FALSE, b)
      ELSE IF b.finished THEN Result(TRUE, b)
      ELSE IF ~space.ok THEN space
      ELSE Result(TRUE, [z EXCEPT !.size = z.cur, !.finished = TRUE,
                           !.slips = IF b.stack = <<>> THEN @ ELSE @ \cup {"early"}])

-----------------------------------------------------------------------------
(* Iterators: the offset of an element, and whether it has been passed by  *)
(* bson_iterator_next once.                                                *)

IteratorFromBuffer(offset) == [at |-> offset + 4, first |-> TRUE]

\* Mutant: sub-objects, which have been read by then, are not stepped over.
IteratorNextStuck(b, i) ==
  IF i.first THEN [i EXCEPT !.first = FALSE]
  ELSE IF b.data[i.at].type \in {"EOO", "OBJECT", "ARRAY"} THEN i
  ELSE [i EXCEPT !.at = NextOffset(b, i.at)]

IteratorNext(b, i) ==
  IF i.first THEN [i EXCEPT !.first = FALSE]
  ELSE IF b.data[i.at].type = "EOO" THEN i
  ELSE [i EXCEPT !.at = NextOffset(b, i.at)]

-----------------------------------------------------------------------------
(* What a good object is, for the properties.                              *)

\* No byte was written behind the buffer, unless the document got too long for
\* an int or a value was written whose element could not be started.
InsideBuffer(b) ==
  /\ b.bad = "over" => b.slips \cap {"wrapped", "headless"} # {}
  /\ b.bad = "no" => b.cur <= b.dataSize

\* A document is whole: from its first element and the first one of every
\* sub-object iterators go from element to element up to a zero byte, the last of
\* them at the end of the document.
Readable(b) ==
  LET offsets == {p \in DOMAIN b.data : p < b.size}
      sub(p) == b.data[p].type \in {"OBJECT", "ARRAY"}
  IN  /\ 4 \in offsets
      /\ \A p \in offsets : b.data[p].type # "EOO" =>
           /\ NextOffset(b, p) \in offsets
           /\ sub(p) => /\ Body(b, p) + 4 \in offsets
                        /\ NextOffset(b, p) - 1 \in offsets
                        /\ b.data[NextOffset(b, p) - 1].type = "EOO"
      /\ b.size - 1 \in offsets /\ b.data[b.size - 1].type = "EOO"
=============================================================================
