---------------------------- MODULE MCDocuments ----------------------------
(***************************************************************************)
(* Instances of Documents: one thread with one of many jobs, or two        *)
(* threads that make ids.                                                  *)
(***************************************************************************)
EXTENDS Documents, TLC

CONSTANTS t1, t2

\* Texts.
a == <<97>>
b == <<98>>
Name == <<97, 46, 98>>
Str(s) == <<"string", s>>
Num(n) == <<"number", n>>
Bool(v) == <<"boolean", v>>
Tbl(x) == <<"table", x>>
Hex24 == [i \in 1..24 |-> IF i % 2 = 1 THEN 97 ELSE 49]
OldId == <<"string", IdField>>

-----------------------------------------------------------------------------
(* Jobs.                                                                   *)

Job(kind) ==
  [kind |-> kind, heap |-> [x \in {"r"} |-> {}], meta |-> [x \in {"r"} |-> "none"],
   root |-> "r", generate |-> FALSE, lists |-> [l \in {"main"} |-> <<>>], ns |-> Name]

Lua(heap) ==
  [Job("lua") EXCEPT !.heap = heap, !.meta = [x \in DOMAIN heap |-> "none"]]

Flat(pairs) == Lua("r" :> pairs)
Marked(heap, meta) == [Lua(heap) EXCEPT !.meta["x"] = meta]
Inserted(j) == [j EXCEPT !.generate = TRUE]

One == {<<Str(a), Num(1)>>}

\* Tables that bson.lua is made for.
Trees == {
  Lua("r" :> {<<Str(a), Tbl("x")>>, <<Str(b), Bool(FALSE)>>}
      @@ "x" :> {<<Num(1), Str(b)>>, <<Num(2), Tbl("y")>>, <<Num(3), Num(7)>>} @@ "y" :> One),
  Lua("r" :> {<<Str(a), Tbl("x")>>} @@ "x" :> {<<Num(1), Tbl("y")>>} @@ "y" :> {}),
  Lua("r" :> {<<Str(a), Tbl("x")>>, <<Str(b), Tbl("y")>>} @@ "x" :> {<<Num(1), Bool(TRUE)>>}
      @@ "y" :> {<<OldId, Str(Hex24)>>}),
  Lua("r" :> {<<Str(a), Tbl("x")>>, <<Str(IdField), Str(Hex24)>>} @@ "x" :> {}) }

\* And others: deeper than the stack, containing itself, sharing a table; keys
\* that are numbers, booleans, clash, or mean nothing in BSON; sparse arrays.
OtherTables == {
  Lua("r" :> {<<Str(a), Tbl("x")>>} @@ "x" :> {<<Str(a), Tbl("y")>>}
      @@ "y" :> {<<Str(a), Tbl("z")>>} @@ "z" :> One),
  Lua("r" :> {<<Str(a), Tbl("x")>>} @@ "x" :> {<<Str(b), Tbl("r")>>}),
  Lua("r" :> {<<Str(a), Tbl("x")>>, <<Str(b), Tbl("x")>>} @@ "x" :> One),
  Flat({<<Num(1), Num(1)>>, <<Str(<<49>>), Num(2)>>, <<Bool(TRUE), Num(3)>>}),
  Flat({<<Tbl("k"), Num(1)>>}),
  Flat({<<Str(a), <<"function", 0>>>>}),
  Flat({<<OldId, Bool(FALSE)>>}), Flat({<<OldId, Str(<<49, 50>>)>>}),
  Flat({<<Str(<<97, 0, 98>>), Str(<<0>>)>>}),
  Lua("r" :> {<<Str(a), Tbl("x")>>} @@ "x" :> {<<Num(0), Num(1)>>, <<Num(2), Num(2)>>}),
  Marked("r" :> {<<Str(a), Tbl("x")>>}
         @@ "x" :> {<<Num(0), Num(1)>>, <<Str(<<51>>), Num(2)>>}, "array"),
  Marked("r" :> {<<Str(a), Tbl("x")>>} @@ "x" :> {<<Str(b), Num(1)>>}, "array"),
  Marked("r" :> {<<Str(a), Tbl("x")>>} @@ "x" :> {<<Num(1), Num(1)>>}, "object") }

\* Every text of up to three bytes that stand for the classes the checks tell
\* apart, and four-byte characters, as a key and as a string.
Classes == {36, 46, 65, 127, 128, 160, 191, 193, 194, 224, 237, 240, 244}
Texts ==
  UNION {[1..n -> Classes] : n \in 1..2}
  \cup {<<x, y, z>> : x \in {36, 65, 194, 224, 237}, y \in Classes, z \in {46, 65, 128}}
  \cup {<<x, y, z, w>> : x \in {240, 244, 245}, y \in {127, 128, 143, 144, 191, 192},
                         z \in {128, 65}, w \in {128, 192}}
  \cup {<<Dollar>> \o s : s \in {<<105, 100>>, <<100, 98>>, <<114, 101, 102>>, <<114, 101>>,
                                 <<114, 101, 102, 115>>, <<105, 100, 120>>, <<65, 65>>}}

TextJobs ==
  {Flat({<<Str(s), Num(1)>>}) : s \in Texts} \cup {Flat({<<Str(a), Str(s)>>}) : s \in Texts}

\* Every name of up to five letters, and around the longest.
NsJobs ==
  {[Flat(One) EXCEPT !.ns = s] :
     s \in UNION {[1..n -> {46, 36, 32, 97}] : n \in 0..5}
           \cup {a \o <<46>> \o [i \in 1..n |-> 97] : n \in 3..6}}

-----------------------------------------------------------------------------
(* BCON.                                                                   *)

T(s) == <<"text", s>>
Spec_(p, u) == T(<<58, p, u, 58>>)
Open == T(<<123>>)   Close == T(<<125>>)   OpenList == T(<<91>>)   CloseList == T(<<93>>)
End == T(<<46>>)
Embedded(name) == <<"list", name>>
Null == <<"null">>

Bcon(main) == [Job("bcon") EXCEPT !.lists = "main" :> main]
BconWith(main, sub) == [Job("bcon") EXCEPT !.lists = "main" :> main @@ "sub" :> sub]

ScalarBcon ==
  {Bcon(<<T(a), Spec_(95, u), <<"number", 1>>, End>>) : u \in {102, 98, 116, 118, 105, 108}}
  \cup {Bcon(<<T(a), Spec_(p, u), v, End>>) :
          p \in {80, 82}, u \in {115, 120, 111}, v \in {T(Hex24), T(<<>>), T(<<123>>), T(<<193>>)}}
  \cup {Bcon(<<T(a), Spec_(80, u), Null, End>>) : u \in {105, 68, 65, 111}}

OtherBcon == {
  Bcon(<<T(a), T(b), T(b), OpenList, Open, T(a), T(b), Close, OpenList, T(a), T(b), CloseList,
         T(b), CloseList, End>>),
  Bcon(<<T(a), OpenList, Spec_(80, 105), Null, T(b), Close, CloseList, End>>),
  Bcon(<<T(a), OpenList, Open, T(a), OpenList, T(a), T(b), CloseList, Close, T(b), CloseList, End>>),
  \* Texts that look like brackets, where a value is due.
  Bcon(<<T(a), CloseList, T(b), Close, End>>),
  \* Brackets that do not match, and ends too early.
  Bcon(<<T(a), T(b), Close, End>>),
  Bcon(<<T(a), Open, T(a), T(b), End>>),
  Bcon(<<T(a), OpenList, T(b), End>>),
  Bcon(<<T(a), End>>),
  \* Deeper than the stack.
  Bcon(<<T(a), OpenList, OpenList, OpenList, T(a), CloseList, CloseList, CloseList, End>>),
  \* No room for the second element, which is left out.
  Bcon(<<T(a), OpenList, T(b), T([i \in 1..95 |-> 97]), T(b), CloseList, End>>),
  Bcon(<<Open, T(<<36, 97>>), End>>) }

EmbeddingBcon ==
  {BconWith(main, sub) :
     main \in {<<T(a), Spec_(95, 68), Embedded("sub"), T(b), T(b), End>>,
               <<T(a), Spec_(82, 65), Embedded("sub"), T(b), T(b), End>>,
               <<T(a), OpenList, T(b), Spec_(80, 65), Embedded("sub"), T(b), CloseList, End>>,
               <<T(a), Open, T(b), Spec_(95, 68), Embedded("sub"), T(b), T(b), Close, End>>},
     sub \in {<<T(a), T(b), End>>, <<T(a), End>>, <<T(a), OpenList, T(b), CloseList, End>>,
              <<T(a), OpenList, T(b), End>>, <<End>>}}

-----------------------------------------------------------------------------
(* The jobs of two threads.                                                *)

Solo == Trees \cup {Inserted(j) : j \in Trees} \cup OtherTables \cup TextJobs \cup NsJobs
        \cup ScalarBcon \cup OtherBcon \cup EmbeddingBcon \cup {Job("c")}

Racing == {Inserted(Flat(One)), Inserted(Flat({})), Job("oid"),
           Bcon(<<T(a), Spec_(95, 111), T(<<>>), End>>)}

McAssignments ==
  {t1 :> j @@ t2 :> Job("none") : j \in Solo}
  \cup {t1 :> j @@ t2 :> Job("oid") : j \in Racing}

McBehind == {0, 65}
McRandoms == {0, 7}
McNames == {a}
McTexts == {b, <<193>>, [i \in 1..100 |-> 97], [i \in 1..111 |-> 97]}
=============================================================================
