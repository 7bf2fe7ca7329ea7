---------------------------- MODULE TableProofs -----------------------------
(***************************************************************************)
(* How table_to_bson walks a plain table, of any shape, in any order of    *)
(* its pairs: which pairs each element of the document stands for, which   *)
(* are still to come, and in which sub-object each element lies. Lemmas;   *)
(* RoundTripProofs reads the document again.                               *)
(***************************************************************************)
EXTENDS DocumentProofs

-----------------------------------------------------------------------------
(* Plain texts: keys and values that raise no flag, and come back.         *)

\* A character that starts at p.
Utf8From(s, p, f) ==
  \/ p = Len(s) + 1
  \/ \E q \in p..Len(s) : q < p + 4 /\ EncodesACodePoint(SubSeq(s, p, q)) /\ f[q + 1]

\* The recursive function in IsUTF8 is what its equations say.
LEMMA Utf8Is ==
  ASSUME NEW s, Len(s) \in Nat
  PROVE  \E f : IsUTF8(s) = f[1] /\ \A p \in 1..(Len(s) + 1) : f[p] = Utf8From(s, p, f)
<1> DEFINE n == Len(s) + 1
           f == CHOOSE g : g = [p \in 1..n |-> Utf8From(s, p, g)]
           F == [p \in 1..n |-> [h \in [1..n -> BOOLEAN] |-> Utf8From(s, p, h)]]
<1>1. n \in Nat
  OBVIOUS
<1>2. \A p \in 1..n : \A h \in [1..n -> BOOLEAN] : Utf8From(s, p, h) \in BOOLEAN
  BY DEF Utf8From
<1>3. F \in [1..n -> [[1..n -> BOOLEAN] -> BOOLEAN]]
  BY <1>2
<1>4. \A p \in 1..n : \A g, h \in [1..n -> BOOLEAN] :
        (\A q \in (p + 1)..n : g[q] = h[q]) => F[p][g] = F[p][h]
  <2>1. SUFFICES ASSUME NEW p \in 1..n, NEW g \in [1..n -> BOOLEAN],
                        NEW h \in [1..n -> BOOLEAN], \A q \in (p + 1)..n : g[q] = h[q]
                 PROVE  Utf8From(s, p, g) = Utf8From(s, p, h)
    OBVIOUS
  <2>2. \A q \in p..Len(s) : g[q + 1] = h[q + 1]
    BY <2>1
  <2> QED
    BY <2>2 DEF Utf8From
<1>5. PICK h : Solves(h, n, BOOLEAN, F)
  <2>1. Descends(n, BOOLEAN, F)
    <3> HIDE DEF n, F
    <3> QED
      BY <1>1, <1>3, <1>4 DEF Descends
  <2> HIDE DEF n, F
  <2> QED
    BY <2>1, Descent
<1>6. h = [p \in 1..n |-> Utf8From(s, p, h)]
  BY <1>5 DEF Solves
<1>7. f = [p \in 1..n |-> Utf8From(s, p, f)]
  BY <1>6
<1>8. IsUTF8(s) = f[1]
  BY DEF IsUTF8, MadeOf, Utf8From
<1> HIDE DEF f
<1>9. \A p \in 1..n : f[p] = Utf8From(s, p, f)
  BY <1>7
<1> QED
  BY <1>8, <1>9

\* UTF-8 passes the checks of strings.
LEMMA Utf8Passes ==
  ASSUME NEW s \in Seq(Nat), IsUTF8(s)
  PROVE  CheckString(s).ok
<1> DEFINE n == Len(s) + 1
           h == [p \in 1..n |-> Scan(s, FALSE)[p].ok]
<1>1. Len(s) \in Nat /\ n \in Nat /\ 1 \in 1..n
  OBVIOUS
<1>2. PICK f : IsUTF8(s) = f[1] /\ \A p \in 1..n : f[p] = Utf8From(s, p, f)
  BY <1>1, Utf8Is
<1>3. \A p \in 1..n : h[p] = MadeFrom(s, p, h)
  BY ScanMade
<1>4. \A p \in 1..n : h[p] = Scan(s, FALSE)[p].ok
  OBVIOUS
<1> HIDE DEF h
<1> DEFINE T == {p \in 1..n : f[p] => h[p]}
<1>5. ASSUME NEW p \in 1..n, \A q \in (p + 1)..n : q \in T PROVE p \in T
  <2>1. SUFFICES ASSUME Utf8From(s, p, f) PROVE MadeFrom(s, p, h)
    BY <1>2, <1>3
  <2>2. CASE p = Len(s) + 1
    BY <2>2 DEF MadeFrom
  <2>3. ASSUME NEW q \in p..Len(s), q < p + 4, EncodesACodePoint(SubSeq(s, p, q)), f[q + 1]
        PROVE  MadeFrom(s, p, h)
    <3>1. q + 1 \in (p + 1)..n
      BY <1>1, <2>3
    <3>2. h[q + 1]
      BY <1>5, <2>3, <3>1
    <3> QED
      BY <2>3, <3>2 DEF MadeFrom, IsCharacter
  <2> QED
    BY <2>1, <2>2, <2>3 DEF Utf8From
<1> HIDE DEF T
<1>6. 1..n \subseteq T
  BY <1>1, <1>5, Backwards
<1>7. Scan(s, FALSE)[1].ok
  BY <1>1, <1>2, <1>4, <1>6 DEF T
<1> QED
  BY <1>1, <1>7, CheckStringIs

\* Whether dots are looked for or not, the scan gets as far.
LEMMA ScanBoth ==
  ASSUME NEW s, Len(s) \in Nat
  PROVE  Scan(s, TRUE)[1].ok = Scan(s, FALSE)[1].ok
<1> DEFINE n == Len(s) + 1  f == Scan(s, TRUE)  g == Scan(s, FALSE)
           T == {p \in 1..n : f[p].ok = g[p].ok}
<1>1. n \in Nat /\ 1 \in 1..n
  OBVIOUS
<1>2. \A p \in 1..n : ScanRule(s, TRUE, p) /\ ScanRule(s, FALSE, p)
  BY ScanAt
<1>3. ASSUME NEW p \in 1..n, \A q \in (p + 1)..n : q \in T PROVE p \in T
  <2>1. CASE p \in 1..Len(s) /\ Sound(s, p)
    <3>1. CharEnd(s, p) + 1 \in (p + 1)..n
      BY <2>1, NextCharacter
    <3>2. f[CharEnd(s, p) + 1].ok = g[CharEnd(s, p) + 1].ok
      BY <1>3, <3>1
    <3> QED
      BY <1>2, <2>1, <3>2 DEF ScanRule
  <2>2. CASE p \in 1..Len(s) /\ ~Sound(s, p)
    BY <1>2, <2>2 DEF ScanRule
  <2>3. CASE p \notin 1..Len(s)
    <3>1. p > Len(s)
      BY <2>3
    <3> QED
      BY <1>2, <3>1 DEF ScanRule
  <2> QED
    BY <2>1, <2>2, <2>3
<1> HIDE DEF T
<1>4. 1..n \subseteq T
  BY <1>1, <1>3, Backwards
<1> QED
  BY <1>1, <1>4 DEF T

\* A text without a zero is a C string as it is.
LEMMA CStringSame ==
  ASSUME NEW s \in Seq(Nat), \A i \in 1..Len(s) : s[i] # 0
  PROVE  CString(s) = s
<1> DEFINE before == {i \in 1..Len(s) : \A j \in 1..i : s[j] # 0}
           m == Len(s)
<1>1. m \in Nat /\ 1 \in Int /\ m \in Int
  OBVIOUS
<1>2. before = 1..m
  <2>1. \A i \in 1..m : \A j \in 1..i : j \in 1..m
    BY <1>1
  <2> QED
    BY <2>1
<1>3. CString(s) = SubSeq(s, 1, Cardinality(before))
  BY DEF CString
<1>4. s = SubSeq(s, 1, m)
  OBVIOUS
<1> HIDE DEF before, m
<1>5. Cardinality(1..m) = IF 1 > m THEN 0 ELSE m - 1 + 1
  BY <1>1, FS_Interval, Zenon
<1>6. Cardinality(1..m) = m
  BY <1>1, <1>5
<1> QED
  BY <1>2, <1>3, <1>4, <1>6

\* What the builder makes of plain texts: nothing.
PlainFor(s) == CString(s) = s /\ CheckString(s).ok /\ CheckFieldName(s).ok

LEMMA PlainPasses ==
  ASSUME NEW s \in Seq(Nat), PlainText(s)
  PROVE  PlainFor(s)
<1>1. IsUTF8(s) /\ \A i \in 1..Len(s) : s[i] # 0
  BY DEF PlainText
<1>2. CString(s) = s
  BY <1>1, CStringSame
<1>3. CheckString(s).ok
  BY <1>1, Utf8Passes
<1>4. Len(s) \in Nat
  OBVIOUS
<1>5. CheckFieldName(s).ok
  BY <1>3, <1>4, ScanBoth, CheckStringIs, CheckFieldNameIs
<1> QED
  BY <1>2, <1>3, <1>5 DEF PlainFor

LEMMA LowByte ==
  ASSUME NEW c, Len(c) = 1, c[1] \in 0..127
  PROVE  EncodesACodePoint(c)
<1> DEFINE low == c[1] \in 0..127
<1>1. EncodesACodePoint(c) <=> low
  BY SMT DEF EncodesACodePoint
<1>2. low
  OBVIOUS
<1> HIDE DEF low
<1> QED
  BY <1>1, <1>2

\* A text of ASCII characters without a zero is a plain text.
LEMMA AsciiPlain ==
  ASSUME NEW s \in Seq(Nat), \A i \in 1..Len(s) : s[i] \in 1..127
  PROVE  PlainText(s)
<1>0. \A c \in 1..127 : c \in 0..127 /\ c # 0
  OBVIOUS
<1> DEFINE n == Len(s) + 1
<1>1. Len(s) \in Nat /\ n \in Nat /\ 1 \in 1..n
  OBVIOUS
<1>2. PICK f : IsUTF8(s) = f[1] /\ \A p \in 1..n : f[p] = Utf8From(s, p, f)
  BY <1>1, Utf8Is
<1> DEFINE T == {p \in 1..n : f[p]}
<1>3. ASSUME NEW p \in 1..n, \A q \in (p + 1)..n : q \in T PROVE p \in T
  <2>1. SUFFICES Utf8From(s, p, f)
    BY <1>2
  <2>2. CASE p = Len(s) + 1
    BY <2>2 DEF Utf8From
  <2>3. CASE p # Len(s) + 1
    <3>1. p \in 1..Len(s) /\ p \in p..Len(s) /\ p < p + 4 /\ p + 1 \in (p + 1)..n
      BY <1>1, <2>3
    <3>2. f[p + 1]
      BY <1>3, <3>1
    <3> DEFINE c == SubSeq(s, p, p)
    <3>3. Len(c) = 1 /\ c[1] = s[p]
      BY <3>1
    <3> HIDE DEF c
    <3>4. c[1] \in 0..127
      BY <1>0, <3>1, <3>3
    <3>6. EncodesACodePoint(SubSeq(s, p, p))
      <4>1. EncodesACodePoint(c)
        BY <3>3, <3>4, LowByte
      <4> QED
        BY <4>1 DEF c
    <3> QED
      BY <3>1, <3>2, <3>6 DEF Utf8From
  <2> QED
    BY <2>2, <2>3
<1> HIDE DEF T
<1>4. 1..n \subseteq T
  BY <1>1, <1>3, Backwards
<1>5. IsUTF8(s)
  BY <1>1, <1>2, <1>4 DEF T
<1>6. \A i \in 1..Len(s) : s[i] # 0
  BY <1>0
<1> QED
  BY <1>5, <1>6 DEF PlainText

\* The key of an array element: a plain text, and its number comes back.
LEMMA IndexPlain ==
  ASSUME NEW n \in 0..8
  PROVE  LET s == TextOfNumber(n)
         IN  /\ s \in Seq(Nat) /\ PlainFor(s)
             /\ IsNumberText(s) /\ NumberOfText(s) = n
<1>1. n \in Int /\ n \in -9..9
  OBVIOUS
<1>2. TextOfNumber(n) = <<48 + n>>
  BY DEF TextOfNumber
<1>3. TextOfNumber(n) \in Seq(Nat)
  BY <1>1, NumberSeq
<1>4. PlainText(TextOfNumber(n))
  <2> DEFINE d == 48 + n  s == <<d>>
  <2>1. d \in 1..127 /\ d \in Nat
    OBVIOUS
  <2>2. TextOfNumber(n) = s
    BY <1>2
  <2> HIDE DEF d
  <2>3. s \in Seq(Nat) /\ \A i \in 1..Len(s) : s[i] \in 1..127
    BY <2>1
  <2> HIDE DEF s
  <2> QED
    BY <2>2, <2>3, AsciiPlain
<1>5. PlainFor(TextOfNumber(n))
  BY <1>3, <1>4, PlainPasses
<1>6. NumberOfText(TextOfNumber(n)) = n
  BY <1>1, NumberBack
<1>7. IsNumberText(TextOfNumber(n))
  BY <1>1 DEF IsNumberText
<1> QED
  BY <1>3, <1>5, <1>6, <1>7

\* An object id in lower-case digits comes back.
LEMMA IdBack ==
  ASSUME NEW s \in Seq(Nat), IdText(s), NEW behind
  PROVE  OidToString(OidFromString(s, behind)) = s
<1> DEFINE oid == OidFromString(s, behind)
           text == OidToString(oid)
           digit(c) == HexByte(c)
<1>1. Len(s) = 24 /\ \A i \in 1..24 : s[i] \in (48..57) \cup (97..102)
  BY DEF IdText
<1>2. ASSUME NEW c \in (48..57) \cup (97..102)
      PROVE  HexByte(c) \in 0..15 /\ HexDigit(HexByte(c)) = c
  <2>1. CASE c \in 48..57
    <3>1. c \notin 65..70 /\ c \notin 97..102
      BY <2>1
    <3>2. HexByte(c) = c - 48
      BY <2>1, <3>1 DEF HexByte
    <3> QED
      BY <2>1, <3>2 DEF HexDigit
  <2>2. CASE c \in 97..102
    <3>1. c \notin 48..57 /\ c \notin 65..70
      BY <2>2
    <3>2. HexByte(c) = c - 87
      BY <2>2, <3>1 DEF HexByte
    <3> QED
      BY <2>2, <3>2 DEF HexDigit
  <2> QED
    BY <2>1, <2>2
<1>3. ASSUME NEW k \in 1..12 PROVE oid[k] = 16 * HexByte(s[2 * k - 1]) + HexByte(s[2 * k])
  <2> DEFINE at(i) == IF i <= Len(s) THEN s[i] ELSE IF i = Len(s) + 1 THEN 0 ELSE behind
  <2>1. 2 * k - 1 <= 24 /\ 2 * k <= 24
    OBVIOUS
  <2>2. at(2 * k - 1) = s[2 * k - 1] /\ at(2 * k) = s[2 * k]
    BY <1>1, <2>1
  <2>3. oid[k] = 16 * HexByte(at(2 * k - 1)) + HexByte(at(2 * k))
    BY Zenon DEF OidFromString
  <2> QED
    BY <2>2, <2>3
<1>4. \A i \in 1..24 : text[i] = HexDigit(IF i % 2 = 1 THEN oid[(i + 1) \div 2] \div 16
                                                     ELSE oid[(i + 1) \div 2] % 16)
  BY DEF OidToString
<1>5. text = [i \in 1..24 |-> text[i]]
  BY DEF OidToString
<1> HIDE DEF oid, text
<1>6. ASSUME NEW i \in 1..24 PROVE text[i] = s[i]
  <2> DEFINE k == (i + 1) \div 2
  <2>1. k \in 1..12 /\ (i % 2 = 1 => 2 * k - 1 = i) /\ (i % 2 # 1 => 2 * k = i)
    OBVIOUS
  <2>2. text[i] = HexDigit(IF i % 2 = 1 THEN oid[k] \div 16 ELSE oid[k] % 16)
    BY <1>4
  <2> HIDE DEF k
  <2> DEFINE a == HexByte(s[2 * k - 1])  b == HexByte(s[2 * k])
  <2>3. 2 * k - 1 \in 1..24 /\ 2 * k \in 1..24
    BY <2>1
  <2>4. a \in 0..15 /\ b \in 0..15
    BY <1>1, <1>2, <2>3
  <2>5. oid[k] = 16 * a + b
    BY <1>3, <2>1
  <2>6. HexDigit(a) = s[2 * k - 1] /\ HexDigit(b) = s[2 * k]
    BY <1>1, <1>2, <2>3
  <2> HIDE DEF a, b
  <2>7. oid[k] \div 16 = a /\ oid[k] % 16 = b
    BY <2>4, <2>5
  <2> QED
    BY <2>1, <2>2, <2>6, <2>7
<1>7. s = [i \in 1..24 |-> s[i]]
  BY <1>1
<1> QED
  BY <1>5, <1>6, <1>7 DEF text, oid

-----------------------------------------------------------------------------
(* How the elements of a document lie one in the other: up[x] is the       *)
(* sub-object that the element at x lies in, 0 for those of the document   *)
(* itself. While a document is built what comes next is at b.cur, in the   *)
(* innermost of the objects that are open, O.                              *)

Follows(X, x, y) == y \in X /\ x < y /\ \A r \in X : r < y => r <= x

LeadsTo(b, X, up, x) ==
  /\ IsSub(b, x) => Follows(X, x, Body(b, x) + 4) /\ up[Body(b, x) + 4] = x
  /\ b.data[x].type = "EOO" =>
       /\ Follows(X, x, x + 1)
       /\ up[x] # 0 /\ NextOffset(b, up[x]) = x + 1 /\ up[x + 1] = up[up[x]]
  /\ b.data[x].type \notin {"OBJECT", "ARRAY", "EOO"} =>
       Follows(X, x, NextOffset(b, x)) /\ up[NextOffset(b, x)] = up[x]

Linked(b, X, z, up) ==
  /\ DOMAIN up = X /\ 4 \in X /\ up[4] = 0 /\ z \in X
  /\ \A x \in X : x \in Nat /\ 4 <= x /\ x <= z
  /\ \A x \in X : up[x] = 0 \/ (up[x] \in X \ {z} /\ IsSub(b, up[x]) /\ up[x] < x)
  /\ \A x \in X \ {z} : LeadsTo(b, X, up, x)

Opens(b, up, O) ==
  /\ O \in Seq(DOMAIN b.data) /\ Len(O) = Len(b.stack)
  /\ \A i \in 1..Len(O) :
       /\ IsSub(b, O[i]) /\ b.stack[i] = Body(b, O[i])
       /\ up[O[i]] = IF i = 1 THEN 0 ELSE O[i - 1]
  /\ \A i, j \in 1..Len(O) : i < j => O[i] < O[j]
  /\ \A x \in DOMAIN b.data : b.data[x].type = "EOO" => \A i \in 1..Len(O) : up[x] # O[i]
  /\ up[b.cur] = IF O = <<>> THEN 0 ELSE O[Len(O)]

Unfinished(b, up, O) == Linked(b, Ahead(b), b.cur, up) /\ Opens(b, up, O)

\* What comes next lies in u.
AndAt(up, x, u) == [y \in DOMAIN up \cup {x} |-> IF y = x THEN u ELSE up[y]]

LEMMA NewUnfinished ==
  /\ Unfinished(NewBson, [x \in {4} |-> 0], <<>>)
<1> DEFINE b == NewBson  up == [x \in {4} |-> 0]
<1>1. DOMAIN b.data = {} /\ b.cur = 4 /\ b.stack = <<>>
  BY DEF NewBson, InitBson, NoElements
<1> HIDE DEF b
<1>2. Ahead(b) = {4}
  BY <1>1 DEF Ahead
<1>3. Linked(b, {4}, 4, up)
  BY DEF Linked
<1>4. Opens(b, up, <<>>)
  <2>1. <<>> \in Seq(DOMAIN b.data) /\ Len(<<>>) = 0
    BY <1>1
  <2> QED
    BY <1>1, <2>1 DEF Opens
<1> QED
  BY <1>1, <1>2, <1>3, <1>4 DEF Unfinished, b

\* The element at x is as it was, but for the length of a sub-object.
StaysAt(b, c, x) ==
  /\ c.data[x].type = b.data[x].type /\ Body(c, x) = Body(b, x)
  /\ ~IsSub(b, x) => NextOffset(c, x) = NextOffset(b, x)

\* Elements that stay as they are lead where they led.
LEMMA LeadsStill ==
  ASSUME NEW b, NEW c, NEW X, NEW Y, NEW up, NEW to, NEW x \in X, NEW z \in Nat,
         \A y \in X : y \in Nat /\ 4 <= y /\ y <= z,
         \A y \in X : to[y] = up[y],
         NEW new \in Nat, new > z, Y = X \cup {new},
         StaysAt(b, c, x),
         b.data[x].type = "EOO" => NextOffset(c, up[x]) = NextOffset(b, up[x]),
         up[x] = 0 \/ up[x] \in X,
         LeadsTo(b, X, up, x)
  PROVE  LeadsTo(c, Y, to, x)
<1>1. (IsSub(c, x) <=> IsSub(b, x)) /\ c.data[x].type = b.data[x].type
  BY DEF IsSub, StaysAt
<1>2. Body(c, x) = Body(b, x) /\ (~IsSub(b, x) => NextOffset(c, x) = NextOffset(b, x))
  BY DEF StaysAt
<1>3. \A y : Follows(X, x, y) => Follows(Y, x, y)
  BY DEF Follows
<1>4. \A y : Follows(X, x, y) => y \in X
  BY DEF Follows
<1>5. CASE IsSub(b, x)
  BY <1>1, <1>2, <1>3, <1>4, <1>5 DEF LeadsTo, IsSub
<1>6. CASE b.data[x].type = "EOO"
  <2>1. NextOffset(c, up[x]) = NextOffset(b, up[x])
    BY <1>6
  <2>2. Follows(X, x, x + 1) /\ up[x] # 0 /\ NextOffset(b, up[x]) = x + 1 /\ up[x + 1] = up[up[x]]
    BY <1>6 DEF LeadsTo
  <2>3. to[x + 1] = up[x + 1] /\ to[x] = up[x] /\ to[up[x]] = up[up[x]]
    BY <1>4, <2>2
  <2>4. Follows(Y, x, x + 1)
    BY <1>3, <2>2
  <2> QED
    BY <1>1, <1>6, <2>1, <2>2, <2>3, <2>4 DEF LeadsTo, IsSub
<1>7. CASE b.data[x].type \notin {"OBJECT", "ARRAY", "EOO"}
  BY <1>1, <1>2, <1>3, <1>4, <1>7 DEF LeadsTo, IsSub
<1> QED
  BY <1>5, <1>6, <1>7 DEF IsSub

\* So are all elements at X, but for the lengths of objects that are not ended yet.
Stay(b, c, X, up) ==
  \A x \in X :
    /\ StaysAt(b, c, x)
    /\ b.data[x].type = "EOO" => NextOffset(c, up[x]) = NextOffset(b, up[x])

\* An element at a place behind X may lie in u.
MayLie(c, X, u, new) == u = 0 \/ (u \in X /\ IsSub(c, u) /\ u < new)

\* The places grow by one, to which the last one leads.
CanGrow(b, c, X, z, up, new, u) ==
  /\ Linked(b, X, z, up) /\ new \in Nat /\ new > z /\ MayLie(c, X, u, new)
  /\ Stay(b, c, X \ {z}, up) /\ LeadsTo(c, X \cup {new}, AndAt(up, new, u), z)

LEMMA GrowLinked ==
  ASSUME NEW b, NEW c, NEW X, NEW z, NEW up, NEW new, NEW u, CanGrow(b, c, X, z, up, new, u)
  PROVE  Linked(c, X \cup {new}, new, AndAt(up, new, u))
<1> USE DEF CanGrow
<1> DEFINE Y == X \cup {new}  to == AndAt(up, new, u)
<1>1. /\ DOMAIN up = X /\ 4 \in X /\ up[4] = 0 /\ z \in X
      /\ \A x \in X : x \in Nat /\ 4 <= x /\ x <= z
      /\ \A x \in X : up[x] = 0 \/ (up[x] \in X \ {z} /\ IsSub(b, up[x]) /\ up[x] < x)
      /\ \A x \in X \ {z} : LeadsTo(b, X, up, x)
  BY DEF Linked
<1>2. new \notin X /\ z \in Nat
  BY <1>1
<1>3. DOMAIN to = Y /\ to[new] = u /\ \A x \in X : to[x] = up[x]
  BY <1>1, <1>2 DEF AndAt
<1>4. \A x \in X \ {z} : IsSub(b, x) => IsSub(c, x)
  BY DEF IsSub, StaysAt, Stay
<1>5. ASSUME NEW x \in X \ {z} PROVE LeadsTo(c, Y, to, x)
  <2>1. up[x] = 0 \/ up[x] \in X
    BY <1>1
  <2>2. /\ LeadsTo(b, X, up, x) /\ StaysAt(b, c, x)
        /\ b.data[x].type = "EOO" => NextOffset(c, up[x]) = NextOffset(b, up[x])
    BY <1>1 DEF Stay
  <2> QED
    BY <1>1, <1>2, <1>3, <2>1, <2>2, LeadsStill
<1>6. ASSUME NEW x \in Y PROVE to[x] = 0 \/ (to[x] \in Y \ {new} /\ IsSub(c, to[x]) /\ to[x] < x)
  <2>1. CASE x = new
    BY <1>2, <1>3, <2>1 DEF MayLie
  <2>2. CASE x \in X
    <3>1. to[x] = up[x] /\ (up[x] = 0 \/ (up[x] \in X \ {z} /\ IsSub(b, up[x]) /\ up[x] < x))
      BY <1>1, <1>3, <2>2
    <3>2. up[x] \in X => up[x] \in Y \ {new}
      BY <1>2
    <3> QED
      BY <1>4, <3>1, <3>2
  <2> QED
    BY <2>1, <2>2
<1>7. \A x \in Y : x \in Nat /\ 4 <= x /\ x <= new
  BY <1>1
<1>8. \A x \in Y \ {new} : LeadsTo(c, Y, to, x)
  <2>1. LeadsTo(c, Y, to, z)
    BY DEF CanGrow
  <2> QED
    BY <1>5, <2>1
<1>9. 4 \in Y /\ to[4] = 0 /\ new \in Y
  BY <1>1, <1>3
<1> QED
  BY <1>3, <1>6, <1>7, <1>8, <1>9 DEF Linked

\* What Placed leaves as it was.
GotPlaced(b, c, z, e) ==
  /\ z \in Nat /\ z \notin DOMAIN b.data
  /\ DOMAIN c.data = DOMAIN b.data \cup {z} /\ Ahead(b) = DOMAIN c.data
  /\ c.data[z] = e /\ Len(e.key) \in Nat /\ e.len \in Nat
  /\ Body(c, z) = z + 2 + Len(e.key)
  /\ NextOffset(c, z) = z + 2 + Len(e.key) + e.len
  /\ \A x \in DOMAIN b.data :
       /\ c.data[x] = b.data[x] /\ (IsSub(c, x) <=> IsSub(b, x))
       /\ Body(c, x) = Body(b, x) /\ NextOffset(c, x) = NextOffset(b, x)
       /\ StaysAt(b, c, x)

LEMMA PlacedIs ==
  ASSUME NEW b, BuilderOK(b), b.finished = FALSE, NEW e, IsElement(e),
         NEW c, c.data = Placed(b.data, b.cur, e)
  PROVE  GotPlaced(b, c, b.cur, e)
<1>1. b.cur \in Nat /\ b.cur \notin DOMAIN b.data
  BY Lying
<1>2. DOMAIN c.data = DOMAIN b.data \cup {b.cur} /\ c.data[b.cur] = e
      /\ \A x \in DOMAIN b.data : c.data[x] = b.data[x]
  BY <1>1 DEF Placed
<1>3. Len(e.key) \in Nat /\ e.len \in Nat
  BY DEF IsElement
<1>4. Body(c, b.cur) = b.cur + 2 + Len(e.key)
      /\ NextOffset(c, b.cur) = b.cur + 2 + Len(e.key) + e.len
  BY <1>2 DEF Body, NextOffset
<1>5. ASSUME NEW x \in DOMAIN b.data
      PROVE  /\ (IsSub(c, x) <=> IsSub(b, x))
             /\ Body(c, x) = Body(b, x) /\ NextOffset(c, x) = NextOffset(b, x)
             /\ StaysAt(b, c, x)
  <2>1. c.data[x] = b.data[x]
    BY <1>2
  <2> QED
    BY <2>1 DEF IsSub, Body, NextOffset, StaysAt
<1> QED
  BY <1>1, <1>2, <1>3, <1>4, <1>5 DEF Ahead, GotPlaced

\* The places of a document that is built.
Lies(b, up, O, X, z) ==
  /\ Linked(b, X, z, up) /\ z \in Nat /\ z \in X
  /\ X \ {z} = DOMAIN b.data
  /\ \A x \in X : x \in Nat /\ 4 <= x /\ x <= z
  /\ \A x \in X : up[x] = 0 \/ (up[x] \in DOMAIN b.data /\ IsSub(b, up[x]) /\ up[x] < x)
  /\ \A i \in 1..Len(O) : O[i] \in DOMAIN b.data /\ IsSub(b, O[i]) /\ b.stack[i] = Body(b, O[i])
  /\ Len(O) \in Nat /\ Len(O) = Len(b.stack)

LEMMA PlacesAre ==
  ASSUME NEW b, NEW up, NEW O, Unfinished(b, up, O), BuilderOK(b), b.finished = FALSE
  PROVE  Lies(b, up, O, Ahead(b), b.cur)
<1>1. Linked(b, Ahead(b), b.cur, up) /\ Opens(b, up, O)
  BY DEF Unfinished
<1>2. b.cur \in Nat /\ b.cur \notin DOMAIN b.data
  BY Lying
<1>3. Ahead(b) \ {b.cur} = DOMAIN b.data
  BY <1>2 DEF Ahead
<1>4. O \in Seq(DOMAIN b.data)
  BY <1>1 DEF Opens
<1>5. Len(O) \in Nat /\ \A i \in 1..Len(O) : O[i] \in DOMAIN b.data
  BY <1>4
<1> QED
  BY <1>1, <1>2, <1>3, <1>5 DEF Linked, Opens, Lies

\* A value comes in.
CameIn(b, c, e) ==
  /\ c.data = Placed(b.data, b.cur, e) /\ c.cur = b.cur + 2 + Len(e.key) + e.len
  /\ c.stack = b.stack

\* What there is lies where it lay.
KeepsPlaces(b, up, to) == \A x \in Ahead(b) : to[x] = up[x]

\* A value comes in, in the innermost object.
LEMMA LinkValue ==
  ASSUME NEW b, NEW up, NEW O, Unfinished(b, up, O), BuilderOK(b), b.finished = FALSE,
         NEW e, IsElement(e), e.type \notin {"OBJECT", "ARRAY", "EOO"},
         NEW c, CameIn(b, c, e), NEW to, to = AndAt(up, c.cur, up[b.cur])
  PROVE  Unfinished(c, to, O) /\ KeepsPlaces(b, up, to)
<1> USE DEF CameIn
<1> DEFINE X == Ahead(b)  Y == Ahead(c)  new == c.cur  z == b.cur  u == up[z]
<1>1. GotPlaced(b, c, z, e)
  BY PlacedIs
<1>2. Lies(b, up, O, X, z)
  BY PlacesAre
<1>3. Y = X \cup {new}
  BY <1>1 DEF Ahead, GotPlaced
<1>4. new = z + 2 + Len(e.key) + e.len
  OBVIOUS
<1>5. to = AndAt(up, new, u)
  OBVIOUS
<1> HIDE DEF X, Y, new, z, u
<1> USE DEF GotPlaced, Lies
<1>6. new \in Nat /\ new > z /\ NextOffset(c, z) = new
  <2> DEFINE k == Len(e.key)  l == e.len
  <2>1. k \in Nat /\ l \in Nat /\ z \in Nat /\ NextOffset(c, z) = new /\ new = z + 2 + k + l
    BY <1>1, <1>4
  <2> HIDE DEF k, l
  <2> QED
    BY <2>1
<1>13. MayLie(c, X, u, new)
  <2>1. u = 0 \/ (u \in DOMAIN b.data /\ IsSub(b, u) /\ u < z)
    BY <1>2 DEF u
  <2>2. u \in DOMAIN b.data => u \in X /\ u \in Nat /\ IsSub(c, u) = IsSub(b, u)
    BY <1>1, <1>2 DEF IsSub
  <2> QED
    BY <1>1, <1>2, <1>6, <2>1, <2>2 DEF MayLie
<1>7. to[new] = u /\ to[z] = u
  <2>1. DOMAIN up = X /\ z \in X /\ new \notin X
    BY <1>2, <1>6 DEF Linked
  <2> QED
    BY <1>5, <2>1 DEF AndAt, u
<1>8. LeadsTo(c, Y, to, z)
  <2>1. Follows(Y, z, new)
    BY <1>2, <1>3, <1>6 DEF Follows
  <2> QED
    BY <1>1, <1>6, <1>7, <2>1 DEF LeadsTo, IsSub, u
<1>9. \A x \in X \ {z} : b.data[x].type = "EOO" => NextOffset(c, up[x]) = NextOffset(b, up[x])
  <2>1. SUFFICES ASSUME NEW x \in X \ {z}, b.data[x].type = "EOO"
                 PROVE  NextOffset(c, up[x]) = NextOffset(b, up[x])
    OBVIOUS
  <2>2. up[x] # 0
    BY <1>2, <2>1 DEF Linked, LeadsTo
  <2> QED
    BY <1>1, <1>2, <2>1, <2>2
<1>10. Stay(b, c, X \ {z}, up)
  BY <1>1, <1>2, <1>9 DEF Stay
<1>11. Linked(c, Y, new, to) /\ DOMAIN to = Y /\ to[new] = u /\ \A x \in X : to[x] = up[x]
  <2>1. Linked(b, X, z, up)
    BY <1>2
  <2>2. CanGrow(b, c, X, z, up, new, u)
    BY <1>3, <1>5, <1>6, <1>8, <1>10, <1>13, <2>1 DEF CanGrow
  <2>3. DOMAIN to = Y
    BY <1>2, <1>3, <1>5 DEF AndAt, Linked
  <2>4. Linked(c, X \cup {new}, new, AndAt(up, new, u))
    BY <2>2, GrowLinked
  <2>5. to[new] = u /\ \A x \in X : to[x] = up[x]
    <3>1. DOMAIN up = X /\ new \notin X
      BY <1>2, <1>6 DEF Linked
    <3> QED
      BY <1>5, <3>1 DEF AndAt
  <2> QED
    BY <1>3, <1>5, <2>3, <2>4, <2>5
<1>12. Opens(c, to, O)
  <2>1. Opens(b, up, O)
    BY DEF Unfinished
  <2>2. O \in Seq(DOMAIN c.data)
    BY <1>1, <2>1 DEF Opens
  <2>3. \A i \in 1..Len(O) : to[O[i]] = up[O[i]]
    BY <1>2, <1>11
  <2>4. ASSUME NEW x \in DOMAIN c.data, c.data[x].type = "EOO", NEW i \in 1..Len(O)
        PROVE  to[x] # O[i]
    <3>1. x \in DOMAIN b.data /\ b.data[x].type = "EOO"
      BY <1>1, <2>4
    <3>2. to[x] = up[x]
      BY <1>2, <1>11, <3>1
    <3> QED
      BY <2>1, <3>1, <3>2 DEF Opens
  <2>5. to[new] = IF O = <<>> THEN 0 ELSE O[Len(O)]
    BY <1>11, <2>1 DEF Opens, u, z
  <2>6. Len(O) = Len(c.stack) /\ \A i, j \in 1..Len(O) : i < j => O[i] < O[j]
    BY <2>1 DEF Opens
  <2>7. \A i \in 1..Len(O) : up[O[i]] = IF i = 1 THEN 0 ELSE O[i - 1]
    BY <2>1 DEF Opens
  <2> QED
    BY <1>1, <1>2, <2>2, <2>3, <2>4, <2>5, <2>6, <2>7 DEF Opens, new, IsSub
<1> QED
  BY <1>11, <1>12 DEF Unfinished, KeepsPlaces, X, Y, new

\* An object is opened.
OpenedIn(b, c, e) ==
  /\ c.data = Placed(b.data, b.cur, e) /\ c.cur = b.cur + 2 + Len(e.key) + 4
  /\ c.stack = Append(b.stack, b.cur + 2 + Len(e.key))

LEMMA LinkSub ==
  ASSUME NEW b, NEW up, NEW O, Unfinished(b, up, O), BuilderOK(b), b.finished = FALSE,
         NEW e, IsElement(e), e.type \in {"OBJECT", "ARRAY"},
         NEW c, OpenedIn(b, c, e), NEW to, to = AndAt(up, c.cur, b.cur)
  PROVE  Unfinished(c, to, Append(O, b.cur)) /\ KeepsPlaces(b, up, to)
<1> USE DEF OpenedIn
<1> DEFINE X == Ahead(b)  Y == Ahead(c)  new == c.cur  z == b.cur  k == Len(e.key)
           P == Append(O, z)  m == Len(O)
<1>1. GotPlaced(b, c, z, e)
  BY PlacedIs
<1>2. Lies(b, up, O, X, z) /\ Opens(b, up, O)
  BY PlacesAre DEF Unfinished
<1>3. Y = X \cup {new}
  BY <1>1 DEF Ahead, GotPlaced
<1>4. to = AndAt(up, new, z) /\ new = z + 2 + k + 4 /\ k \in Nat /\ Body(c, z) = z + 2 + k
  BY <1>1 DEF GotPlaced
<1>5. c.stack = Append(b.stack, Body(c, z))
  BY <1>1 DEF GotPlaced
<1>6. b.stack \in Seq(Nat)
  BY Lying
<1> HIDE DEF X, Y, new, z, k
<1>7. new \in Nat /\ new > z /\ Body(c, z) + 4 = new /\ z \in Nat /\ Body(c, z) \in Nat
  <2>1. z \in Nat
    BY <1>1 DEF GotPlaced
  <2> QED
    BY <1>4, <2>1
<1>8. MayLie(c, X, z, new)
  BY <1>1, <1>2, <1>7 DEF MayLie, GotPlaced, Lies, IsSub
<1>9. DOMAIN up = X /\ new \notin X /\ z \in X
  BY <1>2, <1>7 DEF Linked, Lies
<1>10. DOMAIN to = Y /\ to[new] = z /\ \A x \in X : to[x] = up[x]
  BY <1>3, <1>4, <1>9 DEF AndAt
<1>11. LeadsTo(c, Y, to, z)
  <2>1. Follows(Y, z, new)
    <3>1. \A r \in X : r <= z
      BY <1>2 DEF Lies
    <3> QED
      BY <1>3, <1>7, <3>1 DEF Follows
  <2> QED
    BY <1>1, <1>7, <1>10, <2>1 DEF LeadsTo, IsSub, GotPlaced
<1>12. Stay(b, c, X \ {z}, up)
  <2>1. SUFFICES ASSUME NEW x \in X \ {z}
                 PROVE  /\ StaysAt(b, c, x)
                        /\ b.data[x].type = "EOO" => NextOffset(c, up[x]) = NextOffset(b, up[x])
    BY DEF Stay
  <2>2. StaysAt(b, c, x)
    BY <1>1, <1>2 DEF GotPlaced, Lies
  <2>3. ASSUME b.data[x].type = "EOO" PROVE up[x] # 0 /\ up[x] \in DOMAIN b.data
    BY <1>2, <2>1, <2>3 DEF Linked, LeadsTo, Lies
  <2> QED
    BY <1>1, <2>2, <2>3 DEF GotPlaced
<1>13. Linked(c, Y, new, to)
  <2>1. CanGrow(b, c, X, z, up, new, z)
    BY <1>2, <1>3, <1>4, <1>7, <1>8, <1>11, <1>12 DEF CanGrow, Lies
  <2>2. Linked(c, X \cup {new}, new, AndAt(up, new, z))
    BY <2>1, GrowLinked
  <2> QED
    BY <1>3, <1>4, <2>2
<1>14. Opens(c, to, P)
  <2>1. m \in Nat /\ m = Len(b.stack) /\ O \in Seq(DOMAIN b.data) /\ z \in DOMAIN c.data
        /\ DOMAIN b.data \subseteq DOMAIN c.data
    BY <1>1, <1>2 DEF Opens, Lies, GotPlaced
  <2>2. P \in Seq(DOMAIN c.data) /\ Len(P) = m + 1 /\ P[m + 1] = z /\ \A i \in 1..m : P[i] = O[i]
    <3>1. O \in Seq(DOMAIN c.data)
      BY <2>1
    <3> QED
      BY <2>1, <3>1
  <2>3. Len(c.stack) = m + 1 /\ c.stack[m + 1] = Body(c, z) /\ \A i \in 1..m : c.stack[i] = b.stack[i]
    BY <1>5, <1>6, <1>7, <2>1
  <2> HIDE DEF P, m
  <2>4. \A i \in 1..m : O[i] \in DOMAIN b.data /\ IsSub(b, O[i]) /\ b.stack[i] = Body(b, O[i])
                        /\ O[i] \in Nat /\ O[i] < z /\ to[O[i]] = up[O[i]]
                        /\ up[O[i]] = IF i = 1 THEN 0 ELSE O[i - 1]
    <3>1. \A x \in DOMAIN b.data : x \in X /\ x \in Nat /\ x < z
      <4>1. \A x \in DOMAIN b.data : x \in X /\ x # z
        BY <1>2 DEF Lies
      <4> QED
        <5>1. \A x \in X : x \in Nat /\ x <= z
          BY <1>2 DEF Lies
        <5> QED
          BY <1>7, <4>1, <5>1
    <3> QED
      BY <1>2, <1>10, <3>1 DEF Lies, Opens, m
  <2>5. to[z] = IF m = 0 THEN 0 ELSE O[m]
    <3>1. up[z] = IF O = <<>> THEN 0 ELSE O[m]
      BY <1>2 DEF Opens, z, m
    <3>2. O = <<>> <=> m = 0
      BY <2>1 DEF m
    <3> QED
      BY <1>9, <1>10, <3>1, <3>2
  <2>6. ASSUME NEW i \in 1..(m + 1)
        PROVE  /\ IsSub(c, P[i]) /\ c.stack[i] = Body(c, P[i])
               /\ to[P[i]] = IF i = 1 THEN 0 ELSE P[i - 1]
    <3>1. CASE i = m + 1
      <4>1. IsSub(c, z)
        BY <1>1 DEF IsSub, GotPlaced
      <4>2. m # 0 => P[m] = O[m]
        <5>1. m # 0 => m \in 1..m
          BY <2>1
        <5> QED
          BY <2>2, <5>1
      <4>3. to[z] = IF m + 1 = 1 THEN 0 ELSE P[m]
        BY <2>1, <2>5, <4>2
      <4> QED
        BY <2>1, <2>2, <2>3, <3>1, <4>1, <4>3
    <3>2. CASE i \in 1..m
      <4>1. P[i] = O[i] /\ (i # 1 => P[i - 1] = O[i - 1])
        BY <2>1, <2>2, <3>2
      <4>2. IsSub(c, O[i]) /\ Body(c, O[i]) = Body(b, O[i])
        BY <1>1, <2>4, <3>2 DEF GotPlaced
      <4> QED
        BY <2>3, <2>4, <3>2, <4>1, <4>2
    <3> QED
      BY <2>1, <3>1, <3>2
  <2>7. ASSUME NEW i \in 1..(m + 1), NEW j \in 1..(m + 1), i < j PROVE P[i] < P[j]
    <3>1. i \in 1..m /\ P[i] = O[i]
      BY <2>1, <2>2, <2>7
    <3>2. CASE j = m + 1
      BY <2>2, <2>4, <3>1, <3>2
    <3>3. CASE j \in 1..m
      BY <1>2, <2>2, <2>7, <3>1, <3>3 DEF Opens, m
    <3> QED
      BY <2>1, <3>2, <3>3
  <2>8. ASSUME NEW x \in DOMAIN c.data, c.data[x].type = "EOO", NEW i \in 1..(m + 1)
        PROVE  to[x] # P[i]
    <3>1. x \in DOMAIN b.data /\ b.data[x].type = "EOO" /\ x \in X /\ to[x] = up[x]
      BY <1>1, <1>2, <1>10, <2>8 DEF GotPlaced, Lies
    <3>2. CASE i = m + 1
      <4>1. (up[x] = 0 \/ (up[x] \in X /\ up[x] < x)) /\ x <= z
        BY <1>2, <3>1 DEF Lies
      <4>2. z # 0
        BY <1>2 DEF Lies
      <4> QED
        BY <1>2, <1>7, <2>2, <3>1, <3>2, <4>1, <4>2 DEF Lies
    <3>3. CASE i \in 1..m
      BY <1>2, <2>2, <3>1, <3>3 DEF Opens, m
    <3> QED
      BY <2>1, <3>2, <3>3
  <2>9. P # <<>> /\ to[c.cur] = P[Len(P)]
    BY <1>10, <2>1, <2>2 DEF new
  <2> QED
    BY <2>2, <2>3, <2>6, <2>7, <2>8, <2>9 DEF Opens
<1> QED
  BY <1>10, <1>13, <1>14 DEF Unfinished, KeepsPlaces, X, Y, new, P, z

\* Different elements have their values at different places.
LEMMA BodiesDiffer ==
  ASSUME NEW b, NEW up, NEW O, Unfinished(b, up, O), BuilderOK(b), b.finished = FALSE,
         NEW p \in DOMAIN b.data, NEW q \in DOMAIN b.data,
         b.data[p].type # "EOO", b.data[q].type # "EOO", p < q
  PROVE  Body(b, p) # Body(b, q)
<1> DEFINE X == Ahead(b)  z == b.cur  m == Body(b, p)  n == Body(b, q)  l == b.data[p].len
           next == NextOffset(b, p)
<1>1. Lies(b, up, O, X, z)
  BY PlacesAre
<1>2. p \in X /\ q \in X /\ p # z
  BY <1>1 DEF Lies
<1>3. p \in Nat /\ q \in Nat /\ m \in Nat /\ n \in Nat /\ n > q /\ l \in Nat
  <2>1. DOMAIN b.data \subseteq Nat
    BY Lying
  <2> QED
    BY <2>1, Lying
<1>4. next = m + l
  BY DEF Body, NextOffset
<1>5. LeadsTo(b, X, up, p)
  BY <1>1, <1>2 DEF Lies, Linked
<1>6. IsSub(b, p) => \A r \in X : r < m + 4 => r <= p
  BY <1>5 DEF LeadsTo, Follows
<1>7. ~IsSub(b, p) => \A r \in X : r < next => r <= p
  BY <1>5 DEF LeadsTo, Follows, IsSub
<1> HIDE DEF X, m, n, l, next
<1> QED
  BY <1>2, <1>3, <1>4, <1>6, <1>7 DEF m, n

\* Lengths apart the elements are the same.
SameElements(b, c) ==
  \A x \in DOMAIN b.data : /\ c.data[x].type = b.data[x].type
                           /\ c.data[x].key = b.data[x].key
                           /\ c.data[x].val = b.data[x].val

\* An end is added to them.
EndAdded(b, c) ==
  /\ DOMAIN c.data = DOMAIN b.data \cup {b.cur} /\ c.data[b.cur].type = "EOO"
  /\ SameElements(b, c)

\* The innermost object is ended.
EndedIn(b, a, c) ==
  /\ a.data = Placed(b.data, b.cur, Zero) /\ a.cur = b.cur + 1 /\ b.stack # <<>>
  /\ Filled(a, b.stack[Len(b.stack)], c)
  /\ c.stack = SubSeq(b.stack, 1, Len(b.stack) - 1)

\* What comes next lies where that object lies.
GoesBack(up, O, c, to, P) == to = AndAt(up, c.cur, up[O[Len(O)]]) /\ P = Front(O)

LEMMA LinkClose ==
  ASSUME NEW b, NEW up, NEW O, Unfinished(b, up, O), BuilderOK(b), b.finished = FALSE,
         NEW a, NEW c, EndedIn(b, a, c), NEW to, NEW P, GoesBack(up, O, c, to, P)
  PROVE  Unfinished(c, to, P) /\ KeepsPlaces(b, up, to) /\ EndAdded(b, c)
<1>28. /\ a.data = Placed(b.data, b.cur, Zero) /\ a.cur = b.cur + 1 /\ b.stack # <<>>
       /\ Filled(a, b.stack[Len(b.stack)], c)
       /\ c.stack = SubSeq(b.stack, 1, Len(b.stack) - 1)
  BY DEF EndedIn
<1> DEFINE X == Ahead(b)  Y == Ahead(c)  new == c.cur  z == b.cur  m == Len(O)
           start == b.stack[m]  w == O[m]
<1>1. GotPlaced(b, a, z, Zero)
  BY <1>28, PlacedIs, EmptyKey
<1>2. Lies(b, up, O, X, z) /\ Opens(b, up, O)
  BY PlacesAre DEF Unfinished
<1>3. m \in Nat /\ m = Len(b.stack) /\ b.stack \in Seq(Nat) /\ O \in Seq(DOMAIN b.data)
  BY <1>2, Lying DEF Lies, Opens
<1>4. m \in 1..m /\ m > 0 /\ O # <<>>
  BY <1>3, <1>28
<1>5. /\ w \in DOMAIN b.data /\ IsSub(b, w) /\ Body(b, w) = start
      /\ up[w] = IF m = 1 THEN 0 ELSE O[m - 1]
      /\ up[z] = w
  BY <1>2, <1>4 DEF Lies, Opens
<1>6. Filled(a, start, c) /\ c.stack = SubSeq(b.stack, 1, m - 1)
  BY <1>3, <1>28
<1>7. ASSUME NEW p \in DOMAIN b.data, b.data[p].type # "EOO", Body(b, p) = start PROVE p = w
  <2>1. p \in Nat /\ w \in Nat
    BY <1>5, Lying
  <2>2. ~(p < w) /\ ~(w < p)
    BY <1>5, <1>7, BodiesDiffer DEF IsSub
  <2> QED
    BY <2>1, <2>2
<1> HIDE DEF start
<1>8. new = z + 1 /\ z \in Nat
  BY <1>1, <1>6, <1>28 DEF Filled, GotPlaced
<1>9. DOMAIN c.data = DOMAIN b.data \cup {z} /\ c.data[z] = Zero
  <2>1. Zero.type = "EOO"
    BY DEF Zero
  <2> QED
    BY <1>1, <1>6, <2>1 DEF Filled, GotPlaced
<1>10. \A p \in DOMAIN b.data : p # w => c.data[p] = b.data[p]
  BY <1>1, <1>6, <1>7 DEF Filled, GotPlaced
<1>11. c.data[w] = [b.data[w] EXCEPT !.len = new - start]
  BY <1>1, <1>5, <1>6 DEF Filled, GotPlaced, IsSub
<1>12. c.data[w].type = b.data[w].type /\ c.data[w].key = b.data[w].key
       /\ c.data[w].val = b.data[w].val /\ c.data[w].len = new - start
  <2>1. IsElement(b.data[w])
    BY <1>5, Lying
  <2> QED
    BY <1>11, <2>1 DEF IsElement
<1>27. P = SubSeq(O, 1, m - 1)
  BY DEF GoesBack, Front
<1>29. to = AndAt(up, new, up[w])
  BY DEF GoesBack
<1>30. w = O[Len(O)]
  OBVIOUS
<1> HIDE DEF X, Y, new, z, m, w
<1>13. Y = X \cup {new}
  BY <1>9 DEF Ahead, X, Y, new, z
<1>14. Body(c, w) = Body(b, w) /\ NextOffset(c, w) = new
  <2> DEFINE k == Len(b.data[w].key)
  <2>1. k \in Nat /\ w \in Nat
    BY <1>5, Lying
  <2>2. start = w + 2 + k
    BY <1>5 DEF Body
  <2>3. Body(c, w) = Body(b, w) /\ NextOffset(c, w) = w + 2 + k + (new - start)
    BY <1>12 DEF Body, NextOffset
  <2> HIDE DEF k
  <2> QED
    BY <1>8, <2>1, <2>2, <2>3
<1>15. ASSUME NEW x \in DOMAIN b.data
       PROVE  StaysAt(b, c, x) /\ Body(c, x) = Body(b, x) /\ IsSub(c, x) = IsSub(b, x)
  BY <1>5, <1>10, <1>12, <1>14 DEF StaysAt, Body, NextOffset, IsSub
<1>16. ASSUME NEW x \in DOMAIN b.data, x # w PROVE NextOffset(c, x) = NextOffset(b, x)
  BY <1>10, <1>16 DEF NextOffset
<1>17. X \ {z} = DOMAIN b.data /\ z \in X /\ \A x \in X : x \in Nat /\ 4 <= x /\ x <= z
  BY <1>2 DEF Lies
<1>18. DOMAIN up = X /\ new \notin X /\ new > z /\ new \in Nat
  BY <1>2, <1>8, <1>17 DEF Linked, Lies
<1>19. DOMAIN to = Y /\ to[new] = up[w] /\ \A x \in X : to[x] = up[x]
  <2>1. to = AndAt(up, new, up[w])
    BY <1>29
  <2> QED
    BY <1>13, <1>18, <2>1 DEF AndAt
<1>20. MayLie(c, X, up[w], new)
  <2>1. w \in X /\ w < z
    <3>1. w \in X /\ w # z /\ z \in Nat
      BY <1>5, <1>8, <1>17
    <3>2. w \in Nat /\ w <= z
      BY <1>17, <3>1
    <3> QED
      BY <3>1, <3>2
  <2>2. up[w] = 0 \/ (up[w] \in DOMAIN b.data /\ IsSub(b, up[w]) /\ up[w] < w)
    BY <1>2, <2>1 DEF Lies
  <2>3. up[w] \in DOMAIN b.data => up[w] \in X /\ up[w] \in Nat /\ w \in Nat
    BY <1>17, <2>1
  <2> QED
    BY <1>8, <1>15, <2>1, <2>2, <2>3 DEF MayLie
<1>21. LeadsTo(c, Y, to, z)
  <2>1. Follows(Y, z, z + 1)
    BY <1>8, <1>13, <1>17 DEF Follows
  <2>2. to[z] = w /\ w # 0 /\ to[w] = up[w] /\ to[z + 1] = up[w] /\ NextOffset(c, w) = z + 1
    <3>1. w \in X /\ w # 0
      BY <1>5, <1>17
    <3> QED
      BY <1>5, <1>8, <1>14, <1>17, <1>19, <3>1
  <2>3. c.data[z].type = "EOO"
    BY <1>9 DEF Zero
  <2> QED
    BY <2>1, <2>2, <2>3 DEF LeadsTo, IsSub
<1>22. Stay(b, c, X \ {z}, up)
  <2>1. SUFFICES ASSUME NEW x \in X \ {z}
                 PROVE  /\ StaysAt(b, c, x)
                        /\ b.data[x].type = "EOO" => NextOffset(c, up[x]) = NextOffset(b, up[x])
    BY DEF Stay
  <2>2. StaysAt(b, c, x)
    BY <1>15, <1>17
  <2>3. ASSUME b.data[x].type = "EOO" PROVE up[x] # 0 /\ up[x] \in DOMAIN b.data /\ up[x] # w
    <3>1. up[x] # w
      <4>1. \A i \in 1..Len(O) : up[x] # O[i]
        BY <1>2, <1>17, <2>3 DEF Opens
      <4> QED
        BY <1>4, <4>1 DEF m, w
    <3>2. LeadsTo(b, X, up, x)
      BY <1>2, <2>1 DEF Linked, Lies
    <3>3. up[x] # 0
      BY <2>3, <3>2 DEF LeadsTo
    <3>4. up[x] = 0 \/ up[x] \in DOMAIN b.data
      BY <1>2, <2>1 DEF Lies
    <3> QED
      BY <3>1, <3>3, <3>4
  <2> QED
    BY <1>16, <2>2, <2>3
<1>23. Linked(c, Y, new, to)
  <2>1. Linked(b, X, z, up) /\ to = AndAt(up, new, up[w])
    BY <1>2, <1>29 DEF Lies
  <2>2. CanGrow(b, c, X, z, up, new, up[w])
    BY <1>13, <1>18, <1>20, <1>21, <1>22, <2>1 DEF CanGrow
  <2>3. Linked(c, X \cup {new}, new, AndAt(up, new, up[w]))
    BY <2>2, GrowLinked
  <2> QED
    BY <1>13, <2>1, <2>3
<1>24. Opens(c, to, P)
  <2>1. P \in Seq(DOMAIN c.data) /\ Len(P) = m - 1 /\ \A i \in 1..(m - 1) : P[i] = O[i]
    <3>1. O \in Seq(DOMAIN c.data)
      BY <1>3, <1>9
    <3>2. Len(O) = m /\ P = SubSeq(O, 1, m - 1)
      BY <1>27 DEF m
    <3>3. m \in Nat /\ m > 0
      BY <1>3, <1>4
    <3> DEFINE D == DOMAIN c.data  n == m - 1
    <3>4. n \in Nat /\ n <= Len(O) /\ O \in Seq(D) /\ P = SubSeq(O, 1, n)
      BY <3>1, <3>2, <3>3
    <3> HIDE DEF D, n
    <3>5. P \in Seq(D) /\ Len(P) = n /\ \A i \in 1..n : P[i] = O[i]
      BY <3>4
    <3> QED
      BY <3>5 DEF D, n
  <2>2. Len(c.stack) = m - 1 /\ \A i \in 1..(m - 1) : c.stack[i] = b.stack[i]
    BY <1>3, <1>4, <1>6
  <2>3. \A i, j \in 1..m : i < j => O[i] < O[j]
    BY <1>2 DEF Opens, m
  <2>4. ASSUME NEW i \in 1..(m - 1)
        PROVE  /\ IsSub(c, P[i]) /\ c.stack[i] = Body(c, P[i])
               /\ to[P[i]] = IF i = 1 THEN 0 ELSE P[i - 1]
    <3>1. i \in 1..m /\ (i # 1 => i - 1 \in 1..(m - 1))
      BY <1>3
    <3>2. O[i] \in DOMAIN b.data /\ IsSub(b, O[i]) /\ b.stack[i] = Body(b, O[i])
          /\ up[O[i]] = IF i = 1 THEN 0 ELSE O[i - 1]
      BY <1>2, <3>1 DEF Lies, Opens, m
    <3>3. O[i] \in X
      BY <1>17, <3>2
    <3> QED
      BY <1>15, <1>19, <2>1, <2>2, <3>1, <3>2, <3>3
  <2>5. ASSUME NEW i \in 1..(m - 1), NEW j \in 1..(m - 1), i < j PROVE P[i] < P[j]
    <3>1. m \in Nat
      BY <1>3
    <3>2. i \in 1..m /\ j \in 1..m
      BY <3>1
    <3> QED
      BY <2>1, <2>3, <2>5, <3>2
  <2>6. ASSUME NEW x \in DOMAIN c.data, c.data[x].type = "EOO", NEW i \in 1..(m - 1)
        PROVE  to[x] # P[i]
    <3>1. i \in 1..m /\ i < m /\ P[i] = O[i]
      BY <1>3, <2>1
    <3>2. CASE x = z
      <4>1. to[z] = w /\ w \in Nat
        BY <1>5, <1>17, <1>19
      <4>2. O[i] < w
        BY <1>4, <2>3, <3>1 DEF m, w
      <4> QED
        BY <3>1, <3>2, <4>1, <4>2
    <3>3. CASE x \in DOMAIN b.data
      <4>1. b.data[x].type = "EOO" /\ to[x] = up[x]
        BY <1>10, <1>12, <1>17, <1>19, <2>6, <3>3
      <4>2. \A l \in 1..m : up[x] # O[l]
        BY <1>2, <3>3, <4>1 DEF Opens, m
      <4> QED
        BY <3>1, <4>1, <4>2
    <3> QED
      BY <1>9, <3>2, <3>3
  <2>7. to[c.cur] = IF P = <<>> THEN 0 ELSE P[Len(P)]
    <3>1. to[c.cur] = IF m = 1 THEN 0 ELSE O[m - 1]
      BY <1>5, <1>19 DEF new
    <3>2. P = <<>> <=> m = 1
      <4>1. m \in Nat
        BY <1>3
      <4>2. P = <<>> <=> Len(P) = 0
        <5> DEFINE D == DOMAIN c.data
        <5>1. P \in Seq(D)
          BY <2>1
        <5> HIDE DEF D
        <5> QED
          BY <5>1
      <4> QED
        BY <2>1, <4>1, <4>2
    <3>3. m # 1 => m - 1 \in 1..(m - 1)
      <4>1. m \in Nat /\ m > 0
        BY <1>3, <1>4
      <4> QED
        BY <4>1
    <3> QED
      BY <2>1, <3>1, <3>2, <3>3
  <2> QED
    BY <2>1, <2>2, <2>4, <2>5, <2>6, <2>7 DEF Opens
<1>25. Unfinished(c, to, P)
  BY <1>23, <1>24 DEF Unfinished, Y, new
<1>26. \A x \in DOMAIN b.data : /\ c.data[x].type = b.data[x].type
                                /\ c.data[x].key = b.data[x].key
                                /\ c.data[x].val = b.data[x].val
  BY <1>10, <1>12
<1> QED
  BY <1>9, <1>19, <1>25, <1>26 DEF X, z, Zero, KeepsPlaces, EndAdded, SameElements

\* The document is ended.
Finished(b, up, z) ==
  /\ Linked(b, DOMAIN b.data, z, up)
  /\ b.data[z].type = "EOO" /\ up[z] = 0

LEMMA LinkEnd ==
  ASSUME NEW b, NEW up, Unfinished(b, up, <<>>), BuilderOK(b), b.finished = FALSE,
         NEW c, c.data = Placed(b.data, b.cur, Zero)
  PROVE  Finished(c, up, b.cur) /\ EndAdded(b, c)
<1> DEFINE X == Ahead(b)  z == b.cur
<1>1. GotPlaced(b, c, z, Zero)
  BY PlacedIs, EmptyKey
<1>2. Lies(b, up, <<>>, X, z) /\ Opens(b, up, <<>>)
  BY PlacesAre DEF Unfinished
<1> HIDE DEF X
<1>3. X = DOMAIN c.data
  BY <1>1 DEF GotPlaced, X
<1>4. up[z] = 0
  BY <1>2 DEF Opens
<1> HIDE DEF z
<1>5. c.data[z].type = "EOO" /\ X \ {z} = DOMAIN b.data
  BY <1>1, <1>2 DEF GotPlaced, Zero, Lies
<1>6. ASSUME NEW x \in X \ {z} PROVE LeadsTo(c, X, up, x)
  <2>1. LeadsTo(b, X, up, x) /\ c.data[x] = b.data[x]
    BY <1>1, <1>2, <1>5, <1>6 DEF GotPlaced, Lies, Linked
  <2>2. Body(c, x) = Body(b, x) /\ NextOffset(c, x) = NextOffset(b, x) /\ IsSub(c, x) = IsSub(b, x)
    BY <2>1 DEF Body, NextOffset, IsSub
  <2>3. b.data[x].type = "EOO" => up[x] # 0 /\ up[x] \in DOMAIN b.data
    BY <1>2, <1>6, <2>1 DEF LeadsTo, Lies
  <2>4. b.data[x].type = "EOO" => NextOffset(c, up[x]) = NextOffset(b, up[x])
    BY <1>1, <2>3 DEF GotPlaced
  <2> QED
    BY <2>1, <2>2, <2>4 DEF LeadsTo
<1>7. \A x \in X : up[x] = 0 \/ (up[x] \in X \ {z} /\ IsSub(c, up[x]) /\ up[x] < x)
  BY <1>1, <1>2, <1>5 DEF Lies, GotPlaced
<1>8. Linked(c, X, z, up)
  BY <1>2, <1>6, <1>7 DEF Linked, Lies
<1> QED
  BY <1>1, <1>3, <1>4, <1>5, <1>8 DEF Finished, GotPlaced, z, EndAdded, SameElements

-----------------------------------------------------------------------------
(* The ways down the tables of a job.                                      *)

PairsIn(j) == UNION {j.heap[x] : x \in DOMAIN j.heap}

\* The pair behind the first k ones of a way is one of the table they lead to.
GoesOnAt(j, s, k, p) ==
  IF k = 0 THEN p \in j.heap[j.root]
           ELSE s[k][2][1] = "table" /\ p \in j.heap[s[k][2][2]]

IsWay(j, s) ==
  /\ s \in Seq(PairsIn(j)) /\ Len(s) \in 1..(StackSize + 1)
  /\ \A i \in 1..Len(s) : GoesOnAt(j, s, i - 1, s[i])

WaysOf(j) == Ways(j.heap, j.root)

LEMMA WayIs ==
  ASSUME NEW j, NEW s
  PROVE  s \in WaysOf(j) <=> IsWay(j, s)
<1> DEFINE S == PairsIn(j)  N == 1..(StackSize + 1)
           All == UNION {[1..n -> S] : n \in N}
           heap == j.heap  root == j.root
           OK(way) == /\ way[1] \in heap[root]
                      /\ \A i \in 2..Len(way) :
                           way[i - 1][2][1] = "table" /\ way[i] \in heap[way[i - 1][2][2]]
<1>1. StackSize \in Nat
  BY BuilderAssumption
<1>2. WaysOf(j) = {way \in All : OK(way)}
  BY DEF WaysOf, Ways, PairsIn
<1>3. s \in WaysOf(j) <=> s \in All /\ OK(s)
  BY <1>2, Zenon
<1>4. s \in All <=> s \in Seq(S) /\ Len(s) \in N
  <2> HIDE DEF S
  <2>1. ASSUME s \in All PROVE s \in Seq(S) /\ Len(s) \in N
    <3>1. PICK n \in N : s \in [1..n -> S]
      BY <2>1
    <3>2. n \in Nat
      BY <1>1, <3>1
    <3> HIDE DEF N
    <3>3. s \in Seq(S) /\ Len(s) = n
      BY <3>1, <3>2
    <3> QED
      BY <3>1, <3>3
  <2>2. ASSUME s \in Seq(S), Len(s) \in N PROVE s \in All
    <3>1. s \in [1..Len(s) -> S]
      BY <2>2
    <3> QED
      BY <2>2, <3>1
  <2> QED
    BY <2>1, <2>2
<1>5. ASSUME Len(s) \in N PROVE OK(s) <=> \A i \in 1..Len(s) : GoesOnAt(j, s, i - 1, s[i])
  <2>1. Len(s) \in Nat /\ Len(s) >= 1
    BY <1>1, <1>5
  <2> DEFINE m == Len(s)
  <2> HIDE DEF m
  <2>2. (\A i \in 1..m : GoesOnAt(j, s, i - 1, s[i])) <=>
          GoesOnAt(j, s, 0, s[1]) /\ \A i \in 2..m : GoesOnAt(j, s, i - 1, s[i])
    <3>1. m \in Nat /\ m >= 1
      BY <2>1 DEF m
    <3>2. \A i : i \in 1..m <=> i = 1 \/ i \in 2..m
      BY <3>1
    <3> QED
      BY <3>2
  <2>3. \A i \in 2..m : GoesOnAt(j, s, i - 1, s[i]) <=>
                        s[i - 1][2][1] = "table" /\ s[i] \in heap[s[i - 1][2][2]]
    BY DEF GoesOnAt
  <2>4. GoesOnAt(j, s, 0, s[1]) <=> s[1] \in heap[root]
    BY DEF GoesOnAt
  <2> QED
    BY <2>2, <2>3, <2>4 DEF m
<1> HIDE DEF OK, All
<1> QED
  BY <1>3, <1>4, <1>5 DEF IsWay

\* One pair more.
LEMMA WayOn ==
  ASSUME NEW j, NEW s \in Seq(PairsIn(j)), Len(s) <= StackSize,
         \A i \in 1..Len(s) : GoesOnAt(j, s, i - 1, s[i]),
         NEW p \in PairsIn(j), GoesOnAt(j, s, Len(s), p)
  PROVE  Append(s, p) \in WaysOf(j)
<1> DEFINE S == PairsIn(j)  c == Append(s, p)  m == Len(s)
<1>1. StackSize \in Nat
  BY BuilderAssumption
<1> HIDE DEF S
<1>2. c \in Seq(S) /\ m \in Nat /\ Len(c) = m + 1 /\ c[m + 1] = p /\ \A i \in 1..m : c[i] = s[i]
  BY DEF S
<1> HIDE DEF c
<1>3. Len(c) \in 1..(StackSize + 1)
  BY <1>1, <1>2
<1>4. \A k \in 0..m : \A q : GoesOnAt(j, c, k, q) <=> GoesOnAt(j, s, k, q)
  <2>1. \A k \in 0..m : k = 0 \/ k \in 1..m
    BY <1>2
  <2> QED
    BY <1>2, <2>1 DEF GoesOnAt
<1>5. ASSUME NEW i \in 1..Len(c) PROVE GoesOnAt(j, c, i - 1, c[i])
  <2>1. i - 1 \in 0..m
    BY <1>2
  <2>2. CASE i = m + 1
    BY <1>2, <1>4, <2>1, <2>2
  <2>3. CASE i \in 1..m
    BY <1>2, <1>4, <2>1, <2>3
  <2> QED
    BY <1>2, <2>2, <2>3
<1>6. IsWay(j, c)
  BY <1>2, <1>3, <1>5 DEF IsWay, S
<1> QED
  BY <1>6, WayIs DEF c

\* What leads on is a table of the job, and what comes behind is in it.
LEMMA WayInTables ==
  ASSUME NEW j, JobOK(j), NEW s \in WaysOf(j), NEW i \in 1..Len(s)
  PROVE  LET x == IF i = 1 THEN j.root ELSE s[i - 1][2][2]
         IN  x \in DOMAIN j.heap /\ s[i] \in j.heap[x]
<1>1. IsWay(j, s)
  BY WayIs
<1>2. GoesOnAt(j, s, i - 1, s[i])
  BY <1>1 DEF IsWay
<1>3. CASE i = 1
  BY <1>2, <1>3 DEF GoesOnAt, JobOK
<1>4. CASE i # 1
  <2>1. i - 1 \in 1..Len(s) /\ i - 1 # 0
    <3>1. Len(s) \in Nat
      BY <1>1 DEF IsWay
    <3> QED
      BY <1>4, <3>1
  <2>2. s[i - 1] \in PairsIn(j)
    BY <1>1, <2>1 DEF IsWay
  <2>3. PICK x \in DOMAIN j.heap : s[i - 1] \in j.heap[x]
    BY <2>2 DEF PairsIn
  <2>4. PairOK(j.heap, s[i - 1])
    BY <2>3 DEF JobOK, TableOK
  <2>5. s[i - 1][2][1] = "table" /\ s[i] \in j.heap[s[i - 1][2][2]]
    BY <1>2, <2>1 DEF GoesOnAt
  <2> QED
    BY <1>4, <2>4, <2>5 DEF PairOK
<1> QED
  BY <1>3, <1>4

\* s is how r begins.
Begins(s, r) == Len(s) <= Len(r) /\ \A i \in 1..Len(s) : s[i] = r[i]

Keys(s) == [i \in 1..Len(s) |-> s[i][1]]

\* Ways with the same keys are the same, a table has one value for a key.
LEMMA SameWay ==
  ASSUME NEW j, JobOK(j), NEW s \in WaysOf(j), NEW r \in WaysOf(j),
         Len(s) <= Len(r), \A i \in 1..Len(s) : s[i][1] = r[i][1]
  PROVE  Begins(s, r)
<1> DEFINE S == {n \in Nat : \A i \in 1..Len(s) : i <= n => s[i] = r[i]}
<1>1. Len(s) \in Nat /\ Len(r) \in Nat
  BY WayIs DEF IsWay
<1>2. 0 \in S
  OBVIOUS
<1>3. ASSUME NEW n \in Nat, n \in S PROVE n + 1 \in S
  <2>1. SUFFICES ASSUME NEW i \in 1..Len(s), i <= n + 1 PROVE s[i] = r[i]
    OBVIOUS
  <2>2. CASE i <= n
    BY <1>3, <2>2
  <2>3. CASE i = n + 1
    <3> DEFINE x == IF i = 1 THEN j.root ELSE s[i - 1][2][2]
    <3>1. i # 1 => i - 1 \in 1..Len(s) /\ i - 1 <= n
      BY <1>1, <2>3
    <3>2. i # 1 => s[i - 1] = r[i - 1]
      BY <1>3, <3>1
    <3>3. i \in 1..Len(r)
      BY <1>1
    <3>4. x \in DOMAIN j.heap /\ s[i] \in j.heap[x]
      BY WayInTables
    <3>5. r[i] \in j.heap[x]
      <4>1. LET y == IF i = 1 THEN j.root ELSE r[i - 1][2][2]
            IN  y \in DOMAIN j.heap /\ r[i] \in j.heap[y]
        BY <3>3, WayInTables
      <4> QED
        BY <3>2, <4>1
    <3> HIDE DEF x
    <3>6. \A p, q \in j.heap[x] : p[1] = q[1] => p = q
      BY <3>4 DEF JobOK, TableOK
    <3> QED
      BY <3>4, <3>5, <3>6
  <2> QED
    BY <1>1, <2>1, <2>2, <2>3
<1> HIDE DEF S
<1>4. Len(s) \in S
  BY <1>1, <1>2, <1>3, Naturals
<1> QED
  BY <1>1, <1>4 DEF S, Begins

-----------------------------------------------------------------------------
(* Which ways have been walked. W are the pairs that the tables of the     *)
(* calls w were found under, N[q] the way that the element at q stands     *)
(* for; E are the places of the elements.                                  *)

\* The way c has not been walked yet: it leaves the calls at a pair that is left.
LeavesAt(w, W, c, k) ==
  /\ k <= Len(c) /\ c[k] \in w[k].left
  /\ \A i \in 1..(k - 1) : c[i] = W[i]

ToCome(w, W, c) == \E k \in 1..Len(w) : LeavesAt(w, W, c, k)

\* The calls stand on the way W.
OnWay(j, w, W) ==
  /\ Len(w) = Len(W) + 1
  /\ \A k \in 1..Len(W) : W[k] \notin w[k].left
  /\ W \in Seq(PairsIn(j)) /\ Len(W) <= StackSize
  /\ \A k \in 1..Len(W) : GoesOnAt(j, W, k - 1, W[k])
  /\ \A k \in 1..Len(w) : \A p \in w[k].left : GoesOnAt(j, W, k - 1, p) /\ p \in PairsIn(j)

Covers(j, w, W, E, N) ==
  /\ \A q \in E : N[q] \in WaysOf(j) /\ ~ToCome(w, W, N[q])
  /\ \A c \in WaysOf(j) : (\E q \in E : N[q] = c) \/ ToCome(w, W, c)
  /\ \A q, x \in E : q < x => ~Begins(N[x], N[q])

Walked(j, w, W, E, N) == OnWay(j, w, W) /\ Covers(j, w, W, E, N)

\* The conversion starts.
LEMMA WalkStarts ==
  ASSUME NEW j, NEW f, f.left = j.heap[j.root], j.root \in DOMAIN j.heap, NEW N
  PROVE  Walked(j, <<f>>, <<>>, {}, N)
<1> DEFINE w == <<f>>  W == <<>>
<1>1. Len(w) = 1 /\ w[1] = f /\ Len(W) = 0 /\ StackSize \in Nat
  BY BuilderAssumption
<1>2. W \in Seq(PairsIn(j))
  OBVIOUS
<1> HIDE DEF w, W
<1>3. ASSUME NEW c \in WaysOf(j) PROVE ToCome(w, W, c)
  <2>1. IsWay(j, c)
    BY WayIs
  <2>2. Len(c) \in Nat /\ Len(c) >= 1
    BY <1>1, <2>1 DEF IsWay
  <2>3. GoesOnAt(j, c, 0, c[1])
    <3>1. 1 \in 1..Len(c) /\ 1 - 1 = 0
      BY <2>2
    <3>2. GoesOnAt(j, c, 1 - 1, c[1])
      BY <2>1, <3>1 DEF IsWay
    <3> QED
      BY <3>1, <3>2
  <2>4. LeavesAt(w, W, c, 1)
    BY <1>1, <2>2, <2>3 DEF LeavesAt, GoesOnAt
  <2> QED
    BY <1>1, <2>4 DEF ToCome
<1>4. \A p \in w[1].left : GoesOnAt(j, W, 0, p) /\ p \in PairsIn(j)
  BY <1>1 DEF GoesOnAt, PairsIn
<1>5. OnWay(j, w, W)
  BY <1>1, <1>2, <1>4 DEF OnWay
<1>6. Covers(j, w, W, {}, N)
  BY <1>3 DEF Covers
<1> QED
  BY <1>5, <1>6 DEF Walked, w, W

\* A pair p is taken from the last call of w; n is its number. The element at z stands for it.
Takes(j, w, W, E, N, n, p, z, M) ==
  /\ Walked(j, w, W, E, N) /\ n = Len(w) /\ n \in Nat /\ n >= 1 /\ n <= StackSize + 1
  /\ p \in w[n].left
  /\ \A q \in E : q \in Nat /\ q < z
  /\ z \in Nat
  /\ \A q \in E : M[q] = N[q]
  /\ M[z] = Append(W, p)

\* The way to the pair, and where it lies.
LEMMA TakenWay ==
  ASSUME NEW j, NEW w, NEW W, NEW E, NEW N, NEW n, NEW p, NEW z, NEW M,
         Takes(j, w, W, E, N, n, p, z, M)
  PROVE  LET c == Append(W, p)
         IN  /\ c \in WaysOf(j) /\ Len(c) = n /\ Len(W) = n - 1
             /\ c[n] = p /\ \A i \in 1..(n - 1) : c[i] = W[i] /\ W[i] \notin w[i].left
             /\ LeavesAt(w, W, c, n)
             /\ \A k \in 1..(n - 1) : ~LeavesAt(w, W, c, k)
<1> DEFINE c == Append(W, p)  S == PairsIn(j)
<1>1. OnWay(j, w, W) /\ n = Len(w) /\ n \in Nat /\ n >= 1 /\ p \in w[n].left
  BY DEF Takes, Walked
<1>2. Len(w) = Len(W) + 1 /\ W \in Seq(S) /\ Len(W) <= StackSize
  BY <1>1 DEF OnWay
<1> HIDE DEF S
<1>3. Len(W) \in Nat /\ Len(W) = n - 1 /\ n \in 1..n
  BY <1>1, <1>2
<1>4. GoesOnAt(j, W, n - 1, p) /\ p \in S
  BY <1>1, <1>3 DEF OnWay, S
<1>5. Len(c) = n /\ c[n] = p /\ \A i \in 1..(n - 1) : c[i] = W[i]
  BY <1>2, <1>3, <1>4
<1>6. c \in WaysOf(j)
  <2>1. \A i \in 1..Len(W) : GoesOnAt(j, W, i - 1, W[i])
    BY <1>1 DEF OnWay
  <2> QED
    BY <1>2, <1>3, <1>4, <2>1, WayOn DEF S
<1>7. \A i \in 1..(n - 1) : W[i] \notin w[i].left
  BY <1>1, <1>3 DEF OnWay
<1> HIDE DEF c
<1>8. LeavesAt(w, W, c, n)
  BY <1>1, <1>3, <1>5 DEF LeavesAt
<1>9. \A k \in 1..(n - 1) : ~LeavesAt(w, W, c, k)
  BY <1>5, <1>7 DEF LeavesAt
<1> QED
  BY <1>3, <1>5, <1>6, <1>7, <1>8, <1>9 DEF c

\* The new way does not begin with an old one, nor an old one with it.
LEMMA TakenFresh ==
  ASSUME NEW j, NEW w, NEW W, NEW E, NEW N, NEW n, NEW p, NEW z, NEW M,
         Takes(j, w, W, E, N, n, p, z, M)
  PROVE  \A q, x \in E \cup {z} : q < x => ~Begins(M[x], M[q])
<1> DEFINE c == Append(W, p)
<1>1. /\ c \in WaysOf(j) /\ Len(c) = n /\ LeavesAt(w, W, c, n)
      /\ \A i \in 1..(n - 1) : c[i] = W[i]
  BY TakenWay
<1> HIDE DEF c
<1>2. /\ Covers(j, w, W, E, N) /\ n = Len(w) /\ n \in Nat /\ n >= 1
      /\ \A q \in E : M[q] = N[q]
      /\ M[z] = c
      /\ z \in Nat
      /\ \A q \in E : q \in Nat /\ q < z
  BY DEF Takes, Walked, c
<1> SUFFICES ASSUME NEW q \in E \cup {z}, NEW x \in E \cup {z}, q < x, Begins(M[x], M[q])
             PROVE  FALSE
  OBVIOUS
<1>3. q \in E
  <2>1. CASE q = z /\ x = z
    BY <1>2, <2>1
  <2>2. CASE q = z /\ x \in E
    <3>1. x \in Nat /\ x < z
      BY <1>2, <2>2
    <3> QED
      BY <1>2, <2>2, <3>1
  <2> QED
    BY <2>1, <2>2
<1>4. CASE x \in E
  BY <1>2, <1>3, <1>4 DEF Covers
<1>5. CASE x = z
  <2>1. Begins(c, N[q])
    BY <1>2, <1>3, <1>5
  <2>2. n \in 1..n /\ \A i \in 1..(n - 1) : i \in 1..n
    BY <1>2
  <2>3. N[q][n] = c[n] /\ n <= Len(N[q]) /\ \A i \in 1..(n - 1) : N[q][i] = W[i]
    BY <1>1, <2>1, <2>2 DEF Begins
  <2>4. LeavesAt(w, W, N[q], n)
    BY <1>1, <2>3 DEF LeavesAt
  <2> QED
    BY <1>2, <1>3, <2>2, <2>4 DEF Covers, ToCome
<1> QED
  BY <1>4, <1>5

\* The calls behind the pair: in v the last call of w has lost it.
TakenIn(w, v, n, p) ==
  /\ \A k \in 1..(n - 1) : v[k].left = w[k].left
  /\ v[n].left = w[n].left \ {p}

\* The ways are the same up to the last call.
Agrees(V, W, n) == \A i \in 1..(n - 1) : V[i] = W[i]

\* What is to come after the pair came before.
LEMMA TakenComes ==
  ASSUME NEW j, NEW w, NEW W, NEW E, NEW N, NEW n, NEW p, NEW z, NEW M,
         Takes(j, w, W, E, N, n, p, z, M), NEW v, TakenIn(w, v, n, p), NEW V,
         Agrees(V, W, n), NEW c
  PROVE  /\ \A k \in 1..n : LeavesAt(v, V, c, k) => ToCome(w, W, c)
         /\ ToCome(w, W, c) => \/ \E k \in 1..n : LeavesAt(v, V, c, k)
                               \/ n <= Len(c) /\ c[n] = p /\ \A i \in 1..(n - 1) : c[i] = W[i]
<1>1. n = Len(w) /\ n \in Nat /\ n >= 1
  BY DEF Takes
<1>2. \A k \in 1..n : \A i \in 1..(k - 1) : V[i] = W[i]
  BY <1>1 DEF Agrees
<1>3. \A k \in 1..n : k = n \/ k \in 1..(n - 1)
  BY <1>1
<1>4. ASSUME NEW k \in 1..n, LeavesAt(v, V, c, k) PROVE LeavesAt(w, W, c, k)
  <2>1. k <= Len(c) /\ c[k] \in v[k].left /\ \A i \in 1..(k - 1) : c[i] = V[i]
    BY <1>4 DEF LeavesAt
  <2>2. c[k] \in w[k].left
    BY <1>3, <2>1 DEF TakenIn
  <2> QED
    BY <1>2, <2>1, <2>2 DEF LeavesAt
<1>5. ASSUME ToCome(w, W, c), ~ \E k \in 1..n : LeavesAt(v, V, c, k)
      PROVE  n <= Len(c) /\ c[n] = p /\ \A i \in 1..(n - 1) : c[i] = W[i]
  <2>1. PICK k \in 1..n : LeavesAt(w, W, c, k)
    BY <1>1, <1>5 DEF ToCome
  <2>2. k <= Len(c) /\ c[k] \in w[k].left /\ \A i \in 1..(k - 1) : c[i] = W[i]
    BY <2>1 DEF LeavesAt
  <2>3. ~LeavesAt(v, V, c, k)
    BY <1>5
  <2>4. c[k] \notin v[k].left
    BY <1>2, <2>2, <2>3 DEF LeavesAt
  <2>5. k = n
    BY <1>3, <2>2, <2>4 DEF TakenIn
  <2> QED
    BY <2>2, <2>4, <2>5 DEF TakenIn
<1>7. ASSUME NEW k \in 1..n, LeavesAt(v, V, c, k) PROVE ToCome(w, W, c)
  BY <1>1, <1>4, <1>7 DEF ToCome
<1> QED
  BY <1>5, <1>7

\* A pair that leads no further is taken.
LEMMA WalkValue ==
  ASSUME NEW j, NEW w, NEW W, NEW E, NEW N, NEW n, NEW p, NEW z, NEW M,
         Takes(j, w, W, E, N, n, p, z, M), NEW v, TakenIn(w, v, n, p), Len(v) = n,
         p[2][1] # "table"
  PROVE  Walked(j, v, W, E \cup {z}, M)
<1> DEFINE c0 == Append(W, p)
<1>1. /\ Walked(j, w, W, E, N) /\ n = Len(w) /\ n \in Nat /\ n >= 1
      /\ \A q \in E : M[q] = N[q]
      /\ M[z] = c0
  BY DEF Takes
<1>2. c0 \in WaysOf(j) /\ Len(c0) = n /\ c0[n] = p /\ (\A i \in 1..(n - 1) : c0[i] = W[i])
      /\ Len(W) = n - 1
  BY TakenWay
<1>3. OnWay(j, v, W)
  <2>1. OnWay(j, w, W)
    BY <1>1 DEF Walked
  <2>2. \A k \in 1..n : k = n \/ k \in 1..(n - 1)
    BY <1>1
  <2>3. \A k \in 1..n : v[k].left \subseteq w[k].left
    BY <2>2 DEF TakenIn
  <2>4. \A k \in 1..Len(W) : k \in 1..n
    BY <1>1, <1>2
  <2> QED
    BY <1>1, <2>1, <2>3, <2>4 DEF OnWay
<1>9. Agrees(W, W, n)
  BY DEF Agrees
<1>4. \A c : ToCome(v, W, c) => ToCome(w, W, c)
  BY <1>9, TakenComes DEF ToCome
<1>5. ~ToCome(v, W, c0)
  <2>1. \A k \in 1..n : k = n \/ k \in 1..(n - 1)
    BY <1>1
  <2>2. \A k \in 1..(n - 1) : W[k] \notin w[k].left
    BY TakenWay
  <2> HIDE DEF c0
  <2>3. \A k \in 1..n : c0[k] \notin v[k].left
    BY <1>2, <2>1, <2>2 DEF TakenIn
  <2> QED
    BY <2>3 DEF ToCome, LeavesAt
<1>6. ASSUME NEW c \in WaysOf(j), ToCome(w, W, c) PROVE ToCome(v, W, c) \/ c = c0
  <2>1. SUFFICES ASSUME ~ToCome(v, W, c) PROVE c = c0
    OBVIOUS
  <2>2. n <= Len(c) /\ c[n] = p /\ \A i \in 1..(n - 1) : c[i] = W[i]
    BY <1>6, <2>1, <1>9, TakenComes DEF ToCome
  <2>3. IsWay(j, c) /\ IsWay(j, c0)
    BY <1>2, WayIs
  <2> DEFINE m == Len(c)
  <2>4. m \in Nat /\ c \in Seq(PairsIn(j)) /\ c0 \in Seq(PairsIn(j))
    <3>1. StackSize \in Nat
      BY BuilderAssumption
    <3> QED
      BY <2>3, <3>1 DEF IsWay
  <2>5. m = n
    <3>1. SUFFICES ASSUME n + 1 <= m PROVE FALSE
      BY <1>1, <2>2, <2>4
    <3>2. n + 1 \in 1..m /\ (n + 1) - 1 = n /\ n # 0
      BY <1>1, <2>4, <3>1
    <3>3. GoesOnAt(j, c, (n + 1) - 1, c[n + 1])
      BY <2>3, <3>2 DEF IsWay
    <3> QED
      BY <2>2, <3>2, <3>3 DEF GoesOnAt
  <2>6. \A i \in 1..n : c[i] = c0[i]
    <3>1. \A i \in 1..n : i = n \/ i \in 1..(n - 1)
      BY <1>1
    <3> QED
      BY <1>2, <2>2, <3>1
  <2> DEFINE S == PairsIn(j)
  <2> HIDE DEF S, c0
  <2>7. c \in Seq(S) /\ c0 \in Seq(S) /\ Len(c) = n /\ Len(c0) = n
    BY <1>2, <2>4, <2>5 DEF S
  <2> QED
    BY <2>6, <2>7
<1> HIDE DEF c0
<1>7. Covers(j, w, W, E, N)
  BY <1>1 DEF Walked
<1>8. Covers(j, v, W, E \cup {z}, M)
  <2>1. \A q \in E \cup {z} : M[q] \in WaysOf(j) /\ ~ToCome(v, W, M[q])
    BY <1>1, <1>2, <1>4, <1>5, <1>7 DEF Covers
  <2>2. \A c \in WaysOf(j) : (\E q \in E \cup {z} : M[q] = c) \/ ToCome(v, W, c)
    BY <1>1, <1>6, <1>7 DEF Covers
  <2>3. \A q, x \in E \cup {z} : q < x => ~Begins(M[x], M[q])
    BY TakenFresh
  <2> QED
    BY <2>1, <2>2, <2>3 DEF Covers
<1> QED
  BY <1>3, <1>8 DEF Walked

\* A pair is taken that leads to a table, whose pairs are to come.
LEMMA WalkTable ==
  ASSUME NEW j, NEW w, NEW W, NEW E, NEW N, NEW n, NEW p, NEW z, NEW M,
         Takes(j, w, W, E, N, n, p, z, M), NEW v, TakenIn(w, v, n, p), Len(v) = n + 1,
         p[2][1] = "table", p[2][2] \in DOMAIN j.heap, v[n + 1].left = j.heap[p[2][2]],
         n <= StackSize
  PROVE  Walked(j, v, Append(W, p), E \cup {z}, M)
<1> DEFINE V == Append(W, p)
<1>1. /\ Walked(j, w, W, E, N) /\ n = Len(w) /\ n \in Nat /\ n >= 1
      /\ \A q \in E : M[q] = N[q]
      /\ M[z] = V
  BY DEF Takes
<1>2. V \in WaysOf(j) /\ Len(V) = n /\ V[n] = p /\ (\A i \in 1..(n - 1) : V[i] = W[i] /\ W[i] \notin w[i].left)
      /\ Len(W) = n - 1
  BY TakenWay
<1>3. IsWay(j, V)
  BY <1>2, WayIs
<1> HIDE DEF V
<1>4. \A k \in 1..n : k = n \/ k \in 1..(n - 1)
  BY <1>1
<1>5. \A k \in 1..(n + 1) : k = n + 1 \/ k \in 1..n
  BY <1>1
<1>6. n + 1 \in 1..(n + 1) /\ (n + 1) - 1 = n /\ n # 0 /\ n \in 1..n
  BY <1>1
<1>7. OnWay(j, v, V)
  <2>1. OnWay(j, w, W)
    BY <1>1 DEF Walked
  <2>2. \A k \in 1..n : v[k].left \subseteq w[k].left
    BY <1>4 DEF TakenIn
  <2>3. \A k \in 1..n : V[k] \notin v[k].left
    BY <1>2, <1>4 DEF TakenIn
  <2>4. \A k \in 1..n : \A q : GoesOnAt(j, W, k - 1, q) => GoesOnAt(j, V, k - 1, q)
    <3>1. \A k \in 1..n : k - 1 = 0 \/ k - 1 \in 1..(n - 1)
      BY <1>1
    <3> QED
      BY <1>2, <3>1 DEF GoesOnAt
  <2>5. ASSUME NEW k \in 1..(n + 1), NEW q \in v[k].left
        PROVE  GoesOnAt(j, V, k - 1, q) /\ q \in PairsIn(j)
    <3>1. CASE k \in 1..n
      BY <1>1, <2>1, <2>2, <2>4, <3>1 DEF OnWay
    <3>2. CASE k = n + 1
      BY <1>2, <1>6, <3>2 DEF GoesOnAt, PairsIn
    <3> QED
      BY <1>5, <3>1, <3>2
  <2> QED
    BY <1>2, <1>3, <2>3, <2>5 DEF OnWay, IsWay
<1>8. Agrees(V, W, n)
  BY <1>2 DEF Agrees
<1>9. ASSUME NEW q \in E PROVE ~ToCome(v, V, N[q])
  <2>1. SUFFICES ASSUME ToCome(v, V, N[q]) PROVE FALSE
    OBVIOUS
  <2>2. ~ToCome(w, W, N[q])
    BY <1>1 DEF Walked, Covers
  <2>3. PICK k \in 1..(n + 1) : LeavesAt(v, V, N[q], k)
    BY <2>1 DEF ToCome
  <2>4. k \notin 1..n
    BY <1>8, <2>2, <2>3, TakenComes
  <2>5. k = n + 1
    BY <1>5, <2>4
  <2>6. n + 1 <= Len(N[q]) /\ \A i \in 1..n : N[q][i] = V[i]
    BY <1>6, <2>3, <2>5 DEF LeavesAt
  <2>7. N[q] \in WaysOf(j)
    BY <1>1 DEF Walked, Covers
  <2>8. Len(N[q]) \in Nat
    BY <2>7, WayIs DEF IsWay
  <2>9. n <= Len(N[q]) /\ p = N[q][n] /\ \A i \in 1..(n - 1) : i \in 1..n
    BY <1>1, <1>2, <1>6, <2>6, <2>8
  <2>10. LeavesAt(w, W, N[q], n)
    BY <1>8, <2>6, <2>9 DEF LeavesAt, Takes, Agrees
  <2> QED
    BY <1>1, <1>6, <2>2, <2>10 DEF ToCome
<1>10. ~ToCome(v, V, V)
  <2>1. ~ \E k \in 1..n : LeavesAt(v, V, V, k)
    <3>1. \A k \in 1..n : V[k] \notin v[k].left
      BY <1>2, <1>4 DEF TakenIn
    <3> QED
      BY <3>1 DEF LeavesAt
  <2>2. ~LeavesAt(v, V, V, n + 1)
    <3>1. ~(n + 1 <= n)
      BY <1>1
    <3> QED
      BY <1>2, <3>1 DEF LeavesAt
  <2> QED
    BY <1>5, <2>1, <2>2 DEF ToCome
<1>11. ASSUME NEW c \in WaysOf(j), ToCome(w, W, c) PROVE ToCome(v, V, c) \/ c = V
  <2>1. SUFFICES ASSUME ~ToCome(v, V, c) PROVE c = V
    OBVIOUS
  <2>2. ~ \E k \in 1..n : LeavesAt(v, V, c, k)
    BY <1>6, <2>1, <1>1 DEF ToCome
  <2>3. n <= Len(c) /\ c[n] = p /\ \A i \in 1..(n - 1) : c[i] = W[i]
    BY <1>8, <1>11, <2>2, TakenComes
  <2>4. IsWay(j, c)
    BY WayIs
  <2> DEFINE m == Len(c)  S == PairsIn(j)
  <2>5. m \in Nat /\ c \in Seq(S) /\ V \in Seq(S)
    <3>1. StackSize \in Nat
      BY BuilderAssumption
    <3> QED
      BY <1>3, <2>4, <3>1 DEF IsWay
  <2>6. \A i \in 1..n : c[i] = V[i]
    BY <1>2, <1>4, <2>3
  <2>7. m = n
    <3>1. SUFFICES ASSUME n + 1 <= m PROVE FALSE
      BY <1>1, <2>3, <2>5
    <3>2. n + 1 \in 1..m
      BY <1>1, <2>5, <3>1
    <3>3. GoesOnAt(j, c, (n + 1) - 1, c[n + 1])
      BY <2>4, <3>2 DEF IsWay
    <3>4. c[n + 1] \in v[n + 1].left
      BY <1>6, <2>3, <3>3 DEF GoesOnAt
    <3>5. LeavesAt(v, V, c, n + 1)
      BY <1>6, <2>6, <3>1, <3>4 DEF LeavesAt
    <3> QED
      BY <1>6, <2>1, <3>5 DEF ToCome
  <2> HIDE DEF S
  <2>8. Len(c) = n
    BY <2>7
  <2> QED
    BY <1>2, <2>5, <2>6, <2>8
<1>12. Covers(j, w, W, E, N)
  BY <1>1 DEF Walked
<1>13. Covers(j, v, V, E \cup {z}, M)
  <2>1. \A q \in E \cup {z} : M[q] \in WaysOf(j) /\ ~ToCome(v, V, M[q])
    BY <1>1, <1>2, <1>9, <1>10, <1>12 DEF Covers
  <2>2. ASSUME NEW c \in WaysOf(j) PROVE (\E q \in E \cup {z} : M[q] = c) \/ ToCome(v, V, c)
    BY <1>1, <1>11, <1>12 DEF Covers
  <2>3. \A q, x \in E \cup {z} : q < x => ~Begins(M[x], M[q])
    BY TakenFresh
  <2> QED
    BY <2>1, <2>2, <2>3 DEF Covers
<1> QED
  BY <1>7, <1>13 DEF Walked, V

\* The last call of w, which has nothing left, returns.
Returns(w, v, n) ==
  /\ n \in Nat /\ n >= 1 /\ Len(w) = n + 1 /\ w[n + 1].left = {}
  /\ Len(v) = n /\ \A k \in 1..n : v[k] = w[k]

LEMMA WalkBack ==
  ASSUME NEW j, NEW w, NEW W, NEW E, NEW N, Walked(j, w, W, E, N),
         NEW n, NEW v, Returns(w, v, n), NEW V, V = Front(W)
  PROVE  Walked(j, v, V, E, N)
<1>9. /\ n \in Nat /\ n >= 1 /\ Len(w) = n + 1 /\ w[n + 1].left = {}
      /\ Len(v) = n /\ \A k \in 1..n : v[k].left = w[k].left
  BY DEF Returns
<1> USE <1>9
<1> DEFINE S == PairsIn(j)  m == n - 1
<1>1. OnWay(j, w, W) /\ Covers(j, w, W, E, N)
  BY DEF Walked
<1>2. W \in Seq(S) /\ Len(W) = n /\ Len(W) <= StackSize
  <2>1. W \in Seq(S) /\ n + 1 = Len(W) + 1 /\ Len(W) <= StackSize
    BY <1>1 DEF OnWay
  <2> HIDE DEF S
  <2>2. Len(W) \in Nat
    BY <2>1
  <2> QED
    BY <2>1, <2>2
<1>3. V \in Seq(S) /\ Len(V) = n - 1 /\ \A i \in 1..(n - 1) : V[i] = W[i]
  <2>1. m \in Nat /\ m <= Len(W) /\ V = SubSeq(W, 1, m)
    BY <1>2 DEF Front
  <2> HIDE DEF S, m
  <2>2. V \in Seq(S) /\ Len(V) = m /\ \A i \in 1..m : V[i] = W[i]
    BY <1>2, <2>1
  <2> QED
    BY <2>2 DEF m
<1>4. /\ \A k \in 1..n : \A i \in 1..(k - 1) : V[i] = W[i]
      /\ \A k \in 1..(n + 1) : k \in 1..n \/ k = n + 1
      /\ \A k \in 1..(n - 1) : k \in 1..n
      /\ \A k \in 1..n : k \in 1..(n + 1)
  BY <1>3
<1>5. \A k \in 1..n : \A q : GoesOnAt(j, W, k - 1, q) <=> GoesOnAt(j, V, k - 1, q)
  <2>1. \A k \in 1..n : k - 1 = 0 \/ k - 1 \in 1..(n - 1)
    OBVIOUS
  <2> QED
    BY <1>3, <2>1 DEF GoesOnAt
<1>6. OnWay(j, v, V)
  <2>1. Len(v) = Len(V) + 1 /\ Len(V) <= StackSize
    <3>1. StackSize \in Nat
      BY BuilderAssumption
    <3> QED
      BY <1>2, <1>3, <3>1
  <2>2. \A k \in 1..(n - 1) : V[k] \notin v[k].left
    BY <1>1, <1>2, <1>3, <1>4 DEF OnWay
  <2>3. \A k \in 1..(n - 1) : GoesOnAt(j, V, k - 1, V[k])
    BY <1>1, <1>2, <1>3, <1>4, <1>5 DEF OnWay
  <2>4. \A k \in 1..n : \A p \in v[k].left : GoesOnAt(j, V, k - 1, p) /\ p \in PairsIn(j)
    BY <1>1, <1>4, <1>5 DEF OnWay
  <2> QED
    BY <1>3, <2>1, <2>2, <2>3, <2>4 DEF OnWay
<1>7. \A c : ToCome(v, V, c) <=> ToCome(w, W, c)
  <2>1. ASSUME NEW c, NEW k \in 1..n PROVE LeavesAt(v, V, c, k) <=> LeavesAt(w, W, c, k)
    BY <1>4 DEF LeavesAt
  <2>2. \A c : ~LeavesAt(w, W, c, n + 1)
    BY DEF LeavesAt
  <2> QED
    BY <1>4, <2>1, <2>2 DEF ToCome
<1>8. Covers(j, v, V, E, N)
  BY <1>1, <1>7 DEF Covers
<1> QED
  BY <1>6, <1>8 DEF Walked

\* At the end all ways have been walked.
AllWays(j, E, N) ==
  /\ \A q \in E : N[q] \in WaysOf(j)
  /\ \A c \in WaysOf(j) : \E q \in E : N[q] = c
  /\ \A q, x \in E : q < x => ~Begins(N[x], N[q])

LEMMA WalkEnds ==
  ASSUME NEW j, NEW w, NEW W, NEW E, NEW N, Walked(j, w, W, E, N), Len(w) = 1, w[1].left = {}
  PROVE  AllWays(j, E, N)
<1>1. \A c : ~ToCome(w, W, c)
  BY DEF ToCome, LeavesAt
<1> QED
  BY <1>1 DEF Walked, Covers, AllWays

-----------------------------------------------------------------------------
(* The tables seen: each but the root was found under a pair that is not   *)
(* left anywhere, so that no table of a tree is found again.               *)

ArrayIn(j, x) == j.heap[x] # {} /\ TIsArray(j.heap[x])

FoundUnder(j, w, x, y, p) ==
  /\ y \in DOMAIN j.heap /\ p \in j.heap[y] /\ p[2][1] = "table" /\ p[2][2] = x
  /\ \A k \in 1..Len(w) : w[k].tbl = y => p \notin w[k].left

CallIs(j, f) ==
  /\ f.tbl \in DOMAIN j.heap /\ f.left \subseteq j.heap[f.tbl]
  /\ f.array = ArrayIn(j, f.tbl)

Seen(j, w, seen) ==
  /\ \A k \in 1..Len(w) : CallIs(j, w[k]) /\ w[k].tbl \in seen
  /\ \A k, l \in 1..Len(w) : w[k].tbl = w[l].tbl => k = l
  /\ \A x \in seen : x = j.root \/ \E y \in seen : \E p : FoundUnder(j, w, x, y, p)

SameTables(w, v, n) == \A k \in 1..n : v[k].tbl = w[k].tbl /\ v[k].array = w[k].array

LEMMA SeenStarts ==
  ASSUME NEW j, NEW f, CallIs(j, f), f.tbl = j.root
  PROVE  Seen(j, <<f>>, {j.root})
<1> DEFINE w == <<f>>
<1>1. Len(w) = 1 /\ w[1] = f
  OBVIOUS
<1> HIDE DEF w
<1> QED
  BY <1>1 DEF Seen, w

\* A table a pair leads to that is left has not been seen.
LEMMA NotSeen ==
  ASSUME NEW j, IsTree(j.heap, j.root), JobOK(j), NEW w, NEW seen, Seen(j, w, seen),
         NEW n \in 1..Len(w), NEW p \in w[n].left, p[2][1] = "table"
  PROVE  p[2][2] \notin seen
<1> DEFINE sub == p[2][2]  heap == j.heap
<1>1. SUFFICES ASSUME sub \in seen PROVE FALSE
  OBVIOUS
<1>2. w[n].tbl \in DOMAIN heap /\ p \in heap[w[n].tbl]
  BY DEF Seen, CallIs
<1>3. sub # j.root
  BY <1>2 DEF IsTree, Subtables
<1>4. PICK y \in seen : \E q : FoundUnder(j, w, sub, y, q)
  BY <1>1, <1>3 DEF Seen
<1>5. PICK q : FoundUnder(j, w, sub, y, q)
  BY <1>4
<1>6. y \in DOMAIN heap /\ q \in heap[y] /\ q[2][1] = "table" /\ q[2][2] = sub
  BY <1>5 DEF FoundUnder
<1>7. PairOK(heap, p) /\ PairOK(heap, q)
  BY <1>2, <1>6 DEF JobOK, TableOK
<1>8. p[2] = q[2]
  BY <1>6, <1>7 DEF PairOK
<1>9. y = w[n].tbl /\ p = q
  BY <1>2, <1>6, <1>8 DEF IsTree, Subtables
<1> QED
  BY <1>5, <1>9 DEF FoundUnder

\* What is found stays found when there is less left.
LEMMA SeenLess ==
  ASSUME NEW j, NEW w, NEW seen, Seen(j, w, seen), NEW n \in Nat, n >= 1, Len(w) = n,
         NEW p, NEW v, TakenIn(w, v, n, p), SameTables(w, v, n), Len(v) = n
  PROVE  Seen(j, v, seen)
<1>1. \A k \in 1..n : k = n \/ k \in 1..(n - 1)
  OBVIOUS
<1>2. \A k \in 1..n : v[k].left \subseteq w[k].left
  BY <1>1 DEF TakenIn
<1>3. \A k \in 1..n : v[k].tbl = w[k].tbl /\ v[k].array = w[k].array
  BY DEF SameTables
<1>4. \A k \in 1..n : CallIs(j, v[k])
  BY <1>2, <1>3 DEF Seen, CallIs
<1>5. \A x, y, q : FoundUnder(j, w, x, y, q) => FoundUnder(j, v, x, y, q)
  BY <1>2, <1>3 DEF FoundUnder
<1> QED
  BY <1>3, <1>4, <1>5 DEF Seen

LEMMA SeenDeeper ==
  ASSUME NEW j, IsTree(j.heap, j.root), JobOK(j), NEW w, NEW seen, Seen(j, w, seen),
         NEW n \in Nat, n >= 1, Len(w) = n,
         NEW p \in w[n].left, p[2][1] = "table", NEW v, TakenIn(w, v, n, p), SameTables(w, v, n),
         Len(v) = n + 1, CallIs(j, v[n + 1]), v[n + 1].tbl = p[2][2]
  PROVE  Seen(j, v, seen \cup {p[2][2]})
<1> DEFINE sub == p[2][2]  y0 == w[n].tbl
<1>1. sub \notin seen
  BY NotSeen
<1> HIDE DEF sub
<1>2. /\ \A k \in 1..n : k = n \/ k \in 1..(n - 1)
      /\ \A k \in 1..(n + 1) : k = n + 1 \/ k \in 1..n
      /\ n \in 1..n /\ n + 1 \notin 1..n
  OBVIOUS
<1>3. \A k \in 1..n : v[k].left \subseteq w[k].left
  BY <1>2 DEF TakenIn
<1>4. \A k \in 1..n : v[k].tbl = w[k].tbl /\ v[k].array = w[k].array /\ v[k].tbl \in seen
  BY DEF SameTables, Seen
<1>5. \A k \in 1..n : CallIs(j, v[k])
  BY <1>3, <1>4 DEF Seen, CallIs
<1>6. v[n + 1].tbl = sub
  BY DEF sub
<1>7. ASSUME NEW x, NEW y \in seen, NEW q, FoundUnder(j, w, x, y, q) PROVE FoundUnder(j, v, x, y, q)
  <2>1. \A k \in 1..(n + 1) : v[k].tbl = y => k \in 1..n
    BY <1>1, <1>2, <1>6
  <2>2. \A k \in 1..n : v[k].tbl = y => q \notin v[k].left
    BY <1>3, <1>4, <1>7 DEF FoundUnder
  <2> QED
    BY <1>7, <2>1, <2>2 DEF FoundUnder
<1>8. FoundUnder(j, v, sub, y0, p) /\ y0 \in seen
  <2>1. y0 \in seen /\ y0 \in DOMAIN j.heap /\ p \in j.heap[y0]
    BY <1>2 DEF Seen, CallIs
  <2>2. ASSUME NEW k \in 1..(n + 1), v[k].tbl = y0 PROVE k = n
    <3>1. k \in 1..n
      BY <1>1, <1>2, <1>6, <2>1, <2>2
    <3> QED
      BY <1>2, <1>4, <2>2, <3>1 DEF Seen
  <2>3. p \notin v[n].left
    BY DEF TakenIn
  <2> HIDE DEF y0
  <2> QED
    BY <2>1, <2>2, <2>3 DEF FoundUnder, sub
<1> HIDE DEF y0
<1>9. \A k \in 1..(n + 1) : CallIs(j, v[k]) /\ v[k].tbl \in seen \cup {sub}
  BY <1>2, <1>4, <1>5, <1>6
<1>10. ASSUME NEW k \in 1..(n + 1), NEW l \in 1..(n + 1), v[k].tbl = v[l].tbl PROVE k = l
  <2>1. CASE k = n + 1 \/ l = n + 1
    BY <1>1, <1>2, <1>4, <1>6, <1>10, <2>1
  <2>2. CASE k \in 1..n /\ l \in 1..n
    BY <1>4, <1>10, <2>2 DEF Seen
  <2> QED
    BY <1>2, <2>1, <2>2
<1>11. ASSUME NEW x \in seen \cup {sub}
       PROVE  x = j.root \/ \E y \in seen \cup {sub} : \E q : FoundUnder(j, v, x, y, q)
  <2>1. CASE x = sub
    BY <1>8, <2>1
  <2>2. CASE x \in seen
    BY <1>7, <2>2 DEF Seen
  <2> QED
    BY <2>1, <2>2
<1> QED
  BY <1>9, <1>10, <1>11 DEF Seen, sub

LEMMA SeenBack ==
  ASSUME NEW j, NEW w, NEW seen, Seen(j, w, seen), NEW n, NEW v, Returns(w, v, n)
  PROVE  Seen(j, v, seen)
<1>3. n \in Nat /\ Len(w) = n + 1 /\ Len(v) = n /\ \A k \in 1..n : v[k] = w[k]
  BY DEF Returns
<1> USE <1>3
<1>1. \A k \in 1..n : k \in 1..(n + 1)
  OBVIOUS
<1>2. \A x, y, q : FoundUnder(j, w, x, y, q) => FoundUnder(j, v, x, y, q)
  BY <1>1 DEF FoundUnder
<1> QED
  BY <1>1, <1>2 DEF Seen

-----------------------------------------------------------------------------
(* The calls, as the steps change them.                                    *)

Calls(A, B, C) == [tbl : A, left : B, array : C]

LEMMA WithoutIs ==
  ASSUME NEW A, NEW B, NEW C, NEW w \in Seq(Calls(A, B, C)), NEW n \in Nat, n >= 1, Len(w) = n,
         NEW p
  PROVE  LET v == Without(w, p)
         IN  Len(v) = n /\ TakenIn(w, v, n, p) /\ SameTables(w, v, n) /\ \E S : v \in Seq(S)
<1> DEFINE f == w[n]  g == [f EXCEPT !.left = f.left \ {p}]  v == [w EXCEPT ![n] = g]
<1>1. Without(w, p) = v
  BY DEF Without
<1>2. f \in Calls(A, B, C)
  OBVIOUS
<1>3. g.left = f.left \ {p} /\ g.tbl = f.tbl /\ g.array = f.array
  BY <1>2 DEF Calls
<1> HIDE DEF g, f
<1>4. DOMAIN w = 1..n /\ n \in 1..n
  OBVIOUS
<1>5. DOMAIN v = 1..n /\ v[n] = g /\ \A k \in 1..n : k # n => v[k] = w[k]
  BY <1>4
<1> HIDE DEF v
<1> DEFINE S == {w[k] : k \in 1..n} \cup {v[n]}
<1>6. \A k \in 1..n : v[k] \in S
  BY <1>5
<1>7. v = [k \in 1..n |-> v[k]]
  <2> USE DEF v
  <2> QED
    BY <1>4
<1> HIDE DEF S
<1>8. v \in [1..n -> S]
  BY <1>6, <1>7
<1>9. v \in Seq(S) /\ Len(v) = n
  BY <1>8
<1>10. TakenIn(w, v, n, p)
  <2>1. \A k \in 1..(n - 1) : k \in 1..n /\ k # n
    OBVIOUS
  <2> QED
    BY <1>3, <1>5, <2>1 DEF TakenIn, f
<1>11. SameTables(w, v, n)
  BY <1>3, <1>5 DEF SameTables, f
<1> QED
  BY <1>1, <1>9, <1>10, <1>11

LEMMA DeeperIs ==
  ASSUME NEW A, NEW B, NEW C, NEW w \in Seq(Calls(A, B, C)), NEW n \in Nat, n >= 1, Len(w) = n,
         NEW p, NEW g
  PROVE  LET v == Append(Without(w, p), g)
         IN  Len(v) = n + 1 /\ TakenIn(w, v, n, p) /\ SameTables(w, v, n) /\ v[n + 1] = g
<1> DEFINE r == Without(w, p)  v == Append(r, g)
<1>1. Len(r) = n /\ TakenIn(w, r, n, p) /\ SameTables(w, r, n) /\ \E S : r \in Seq(S)
  BY WithoutIs
<1> HIDE DEF r
<1>2. Len(v) = n + 1 /\ v[n + 1] = g /\ \A k \in 1..n : v[k] = r[k]
  BY <1>1
<1> HIDE DEF v
<1>3. \A k \in 1..(n - 1) : k \in 1..n
  OBVIOUS
<1>4. TakenIn(w, v, n, p) /\ SameTables(w, v, n)
  BY <1>1, <1>2, <1>3 DEF TakenIn, SameTables
<1> QED
  BY <1>2, <1>4 DEF v, r

LEMMA FrontIs ==
  ASSUME NEW S, NEW w \in Seq(S), NEW n \in Nat, Len(w) = n + 1
  PROVE  Len(Front(w)) = n /\ Front(w) \in Seq(S) /\ \A k \in 1..n : Front(w)[k] = w[k]
<1> DEFINE v == SubSeq(w, 1, n)
<1>1. Front(w) = v
  BY DEF Front
<1>2. v \in Seq(S) /\ Len(v) = n /\ \A k \in 1..n : v[k] = w[k]
  OBVIOUS
<1> QED
  BY <1>1, <1>2

-----------------------------------------------------------------------------
(* The operations of the builder on a document in which nothing goes wrong. *)

Tidy(b) == b.bad # "over" /\ "SIZE_OVERFLOW" \notin b.err

\* An element is in, with its value.
ValueIn(b, c, e) ==
  /\ CameIn(b, c, e) /\ c.finished = FALSE /\ c.bad = "no" /\ b.err \subseteq c.err
  /\ c.slips \subseteq b.slips \cup {"wrapped"}

\* A sub-object is opened.
SubIn(b, c, e) ==
  /\ OpenedIn(b, c, e) /\ c.finished = FALSE /\ c.bad = "no"
  /\ b.err \subseteq c.err
  /\ c.slips \subseteq b.slips \cup {"wrapped"}

\* The innermost one is ended.
CloseIn(b, a, c) ==
  /\ EndedIn(b, a, c) /\ c.finished = FALSE /\ c.bad = "no"
  /\ b.err \subseteq c.err
  /\ c.slips \subseteq b.slips \cup {"wrapped"}

\* The document is ended.
EndIn(b, c) ==
  /\ c.data = Placed(b.data, b.cur, Zero) /\ c.bad = "no" /\ c.size = b.cur + 1
  /\ c.slips \subseteq b.slips \cup {"wrapped"}

LEMMA EstartTidy ==
  ASSUME NEW b, BuilderOK(b), b.finished = FALSE, NEW type, NEW name \in Seq(Nat),
         CheckFieldName(name).ok, NEW val, NEW len, NEW d \in Nat,
         "SIZE_OVERFLOW" \notin Estart(b, type, name, val, len, d).b.err
  PROVE  Estart(b, type, name, val, len, d).ok = TRUE
<1> DEFINE r == Estart(b, type, name, val, len, d)
           n == 1 + Len(name) + 1 + d
           space == EnsureSpace(b, n)
           check == CheckFieldName(name)
           element == [type |-> type, key |-> name, val |-> val, len |-> len]
           flagged == Flag(space.b, check.err)
           started == Advance(Place(flagged, element), 2 + Len(name))
<1>1. n \in Nat /\ BufOK(b)
  BY DEF BuilderOK
<1>2. r = IF ~space.ok THEN space ELSE IF ~check.ok THEN Result(FALSE, flagged)
          ELSE Result(TRUE, started)
  BY DEF Estart
<1>3. space.ok \in BOOLEAN /\ (~space.ok => space.b.err = {"SIZE_OVERFLOW"})
  BY <1>1, EnsureSpaceOK
<1>4. check.ok /\ "SIZE_OVERFLOW" \notin r.b.err
  OBVIOUS
<1> HIDE DEF n, space, check, element, started, flagged, r
<1>5. space.ok
  BY <1>2, <1>3, <1>4
<1>6. r.ok = TRUE
  BY <1>2, <1>4, <1>5 DEF Result
<1> QED
  BY <1>6 DEF r

LEMMA AppendValueTidy ==
  ASSUME NEW b, BuilderOK(b), b.bad = "no", b.finished = FALSE,
         NEW type \in Types, NEW name \in Seq(Nat), CheckFieldName(name).ok, NEW val,
         NEW len \in Nat, Tidy(AppendValue(b, type, name, val, len).b)
  PROVE  /\ AppendValue(b, type, name, val, len).ok = TRUE
         /\ ValueIn(b, AppendValue(b, type, name, val, len).b,
                    [type |-> type, key |-> name, val |-> val, len |-> len])
<1> DEFINE e == Estart(b, type, name, val, len, len)
           c == Advance(e.b, len)
           new == [type |-> type, key |-> name, val |-> val, len |-> len]
           head == 2 + Len(name)
           r == AppendValue(b, type, name, val, len)
<1>1. BufOK(b) /\ Len(name) \in Nat /\ b.cur \in Nat
  BY DEF BuilderOK, BufOK
<1>2. BufOK(e.b) /\ e.ok \in BOOLEAN
  BY <1>1, EstartOK
<1>3. r = IF e.ok THEN Result(TRUE, c) ELSE e
  BY DEF AppendValue
<1>4. "SIZE_OVERFLOW" \notin e.b.err => e.ok = TRUE
  BY EstartTidy
<1>5. e.ok = TRUE => Added(b, e.b, new, head)
  BY EstartAdded
<1>6. Tidy(r.b)
  OBVIOUS
<1>7. IsElement(new) /\ new.type = type /\ new.key = name /\ new.len = len
  BY ElementIs
<1>8. IsBson(e.b) /\ head \in Nat
  BY <1>1, <1>2 DEF BufOK
<1> HIDE DEF e, new, r
<1>9. e.ok = TRUE
  BY <1>2, <1>3, <1>4, <1>6 DEF Tidy
<1>10. Added(b, c, new, head + len)
  <2> HIDE DEF head
  <2> QED
    BY <1>1, <1>5, <1>8, <1>9, AddedOn
<1> HIDE DEF c
<1>11. r = Result(TRUE, c)
  BY <1>3, <1>9
<1>12. r.ok = TRUE /\ r.b = c
  BY <1>11 DEF Result
<1>13. c.cur = b.cur + 2 + Len(name) + len
  BY <1>1, <1>10 DEF Added
<1>14. c.bad = "no"
  BY <1>6, <1>10, <1>12 DEF Added, Tidy
<1>15. c.cur = b.cur + 2 + Len(new.key) + new.len
  BY <1>7, <1>13
<1>16. ValueIn(b, c, new)
  BY <1>10, <1>14, <1>15 DEF ValueIn, CameIn, Added
<1> QED
  BY <1>12, <1>16 DEF r, new

LEMMA StartSubTidy ==
  ASSUME NEW b, BuilderOK(b), b.bad = "no", b.finished = FALSE, NEW type \in {"OBJECT", "ARRAY"},
         NEW name \in Seq(Nat), CheckFieldName(name).ok, Len(b.stack) # StackSize,
         Tidy(StartSub(b, type, name).b)
  PROVE  /\ StartSub(b, type, name).ok = TRUE
         /\ SubIn(b, StartSub(b, type, name).b,
                  [type |-> type, key |-> name, val |-> <<>>, len |-> 0])
<1> DEFINE e == Estart(b, type, name, <<>>, 0, 5)
           new == [type |-> type, key |-> name, val |-> <<>>, len |-> 0]
           head == 2 + Len(name)
           pushed == [e.b EXCEPT !.stack = Append(@, e.b.cur)]
           c == Advance(pushed, 4)
           r == StartSub(b, type, name)
<1>1. Len(name) \in Nat /\ head \in Nat /\ type \in Types /\ b.cur \in Nat
  BY DEF Types, BuilderOK, BufOK
<1>2. BufOK(e.b) /\ e.ok \in BOOLEAN
  BY <1>1, EstartOK DEF BuilderOK
<1>3. r = IF ~e.ok THEN e ELSE Result(TRUE, c)
  BY DEF StartSub
<1>4. new.key = name
  OBVIOUS
<1>5. "SIZE_OVERFLOW" \notin e.b.err => e.ok = TRUE
  BY EstartTidy
<1>6. e.ok = TRUE => Added(b, e.b, new, head)
  BY EstartAdded
<1> DEFINE d == e.b
<1>7. IsBson(d)
  BY <1>2 DEF BufOK
<1>8. pushed = [d EXCEPT !.stack = Append(d.stack, d.cur)]
  OBVIOUS
<1>9. Tidy(r.b)
  OBVIOUS
<1> HIDE DEF new, head, d, pushed
<1>10. /\ IsBson(pushed) /\ pushed.data = d.data /\ pushed.cur = d.cur
       /\ pushed.finished = d.finished /\ pushed.bad = d.bad /\ pushed.slips = d.slips
       /\ pushed.err = d.err /\ pushed.stack = Append(d.stack, d.cur)
  BY <1>7, <1>8 DEF IsBson
<1>11. /\ c.data = d.data /\ c.cur = d.cur + 4 /\ c.finished = d.finished
       /\ c.slips = d.slips /\ c.err = d.err /\ c.stack = Append(d.stack, d.cur)
       /\ c.bad \in {"over", d.bad}
  <2>1. /\ c.data = pushed.data /\ c.cur = pushed.cur + 4 /\ c.finished = pushed.finished
        /\ c.slips = pushed.slips /\ c.err = pushed.err /\ c.stack = pushed.stack
        /\ c.bad = IF pushed.bad = "no" /\ pushed.cur + 4 > pushed.dataSize THEN "over"
                   ELSE pushed.bad
    BY <1>10, AdvanceFields
  <2> HIDE DEF c
  <2> QED
    BY <2>1, <1>10
<1> HIDE DEF c, r, e
<1>12. e.ok = TRUE
  BY <1>2, <1>3, <1>5, <1>9 DEF Tidy
<1>13. r.ok = TRUE /\ r.b = c
  BY <1>3, <1>12 DEF Result
<1>14. Added(b, d, new, head)
  BY <1>6, <1>12 DEF d
<1>15. d.cur = b.cur + 2 + Len(name)
  <2> DEFINE k == Len(name)  x == b.cur  y == d.cur
  <2>1. y = x + head /\ head = 2 + k /\ k \in Nat /\ x \in Nat
    BY <1>1, <1>14 DEF Added, head
  <2> HIDE DEF k, x, y
  <2>2. y = x + 2 + k
    BY <2>1
  <2> QED
    BY <2>2 DEF k, x, y
<1>16. c.bad = "no"
  BY <1>9, <1>11, <1>13, <1>14 DEF Tidy, Added
<1>17. c.cur = b.cur + 2 + Len(new.key) + 4 /\ c.stack = Append(b.stack, b.cur + 2 + Len(new.key))
  <2>1. d.cur = b.cur + 2 + Len(new.key)
    BY <1>4, <1>15
  <2>2. d.stack = b.stack
    BY <1>14 DEF Added
  <2> QED
    BY <1>11, <2>1, <2>2
<1>18. SubIn(b, c, new)
  BY <1>11, <1>14, <1>16, <1>17 DEF SubIn, OpenedIn, Added
<1> QED
  BY <1>13, <1>18 DEF r, new

LEMMA FinishObjectTidy ==
  ASSUME NEW b, BuilderOK(b), b.bad = "no", b.finished = FALSE, b.stack # <<>>,
         Tidy(FinishObject(b).b)
  PROVE  FinishObject(b).ok = TRUE /\ \E a : CloseIn(b, a, FinishObject(b).b)
<1> DEFINE space == EnsureSpace(b, 1)
           z == AppendZero(space.b)
           start == b.stack[Len(b.stack)]
           patched == [p \in DOMAIN z.data |->
                         IF z.data[p].type # "EOO" /\ Body(z, p) = start
                           THEN [z.data[p] EXCEPT !.len = z.cur - start] ELSE z.data[p]]
           n == Len(b.stack) - 1
           filled == [z EXCEPT !.data = patched]
           closed == [filled EXCEPT !.stack = SubSeq(z.stack, 1, Len(z.stack) - 1)]
           r == FinishObject(b)
<1>1. /\ space.ok \in BOOLEAN
      /\ space.ok = TRUE => Zeroed(b, z) /\ IsBson(z)
  BY ZeroBegins DEF BufOK
<1>2. ~space.ok => space.b.err = {"SIZE_OVERFLOW"}
  <2>1. BufOK(b) /\ 1 \in Nat
    BY DEF BuilderOK
  <2> QED
    BY <2>1, EnsureSpaceOK
<1>3. r = IF ~space.ok THEN space ELSE Result(TRUE, closed)
  <2>1. closed = [z EXCEPT !.data = patched, !.stack = SubSeq(@, 1, Len(@) - 1)]
    OBVIOUS
  <2> QED
    BY <2>1 DEF FinishObject
<1>4. Tidy(r.b)
  OBVIOUS
<1>5. /\ DOMAIN patched = DOMAIN z.data
      /\ \A p \in DOMAIN z.data :
           patched[p] = IF z.data[p].type # "EOO" /\ Body(z, p) = start
                          THEN [z.data[p] EXCEPT !.len = z.cur - start] ELSE z.data[p]
  OBVIOUS
<1> HIDE DEF space, z, patched, start
<1>6. space.ok = TRUE
  <2> HIDE DEF r
  <2> QED
    BY <1>1, <1>2, <1>3, <1>4 DEF Tidy
<1>7. Zeroed(b, z) /\ IsBson(z)
  BY <1>1, <1>6
<1>8. /\ IsBson(filled) /\ filled.data = patched /\ filled.cur = z.cur
      /\ filled.finished = z.finished /\ filled.slips = z.slips /\ filled.err = z.err
      /\ filled.bad = z.bad
  BY <1>7 DEF IsBson
<1> HIDE DEF filled
<1>9. /\ closed.data = patched /\ closed.cur = z.cur /\ closed.finished = z.finished
      /\ closed.stack = SubSeq(z.stack, 1, Len(z.stack) - 1)
      /\ closed.slips = z.slips /\ closed.err = z.err /\ closed.bad = z.bad
  BY <1>8 DEF IsBson
<1> HIDE DEF closed, r
<1>10. r.ok = TRUE /\ r.b = closed
  BY <1>3, <1>6 DEF Result
<1>11. closed.stack = SubSeq(b.stack, 1, Len(b.stack) - 1)
  BY <1>7, <1>9 DEF Zeroed
<1>12. Filled(z, b.stack[Len(b.stack)], closed)
  BY <1>5, <1>9 DEF Filled, start
<1>13. closed.bad = "no"
  BY <1>4, <1>7, <1>9, <1>10 DEF Tidy, Zeroed
<1>14. CloseIn(b, z, closed)
  BY <1>7, <1>9, <1>11, <1>12, <1>13 DEF CloseIn, EndedIn, Zeroed
<1> QED
  BY <1>10, <1>14 DEF r

LEMMA FinishTidy ==
  ASSUME NEW b, BuilderOK(b), b.bad = "no", b.finished = FALSE, b.stack = <<>>,
         Tidy(Finish(b).b)
  PROVE  /\ Finish(b).b.bad = "no" /\ b.err \subseteq Finish(b).b.err
         /\ Finish(b).b.slips \subseteq b.slips \cup {"wrapped"}
         /\ Finish(b).b.finished => EndIn(b, Finish(b).b)
<1> DEFINE space == EnsureSpace(b, 1)
           z == AppendZero(space.b)
           sized == [z EXCEPT !.size = z.cur]
           closed == [sized EXCEPT !.finished = TRUE]
           whole == [closed EXCEPT !.slips = z.slips]
           r == Finish(b)
<1>1. /\ space.ok \in BOOLEAN
      /\ space.ok = TRUE => Zeroed(b, z) /\ IsBson(z)
  BY ZeroBegins DEF BufOK
<1>2. ~space.ok => space.b.err = {"SIZE_OVERFLOW"}
  <2>1. BufOK(b) /\ 1 \in Nat
    BY DEF BuilderOK
  <2> QED
    BY <2>1, EnsureSpaceOK
<1>3. whole = [z EXCEPT !.size = z.cur, !.finished = TRUE,
                        !.slips = IF b.stack = <<>> THEN @ ELSE @ \cup {"early"}]
  OBVIOUS
<1>4. r = IF "NOT_UTF8" \in b.err THEN Result(FALSE, b)
          ELSE IF b.finished THEN Result(TRUE, b)
          ELSE IF ~space.ok THEN space ELSE Result(TRUE, whole)
  BY <1>3 DEF Finish
<1>5. Tidy(r.b)
  OBVIOUS
<1> HIDE DEF space, z, r
<1>6. r.b \in {b, whole} /\ (r.b # b => space.ok = TRUE)
  <2> HIDE DEF whole
  <2>1. r = Result(FALSE, b) \/ (space.ok # TRUE /\ r = space) \/ (space.ok = TRUE /\ r = Result(TRUE, whole))
    BY <1>1, <1>4
  <2>2. CASE r = Result(FALSE, b)
    BY <2>2 DEF Result
  <2>3. CASE space.ok # TRUE /\ r = space
    <3>1. r.b.err = {"SIZE_OVERFLOW"}
      BY <1>1, <1>2, <2>3
    <3> QED
      BY <1>5, <3>1 DEF Tidy
  <2>4. CASE space.ok = TRUE /\ r = Result(TRUE, whole)
    BY <2>4 DEF Result
  <2> QED
    BY <2>1, <2>2, <2>3, <2>4
<1>7. CASE r.b = b
  BY <1>7 DEF r
<1>8. CASE r.b # b
  <2>1. Zeroed(b, z) /\ IsBson(z) /\ r.b = whole
    BY <1>1, <1>6, <1>8
  <2>2. IsBson(sized) /\ sized.size = z.cur /\ sized.data = z.data /\ sized.bad = z.bad
        /\ sized.err = z.err
    BY <2>1 DEF IsBson
  <2> HIDE DEF sized
  <2>3. IsBson(closed) /\ closed.size = z.cur /\ closed.data = z.data /\ closed.bad = z.bad
        /\ closed.err = z.err
    BY <2>2, FinishedField
  <2> HIDE DEF closed
  <2>4. /\ whole.size = z.cur /\ whole.data = z.data /\ whole.slips = z.slips
        /\ whole.bad = z.bad /\ whole.err = z.err
    BY <2>3 DEF IsBson
  <2> HIDE DEF whole
  <2>5. whole.bad = "no"
    BY <1>5, <2>1, <2>4 DEF Tidy, Zeroed
  <2>6. EndIn(b, whole)
    BY <2>1, <2>4, <2>5 DEF EndIn, Zeroed
  <2>7. b.err \subseteq whole.err
    BY <2>1, <2>4 DEF Zeroed
  <2> QED
    BY <2>1, <2>5, <2>6, <2>7 DEF EndIn, r
<1> QED
  BY <1>7, <1>8

-----------------------------------------------------------------------------
(* What the elements of a document stand for.                              *)

Elements(b) == {x \in DOMAIN b.data : b.data[x].type # "EOO"}

PlainTypes == {"DOUBLE", "BOOL", "STRING", "OID", "OBJECT", "ARRAY"}

\* The key of a pair and the one of its element.
KeyRead(array, key) == IF array THEN <<"number", NumberOfText(key) + 1>> ELSE <<"string", key>>

KeyMeets(array, key, p) == (array => IsNumberText(key)) /\ p[1] = KeyRead(array, key)

\* Their values.
Mark(v) == IF v[1] = "table" THEN TableMark ELSE v

ValueRead(e) == IF e.type \in TableTypes THEN TableMark ELSE LuaValue(e)

LiesInArray(b, up, x) == up[x] # 0 /\ b.data[up[x]].type = "ARRAY"

Above(up, N, x) == IF up[x] = 0 THEN <<>> ELSE N[up[x]]

StandsFor(b, up, N, x, p) ==
  /\ N[x] = Append(Above(up, N, x), p)
  /\ KeyMeets(LiesInArray(b, up, x), b.data[x].key, p)
  /\ Mark(p[2]) = ValueRead(b.data[x]) /\ b.data[x].type \in PlainTypes

Stands(b, up, N) == \A x \in Elements(b) : \E p : StandsFor(b, up, N, x, p)

\* The objects that are open are those of the calls.
OpenAlong(b, w, W, O, N) ==
  /\ Len(O) = Len(W) /\ ~w[1].array
  /\ \A i \in 1..Len(O) :
       N[O[i]] = SubSeq(W, 1, i) /\ (b.data[O[i]].type = "ARRAY" <=> w[i + 1].array)

Converting(j, b, w, seen, up, O, N, W) ==
  /\ Unfinished(b, up, O) /\ Walked(j, w, W, Elements(b), N) /\ Seen(j, w, seen)
  /\ Stands(b, up, N) /\ OpenAlong(b, w, W, O, N)

\* The places agree.
SamePlaces(b, up, to) == \A x \in DOMAIN b.data : to[x] = up[x]

SameWays(b, N, M) == \A x \in Elements(b) : M[x] = N[x]

\* The element at x is in the document, or in an object of it.
LiesWell(b, up) == \A x \in Elements(b) : up[x] = 0 \/ up[x] \in Elements(b)

LEMMA StillStands ==
  ASSUME NEW b, NEW c, SameElements(b, c), NEW up, NEW to, SamePlaces(b, up, to), NEW N, NEW M,
         SameWays(b, N, M), LiesWell(b, up), Stands(b, up, N)
  PROVE  \A x \in Elements(b) : \E p : StandsFor(c, to, M, x, p)
<1> SUFFICES ASSUME NEW x \in Elements(b) PROVE \E p : StandsFor(c, to, M, x, p)
  OBVIOUS
<1>1. PICK p : StandsFor(b, up, N, x, p)
  BY DEF Stands
<1>2. x \in DOMAIN b.data /\ to[x] = up[x] /\ M[x] = N[x]
  BY DEF Elements, SamePlaces, SameWays
<1>3. /\ c.data[x].type = b.data[x].type /\ c.data[x].key = b.data[x].key
      /\ c.data[x].val = b.data[x].val
  BY <1>2 DEF SameElements
<1>4. ValueRead(c.data[x]) = ValueRead(b.data[x])
  BY <1>3 DEF ValueRead, LuaValue
<1>5. CASE up[x] = 0
  <2>1. Above(to, M, x) = Above(up, N, x) /\ LiesInArray(c, to, x) = LiesInArray(b, up, x)
    BY <1>2, <1>5 DEF Above, LiesInArray
  <2> QED
    BY <1>1, <1>2, <1>3, <1>4, <2>1 DEF StandsFor
<1>6. CASE up[x] # 0
  <2>1. up[x] \in Elements(b)
    BY <1>6 DEF LiesWell
  <2>2. up[x] \in DOMAIN b.data /\ M[up[x]] = N[up[x]]
    BY <2>1 DEF Elements, SameWays
  <2>3. c.data[up[x]].type = b.data[up[x]].type
    BY <2>2 DEF SameElements
  <2>4. Above(to, M, x) = Above(up, N, x)
    BY <1>2, <2>2 DEF Above
  <2>5. LiesInArray(c, to, x) <=> LiesInArray(b, up, x)
    BY <1>2, <2>3 DEF LiesInArray
  <2>6. KeyMeets(LiesInArray(c, to, x), c.data[x].key, p)
    BY <1>1, <1>3, <2>5 DEF StandsFor, KeyMeets, KeyRead
  <2> QED
    BY <1>1, <1>2, <1>3, <1>4, <2>4, <2>6 DEF StandsFor
<1> QED
  BY <1>5, <1>6

\* Where elements lie while a document is built.
LEMMA LiesWellIs ==
  ASSUME NEW b, NEW up, NEW O, Unfinished(b, up, O), BuilderOK(b), b.finished = FALSE
  PROVE  LiesWell(b, up)
<1>1. Lies(b, up, O, Ahead(b), b.cur)
  BY PlacesAre
<1> QED
  BY <1>1 DEF Lies, LiesWell, Elements, IsSub, Ahead

\* The pair p comes in as the element e, in the innermost of the calls w.
Meets(w, n, e, p) ==
  /\ n = Len(w) /\ n \in Nat /\ KeyMeets(w[n].array, e.key, p)
  /\ Mark(p[2]) = ValueRead(e) /\ e.type \in PlainTypes

\* The ways with one more.
WithWay(b, N, s) == [x \in Elements(b) \cup {b.cur} |-> IF x = b.cur THEN s ELSE N[x]]

\* What a new element leaves, and what it is.
NewMeets(b, c, N, M, s) ==
  /\ Elements(c) = Elements(b) \cup {b.cur}
  /\ SameWays(b, N, M) /\ M[b.cur] = s /\ SameElements(b, c)

\* An element comes in for p, the ways are M then.
NewComes(j, b, up, O, w, W, N, n, p, e, c, to, M) ==
  /\ Unfinished(b, up, O) /\ BuilderOK(b) /\ b.finished = FALSE
  /\ OpenAlong(b, w, W, O, N) /\ OnWay(j, w, W) /\ Stands(b, up, N)
  /\ Meets(w, n, e, p) /\ IsElement(e)
  /\ c.data = Placed(b.data, b.cur, e) /\ KeepsPlaces(b, up, to)
  /\ M = WithWay(b, N, Append(W, p))

LEMMA NewStands ==
  ASSUME NEW j, NEW b, NEW up, NEW O, NEW w, NEW W, NEW N, NEW n, NEW p, NEW e, NEW c,
         NEW to, NEW M, NewComes(j, b, up, O, w, W, N, n, p, e, c, to, M)
  PROVE  Stands(c, to, M) /\ NewMeets(b, c, N, M, Append(W, p))
<1>13. /\ Unfinished(b, up, O) /\ BuilderOK(b) /\ b.finished = FALSE
       /\ OpenAlong(b, w, W, O, N) /\ OnWay(j, w, W) /\ Stands(b, up, N)
       /\ Meets(w, n, e, p) /\ IsElement(e)
       /\ c.data = Placed(b.data, b.cur, e) /\ KeepsPlaces(b, up, to)
       /\ M = WithWay(b, N, Append(W, p))
  BY DEF NewComes
<1> USE <1>13
<1> USE DEF KeepsPlaces
<1>12. Len(w) = Len(W) + 1 /\ \E S : W \in Seq(S)
  BY DEF OnWay
<1> DEFINE z == b.cur
<1>1. GotPlaced(b, c, z, e)
  BY PlacedIs
<1>2. /\ z \notin DOMAIN b.data /\ DOMAIN c.data = DOMAIN b.data \cup {z} /\ c.data[z] = e
      /\ \A x \in DOMAIN b.data : c.data[x] = b.data[x]
      /\ Ahead(b) = DOMAIN b.data \cup {z} /\ z \in Nat
  BY <1>1 DEF GotPlaced
<1>3. SameElements(b, c)
  BY <1>2 DEF SameElements
<1>4. SamePlaces(b, up, to) /\ to[z] = up[z]
  BY <1>2 DEF SamePlaces
<1>5. SameWays(b, N, M) /\ M[z] = Append(W, p)
  BY <1>2 DEF WithWay, SameWays, Elements
<1>6. LiesWell(b, up)
  BY LiesWellIs
<1>7. \A x \in Elements(b) : \E q : StandsFor(c, to, M, x, q)
  BY <1>3, <1>4, <1>5, <1>6, StillStands
<1>8. e.type # "EOO"
  BY DEF Meets, PlainTypes
<1>9. Elements(c) = Elements(b) \cup {z}
  BY <1>2, <1>8 DEF Elements
<1> HIDE DEF z
<1>10. StandsFor(c, to, M, z, p)
  <2>1. up[z] = IF O = <<>> THEN 0 ELSE O[Len(O)]
    BY DEF Unfinished, Opens, z
  <2>2. /\ Len(O) \in Nat /\ O \in Seq(DOMAIN b.data)
        /\ \A i \in 1..Len(O) : O[i] \in DOMAIN b.data /\ IsSub(b, O[i])
    <3>1. Lies(b, up, O, Ahead(b), b.cur)
      BY PlacesAre
    <3> QED
      BY <3>1 DEF Lies, Unfinished, Opens
  <2> DEFINE m == Len(O)
  <2>3. m \in Nat /\ Len(W) = m /\ n = m + 1
    BY <1>12, <2>2 DEF OpenAlong, Meets
  <2>4. CASE m = 0
    <3>1. O = <<>> /\ W = <<>>
      BY <2>2, <2>3, <2>4
    <3>2. to[z] = 0
      BY <1>4, <2>1, <3>1
    <3>3. Above(to, M, z) = W /\ LiesInArray(c, to, z) = FALSE
      BY <3>1, <3>2 DEF Above, LiesInArray
    <3>4. w[n].array <=> FALSE
      BY <2>3, <2>4 DEF OpenAlong
    <3>5. KeyMeets(LiesInArray(c, to, z), c.data[z].key, p)
      BY <1>2, <3>3, <3>4 DEF Meets, KeyMeets, KeyRead
    <3> QED
      BY <1>2, <1>5, <3>3, <3>5 DEF StandsFor, Meets
  <2>5. CASE m # 0
    <3> DEFINE y == O[m]
    <3>1. m \in 1..m /\ O # <<>>
      BY <2>3, <2>5
    <3>2. to[z] = y
      BY <1>4, <2>1, <3>1
    <3>3. y \in DOMAIN b.data /\ IsSub(b, y)
      BY <2>2, <3>1
    <3>4. N[y] = SubSeq(W, 1, m) /\ (b.data[y].type = "ARRAY" <=> w[m + 1].array)
      BY <3>1 DEF OpenAlong
    <3>5. SubSeq(W, 1, m) = W
      <4>1. PICK S : W \in Seq(S)
        BY <1>12
      <4> QED
        BY <2>3, <4>1
    <3>6. y \in Elements(b) /\ y # 0
      <4>1. y >= 4
        BY <3>3 DEF BuilderOK, Typed
      <4> QED
        BY <3>3, <4>1 DEF Elements, IsSub
    <3>7. M[y] = W
      BY <1>5, <3>4, <3>5, <3>6 DEF SameWays
    <3> HIDE DEF y, m
    <3>8. Above(to, M, z) = W
      BY <3>2, <3>6, <3>7 DEF Above
    <3>9. LiesInArray(c, to, z) <=> w[n].array
      BY <1>2, <2>3, <3>2, <3>3, <3>4, <3>6 DEF LiesInArray
    <3>10. KeyMeets(LiesInArray(c, to, z), c.data[z].key, p)
      BY <1>2, <3>9 DEF Meets, KeyMeets, KeyRead
    <3> QED
      BY <1>2, <1>5, <3>8, <3>10 DEF StandsFor, Meets
  <2> QED
    BY <2>4, <2>5
<1>11. Stands(c, to, M)
  BY <1>7, <1>9, <1>10 DEF Stands
<1> QED
  BY <1>3, <1>5, <1>9, <1>11 DEF z, NewMeets

\* The objects that are open are elements.
LEMMA OpenElements ==
  ASSUME NEW b, NEW up, NEW O, Unfinished(b, up, O), BuilderOK(b), b.finished = FALSE
  PROVE  Len(O) \in Nat /\ \A i \in 1..Len(O) : O[i] \in Elements(b)
<1>1. Lies(b, up, O, Ahead(b), b.cur)
  BY PlacesAre
<1> QED
  BY <1>1 DEF Lies, Elements, IsSub

LEMMA AlongStill ==
  ASSUME NEW b, NEW w, NEW W, NEW O, NEW N, OpenAlong(b, w, W, O, N),
         NEW m \in Nat, Len(O) = m, \A i \in 1..m : O[i] \in Elements(b),
         NEW c, SameElements(b, c), NEW M, SameWays(b, N, M),
         NEW v, SameTables(w, v, m + 1)
  PROVE  OpenAlong(c, v, W, O, M)
<1>1. \A i \in 1..m : i + 1 \in 1..(m + 1)
  OBVIOUS
<1>2. 1 \in 1..(m + 1)
  OBVIOUS
<1>3. \A i \in 1..m : M[O[i]] = N[O[i]] /\ c.data[O[i]].type = b.data[O[i]].type
  BY DEF SameElements, SameWays, Elements
<1>4. v[1].array = w[1].array /\ \A i \in 1..m : v[i + 1].array = w[i + 1].array
  BY <1>1, <1>2 DEF SameTables
<1> QED
  BY <1>3, <1>4 DEF OpenAlong

Taking(j, b, w, O, N, W, n, p, M) ==
  /\ Takes(j, w, W, Elements(b), N, n, p, b.cur, M)
  /\ Len(W) \in Nat /\ n = Len(W) + 1 /\ Len(O) = Len(W) /\ W \in Seq(PairsIn(j))

LEMMA ConvertsTakes ==
  ASSUME NEW j, NEW b, NEW w, NEW seen, NEW up, NEW O, NEW N, NEW W,
         Converting(j, b, w, seen, up, O, N, W), BuilderOK(b), b.finished = FALSE,
         NEW n, n = Len(w), NEW p \in w[n].left, w # <<>>, NEW M,
         SameWays(b, N, M), M[b.cur] = Append(W, p)
  PROVE  Taking(j, b, w, O, N, W, n, p, M)
<1>1. /\ Walked(j, w, W, Elements(b), N) /\ Len(w) = Len(W) + 1 /\ Len(W) <= StackSize
      /\ W \in Seq(PairsIn(j)) /\ Len(O) = Len(W)
  BY DEF Converting, Walked, OnWay, OpenAlong
<1> DEFINE m == Len(W)
<1>2. m \in Nat /\ n = m + 1 /\ m <= StackSize
  BY <1>1
<1>3. n \in Nat /\ n >= 1 /\ n <= StackSize + 1
  <2> HIDE DEF m
  <2> QED
    BY <1>2, BuilderAssumption
<1>4. b.cur \in Nat /\ \A q \in Elements(b) : q \in Nat /\ q < b.cur
  BY DEF BuilderOK, BufOK, Typed, Elements
<1>5. \A q \in Elements(b) : M[q] = N[q]
  BY DEF SameWays
<1>6. Takes(j, w, W, Elements(b), N, n, p, b.cur, M)
  BY <1>1, <1>3, <1>4, <1>5 DEF Takes
<1> QED
  BY <1>1, <1>2, <1>6 DEF Taking

\* A value is converted.
LEMMA ConvertsValue ==
  ASSUME NEW j, NEW b, NEW w, NEW seen, NEW up, NEW O, NEW N, NEW W,
         Converting(j, b, w, seen, up, O, N, W), BuilderOK(b), b.finished = FALSE,
         NEW n, n = Len(w), NEW p \in w[n].left, w # <<>>, p[2][1] # "table",
         NEW e, IsElement(e), e.type \notin TableTypes, Meets(w, n, e, p),
         NEW c, ValueIn(b, c, e), NEW v, Len(v) = n, TakenIn(w, v, n, p), SameTables(w, v, n)
  PROVE  \E to, M : Converting(j, c, v, seen, to, O, M, W)
<1> DEFINE to == AndAt(up, c.cur, up[b.cur])
           M == WithWay(b, N, Append(W, p))
<1>1. /\ Unfinished(b, up, O) /\ Walked(j, w, W, Elements(b), N) /\ Seen(j, w, seen)
      /\ Stands(b, up, N) /\ OpenAlong(b, w, W, O, N)
  BY DEF Converting
<1>2. CameIn(b, c, e)
  BY DEF ValueIn
<1>3. e.type \notin {"OBJECT", "ARRAY", "EOO"}
  BY DEF Meets, PlainTypes, TableTypes
<1>13. to = AndAt(up, c.cur, up[b.cur]) /\ M = WithWay(b, N, Append(W, p))
  OBVIOUS
<1> HIDE DEF to, M
<1>4. Unfinished(c, to, O) /\ KeepsPlaces(b, up, to)
  BY <1>1, <1>2, <1>3, <1>13, LinkValue
<1>5. OnWay(j, w, W) /\ c.data = Placed(b.data, b.cur, e)
  BY <1>1, <1>2 DEF Walked, CameIn, OpenedIn
<1> HIDE DEF to
<1>16. Stands(c, to, M) /\ NewMeets(b, c, N, M, Append(W, p))
  <2>1. NewComes(j, b, up, O, w, W, N, n, p, e, c, to, M)
    BY <1>1, <1>4, <1>5, <1>13 DEF NewComes
  <2> QED
    BY <2>1, NewStands
<1>6. /\ Elements(c) = Elements(b) \cup {b.cur} /\ SameWays(b, N, M)
      /\ M[b.cur] = Append(W, p) /\ SameElements(b, c)
  BY <1>16 DEF NewMeets
<1> HIDE DEF M
<1>17. Taking(j, b, w, O, N, W, n, p, M)
  BY <1>6, ConvertsTakes
<1>7. /\ Takes(j, w, W, Elements(b), N, n, p, b.cur, M)
      /\ Len(W) \in Nat /\ n = Len(W) + 1 /\ Len(O) = Len(W)
  BY <1>17 DEF Taking
<1>8. Walked(j, v, W, Elements(c), M)
  <2>1. Walked(j, v, W, Elements(b) \cup {b.cur}, M)
    BY <1>7, WalkValue
  <2> QED
    BY <1>6, <2>1
<1>9. n \in Nat /\ n >= 1
  BY <1>7 DEF Takes
<1>10. Seen(j, v, seen)
  BY <1>1, <1>9, SeenLess
<1>11. OpenAlong(c, v, W, O, M)
  <2> DEFINE m == Len(O)
  <2>1. m \in Nat /\ n = m + 1
    BY <1>7
  <2>2. \A i \in 1..m : O[i] \in Elements(b)
    BY <1>1, OpenElements
  <2> HIDE DEF m
  <2>3. SameTables(w, v, m + 1)
    BY <2>1
  <2> QED
    BY <1>1, <1>6, <2>1, <2>2, <2>3, AlongStill DEF m
<1> QED
  BY <1>4, <1>8, <1>10, <1>11, <1>16 DEF Converting

\* A table is opened.
LEMMA ConvertsTable ==
  ASSUME NEW j, NEW b, NEW w, NEW seen, NEW up, NEW O, NEW N, NEW W,
         Converting(j, b, w, seen, up, O, N, W), BuilderOK(b), b.finished = FALSE,
         IsTree(j.heap, j.root), JobOK(j),
         NEW n, n = Len(w), NEW p \in w[n].left, w # <<>>, p[2][1] = "table", n <= StackSize,
         NEW e, IsElement(e), e.type \in TableTypes, Meets(w, n, e, p),
         NEW c, SubIn(b, c, e), NEW v, Len(v) = n + 1, TakenIn(w, v, n, p), SameTables(w, v, n),
         CallIs(j, v[n + 1]), v[n + 1].tbl = p[2][2], v[n + 1].left = j.heap[p[2][2]],
         v[n + 1].array <=> e.type = "ARRAY"
  PROVE  \E to, P, M, V : Converting(j, c, v, seen \cup {p[2][2]}, to, P, M, V)
<1> DEFINE z == b.cur
           to == AndAt(up, c.cur, z)
           s == Append(W, p)
           M == WithWay(b, N, s)
           P == Append(O, z)
<1>1. /\ Unfinished(b, up, O) /\ Walked(j, w, W, Elements(b), N) /\ Seen(j, w, seen)
      /\ Stands(b, up, N) /\ OpenAlong(b, w, W, O, N)
  BY DEF Converting
<1>2. OpenedIn(b, c, e)
  BY DEF SubIn
<1>3. e.type \in {"OBJECT", "ARRAY"}
  BY DEF TableTypes
<1>15. to = AndAt(up, c.cur, b.cur) /\ M = WithWay(b, N, Append(W, p))
  OBVIOUS
<1> HIDE DEF to, M
<1>4. Unfinished(c, to, P) /\ KeepsPlaces(b, up, to)
  BY <1>1, <1>2, <1>3, <1>15, LinkSub
<1>5. OnWay(j, w, W) /\ c.data = Placed(b.data, b.cur, e)
  BY <1>1, <1>2 DEF Walked, CameIn, OpenedIn
<1> HIDE DEF to
<1>16. Stands(c, to, M) /\ NewMeets(b, c, N, M, Append(W, p))
  <2>1. NewComes(j, b, up, O, w, W, N, n, p, e, c, to, M)
    BY <1>1, <1>4, <1>5, <1>15 DEF NewComes
  <2> QED
    BY <2>1, NewStands
<1>6. /\ Elements(c) = Elements(b) \cup {z} /\ SameWays(b, N, M)
      /\ M[z] = s /\ SameElements(b, c)
  BY <1>16 DEF NewMeets
<1>14. c.data[z] = e /\ z \in Nat
  BY <1>5 DEF Placed, BuilderOK, BufOK
<1> HIDE DEF M
<1>17. Taking(j, b, w, O, N, W, n, p, M)
  BY <1>6, ConvertsTakes
<1>7. /\ Takes(j, w, W, Elements(b), N, n, p, z, M)
      /\ Len(W) \in Nat /\ n = Len(W) + 1 /\ Len(O) = Len(W) /\ W \in Seq(PairsIn(j))
  BY <1>17 DEF Taking
<1>8. p[2][2] \in DOMAIN j.heap
  BY DEF CallIs
<1>9. Walked(j, v, s, Elements(c), M)
  <2>1. Walked(j, v, s, Elements(b) \cup {z}, M)
    BY <1>7, <1>8, WalkTable
  <2> QED
    BY <1>6, <2>1
<1>10. n \in Nat /\ n >= 1
  BY <1>7 DEF Takes
<1>11. Seen(j, v, seen \cup {p[2][2]})
  BY <1>1, <1>10, SeenDeeper
<1>12. OpenAlong(c, v, s, P, M)
  <2> DEFINE m == Len(O)
  <2>1. m \in Nat /\ n = m + 1 /\ Len(W) = m
    BY <1>7
  <2>2. \A i \in 1..m : O[i] \in Elements(b)
    BY <1>1, OpenElements
  <2>3. O \in Seq(DOMAIN b.data)
    BY <1>1 DEF Unfinished, Opens
  <2> HIDE DEF m, z
  <2>4. SameTables(w, v, m + 1)
    BY <2>1
  <2>5. OpenAlong(c, v, W, O, M)
    BY <1>1, <1>6, <2>1, <2>2, <2>4, AlongStill DEF m
  <2>6. Len(P) = m + 1 /\ P[m + 1] = z /\ \A i \in 1..m : P[i] = O[i]
    BY <1>14, <2>3 DEF m
  <2>7. p \in PairsIn(j)
    BY <1>10, <1>1, <2>1 DEF Walked, OnWay
  <2> DEFINE D == PairsIn(j)
  <2>8. W \in Seq(D) /\ p \in D
    BY <1>7, <2>7
  <2> HIDE DEF D
  <2>9. Len(s) = m + 1 /\ SubSeq(s, 1, m + 1) = s /\ \A i \in 1..m : SubSeq(s, 1, i) = SubSeq(W, 1, i)
    <3>1. s \in Seq(D) /\ Len(s) = m + 1
      BY <2>1, <2>8
    <3>2. SubSeq(s, 1, m + 1) = s
      BY <2>1, <3>1
    <3>3. ASSUME NEW i \in 1..m PROVE SubSeq(s, 1, i) = SubSeq(W, 1, i)
      BY <2>1, <2>8, <3>3
    <3> QED
      BY <3>1, <3>2, <3>3
  <2> HIDE DEF s, P
  <2>10. \A i \in 1..(m + 1) : i = m + 1 \/ i \in 1..m
    BY <2>1
  <2>11. ASSUME NEW i \in 1..m
         PROVE  M[P[i]] = SubSeq(s, 1, i) /\ (c.data[P[i]].type = "ARRAY" <=> v[i + 1].array)
    BY <2>5, <2>6, <2>9 DEF OpenAlong, m
  <2>12. M[P[m + 1]] = SubSeq(s, 1, m + 1) /\ (c.data[P[m + 1]].type = "ARRAY" <=> v[(m + 1) + 1].array)
    BY <1>6, <1>14, <2>1, <2>6, <2>9
  <2>13. \A i \in 1..Len(P) :
           M[P[i]] = SubSeq(s, 1, i) /\ (c.data[P[i]].type = "ARRAY" <=> v[i + 1].array)
    BY <2>6, <2>10, <2>11, <2>12
  <2> QED
    BY <2>5, <2>6, <2>9, <2>13 DEF OpenAlong
<1> HIDE DEF P, s
<1>13. Converting(j, c, v, seen \cup {p[2][2]}, to, P, M, s)
  BY <1>4, <1>9, <1>11, <1>12, <1>16 DEF Converting
<1> QED
  BY <1>13

\* A table is ended.
LEMMA ConvertsEnd ==
  ASSUME NEW j, NEW b, NEW w, NEW seen, NEW up, NEW O, NEW N, NEW W,
         Converting(j, b, w, seen, up, O, N, W), BuilderOK(b), b.finished = FALSE,
         NEW n, NEW v, Returns(w, v, n), NEW a, NEW c, EndedIn(b, a, c)
  PROVE  \E to, P, V : Converting(j, c, v, seen, to, P, N, V)
<1> DEFINE to == AndAt(up, c.cur, up[O[Len(O)]])
           P == Front(O)
           V == Front(W)
<1>1. /\ Unfinished(b, up, O) /\ Walked(j, w, W, Elements(b), N) /\ Seen(j, w, seen)
      /\ Stands(b, up, N) /\ OpenAlong(b, w, W, O, N)
  BY DEF Converting
<1>2. GoesBack(up, O, c, to, P) /\ P = Front(O) /\ V = Front(W)
  BY DEF GoesBack
<1> HIDE DEF to, P, V
<1>3. Unfinished(c, to, P) /\ KeepsPlaces(b, up, to) /\ EndAdded(b, c)
  BY <1>1, <1>2, LinkClose
<1>4. b.cur \notin DOMAIN b.data
  BY Lying
<1>5. Elements(c) = Elements(b) /\ SameElements(b, c) /\ SamePlaces(b, up, to) /\ SameWays(b, N, N)
  BY <1>3, <1>4 DEF EndAdded, KeepsPlaces, SamePlaces, SameWays, SameElements, Elements, Ahead
<1>6. Stands(c, to, N)
  <2>1. LiesWell(b, up)
    BY <1>1, LiesWellIs
  <2>2. \A y \in Elements(b) : \E p : StandsFor(c, to, N, y, p)
    BY <1>1, <1>5, <2>1, StillStands
  <2> QED
    BY <1>5, <2>2 DEF Stands
<1>7. Walked(j, v, V, Elements(c), N)
  <2>1. Walked(j, v, V, Elements(b), N)
    BY <1>1, <1>2, WalkBack
  <2> QED
    BY <1>5, <2>1
<1>8. Seen(j, v, seen)
  BY <1>1, SeenBack
<1>9. OpenAlong(c, v, V, P, N)
  <2> DEFINE D == DOMAIN b.data  S == PairsIn(j)  m == n - 1
  <2>13. O \in Seq(D)
    BY <1>1 DEF Unfinished, Opens
  <2>14. \A i \in 1..Len(O) : O[i] \in Elements(b)
    BY <1>1, OpenElements
  <2>1. O \in Seq(D) /\ \A i \in 1..Len(O) : O[i] \in Elements(b)
    BY <2>13, <2>14
  <2>2. W \in Seq(S) /\ Len(w) = Len(W) + 1 /\ Len(O) = Len(W)
    BY <1>1 DEF Walked, OnWay, OpenAlong
  <2>3. n \in Nat /\ n >= 1 /\ Len(w) = n + 1 /\ Len(v) = n /\ \A k \in 1..n : v[k] = w[k]
    BY DEF Returns
  <2> HIDE DEF D, S
  <2>4. Len(W) \in Nat
    BY <2>2
  <2>5. Len(W) = m + 1 /\ Len(O) = m + 1 /\ m \in Nat
    BY <2>2, <2>3, <2>4
  <2>6. \A i \in 1..m : i \in 1..Len(O) /\ i + 1 \in 1..n
    BY <2>3, <2>5
  <2>7. 1 \in 1..n
    BY <2>3
  <2> HIDE DEF m
  <2>8. Len(P) = m /\ \A i \in 1..m : P[i] = O[i]
    BY <1>2, <2>1, <2>5, FrontIs
  <2>9. Len(V) = m /\ V = SubSeq(W, 1, m)
    <3>1. Len(W) - 1 = m
      BY <2>5
    <3> QED
      BY <1>2, <2>2, <2>5, <3>1, FrontIs DEF Front
  <2>10. ASSUME NEW i \in 1..m PROVE SubSeq(V, 1, i) = SubSeq(W, 1, i)
    <3>1. \A k \in 1..m : V[k] = W[k]
      BY <2>2, <2>5, <2>9
    <3>2. V \in Seq(S)
      BY <2>2, <2>5, <2>9
    <3>3. i \in Nat /\ i <= m /\ i <= Len(W)
      BY <2>5
    <3>4. \A k \in 1..i : k \in 1..m
      BY <2>5
    <3> QED
      BY <2>2, <2>9, <3>1, <3>2, <3>3, <3>4
  <2>11. ASSUME NEW i \in 1..m
         PROVE  N[P[i]] = SubSeq(V, 1, i) /\ (c.data[P[i]].type = "ARRAY" <=> v[i + 1].array)
    <3>1. N[O[i]] = SubSeq(W, 1, i) /\ (b.data[O[i]].type = "ARRAY" <=> w[i + 1].array)
      BY <1>1, <2>6 DEF OpenAlong
    <3>2. O[i] \in DOMAIN b.data
      BY <2>1, <2>6 DEF Elements
    <3>3. c.data[O[i]].type = b.data[O[i]].type
      BY <1>5, <3>2 DEF SameElements
    <3> QED
      BY <2>3, <2>6, <2>8, <2>10, <3>1, <3>3
  <2>12. ~v[1].array
    BY <1>1, <2>3, <2>7 DEF OpenAlong
  <2> QED
    BY <2>8, <2>9, <2>11, <2>12 DEF OpenAlong
<1>10. Converting(j, c, v, seen, to, P, N, V)
  BY <1>3, <1>6, <1>7, <1>8, <1>9 DEF Converting
<1> QED
  BY <1>10

-----------------------------------------------------------------------------
(* The keys and values of a plain job.                                     *)

KeyIn(f, p) == IF f.array THEN TextOfNumber(NumberOfText(KeyText(p[1])) - 1) ELSE KeyText(p[1])

ConvertibleIn(f, p) ==
  /\ p[1][1] \in {"number", "boolean", "string"}
  /\ f.array => p[1][1] = "number" \/ (p[1][1] = "string" /\ IsNumberText(p[1][2]))

\* The key k of the pair p, as it is written.
KeyFor(f, p, k) ==
  /\ ConvertibleIn(f, p) /\ k = KeyIn(f, p) /\ k \in Seq(Nat) /\ PlainFor(k)
  /\ KeyMeets(f.array, k, p) /\ (f.array => k # IdField) /\ (~f.array => p[1] = <<"string", k>>)

LEMMA KeyOfString ==
  ASSUME NEW f, ~f.array, NEW p, p[1] = <<"string", p[1][2]>>, p[1][2] \in Seq(Byte), PlainText(p[1][2])
  PROVE  KeyFor(f, p, KeyIn(f, p))
<1> DEFINE k == p[1][2]
<1>1. KeyText(p[1]) = k /\ p[1][1] = "string"
  BY DEF KeyText
<1>2. KeyIn(f, p) = k
  BY <1>1 DEF KeyIn
<1>3. k \in Seq(Nat)
  BY TextSeq
<1>4. PlainFor(k)
  BY <1>3, PlainPasses
<1> HIDE DEF k
<1>5. p[1] = <<"string", k>>
  BY DEF k
<1> QED
  BY <1>1, <1>2, <1>3, <1>4, <1>5 DEF KeyFor, ConvertibleIn, KeyMeets, KeyRead

LEMMA KeyOfNumber ==
  ASSUME NEW f, f.array, NEW i \in 1..9, NEW p, p[1] = <<"number", i>>
  PROVE  KeyFor(f, p, KeyIn(f, p))
<1> DEFINE n == i - 1  k == TextOfNumber(n)
<1>1. p[1][1] = "number" /\ KeyText(p[1]) = TextOfNumber(i)
  BY DEF KeyText
<1>2. NumberOfText(TextOfNumber(i)) = i
  <2>1. i \in -9..9
    OBVIOUS
  <2> QED
    BY <2>1, NumberBack
<1>3. KeyIn(f, p) = k
  BY <1>1, <1>2 DEF KeyIn
<1>4. n \in 0..8 /\ n + 1 = i
  OBVIOUS
<1> HIDE DEF n
<1>5. k \in Seq(Nat) /\ PlainFor(k) /\ IsNumberText(k) /\ NumberOfText(k) = n
  BY <1>4, IndexPlain
<1>6. k # IdField
  <2>1. Len(k) = 1
    BY <1>4 DEF TextOfNumber
  <2>2. Len(IdField) = 3
    BY DEF IdField
  <2> HIDE DEF k
  <2> QED
    BY <2>1, <2>2
<1> HIDE DEF k
<1>7. KeyMeets(f.array, k, p)
  BY <1>4, <1>5 DEF KeyMeets, KeyRead
<1> QED
  BY <1>1, <1>3, <1>5, <1>6, <1>7 DEF KeyFor, ConvertibleIn

\* A value a plain table may have under the key k.
ValueFor(j, v, k) ==
  /\ v = <<v[1], v[2]>> /\ v[1] \in {"number", "boolean", "string", "table"}
  /\ v[1] = "string" => v[2] \in Seq(Nat) /\ PlainFor(v[2])
  /\ v[1] = "string" /\ k = IdField => IdText(v[2])
  /\ v[1] = "table" => v[2] \in DOMAIN j.heap

LEMMA PlainPair ==
  ASSUME NEW j, JobOK(j), Plain(j), NEW f, CallIs(j, f), NEW p \in f.left
  PROVE  /\ p \in j.heap[f.tbl] /\ PairOK(j.heap, p)
         /\ KeyFor(f, p, KeyIn(f, p)) /\ ValueFor(j, p[2], KeyIn(f, p))
<1> DEFINE x == f.tbl  pairs == j.heap[x]  k == KeyIn(f, p)
<1>1. x \in DOMAIN j.heap /\ p \in pairs /\ f.array = ArrayIn(j, x)
  BY DEF CallIs
<1>2. TableOK(j.heap, x) /\ PairOK(j.heap, p)
  BY <1>1 DEF JobOK, TableOK
<1>3. KeyFor(f, p, k)
  <2>1. CASE f.array
    <3>1. TIsArray(pairs)
      BY <1>1, <2>1 DEF ArrayIn
    <3>2. PICK i \in 1..Cardinality(pairs) : p[1] = <<"number", i>>
      BY <1>1, <3>1 DEF TIsArray
    <3>3. Cardinality(pairs) \in Nat
      BY <1>2, FS_CardinalityType DEF TableOK
    <3>4. i \in -9..9
      BY <1>2, <3>2 DEF PairOK
    <3>5. i \in 1..9
      BY <3>2, <3>3, <3>4
    <3> QED
      BY <2>1, <3>2, <3>5, KeyOfNumber
  <2>2. CASE ~f.array
    <3>1. ~TIsArray(pairs)
      BY <1>1, <2>2 DEF ArrayIn
    <3>2. p[1][1] = "string" /\ PlainText(p[1][2])
      BY <1>1, <3>1 DEF Plain
    <3>3. p[1][2] \in Seq(Byte) /\ p[1] = <<p[1][1], p[1][2]>>
      BY <1>2, <3>2 DEF PairOK
    <3>4. p[1] = <<"string", p[1][2]>>
      BY <3>2, <3>3
    <3> QED
      BY <2>2, <3>2, <3>3, <3>4, KeyOfString
  <2> QED
    BY <2>1, <2>2
<1>4. ValueFor(j, p[2], k)
  <2> HIDE DEF k
  <2> DEFINE v == p[2]
  <2>1. /\ v[1] \in {"number", "boolean", "string", "table"}
        /\ v[1] = "string" => PlainText(v[2])
        /\ p[1] = <<"string", IdField>> /\ v[1] = "string" => IdText(v[2])
    BY <1>1 DEF Plain
  <2>2. /\ v = <<v[1], v[2]>> /\ (v[1] = "string" => v[2] \in Seq(Byte))
        /\ (v[1] = "table" => v[2] \in DOMAIN j.heap)
    BY <1>2 DEF PairOK
  <2>3. v[1] = "string" => v[2] \in Seq(Nat) /\ PlainFor(v[2])
    <3>1. SUFFICES ASSUME v[1] = "string" PROVE v[2] \in Seq(Nat) /\ PlainFor(v[2])
      OBVIOUS
    <3>2. v[2] \in Seq(Nat)
      BY <2>2, <3>1, TextSeq
    <3> QED
      BY <2>1, <3>1, <3>2, PlainPasses
  <2>4. k = IdField => p[1] = <<"string", IdField>>
    BY <1>3 DEF KeyFor
  <2> HIDE DEF v
  <2> QED
    BY <2>1, <2>2, <2>3, <2>4 DEF ValueFor, v
<1> QED
  BY <1>1, <1>2, <1>3, <1>4

\* The element for a value that is no table.
ScalarIn(b, key, v, behind) ==
  LET name == CString(key)
  IN  CASE v[1] = "number"  -> AppendFixed(b, "DOUBLE", name, v[2])
        [] v[1] = "boolean" -> AppendFixed(b, "BOOL", name, v[2])
        [] v[1] = "string" /\ key = IdField -> AppendOid(b, name, OidFromString(v[2], behind))
        [] OTHER -> AppendStringBase(b, "STRING", name, CString(v[2]))

ElementFor(b, r, key, v, e) ==
  /\ IsElement(e) /\ e.type \in PlainTypes /\ e.type \notin TableTypes /\ e.key = key
  /\ ValueRead(e) = v /\ r.ok = TRUE /\ ValueIn(b, r.b, e)

LEMMA ScalarTidy ==
  ASSUME NEW b, BuilderOK(b), b.bad = "no", b.finished = FALSE, NEW j,
         NEW key \in Seq(Nat), PlainFor(key), NEW v, ValueFor(j, v, key), v[1] # "table",
         NEW behind, NEW r, r = ScalarIn(b, key, v, behind), Tidy(r.b)
  PROVE  \E e : ElementFor(b, r, key, v, e)
<1>1. CString(key) = key /\ CheckFieldName(key).ok
  BY DEF PlainFor
<1>2. v = <<v[1], v[2]>>
  BY DEF ValueFor
<1>3. ASSUME NEW type \in {"DOUBLE", "BOOL", "STRING", "OID"}, NEW val, NEW len \in Nat,
             r = AppendValue(b, type, key, val, len),
             LuaValue([type |-> type, key |-> key, val |-> val, len |-> len]) = v
      PROVE  \E e : ElementFor(b, r, key, v, e)
  <2> DEFINE e == [type |-> type, key |-> key, val |-> val, len |-> len]
  <2>1. type \in Types
    BY DEF Types
  <2>2. r.ok = TRUE /\ ValueIn(b, r.b, e)
    BY <1>1, <1>3, <2>1, AppendValueTidy
  <2>3. IsElement(e) /\ e.type = type /\ e.key = key
    BY <2>1, ElementIs
  <2>4. LuaValue(e) = v
    BY <1>3
  <2> HIDE DEF e
  <2>5. ElementFor(b, r, key, v, e)
    BY <2>2, <2>3, <2>4 DEF ElementFor, PlainTypes, TableTypes, ValueRead
  <2> QED
    BY <2>5
<1>4. CASE v[1] = "number"
  <2> DEFINE e == [type |-> "DOUBLE", key |-> key, val |-> v[2], len |-> 8]
  <2>1. r = AppendValue(b, "DOUBLE", key, v[2], 8)
    BY <1>1, <1>4 DEF ScalarIn, AppendFixed, FixedSize
  <2>2. e.type = "DOUBLE" /\ e.val = v[2]
    OBVIOUS
  <2>3. LuaValue(e) = <<"number", e.val>>
    <3> HIDE DEF e
    <3> QED
      BY <2>2 DEF LuaValue, NumberTypes
  <2>4. LuaValue(e) = v
    BY <1>2, <1>4, <2>2, <2>3
  <2> QED
    BY <1>3, <2>1, <2>4
<1>5. CASE v[1] = "boolean"
  <2> DEFINE e == [type |-> "BOOL", key |-> key, val |-> v[2], len |-> 1]
  <2>1. r = AppendValue(b, "BOOL", key, v[2], 1)
    BY <1>1, <1>5 DEF ScalarIn, AppendFixed, FixedSize
  <2>2. e.type = "BOOL" /\ e.val = v[2]
    OBVIOUS
  <2>3. LuaValue(e) = <<"boolean", e.val>>
    <3> HIDE DEF e
    <3> QED
      BY <2>2 DEF LuaValue, NumberTypes
  <2>4. LuaValue(e) = v
    BY <1>2, <1>5, <2>2, <2>3
  <2> QED
    BY <1>3, <2>1, <2>4
<1>6. CASE v[1] = "string" /\ key = IdField
  <2> DEFINE oid == OidFromString(v[2], behind)
             e == [type |-> "OID", key |-> key, val |-> oid, len |-> 12]
  <2>1. r = AppendValue(b, "OID", key, oid, 12)
    BY <1>1, <1>6 DEF ScalarIn, AppendOid
  <2>2. OidToString(oid) = v[2]
    BY <1>6, IdBack DEF ValueFor
  <2> HIDE DEF oid
  <2>3. e.type = "OID" /\ e.val = oid
    OBVIOUS
  <2>4. LuaValue(e) = <<"string", OidToString(oid)>>
    <3> HIDE DEF e
    <3> QED
      BY <2>3 DEF LuaValue, NumberTypes
  <2>5. LuaValue(e) = v
    BY <1>2, <1>6, <2>2, <2>4
  <2> QED
    BY <1>3, <2>1, <2>5
<1>7. CASE v[1] = "string" /\ key # IdField
  <2> DEFINE s == v[2]  n == 4 + Len(s) + 1
             e == [type |-> "STRING", key |-> key, val |-> s, len |-> n]
  <2>1. s \in Seq(Nat) /\ CString(s) = s /\ CheckString(s).ok
    BY <1>7 DEF ValueFor, PlainFor
  <2>2. n \in Nat
    BY <2>1
  <2>3. r = AppendValue(b, "STRING", key, s, n)
    BY <1>1, <1>7, <2>1 DEF ScalarIn, AppendStringBase
  <2> HIDE DEF n
  <2>4. e.type = "STRING" /\ e.val = s
    OBVIOUS
  <2>5. LuaValue(e) = <<"string", s>>
    <3> HIDE DEF e
    <3> QED
      BY <2>4 DEF LuaValue, NumberTypes
  <2>6. LuaValue(e) = v
    BY <1>2, <1>7, <2>5
  <2> QED
    BY <1>3, <2>2, <2>3, <2>6
<1> QED
  BY <1>4, <1>5, <1>6, <1>7 DEF ValueFor

-----------------------------------------------------------------------------
(* The steps of a conversion.                                              *)

\* Nothing went wrong from b to c.
GoesWell(b, c) ==
  /\ c.bad = "no" /\ c.finished = FALSE /\ b.err \subseteq c.err
  /\ c.slips \subseteq b.slips \cup {"wrapped"}

Underway(j, b, w, seen) == \E up, O, N, W : Converting(j, b, w, seen, up, O, N, W)

\* What is known when a pair p of the last of the calls w is due.
DueIn(j, b, w, n, p) ==
  /\ JobOK(j) /\ Plain(j) /\ BuilderOK(b) /\ b.bad = "no" /\ b.finished = FALSE
  /\ n = Len(w) /\ n \in Nat /\ n >= 1 /\ p \in w[n].left

LEMMA DueIs ==
  ASSUME NEW j, NEW b, NEW w, NEW n, NEW p, DueIn(j, b, w, n, p), NEW seen, Underway(j, b, w, seen)
  PROVE  /\ p \in j.heap[w[n].tbl] /\ PairOK(j.heap, p) /\ CallIs(j, w[n])
         /\ KeyFor(w[n], p, KeyIn(w[n], p)) /\ ValueFor(j, p[2], KeyIn(w[n], p))
<1>1. PICK up, O, N, W : Converting(j, b, w, seen, up, O, N, W)
  BY DEF Underway
<1>2. n \in 1..Len(w)
  BY DEF DueIn
<1>3. CallIs(j, w[n])
  BY <1>1, <1>2 DEF Converting, Seen
<1> QED
  BY <1>3, PlainPair DEF DueIn

LEMMA ValueTrip ==
  ASSUME NEW j, NEW b, NEW A, NEW B, NEW C, NEW w \in Seq(Calls(A, B, C)), NEW n, NEW p,
         DueIn(j, b, w, n, p), NEW seen, Underway(j, b, w, seen), p[2][1] # "table",
         NEW behind, NEW r, r = ScalarIn(b, KeyIn(w[n], p), p[2], behind), Tidy(r.b)
  PROVE  r.ok = TRUE /\ GoesWell(b, r.b) /\ Underway(j, r.b, Without(w, p), seen)
<1> DEFINE k == KeyIn(w[n], p)  v == Without(w, p)  c == r.b
<1>1. PICK up, O, N, W : Converting(j, b, w, seen, up, O, N, W)
  BY DEF Underway
<1>2. BuilderOK(b) /\ b.bad = "no" /\ b.finished = FALSE /\ n = Len(w) /\ n \in Nat /\ n >= 1
      /\ p \in w[n].left
  BY DEF DueIn
<1>3. KeyFor(w[n], p, k) /\ ValueFor(j, p[2], k)
  BY DueIs
<1> HIDE DEF k
<1>4. k \in Seq(Nat) /\ PlainFor(k) /\ KeyMeets(w[n].array, k, p)
  BY <1>3 DEF KeyFor
<1>5. r = ScalarIn(b, k, p[2], behind)
  BY DEF k
<1>6. PICK e : ElementFor(b, r, k, p[2], e)
  BY <1>2, <1>3, <1>4, <1>5, ScalarTidy
<1>7. IsElement(e) /\ e.type \notin TableTypes /\ ValueIn(b, c, e) /\ r.ok = TRUE
  BY <1>6 DEF ElementFor
<1>8. Meets(w, n, e, p)
  <2>1. Mark(p[2]) = p[2]
    BY DEF Mark
  <2> QED
    BY <1>2, <1>4, <1>6, <2>1 DEF Meets, ElementFor
<1>9. Len(v) = n /\ TakenIn(w, v, n, p) /\ SameTables(w, v, n)
  BY <1>2, WithoutIs
<1>10. w # <<>>
  BY <1>2
<1> HIDE DEF c, v
<1>11. \E to, M : Converting(j, c, v, seen, to, O, M, W)
  BY <1>1, <1>2, <1>7, <1>8, <1>9, <1>10, ConvertsValue
<1>12. GoesWell(b, c)
  BY <1>7 DEF GoesWell, ValueIn
<1> QED
  BY <1>7, <1>11, <1>12 DEF Underway, c, v

\* A table that is due lies no deeper than the stack.
LEMMA DeepEnough ==
  ASSUME NEW j, NEW b, NEW w, NEW n, NEW p, DueIn(j, b, w, n, p), NEW seen,
         NEW up, NEW O, NEW N, NEW W, Converting(j, b, w, seen, up, O, N, W), p[2][1] = "table"
  PROVE  n <= StackSize /\ Len(b.stack) # StackSize
<1> DEFINE s == Append(W, p)  M == WithWay(b, N, s)  c == b.cur
<1>1. BuilderOK(b) /\ b.finished = FALSE /\ n = Len(w) /\ n \in Nat /\ n >= 1 /\ p \in w[n].left
      /\ Plain(j) /\ w # <<>>
  BY DEF DueIn
<1>2. c \notin Elements(b)
  BY <1>1, Lying DEF Elements
<1>3. SameWays(b, N, M) /\ M[c] = s
  BY <1>2 DEF SameWays, WithWay
<1> HIDE DEF M
<1>4. Taking(j, b, w, O, N, W, n, p, M)
  BY <1>1, <1>3, ConvertsTakes
<1>5. /\ Takes(j, w, W, Elements(b), N, n, p, c, M)
      /\ Len(W) \in Nat /\ n = Len(W) + 1 /\ Len(O) = Len(W)
  BY <1>4 DEF Taking
<1>6. s \in WaysOf(j) /\ Len(s) = n /\ s[n] = p
  BY <1>5, TakenWay
<1>7. n <= StackSize + 1
  BY <1>5 DEF Takes
<1>8. Len(s) = StackSize + 1 => Last(s)[2][1] # "table"
  BY <1>1, <1>6 DEF Plain, Shallow, WaysOf
<1>9. Last(s) = p
  BY <1>6 DEF Last
<1> HIDE DEF s
<1>10. n # StackSize + 1
  BY <1>6, <1>8, <1>9
<1>11. Len(O) = Len(b.stack)
  BY DEF Converting, Unfinished, Opens
<1>12. StackSize \in Nat
  BY BuilderAssumption
<1> DEFINE m == Len(W)
<1>13. m \in Nat /\ n = m + 1 /\ Len(b.stack) = m
  BY <1>5, <1>11
<1> HIDE DEF m
<1> QED
  BY <1>1, <1>7, <1>10, <1>12, <1>13

\* The call g of values_to_bson for the sub-table of the pair p, and what
\* bson_append_start_object or bson_append_start_array returned before.
GoesDown(j, b, w, n, p, type, r, g) ==
  /\ p[2][1] = "table"
  /\ type = (IF ArrayIn(j, p[2][2]) THEN "ARRAY" ELSE "OBJECT")
  /\ r = StartSub(b, type, KeyIn(w[n], p)) /\ Tidy(r.b)
  /\ g = [tbl |-> p[2][2], left |-> j.heap[p[2][2]], array |-> ArrayIn(j, p[2][2])]

WentDown(j, b, w, p, r, g, seen) ==
  /\ r.ok = TRUE /\ p[2][2] \notin seen /\ GoesWell(b, r.b)
  /\ Underway(j, r.b, Append(Without(w, p), g), seen \cup {p[2][2]})

LEMMA TableTrip ==
  ASSUME NEW j, NEW b, NEW A, NEW B, NEW C, NEW w \in Seq(Calls(A, B, C)), NEW n, NEW p,
         DueIn(j, b, w, n, p), NEW seen, Underway(j, b, w, seen), NEW type, NEW r, NEW g,
         GoesDown(j, b, w, n, p, type, r, g)
  PROVE  WentDown(j, b, w, p, r, g, seen)
<1> DEFINE k == KeyIn(w[n], p)  v == Append(Without(w, p), g)  c == r.b  sub == p[2][2]
           e == [type |-> type, key |-> k, val |-> <<>>, len |-> 0]
<1>0. /\ p[2][1] = "table" /\ type = (IF ArrayIn(j, p[2][2]) THEN "ARRAY" ELSE "OBJECT")
      /\ r = StartSub(b, type, KeyIn(w[n], p)) /\ Tidy(r.b)
      /\ g = [tbl |-> p[2][2], left |-> j.heap[p[2][2]], array |-> ArrayIn(j, p[2][2])]
  BY DEF GoesDown
<1> USE <1>0
<1>1. PICK up, O, N, W : Converting(j, b, w, seen, up, O, N, W)
  BY DEF Underway
<1>2. BuilderOK(b) /\ b.bad = "no" /\ b.finished = FALSE /\ n = Len(w) /\ n \in Nat /\ n >= 1
      /\ p \in w[n].left /\ JobOK(j) /\ IsTree(j.heap, j.root)
  BY DEF DueIn, Plain
<1>3. KeyFor(w[n], p, k) /\ ValueFor(j, p[2], k)
  BY DueIs
<1>4. sub \in DOMAIN j.heap
  BY <1>3 DEF ValueFor
<1>5. k \in Seq(Nat) /\ CheckFieldName(k).ok /\ KeyMeets(w[n].array, k, p)
  BY <1>3 DEF KeyFor, PlainFor
<1>6. n <= StackSize /\ Len(b.stack) # StackSize
  BY <1>1, DeepEnough
<1>7. type \in {"OBJECT", "ARRAY"} /\ (ArrayIn(j, sub) <=> type = "ARRAY")
  OBVIOUS
<1>8. IsElement(e) /\ e.type = type /\ e.key = k
  <2>1. type \in Types
    BY <1>7 DEF Types
  <2> QED
    BY <1>5, <2>1, ElementIs
<1>17. r = StartSub(b, type, k)
  OBVIOUS
<1> HIDE DEF k
<1>9. r.ok = TRUE /\ SubIn(b, c, e)
  BY <1>2, <1>5, <1>6, <1>7, <1>17, StartSubTidy
<1> HIDE DEF e
<1>10. Meets(w, n, e, p)
  <2>1. Mark(p[2]) = TableMark
    BY DEF Mark
  <2>2. ValueRead(e) = TableMark /\ e.type \in PlainTypes
    BY <1>7, <1>8 DEF ValueRead, TableTypes, PlainTypes
  <2> QED
    BY <1>2, <1>5, <1>8, <2>1, <2>2 DEF Meets
<1>11. Len(v) = n + 1 /\ TakenIn(w, v, n, p) /\ SameTables(w, v, n) /\ v[n + 1] = g
  BY <1>2, DeeperIs
<1>12. g.tbl = sub /\ g.left = j.heap[sub] /\ g.array = ArrayIn(j, sub)
  OBVIOUS
<1>13. CallIs(j, v[n + 1]) /\ v[n + 1].tbl = sub /\ v[n + 1].left = j.heap[sub]
       /\ (v[n + 1].array <=> e.type = "ARRAY")
  BY <1>4, <1>7, <1>8, <1>11, <1>12 DEF CallIs
<1>14. sub \notin seen
  <2>1. n \in 1..Len(w) /\ Seen(j, w, seen)
    BY <1>1, <1>2 DEF Converting
  <2> QED
    BY <1>2, <2>1, NotSeen
<1>15. w # <<>> /\ e.type \in TableTypes
  BY <1>2, <1>7, <1>8 DEF TableTypes
<1> HIDE DEF c, v
<1>16. \E to, P, M, V : Converting(j, c, v, seen \cup {p[2][2]}, to, P, M, V)
  BY <1>1, <1>2, <1>6, <1>8, <1>9, <1>10, <1>11, <1>13, <1>15, ConvertsTable
<1>18. GoesWell(b, c)
  BY <1>9 DEF GoesWell, SubIn
<1> QED
  BY <1>9, <1>14, <1>16, <1>18 DEF Underway, WentDown, c, v

\* What is known when the last of the calls w has nothing left.
EndsIn(j, b, w) ==
  /\ JobOK(j) /\ Plain(j) /\ BuilderOK(b) /\ b.bad = "no" /\ b.finished = FALSE
  /\ w[Len(w)].left = {}

LEMMA EndTrip ==
  ASSUME NEW j, NEW b, NEW S, NEW w \in Seq(S), EndsIn(j, b, w), NEW seen,
         Underway(j, b, w, seen), Len(w) > 1, NEW r, r = FinishObject(b), Tidy(r.b)
  PROVE  r.ok = TRUE /\ GoesWell(b, r.b) /\ Underway(j, r.b, Front(w), seen)
<1> DEFINE c == r.b  v == Front(w)  n == Len(w) - 1
<1>1. PICK up, O, N, W : Converting(j, b, w, seen, up, O, N, W)
  BY DEF Underway
<1>2. BuilderOK(b) /\ b.bad = "no" /\ b.finished = FALSE /\ w[Len(w)].left = {}
  BY DEF EndsIn
<1>3. n \in Nat /\ n >= 1 /\ Len(w) = n + 1
  OBVIOUS
<1> HIDE DEF n, c, v
<1>4. Returns(w, v, n)
  <2>1. Len(v) = n /\ \A k \in 1..n : v[k] = w[k]
    BY <1>3, FrontIs DEF v
  <2> QED
    BY <1>2, <1>3, <2>1 DEF Returns
<1>5. b.stack # <<>>
  <2>1. Len(w) = Len(W) + 1 /\ W \in Seq(PairsIn(j)) /\ Len(O) = Len(W) /\ Len(O) = Len(b.stack)
    BY <1>1 DEF Converting, Walked, OnWay, OpenAlong, Unfinished, Opens
  <2> DEFINE m == Len(W)
  <2>2. m \in Nat /\ n + 1 = m + 1 /\ Len(b.stack) = m
    BY <1>3, <2>1
  <2> HIDE DEF m
  <2>3. Len(b.stack) # 0
    BY <1>3, <2>2
  <2> QED
    BY <2>3
<1>6. r.ok = TRUE /\ \E a : CloseIn(b, a, c)
  BY <1>2, <1>5, FinishObjectTidy DEF c
<1>7. PICK a : CloseIn(b, a, c)
  BY <1>6
<1>8. EndedIn(b, a, c) /\ GoesWell(b, c)
  BY <1>7 DEF CloseIn, GoesWell
<1>9. \E to, P, V : Converting(j, c, v, seen, to, P, N, V)
  BY <1>1, <1>2, <1>4, <1>8, ConvertsEnd
<1> QED
  BY <1>6, <1>8, <1>9 DEF Underway, c, v

\* All tables are converted.
Complete(j, b) ==
  \E up, N : Unfinished(b, up, <<>>) /\ AllWays(j, Elements(b), N) /\ Stands(b, up, N)

LEMMA RootTrip ==
  ASSUME NEW j, NEW b, NEW w, EndsIn(j, b, w), NEW seen, Underway(j, b, w, seen), Len(w) = 1
  PROVE  Complete(j, b) /\ b.stack = <<>>
<1>1. PICK up, O, N, W : Converting(j, b, w, seen, up, O, N, W)
  BY DEF Underway
<1>2. Walked(j, w, W, Elements(b), N) /\ Stands(b, up, N) /\ Unfinished(b, up, O)
  BY <1>1 DEF Converting
<1>3. w[1].left = {}
  BY DEF EndsIn
<1>4. AllWays(j, Elements(b), N)
  BY <1>2, <1>3, WalkEnds
<1>5. O = <<>> /\ b.stack = <<>>
  <2>1. Len(w) = Len(W) + 1 /\ W \in Seq(PairsIn(j)) /\ Len(O) = Len(W) /\ Len(O) = Len(b.stack)
        /\ O \in Seq(DOMAIN b.data)
    BY <1>1 DEF Converting, Walked, OnWay, OpenAlong, Unfinished, Opens
  <2>2. b.stack \in Seq(Nat)
    BY DEF EndsIn, BuilderOK, Typed
  <2> DEFINE D == DOMAIN b.data  m == Len(W)  S == PairsIn(j)
  <2>3. O \in Seq(D) /\ W \in Seq(S)
    BY <2>1
  <2> HIDE DEF D, S
  <2>7. m \in Nat
    BY <2>3
  <2>4. m \in Nat /\ 1 = m + 1
    BY <2>1, <2>7
  <2> HIDE DEF m
  <2>5. m = 0
    BY <2>4
  <2>6. Len(O) = 0 /\ Len(b.stack) = 0
    BY <2>1, <2>5 DEF m
  <2> QED
    BY <2>2, <2>3, <2>6
<1> QED
  BY <1>2, <1>4, <1>5 DEF Complete
=============================================================================
