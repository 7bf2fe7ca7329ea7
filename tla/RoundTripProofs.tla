-------------------------- MODULE RoundTripProofs ---------------------------
(***************************************************************************)
(* Tables come back: bson_to_table reads from the document of a plain      *)
(* table the pairs it was built of, each once, and nothing else, whatever  *)
(* other threads do in the meantime.                                       *)
(***************************************************************************)
EXTENDS TableProofs

-----------------------------------------------------------------------------
(* What has been read of a document: P[x] is the path of the element at x. *)

\* A table as pairs of path and value, and those of them that do not begin with path.
Graph(table) == {<<p, table[p]>> : p \in DOMAIN table}

Outside(S, path) == {e \in S : ~Begins(path, e[1])}

Entry(b, P, x) == <<P[x], ValueRead(b.data[x])>>

\* What is read before at is shown unless something read later makes it forgotten.
Forgotten(b, P, at, q) == \E x \in Elements(b) : q < x /\ x < at /\ Begins(P[x], P[q])

Shown(b, P, at) == {q \in Elements(b) : q < at /\ ~Forgotten(b, P, at, q)}

ReadSet(b, P, at) == {Entry(b, P, q) : q \in Shown(b, P, at)}

\* Offsets are numbers.
InNumbers(b) == DOMAIN b.data \subseteq Nat

LEMMA BeginsTrans ==
  ASSUME NEW K, NEW s \in Seq(K), NEW r \in Seq(K), NEW q \in Seq(K), Begins(s, r), Begins(r, q)
  PROVE  Begins(s, q)
<1> DEFINE l == Len(s)  m == Len(r)  n == Len(q)
<1>1. l \in Nat /\ m \in Nat /\ n \in Nat
  OBVIOUS
<1>2. l <= m /\ m <= n /\ (\A i \in 1..l : s[i] = r[i]) /\ \A i \in 1..m : r[i] = q[i]
  BY DEF Begins
<1> HIDE DEF l, m, n
<1>3. l <= n /\ \A i \in 1..l : i \in 1..m
  BY <1>1, <1>2
<1> QED
  BY <1>2, <1>3 DEF Begins, l, m, n

LEMMA BeginsAppend ==
  ASSUME NEW K, NEW s \in Seq(K), NEW k
  PROVE  Begins(s, Append(s, k)) /\ Begins(s, s)
<1> DEFINE n == Len(s)  S == K \cup {k}
<1>1. n \in Nat /\ s \in Seq(S) /\ k \in S
  OBVIOUS
<1> HIDE DEF S
<1>2. Len(Append(s, k)) = n + 1 /\ \A i \in 1..n : Append(s, k)[i] = s[i]
  BY <1>1
<1> HIDE DEF n
<1>3. n <= n + 1 /\ n <= n
  BY <1>1
<1> QED
  BY <1>2, <1>3 DEF Begins, n

LEMMA ReadOn ==
  ASSUME NEW b, InNumbers(b), NEW P, NEW x \in Elements(b), NEW y, Follows(DOMAIN b.data, x, y)
  PROVE  ReadSet(b, P, y) = Outside(ReadSet(b, P, x), P[x]) \cup {Entry(b, P, x)}
<1>1. Elements(b) \subseteq DOMAIN b.data /\ DOMAIN b.data \subseteq Nat
  BY DEF Elements, InNumbers
<1>2. y \in Nat /\ x \in Nat /\ x < y /\ \A q \in Elements(b) : q < y <=> q < x \/ q = x
  BY <1>1 DEF Follows
<1>3. \A q \in Elements(b) : ~(x < q /\ q < y)
  BY <1>1, <1>2
<1>4. x \in Shown(b, P, y)
  BY <1>2, <1>3 DEF Shown, Forgotten
<1>5. ASSUME NEW q \in Elements(b), q # x
      PROVE  q \in Shown(b, P, y) <=> q \in Shown(b, P, x) /\ ~Begins(P[x], P[q])
  <2>1. q < y <=> q < x
    BY <1>2, <1>5
  <2>2. CASE q < x
    <3>1. Forgotten(b, P, y, q) <=> Forgotten(b, P, x, q) \/ Begins(P[x], P[q])
      BY <1>2, <2>2 DEF Forgotten
    <3> QED
      BY <2>1, <2>2, <3>1 DEF Shown
  <2> QED
    BY <2>1, <2>2 DEF Shown
<1>6. x \notin Shown(b, P, x)
  BY <1>2 DEF Shown
<1>7. \A s : Shown(b, P, s) \subseteq Elements(b)
  BY DEF Shown
<1>8. \A q : Entry(b, P, q)[1] = P[q]
  BY DEF Entry
<1>9. Shown(b, P, y) = {q \in Shown(b, P, x) : ~Begins(P[x], P[q])} \cup {x}
  BY <1>4, <1>5, <1>6, <1>7
<1> QED
  BY <1>8, <1>9 DEF ReadSet, Outside

LEMMA ReadOver ==
  ASSUME NEW b, InNumbers(b), NEW P, NEW x \in DOMAIN b.data, x \notin Elements(b), NEW y,
         Follows(DOMAIN b.data, x, y)
  PROVE  ReadSet(b, P, y) = ReadSet(b, P, x)
<1>1. Elements(b) \subseteq DOMAIN b.data /\ DOMAIN b.data \subseteq Nat
  BY DEF Elements, InNumbers
<1>2. \A q \in Elements(b) : q < y <=> q < x
  BY <1>1 DEF Follows
<1>3. \A q : Forgotten(b, P, y, q) <=> Forgotten(b, P, x, q)
  BY <1>2 DEF Forgotten
<1>4. Shown(b, P, y) = Shown(b, P, x)
  BY <1>2, <1>3 DEF Shown
<1> QED
  BY <1>4 DEF ReadSet

\* What lies between x and y has paths that begin with that of x.
Under(b, P, x, y) == \A q \in Elements(b) : x <= q /\ q < y => Begins(P[x], P[q])

\* Paths are sequences of keys.
Paths(b, P) == \E K : \A x \in Elements(b) : P[x] \in Seq(K)

LEMMA ReadAgain ==
  ASSUME NEW b, InNumbers(b), NEW P, Paths(b, P), NEW x \in Elements(b), NEW y \in DOMAIN b.data, x < y,
         Under(b, P, x, y)
  PROVE  Outside(ReadSet(b, P, y), P[x]) = Outside(ReadSet(b, P, x), P[x])
<1>1. Elements(b) \subseteq DOMAIN b.data /\ DOMAIN b.data \subseteq Nat
  BY DEF Elements, InNumbers
<1>2. PICK K : \A q \in Elements(b) : P[q] \in Seq(K)
  BY DEF Paths
<1>3. ASSUME NEW q \in Elements(b), ~Begins(P[x], P[q])
      PROVE  q \in Shown(b, P, y) <=> q \in Shown(b, P, x)
  <2>1. q < y <=> q < x
    BY <1>1, <1>3 DEF Under
  <2>2. ASSUME NEW r \in Elements(b), r < y, ~(r < x), Begins(P[r], P[q]) PROVE FALSE
    <3>1. Begins(P[x], P[r])
      BY <1>1, <2>2 DEF Under
    <3> QED
      BY <1>2, <1>3, <2>2, <3>1, BeginsTrans
  <2>3. \A r \in Elements(b) : r < x => r < y
    BY <1>1
  <2>4. Forgotten(b, P, y, q) <=> Forgotten(b, P, x, q)
    BY <2>2, <2>3 DEF Forgotten
  <2> QED
    BY <2>1, <2>4 DEF Shown
<1>4. \A s : Shown(b, P, s) \subseteq Elements(b)
  BY DEF Shown
<1>5. \A q : Entry(b, P, q)[1] = P[q]
  BY DEF Entry
<1>6. {q \in Shown(b, P, y) : ~Begins(P[x], P[q])} = {q \in Shown(b, P, x) : ~Begins(P[x], P[q])}
  BY <1>3, <1>4
<1> QED
  BY <1>5, <1>6 DEF ReadSet, Outside

\* What an assignment leaves.
LEMMA AssignIs ==
  ASSUME NEW K, NEW table, DOMAIN table \subseteq Seq(K), NEW path \in Seq(K), NEW v, v # <<"nil">>
  PROVE  /\ Graph(Assign(table, path, v)) = Outside(Graph(table), path) \cup {<<path, v>>}
         /\ DOMAIN Assign(table, path, v) \subseteq DOMAIN table \cup {path}
<1> DEFINE others == {q \in DOMAIN table : ~(Len(q) >= Len(path) /\ SubSeq(q, 1, Len(path)) = path)}
           a == [q \in others \cup {path} |-> IF q = path THEN v ELSE table[q]]
<1>1. Assign(table, path, v) = a
  BY DEF Assign
<1>2. ASSUME NEW q \in DOMAIN table
      PROVE  (Len(q) >= Len(path) /\ SubSeq(q, 1, Len(path)) = path) <=> Begins(path, q)
  <2> DEFINE m == Len(path)  n == Len(q)
  <2>1. q \in Seq(K) /\ m \in Nat /\ n \in Nat
    OBVIOUS
  <2>2. CASE m <= n
    <3>1. SubSeq(q, 1, m) \in Seq(K) /\ Len(SubSeq(q, 1, m)) = m /\ \A i \in 1..m : SubSeq(q, 1, m)[i] = q[i]
      BY <2>1, <2>2
    <3>2. SubSeq(q, 1, m) = path <=> \A i \in 1..m : path[i] = q[i]
      BY <3>1
    <3> QED
      BY <2>1, <2>2, <3>2 DEF Begins
  <2>3. CASE ~(m <= n)
    BY <2>1, <2>3 DEF Begins
  <2> QED
    BY <2>2, <2>3
<1>3. others = {q \in DOMAIN table : ~Begins(path, q)}
  BY <1>2
<1>4. Begins(path, path)
  BY BeginsAppend
<1> HIDE DEF others
<1>5. path \notin others
  BY <1>3, <1>4
<1>6. Graph(a) = {<<q, table[q]>> : q \in others} \cup {<<path, v>>}
  BY <1>5 DEF Graph
<1>7. Outside(Graph(table), path) = {<<q, table[q]>> : q \in others}
  BY <1>3 DEF Graph, Outside
<1> QED
  BY <1>1, <1>3, <1>6, <1>7

-----------------------------------------------------------------------------
(* The reading of a document.                                              *)

\* The paths of a document, and what bson_to_table knows to read.
ReadsAs(b, up, P, x) ==
  /\ P[x] = Append(Above(up, P, x), KeyRead(LiesInArray(b, up, x), b.data[x].key))
  /\ LiesInArray(b, up, x) => IsNumberText(b.data[x].key)
  /\ b.data[x].type \in PlainTypes

ReadsThrough(b, up, P) == Paths(b, P) /\ \A x \in Elements(b) : ReadsAs(b, up, P, x)

\* Where the iterator is, and the one below it.
Stop(r, k) == r[k].i.at

ReadsIn(b, up, P, r, k) ==
  LET x == Stop(r, k)
      u == IF k = 1 THEN 0 ELSE Stop(r, k - 1)
  IN  /\ x \in DOMAIN b.data /\ up[x] = u
      /\ r[k].path = (IF k = 1 THEN <<>> ELSE P[u])
      /\ (r[k].array <=> k # 1 /\ b.data[u].type = "ARRAY")
      /\ r[k].i.first \in BOOLEAN

\* The iterators are in objects that lie one in the other; what has been read of
\* them has their paths.
Along(b, up, P, r) ==
  /\ Len(r) \in Nat /\ Len(r) >= 1
  /\ \A k \in 1..Len(r) : ReadsIn(b, up, P, r, k)
  /\ \A k, l \in 1..Len(r) : k < l => Stop(r, k) < Stop(r, l)
  /\ \A k \in 1..(Len(r) - 1) : Under(b, P, Stop(r, k), Stop(r, Len(r)))

\* The table as far as it has been read. An element is read again when the iterator
\* has not passed it the first time.
Heard(b, P, table, at) ==
  IF at \in Elements(b)
    THEN Outside(Graph(table), P[at]) = Outside(ReadSet(b, P, at), P[at])
    ELSE Graph(table) = ReadSet(b, P, at)

PathsOf(b, P, table) == \A p \in DOMAIN table : \E q \in Elements(b) : p = P[q]

Reading(b, up, P, z, r, table) ==
  /\ Finished(b, up, z) /\ ReadsThrough(b, up, P) /\ Along(b, up, P, r)
  /\ Heard(b, P, table, Stop(r, Len(r))) /\ PathsOf(b, P, table)

\* What Finished says, piece by piece.
LiesIn(b, up, z) ==
  /\ DOMAIN b.data \subseteq Nat /\ 4 \in DOMAIN b.data /\ up[4] = 0
  /\ z \in DOMAIN b.data /\ b.data[z].type = "EOO" /\ up[z] = 0
  /\ \A x \in DOMAIN b.data : 4 <= x /\ x <= z
  /\ \A x \in DOMAIN b.data : up[x] = 0 \/ (up[x] \in Elements(b) /\ up[x] < x /\ up[x] # 0
                                           /\ b.data[up[x]].type \in TableTypes)
  /\ \A x \in DOMAIN b.data \ {z} : LeadsTo(b, DOMAIN b.data, up, x)

LEMMA FinishedIs ==
  ASSUME NEW b, NEW up, NEW z, Finished(b, up, z)
  PROVE  LiesIn(b, up, z)
<1>1. /\ DOMAIN b.data \subseteq Nat /\ 4 \in DOMAIN b.data /\ up[4] = 0
      /\ z \in DOMAIN b.data /\ b.data[z].type = "EOO" /\ up[z] = 0
      /\ \A x \in DOMAIN b.data : x \in Nat /\ 4 <= x /\ x <= z
      /\ \A x \in DOMAIN b.data : up[x] = 0 \/ (up[x] \in DOMAIN b.data \ {z} /\ IsSub(b, up[x]) /\ up[x] < x)
      /\ \A x \in DOMAIN b.data \ {z} : LeadsTo(b, DOMAIN b.data, up, x)
  BY DEF Finished, Linked
<1>2. ASSUME NEW x \in DOMAIN b.data
      PROVE  up[x] = 0 \/ (up[x] \in Elements(b) /\ up[x] < x /\ up[x] # 0
                           /\ b.data[up[x]].type \in TableTypes)
  <2>1. up[x] = 0 \/ (up[x] \in DOMAIN b.data \ {z} /\ IsSub(b, up[x]) /\ up[x] < x)
    BY <1>1
  <2> QED
    BY <2>1 DEF Elements, IsSub, TableTypes
<1> QED
  BY <1>1, <1>2 DEF LiesIn

LEMMA ReadStarts ==
  ASSUME NEW b, NEW up, NEW P, NEW z, Finished(b, up, z), ReadsThrough(b, up, P),
         NEW r, r = <<[i |-> [at |-> 4, first |-> TRUE], array |-> FALSE, path |-> <<>>]>>,
         NEW table, DOMAIN table = {}
  PROVE  Reading(b, up, P, z, r, table)
<1>1. LiesIn(b, up, z)
  BY FinishedIs
<1>2. Len(r) = 1 /\ Stop(r, 1) = 4 /\ r[1].path = <<>> /\ r[1].array = FALSE /\ r[1].i.first = TRUE
  BY DEF Stop
<1>3. Along(b, up, P, r)
  <2>1. ReadsIn(b, up, P, r, 1)
    BY <1>1, <1>2 DEF ReadsIn, LiesIn
  <2> QED
    BY <1>2, <2>1 DEF Along
<1>4. ReadSet(b, P, 4) = {}
  <2>1. \A q \in Elements(b) : q \in Nat /\ 4 <= q
    BY <1>1 DEF LiesIn, Elements
  <2>2. Shown(b, P, 4) = {}
    BY <2>1 DEF Shown
  <2> QED
    BY <2>2 DEF ReadSet
<1>5. Graph(table) = {}
  BY DEF Graph
<1>6. Heard(b, P, table, 4)
  BY <1>4, <1>5 DEF Heard
<1> QED
  BY <1>2, <1>3, <1>6 DEF Reading, PathsOf

\* The element the innermost iterator is at has the path its calls know.
HasPath(b, P, f, x) ==
  /\ Append(f.path, KeyRead(f.array, b.data[x].key)) = P[x]
  /\ f.array => IsNumberText(b.data[x].key)
  /\ b.data[x].type \in PlainTypes

LEMMA PathHere ==
  ASSUME NEW b, NEW up, NEW P, NEW z, NEW r, NEW table, Reading(b, up, P, z, r, table),
         NEW n, n = Len(r), NEW x, x = Stop(r, n), x \in Elements(b)
  PROVE  HasPath(b, P, r[n], x)
<1> USE DEF HasPath
<1>1. n \in Nat /\ n >= 1 /\ ReadsIn(b, up, P, r, n) /\ ReadsAs(b, up, P, x) /\ LiesIn(b, up, z)
  BY FinishedIs DEF Reading, Along, ReadsThrough
<1>2. CASE n = 1
  <2>1. up[x] = 0 /\ r[n].path = <<>> /\ ~r[n].array
    BY <1>1, <1>2 DEF ReadsIn
  <2>2. Above(up, P, x) = <<>> /\ LiesInArray(b, up, x) = FALSE
    BY <2>1 DEF Above, LiesInArray
  <2> QED
    BY <1>1, <2>1, <2>2 DEF ReadsAs, KeyRead
<1>3. CASE n # 1
  <2> DEFINE u == Stop(r, n - 1)
  <2>1. up[x] = u /\ r[n].path = P[u] /\ (r[n].array <=> b.data[u].type = "ARRAY")
    BY <1>1, <1>3 DEF ReadsIn
  <2>2. n - 1 \in 1..n
    BY <1>1, <1>3
  <2>3. u \in DOMAIN b.data
    BY <2>2 DEF Reading, Along, ReadsIn
  <2> HIDE DEF u
  <2>4. u # 0
    BY <1>1, <2>3 DEF LiesIn
  <2>5. Above(up, P, x) = P[u] /\ (LiesInArray(b, up, x) <=> r[n].array)
    BY <2>1, <2>4 DEF Above, LiesInArray
  <2> QED
    BY <1>1, <2>1, <2>5 DEF ReadsAs, KeyRead
<1> QED
  BY <1>2, <1>3

-----------------------------------------------------------------------------
(* How the iterators of bson_to_table go on.                               *)

\* The calls below the n-th stay as they are, its iterator goes on to y.
GoesTo(r, s, n, y) ==
  /\ Len(s) = n /\ \A k \in 1..(n - 1) : s[k] = r[k]
  /\ s[n].path = r[n].path /\ s[n].array = r[n].array /\ s[n].i.at = y /\ s[n].i.first \in BOOLEAN

\* The paths of the objects the element at x lies in begin that of x.
LEMMA BelowBegins ==
  ASSUME NEW b, NEW up, NEW P, NEW z, LiesIn(b, up, z), ReadsThrough(b, up, P), NEW r, Along(b, up, P, r),
         NEW n, n = Len(r), NEW x, x = Stop(r, n), x \in Elements(b), NEW k \in 1..(n - 1)
  PROVE  Begins(P[Stop(r, k)], P[x])
<1> DEFINE u == Stop(r, n - 1)
<1>1. n \in Nat /\ n >= 1 /\ n \in 1..n /\ n - 1 \in 1..n /\ n # 1 /\ k \in 1..n
  BY DEF Along
<1>2. ReadsIn(b, up, P, r, n) /\ ReadsIn(b, up, P, r, n - 1) /\ ReadsIn(b, up, P, r, k)
  BY <1>1 DEF Along
<1>3. x \in DOMAIN b.data /\ up[x] = u /\ u \in DOMAIN b.data /\ Stop(r, k) \in DOMAIN b.data
  BY <1>1, <1>2 DEF ReadsIn
<1>4. u # 0 /\ u \in Elements(b) /\ u < x
  BY <1>3 DEF LiesIn
<1>5. PICK K : \A q \in Elements(b) : P[q] \in Seq(K)
  BY DEF ReadsThrough, Paths
<1>6. Begins(P[u], P[x])
  <2>1. P[x] = Append(P[u], KeyRead(LiesInArray(b, up, x), b.data[x].key))
    BY <1>3, <1>4 DEF ReadsThrough, ReadsAs, Above
  <2> QED
    BY <1>4, <1>5, <2>1, BeginsAppend
<1>7. k = n - 1 \/ k < n - 1
  BY <1>1
<1>8. ASSUME k < n - 1 PROVE Stop(r, k) <= u /\ Under(b, P, Stop(r, k), x) /\ Stop(r, k) \in Elements(b)
  <2>1. Stop(r, k) < u
    BY <1>1, <1>8 DEF Along
  <2>2. Under(b, P, Stop(r, k), x)
    BY DEF Along
  <2>3. k + 1 \in 1..n /\ k + 1 # 1 /\ (k + 1) - 1 = k
    BY <1>1
  <2>4. ReadsIn(b, up, P, r, k + 1)
    BY <2>3 DEF Along
  <2>5. up[Stop(r, k + 1)] = Stop(r, k) /\ Stop(r, k + 1) \in DOMAIN b.data
    BY <2>3, <2>4 DEF ReadsIn
  <2>6. Stop(r, k) # 0
    BY <1>3 DEF LiesIn
  <2>7. Stop(r, k) \in Elements(b)
    BY <2>5, <2>6 DEF LiesIn
  <2>8. Stop(r, k) \in Nat /\ u \in Nat
    BY <1>3 DEF LiesIn
  <2> HIDE DEF u
  <2> QED
    BY <2>1, <2>2, <2>7, <2>8
<1> HIDE DEF u
<1>9. CASE k < n - 1
  <2>1. Begins(P[Stop(r, k)], P[u])
    BY <1>4, <1>8, <1>9 DEF Under
  <2> QED
    BY <1>4, <1>5, <1>6, <1>8, <1>9, <2>1, BeginsTrans
<1> QED
  BY <1>6, <1>7, <1>9 DEF u

\* What lies under u up to x, and x.
LEMMA UnderOn ==
  ASSUME NEW b, InNumbers(b), NEW P, NEW u, NEW x \in DOMAIN b.data, Under(b, P, u, x),
         x \in Elements(b) => Begins(P[u], P[x]), NEW y, Follows(DOMAIN b.data, x, y)
  PROVE  Under(b, P, u, y)
<1>1. \A q \in Elements(b) : q < y => q < x \/ q = x
  BY DEF Follows, Elements, InNumbers
<1> QED
  BY <1>1 DEF Under

\* The n-th call goes on to y, in the object it was in.
MayGo(b, up, P, r, n, y) ==
  /\ n \in 1..Len(r) /\ y \in DOMAIN b.data /\ Stop(r, n) <= y /\ up[y] = up[Stop(r, n)]
  /\ \A k \in 1..(n - 1) : Under(b, P, Stop(r, k), y)

LEMMA GoesAlong ==
  ASSUME NEW b, NEW up, NEW P, NEW z, LiesIn(b, up, z), NEW r, Along(b, up, P, r),
         NEW n, NEW y, NEW s, GoesTo(r, s, n, y), MayGo(b, up, P, r, n, y)
  PROVE  Along(b, up, P, s) /\ Stop(s, n) = y
<1>9. /\ n \in 1..Len(r) /\ y \in DOMAIN b.data /\ Stop(r, n) <= y /\ up[y] = up[Stop(r, n)]
      /\ \A k \in 1..(n - 1) : Under(b, P, Stop(r, k), y)
  BY DEF MayGo
<1> USE <1>9
<1>1. Len(r) \in Nat /\ n \in Nat /\ n >= 1 /\ Len(s) = n
  BY DEF Along, GoesTo
<1>2. \A k \in 1..(n - 1) : s[k] = r[k] /\ Stop(s, k) = Stop(r, k) /\ k \in 1..Len(r)
  BY <1>1 DEF GoesTo, Stop
<1>3. Stop(s, n) = y /\ s[n].path = r[n].path /\ s[n].array = r[n].array /\ s[n].i.first \in BOOLEAN
  BY DEF GoesTo, Stop
<1>4. \A k \in 1..n : k = n \/ k \in 1..(n - 1)
  BY <1>1
<1>5. \A k \in 1..n : k # 1 => k - 1 \in 1..(n - 1)
  BY <1>1
<1>6. ASSUME NEW k \in 1..n PROVE ReadsIn(b, up, P, s, k)
  <2>1. ReadsIn(b, up, P, r, k)
    BY <1>1 DEF Along
  <2>2. k # 1 => Stop(s, k - 1) = Stop(r, k - 1)
    BY <1>2, <1>5
  <2>3. CASE k = n
    BY <1>3, <2>1, <2>2, <2>3 DEF ReadsIn
  <2>4. CASE k \in 1..(n - 1)
    <3>1. s[k] = r[k] /\ Stop(s, k) = Stop(r, k)
      BY <1>2, <2>4
    <3> QED
      BY <2>1, <2>2, <3>1 DEF ReadsIn
  <2> QED
    BY <1>4, <2>3, <2>4
<1>7. \A k \in 1..n : Stop(r, k) \in DOMAIN b.data /\ Stop(r, k) \in Nat
  BY <1>1 DEF Along, ReadsIn, LiesIn
<1>8. ASSUME NEW k \in 1..n, NEW l \in 1..n, k < l PROVE Stop(s, k) < Stop(s, l)
  <2>1. Stop(r, k) < Stop(r, l)
    BY <1>1, <1>8 DEF Along
  <2>2. k \in 1..(n - 1) /\ Stop(s, k) = Stop(r, k)
    BY <1>1, <1>2, <1>8
  <2>3. CASE l = n
    <3>1. y \in Nat /\ Stop(r, n) \in Nat /\ Stop(r, k) \in Nat
      BY <1>1, <1>7 DEF LiesIn
    <3> QED
      BY <1>3, <2>1, <2>2, <2>3, <3>1
  <2>4. CASE l # n
    BY <1>2, <1>4, <2>1, <2>2, <2>4
  <2> QED
    BY <2>3, <2>4
<1> QED
  BY <1>1, <1>2, <1>3, <1>6, <1>8 DEF Along

\* A value is put at the path of x.
PutAt(b, P, table, x, T) == T = Assign(table, P[x], ValueRead(b.data[x]))

LEMMA PutIs ==
  ASSUME NEW b, NEW up, NEW P, ReadsThrough(b, up, P), NEW table, PathsOf(b, P, table),
         NEW x \in Elements(b), NEW T, PutAt(b, P, table, x, T)
  PROVE  /\ Graph(T) = Outside(Graph(table), P[x]) \cup {Entry(b, P, x)}
         /\ PathsOf(b, P, T)
<1> DEFINE v == ValueRead(b.data[x])
<1>1. PICK K : \A q \in Elements(b) : P[q] \in Seq(K)
  BY DEF ReadsThrough, Paths
<1>2. DOMAIN table \subseteq Seq(K)
  BY <1>1 DEF PathsOf
<1>3. v # <<"nil">>
  <2>1. b.data[x].type \in PlainTypes
    BY DEF ReadsThrough, ReadsAs
  <2> QED
    BY <2>1 DEF PlainTypes, ValueRead, LuaValue, TableMark, TableTypes, NumberTypes
<1>4. T = Assign(table, P[x], v)
  BY DEF PutAt
<1>6. Entry(b, P, x) = <<P[x], v>>
  BY DEF Entry
<1> HIDE DEF v
<1>5. /\ Graph(T) = Outside(Graph(table), P[x]) \cup {<<P[x], v>>}
      /\ DOMAIN T \subseteq DOMAIN table \cup {P[x]}
  BY <1>1, <1>2, <1>3, <1>4, AssignIs
<1> QED
  BY <1>5, <1>6 DEF PathsOf

\* Then the iterator may stay, for the first time, or go on.
LEMMA HeardSame ==
  ASSUME NEW b, NEW up, NEW P, ReadsThrough(b, up, P), NEW table, PathsOf(b, P, table),
         NEW x \in Elements(b), Heard(b, P, table, x), NEW T, PutAt(b, P, table, x, T)
  PROVE  Heard(b, P, T, x)
<1>1. Graph(T) = Outside(Graph(table), P[x]) \cup {Entry(b, P, x)}
  BY PutIs
<1>2. PICK K : \A q \in Elements(b) : P[q] \in Seq(K)
  BY DEF ReadsThrough, Paths
<1>3. Begins(P[x], P[x])
  BY <1>2, BeginsAppend
<1>4. Outside(Graph(T), P[x]) = Outside(Graph(table), P[x])
  BY <1>1, <1>3 DEF Outside, Entry
<1> QED
  BY <1>4 DEF Heard

LEMMA HeardOn ==
  ASSUME NEW b, InNumbers(b), NEW up, NEW P, ReadsThrough(b, up, P), NEW table, PathsOf(b, P, table),
         NEW x \in Elements(b), Heard(b, P, table, x), NEW T, PutAt(b, P, table, x, T),
         NEW y, Follows(DOMAIN b.data, x, y)
  PROVE  Heard(b, P, T, y)
<1>1. Graph(T) = Outside(Graph(table), P[x]) \cup {Entry(b, P, x)}
  BY PutIs
<1>2. ReadSet(b, P, y) = Outside(ReadSet(b, P, x), P[x]) \cup {Entry(b, P, x)}
  BY ReadOn
<1>3. Graph(T) = ReadSet(b, P, y)
  BY <1>1, <1>2 DEF Heard
<1> QED
  BY <1>3 DEF Heard

\* A value is read, and the iterator passed.
GoesPast(b, r, s, n, x) ==
  GoesTo(r, s, n, IF r[n].i.first THEN x ELSE NextOffset(b, x))

LEMMA ReadValue ==
  ASSUME NEW b, NEW up, NEW P, NEW z, NEW r, NEW table, Reading(b, up, P, z, r, table),
         NEW n, n = Len(r), NEW x, x = Stop(r, n), x \in Elements(b), b.data[x].type \notin TableTypes,
         NEW s, GoesPast(b, r, s, n, x), NEW T, PutAt(b, P, table, x, T)
  PROVE  Reading(b, up, P, z, s, T)
<1>1. /\ Finished(b, up, z) /\ ReadsThrough(b, up, P) /\ Along(b, up, P, r)
      /\ Heard(b, P, table, x) /\ PathsOf(b, P, table)
  BY DEF Reading
<1>2. LiesIn(b, up, z) /\ InNumbers(b) /\ PathsOf(b, P, T)
  <2>1. LiesIn(b, up, z)
    BY <1>1, FinishedIs
  <2> QED
    BY <1>1, <2>1, PutIs DEF LiesIn, InNumbers
<1>3. n \in Nat /\ n >= 1 /\ n \in 1..Len(r) /\ x \in DOMAIN b.data /\ x \in Nat
  BY <1>1, <1>2 DEF Along, Elements, LiesIn
<1>4. \A k \in 1..(n - 1) : Under(b, P, Stop(r, k), x)
  BY <1>1 DEF Along
<1>5. CASE r[n].i.first
  <2>1. GoesTo(r, s, n, x) /\ x <= x
    BY <1>3, <1>5 DEF GoesPast
  <2>5. MayGo(b, up, P, r, n, x)
    BY <1>3, <1>4, <2>1 DEF MayGo
  <2>2. Along(b, up, P, s) /\ Stop(s, n) = x
    BY <1>1, <1>2, <2>1, <2>5, GoesAlong
  <2>3. Heard(b, P, T, x)
    BY <1>1, HeardSame
  <2>4. Len(s) = n
    BY <2>1 DEF GoesTo
  <2> QED
    BY <1>1, <1>2, <2>2, <2>3, <2>4 DEF Reading
<1>6. CASE ~r[n].i.first
  <2> DEFINE y == NextOffset(b, x)
  <2>1. GoesTo(r, s, n, y)
    BY <1>6 DEF GoesPast
  <2>2. Follows(DOMAIN b.data, x, y) /\ up[y] = up[x]
    <3>1. x # z /\ b.data[x].type \notin {"OBJECT", "ARRAY", "EOO"}
      BY <1>2 DEF LiesIn, Elements, TableTypes
    <3>2. LeadsTo(b, DOMAIN b.data, up, x)
      BY <1>2, <1>3, <3>1 DEF LiesIn
    <3> QED
      BY <3>1, <3>2 DEF LeadsTo
  <2> HIDE DEF y
  <2>3. y \in DOMAIN b.data /\ x <= y
    BY <1>2, <1>3, <2>2 DEF Follows, InNumbers
  <2>4. \A k \in 1..(n - 1) : Under(b, P, Stop(r, k), y)
    BY <1>1, <1>2, <1>3, <1>4, <2>2, BelowBegins, UnderOn
  <2>8. MayGo(b, up, P, r, n, y)
    BY <1>3, <2>2, <2>3, <2>4 DEF MayGo
  <2>5. Along(b, up, P, s) /\ Stop(s, n) = y
    BY <1>1, <1>2, <2>1, <2>8, GoesAlong
  <2>6. Heard(b, P, T, y)
    BY <1>1, <1>2, <2>2, HeardOn
  <2>7. Len(s) = n
    BY <2>1 DEF GoesTo
  <2> QED
    BY <1>1, <1>2, <2>5, <2>6, <2>7 DEF Reading
<1> QED
  BY <1>5, <1>6

\* A sub-object is entered.
GoesIn(b, P, r, s, n, x) ==
  /\ Len(s) = n + 1 /\ \A k \in 1..n : s[k] = r[k]
  /\ s[n + 1].path = P[x] /\ (s[n + 1].array <=> b.data[x].type = "ARRAY")
  /\ s[n + 1].i.at = Body(b, x) + 4 /\ s[n + 1].i.first \in BOOLEAN

LEMMA ReadDown ==
  ASSUME NEW b, NEW up, NEW P, NEW z, NEW r, NEW table, Reading(b, up, P, z, r, table),
         NEW n, n = Len(r), NEW x, x = Stop(r, n), x \in Elements(b), b.data[x].type \in TableTypes,
         NEW s, GoesIn(b, P, r, s, n, x), NEW T, PutAt(b, P, table, x, T)
  PROVE  Reading(b, up, P, z, s, T)
<1> DEFINE y == Body(b, x) + 4
<1>1. /\ Finished(b, up, z) /\ ReadsThrough(b, up, P) /\ Along(b, up, P, r)
      /\ Heard(b, P, table, x) /\ PathsOf(b, P, table)
  BY DEF Reading
<1>2. LiesIn(b, up, z) /\ InNumbers(b) /\ PathsOf(b, P, T)
  <2>1. LiesIn(b, up, z)
    BY <1>1, FinishedIs
  <2> QED
    BY <1>1, <2>1, PutIs DEF LiesIn, InNumbers
<1>3. n \in Nat /\ n >= 1 /\ n \in 1..Len(r) /\ x \in DOMAIN b.data /\ x \in Nat
  BY <1>1, <1>2 DEF Along, Elements, LiesIn
<1>4. Follows(DOMAIN b.data, x, y) /\ up[y] = x
  <2>1. x # z /\ IsSub(b, x)
    BY <1>2, <1>3 DEF LiesIn, IsSub, TableTypes
  <2>2. LeadsTo(b, DOMAIN b.data, up, x)
    BY <1>2, <1>3, <2>1 DEF LiesIn
  <2> QED
    BY <2>1, <2>2 DEF LeadsTo
<1>5. /\ Len(s) = n + 1 /\ (\A k \in 1..n : s[k] = r[k])
      /\ s[n + 1].path = P[x] /\ (s[n + 1].array <=> b.data[x].type = "ARRAY")
      /\ s[n + 1].i.at = y /\ s[n + 1].i.first \in BOOLEAN
  BY DEF GoesIn
<1> HIDE DEF y
<1>6. y \in DOMAIN b.data /\ y \in Nat /\ x < y
  BY <1>2, <1>4 DEF Follows, InNumbers
<1>7. \A k \in 1..(n - 1) : Under(b, P, Stop(r, k), y)
  BY <1>1, <1>2, <1>3, <1>4, BelowBegins, UnderOn DEF Along
<1>8. Under(b, P, x, y)
  <2>1. PICK K : \A q \in Elements(b) : P[q] \in Seq(K)
    BY <1>1 DEF ReadsThrough, Paths
  <2>2. Begins(P[x], P[x])
    BY <2>1, BeginsAppend
  <2>3. \A q \in Elements(b) : x <= q /\ q < y => q = x
    BY <1>2, <1>3, <1>4 DEF Follows, Elements, InNumbers
  <2> QED
    BY <2>2, <2>3 DEF Under
<1>9. \A k \in 1..n : s[k] = r[k] /\ Stop(s, k) = Stop(r, k)
  BY <1>5 DEF Stop
<1>10. Stop(s, n + 1) = y
  BY <1>5 DEF Stop
<1>11. \A k \in 1..(n + 1) : k = n + 1 \/ k \in 1..n
  BY <1>3
<1>12. \A k \in 1..n : k # 1 => k - 1 \in 1..n
  BY <1>3
<1>17. \A k \in 1..n : k = n \/ k \in 1..(n - 1)
  BY <1>3
<1>18. \A k \in 1..n : Stop(r, k) \in Nat /\ Stop(r, k) <= x
  <2>1. \A k \in 1..n : Stop(r, k) \in Nat
    BY <1>1, <1>2 DEF Along, ReadsIn, LiesIn
  <2>2. \A k \in 1..(n - 1) : k \in 1..n /\ k < n
    BY <1>3
  <2>3. \A k \in 1..(n - 1) : Stop(r, k) < x
    BY <1>1, <1>3, <2>2 DEF Along
  <2> QED
    BY <1>3, <1>17, <2>1, <2>3
<1>13. ASSUME NEW k \in 1..(n + 1) PROVE ReadsIn(b, up, P, s, k)
  <2>1. CASE k \in 1..n
    <3>1. ReadsIn(b, up, P, r, k) /\ s[k] = r[k] /\ Stop(s, k) = Stop(r, k)
      BY <1>1, <1>9, <2>1 DEF Along
    <3>2. k # 1 => Stop(s, k - 1) = Stop(r, k - 1)
      BY <1>9, <1>12, <2>1
    <3> QED
      BY <3>1, <3>2 DEF ReadsIn
  <2>2. CASE k = n + 1
    <3>1. k # 1 /\ k - 1 = n
      BY <1>3, <2>2
    <3>2. Stop(s, k - 1) = x /\ Stop(s, k) = y
      BY <1>3, <1>9, <1>10, <2>2, <3>1
    <3> QED
      BY <1>4, <1>5, <1>6, <2>2, <3>1, <3>2 DEF ReadsIn
  <2> QED
    BY <1>11, <2>1, <2>2
<1>14. ASSUME NEW k \in 1..(n + 1), NEW l \in 1..(n + 1), k < l PROVE Stop(s, k) < Stop(s, l)
  <2>1. k \in 1..n /\ Stop(s, k) = Stop(r, k) /\ Stop(r, k) \in Nat /\ Stop(r, k) <= x
    BY <1>3, <1>9, <1>14, <1>18
  <2>2. CASE l = n + 1
    BY <1>3, <1>6, <1>10, <2>1, <2>2
  <2>3. CASE l \in 1..n
    BY <1>1, <1>9, <1>14, <2>1, <2>3 DEF Along
  <2> QED
    BY <1>11, <2>2, <2>3
<1>15. \A k \in 1..n : Under(b, P, Stop(s, k), y)
  BY <1>7, <1>8, <1>9, <1>17
<1>16. Along(b, up, P, s)
  <2>1. Len(s) \in Nat /\ Len(s) >= 1 /\ (n + 1) - 1 = n
    BY <1>3, <1>5
  <2> QED
    BY <1>5, <1>10, <1>13, <1>14, <1>15, <2>1 DEF Along
<1>19. Heard(b, P, T, y)
  BY <1>1, <1>2, <1>4, HeardOn
<1> QED
  BY <1>1, <1>2, <1>5, <1>10, <1>16, <1>19 DEF Reading

\* At the end of an object the call below passes it.
LEMMA ReadUp ==
  ASSUME NEW b, NEW up, NEW P, NEW z, NEW r, NEW table, Reading(b, up, P, z, r, table),
         NEW n, n + 1 = Len(r), NEW e, e = Stop(r, n + 1), e \notin Elements(b),
         n \in Nat, n >= 1, NEW x, x = Stop(r, n), NEW s, GoesPast(b, r, s, n, x)
  PROVE  Reading(b, up, P, z, s, table)
<1>1. /\ Finished(b, up, z) /\ ReadsThrough(b, up, P) /\ Along(b, up, P, r)
      /\ Heard(b, P, table, e) /\ PathsOf(b, P, table)
  BY DEF Reading
<1>2. LiesIn(b, up, z) /\ InNumbers(b)
  <2>1. LiesIn(b, up, z)
    BY <1>1, FinishedIs
  <2> QED
    BY <2>1 DEF LiesIn, InNumbers
<1>3. n \in 1..Len(r) /\ n + 1 \in 1..Len(r) /\ n + 1 # 1 /\ (n + 1) - 1 = n /\ n < n + 1
  OBVIOUS
<1>4. ReadsIn(b, up, P, r, n) /\ ReadsIn(b, up, P, r, n + 1)
  BY <1>1, <1>3 DEF Along
<1>5. x \in DOMAIN b.data /\ e \in DOMAIN b.data /\ up[e] = x /\ x \in Nat /\ e \in Nat
  BY <1>2, <1>3, <1>4 DEF ReadsIn, InNumbers
<1>6. x # 0 /\ x \in Elements(b) /\ x < e
  BY <1>2, <1>5 DEF LiesIn
<1>7. b.data[e].type = "EOO" /\ e # z
  BY <1>2, <1>5, <1>6 DEF Elements, LiesIn
<1> DEFINE y == e + 1
<1>8. Follows(DOMAIN b.data, e, y) /\ NextOffset(b, x) = y /\ up[y] = up[x]
  BY <1>2, <1>5, <1>7 DEF LiesIn, LeadsTo
<1> HIDE DEF y
<1>9. y \in DOMAIN b.data /\ x <= y
  BY <1>2, <1>5, <1>6, <1>8 DEF Follows, InNumbers
<1>10. \A k \in 1..n : Under(b, P, Stop(r, k), e)
  BY <1>1, <1>3 DEF Along
<1>11. \A k \in 1..(n - 1) : k \in 1..n
  OBVIOUS
<1>12. CASE r[n].i.first
  <2>1. GoesTo(r, s, n, x) /\ x <= x
    BY <1>5, <1>12 DEF GoesPast
  <2>2. \A k \in 1..(n - 1) : Under(b, P, Stop(r, k), x)
    <3>1. \A q \in Elements(b) : q < x => q < e
      BY <1>2, <1>5, <1>6 DEF Elements, InNumbers
    <3> QED
      BY <1>10, <1>11, <3>1 DEF Under
  <2>6. MayGo(b, up, P, r, n, x)
    BY <1>3, <1>5, <2>1, <2>2 DEF MayGo
  <2>3. Along(b, up, P, s) /\ Stop(s, n) = x
    BY <1>1, <1>2, <2>1, <2>6, GoesAlong
  <2>4. Heard(b, P, table, x)
    <3>1. Graph(table) = ReadSet(b, P, e)
      BY <1>1 DEF Heard
    <3>2. Under(b, P, x, e) /\ Paths(b, P)
      BY <1>1, <1>3, <1>10 DEF ReadsThrough
    <3>3. Outside(ReadSet(b, P, e), P[x]) = Outside(ReadSet(b, P, x), P[x])
      BY <1>2, <1>5, <1>6, <3>2, ReadAgain
    <3> QED
      BY <1>6, <3>1, <3>3 DEF Heard
  <2>5. Len(s) = n
    BY <2>1 DEF GoesTo
  <2> QED
    BY <1>1, <2>3, <2>4, <2>5 DEF Reading
<1>13. CASE ~r[n].i.first
  <2>1. GoesTo(r, s, n, y)
    BY <1>8, <1>13 DEF GoesPast
  <2>2. \A k \in 1..(n - 1) : Under(b, P, Stop(r, k), y)
    BY <1>2, <1>5, <1>8, <1>10, <1>11, UnderOn
  <2>6. MayGo(b, up, P, r, n, y)
    BY <1>3, <1>8, <1>9, <2>2 DEF MayGo
  <2>3. Along(b, up, P, s) /\ Stop(s, n) = y
    BY <1>1, <1>2, <2>1, <2>6, GoesAlong
  <2>4. Heard(b, P, table, y)
    <3>1. ReadSet(b, P, y) = ReadSet(b, P, e)
      BY <1>2, <1>5, <1>8, ReadOver
    <3> QED
      BY <1>1, <3>1 DEF Heard
  <2>5. Len(s) = n
    BY <2>1 DEF GoesTo
  <2> QED
    BY <1>1, <2>3, <2>4, <2>5 DEF Reading
<1> QED
  BY <1>12, <1>13

\* At the end of the document all of it has been read.
LEMMA ReadOut ==
  ASSUME NEW b, NEW up, NEW P, NEW z, NEW r, NEW table, Reading(b, up, P, z, r, table),
         Len(r) = 1, Stop(r, 1) \notin Elements(b)
  PROVE  Graph(table) = ReadSet(b, P, z)
<1> DEFINE e == Stop(r, 1)
<1>1. LiesIn(b, up, z) /\ ReadsIn(b, up, P, r, 1) /\ Heard(b, P, table, e)
  BY FinishedIs DEF Reading, Along
<1>2. e \in DOMAIN b.data /\ up[e] = 0
  BY <1>1 DEF ReadsIn
<1>3. b.data[e].type = "EOO"
  BY <1>2 DEF Elements
<1>4. e = z
  BY <1>1, <1>2, <1>3 DEF LiesIn, LeadsTo
<1> QED
  BY <1>1, <1>4 DEF Heard

-----------------------------------------------------------------------------
(* What is read of the document of a table.                                *)

IdPath == <<<<"string", IdField>>>>

IdEntry(id) == <<IdPath, <<"string", OidToString(OidBytes(id))>>>>

HasIdIn(j) ==
  \E p \in j.heap[j.root] : p[1] = <<"string", IdField>> /\ p[2] # <<"boolean", FALSE>>

\* What comes back of the table of a job, G, when the ids that were made are made.
TripEnds(j, G, made) ==
  LET source == Contents(j.heap, j.root)
  IN  IF HasIdIn(j) \/ ~j.generate THEN G = source
      ELSE /\ {e \in G : e[1] # IdPath} = {e \in source : e[1] # IdPath}
           /\ \E k \in 1..Len(made) : IdEntry(made[k]) \in G

Converted(j, b, made) ==
  \E up, P, z : Finished(b, up, z) /\ ReadsThrough(b, up, P) /\ TripEnds(j, ReadSet(b, P, z), made)

\* A way as it is found in a table.
Told(s) == <<Keys(s), Mark(Last(s)[2])>>

LEMMA ContentsAre ==
  ASSUME NEW j
  PROVE  Contents(j.heap, j.root) = {Told(s) : s \in WaysOf(j)}
BY DEF Contents, Told, WaysOf, Keys, Mark

\* The keys of ways.
LEMMA KeysOn ==
  ASSUME NEW S, NEW s \in Seq(S), NEW p \in S
  PROVE  Keys(Append(s, p)) = Append(Keys(s), p[1]) /\ Last(Append(s, p)) = p
<1> DEFINE n == Len(s)  c == Append(s, p)  K == {q[1] : q \in S}
<1>1. n \in Nat /\ Len(c) = n + 1 /\ c[n + 1] = p /\ \A i \in 1..n : c[i] = s[i]
  OBVIOUS
<1> HIDE DEF c
<1>2. Keys(s) \in [1..n -> K]
  BY DEF Keys
<1>3. Keys(s) \in Seq(K) /\ Len(Keys(s)) = n /\ p[1] \in K
  BY <1>1, <1>2
<1>4. \A i \in 1..(n + 1) : i = n + 1 \/ i \in 1..n
  BY <1>1
<1> HIDE DEF n, K
<1>5. DOMAIN Append(Keys(s), p[1]) = 1..(n + 1) /\ Append(Keys(s), p[1])[n + 1] = p[1]
      /\ \A i \in 1..n : Append(Keys(s), p[1])[i] = Keys(s)[i]
  BY <1>1, <1>3
<1>6. Append(Keys(s), p[1]) \in Seq(K)
  BY <1>3
<1>7. Append(Keys(s), p[1]) = [i \in 1..(n + 1) |-> Append(Keys(s), p[1])[i]]
  <2> DEFINE a == Append(Keys(s), p[1])
  <2>1. a \in Seq(K) /\ DOMAIN a = 1..(n + 1)
    BY <1>5, <1>6
  <2> HIDE DEF a
  <2>2. a \in [1..Len(a) -> K] /\ DOMAIN a = 1..Len(a)
    BY <2>1
  <2>3. a \in [1..(n + 1) -> K]
    BY <2>1, <2>2
  <2>4. a = [i \in 1..(n + 1) |-> a[i]]
    BY <2>3
  <2> QED
    BY <2>4 DEF a
<1>8. Keys(c) = [i \in 1..(n + 1) |-> c[i][1]]
  BY <1>1 DEF Keys
<1>9. \A i \in 1..(n + 1) : c[i][1] = Append(Keys(s), p[1])[i]
  BY <1>1, <1>4, <1>5 DEF Keys, n
<1> QED
  BY <1>1, <1>7, <1>8, <1>9 DEF Last, c

\* The elements that stand for ways.
ForWays(j, E, N) == \A q \in E : N[q] \in WaysOf(j)

KeysOf(E, N) == [x \in E |-> Keys(N[x])]

KeyOfPairs(j) == {p[1] : p \in PairsIn(j)}

LEMMA KeysAre ==
  ASSUME NEW j, NEW s \in WaysOf(j)
  PROVE  Keys(s) \in Seq(KeyOfPairs(j)) /\ Len(Keys(s)) = Len(s) /\ Len(s) \in Nat /\ Len(s) >= 1
         /\ s \in Seq(PairsIn(j))
<1> DEFINE S == PairsIn(j)  K == KeyOfPairs(j)
<1>1. s \in Seq(S) /\ Len(s) \in 1..(StackSize + 1)
  BY WayIs DEF IsWay
<1> HIDE DEF S
<1>2. \A i \in 1..Len(s) : s[i] \in S /\ s[i][1] \in K
  BY <1>1 DEF KeyOfPairs, S
<1> HIDE DEF K
<1>3. Keys(s) \in [1..Len(s) -> K] /\ Len(s) \in Nat
  BY <1>1, <1>2 DEF Keys
<1> QED
  BY <1>1, <1>3, BuilderAssumption DEF S, K

LiesAmong(up, E, x) == x \in E /\ (up[x] = 0 \/ up[x] \in E)

\* An element stands for a pair at the end of the way.
LEMMA StandsReads ==
  ASSUME NEW j, NEW b, NEW up, NEW N, NEW E, NEW x, LiesAmong(up, E, x),
         ForWays(j, E, N), NEW p, StandsFor(b, up, N, x, p)
  PROVE  ReadsAs(b, up, KeysOf(E, N), x) /\ Entry(b, KeysOf(E, N), x) = Told(N[x])
<1>9. x \in E /\ (up[x] = 0 \/ up[x] \in E)
  BY DEF LiesAmong
<1> USE <1>9
<1> DEFINE P == KeysOf(E, N)  S == PairsIn(j)  s == Above(up, N, x)
<1>1. /\ N[x] = Append(s, p) /\ KeyMeets(LiesInArray(b, up, x), b.data[x].key, p)
      /\ Mark(p[2]) = ValueRead(b.data[x]) /\ b.data[x].type \in PlainTypes
  BY DEF StandsFor
<1>2. s \in Seq(S) /\ Keys(s) = Above(up, P, x)
  <2>1. CASE up[x] = 0
    <3>1. s = <<>> /\ Above(up, P, x) = <<>>
      BY <2>1 DEF Above
    <3>2. Keys(<<>>) = <<>>
      BY DEF Keys
    <3> QED
      BY <3>1, <3>2
  <2>2. CASE up[x] # 0
    <3>1. up[x] \in E
      BY <2>2
    <3>2. s = N[up[x]] /\ Above(up, P, x) = Keys(N[up[x]])
      BY <2>2, <3>1 DEF Above, KeysOf
    <3> QED
      BY <3>1, <3>2, KeysAre DEF ForWays
  <2> QED
    BY <2>1, <2>2
<1>3. N[x] \in Seq(S) /\ N[x] \in WaysOf(j)
  BY KeysAre DEF ForWays
<1> HIDE DEF S, s
<1>4. p \in S
  <2>1. Append(s, p) \in Seq(S) /\ Len(s) + 1 \in 1..Len(Append(s, p)) /\ Append(s, p)[Len(s) + 1] = p
    BY <1>1, <1>2, <1>3
  <2> QED
    BY <2>1
<1>5. Keys(N[x]) = Append(Keys(s), p[1]) /\ Last(N[x]) = p
  BY <1>1, <1>2, <1>4, KeysOn
<1>6. P[x] = Keys(N[x])
  BY DEF KeysOf
<1> HIDE DEF P
<1>7. P[x] = Append(Above(up, P, x), KeyRead(LiesInArray(b, up, x), b.data[x].key))
      /\ (LiesInArray(b, up, x) => IsNumberText(b.data[x].key))
  BY <1>1, <1>2, <1>5, <1>6 DEF KeyMeets
<1>8. Entry(b, P, x) = Told(N[x])
  BY <1>1, <1>5, <1>6 DEF Entry, Told
<1> QED
  BY <1>1, <1>7, <1>8 DEF ReadsAs, P

\* No way begins with the keys of one that comes later.
LEMMA NoneForgotten ==
  ASSUME NEW j, JobOK(j), NEW E, NEW N, AllWays(j, E, N), NEW q \in E, NEW x \in E, q < x
  PROVE  ~Begins(Keys(N[x]), Keys(N[q]))
<1> DEFINE s == N[x]  r == N[q]
<1>1. s \in WaysOf(j) /\ r \in WaysOf(j) /\ ~Begins(s, r)
  BY DEF AllWays
<1> HIDE DEF s, r
<1> SUFFICES ASSUME Begins(Keys(s), Keys(r)) PROVE FALSE
  BY DEF s, r
<1>2. Len(Keys(s)) = Len(s) /\ Len(Keys(r)) = Len(r) /\ Len(s) \in Nat /\ Len(r) \in Nat
  BY <1>1, KeysAre
<1>3. Len(s) <= Len(r) /\ \A i \in 1..Len(s) : Keys(s)[i] = Keys(r)[i]
  BY <1>2 DEF Begins
<1>4. \A i \in 1..Len(s) : i \in 1..Len(r) /\ Keys(s)[i] = s[i][1]
  BY <1>2, <1>3 DEF Keys
<1>5. \A i \in 1..Len(r) : Keys(r)[i] = r[i][1]
  BY DEF Keys
<1>6. \A i \in 1..Len(s) : s[i][1] = r[i][1]
  BY <1>3, <1>4, <1>5
<1> QED
  BY <1>1, <1>3, <1>6, SameWay

-----------------------------------------------------------------------------
(* The ends of a conversion.                                               *)

LEMMA ReadsOf ==
  ASSUME NEW j, NEW b, NEW up, NEW N, NEW E, E = Elements(b), LiesWell(b, up), ForWays(j, E, N),
         Stands(b, up, N)
  PROVE  /\ ReadsThrough(b, up, KeysOf(E, N))
         /\ \A x \in E : Entry(b, KeysOf(E, N), x) = Told(N[x])
<1>4. \A x \in E : (up[x] = 0 \/ up[x] \in E) /\ \E p : StandsFor(b, up, N, x, p)
  BY DEF LiesWell, Stands
<1>1. ASSUME NEW x \in E
      PROVE  ReadsAs(b, up, KeysOf(E, N), x) /\ Entry(b, KeysOf(E, N), x) = Told(N[x])
  <2>1. PICK p : StandsFor(b, up, N, x, p)
    BY <1>4
  <2>2. LiesAmong(up, E, x)
    BY <1>4 DEF LiesAmong
  <2> QED
    BY <2>1, <2>2, StandsReads
<1>2. \A x \in E : KeysOf(E, N)[x] \in Seq(KeyOfPairs(j))
  BY KeysAre DEF KeysOf, ForWays
<1>3. Paths(b, KeysOf(E, N))
  BY <1>2 DEF Paths
<1> QED
  BY <1>1, <1>3 DEF ReadsThrough

\* The zero byte at the end is no element.
LEMMA EndElements ==
  ASSUME NEW b, BuilderOK(b), b.finished = FALSE, NEW c, EndAdded(b, c), NEW up, NEW N,
         LiesWell(b, up), Stands(b, up, N)
  PROVE  /\ Elements(c) = Elements(b) /\ LiesWell(c, up) /\ Stands(c, up, N)
         /\ \A x \in Elements(b) : x \in Nat /\ x < b.cur
         /\ \A x \in Elements(b) : c.data[x].type = b.data[x].type /\ c.data[x].key = b.data[x].key
                                   /\ c.data[x].val = b.data[x].val
<1>1. /\ DOMAIN c.data = DOMAIN b.data \cup {b.cur} /\ c.data[b.cur].type = "EOO" /\ SameElements(b, c)
  BY DEF EndAdded
<1>2. b.cur \notin DOMAIN b.data /\ \A x \in DOMAIN b.data : x \in Nat /\ x < b.cur
  BY Lying
<1>3. Elements(c) = Elements(b)
  BY <1>1, <1>2 DEF Elements, SameElements
<1>4. SamePlaces(b, up, up) /\ SameWays(b, N, N)
  BY DEF SamePlaces, SameWays
<1>5. \A x \in Elements(b) : \E p : StandsFor(c, up, N, x, p)
  BY <1>1, <1>4, StillStands
<1> QED
  BY <1>1, <1>2, <1>3, <1>5 DEF Stands, LiesWell, Elements, SameElements

LEMMA PlainEnd ==
  ASSUME NEW j, JobOK(j), NEW b, BuilderOK(b), b.finished = FALSE, Complete(j, b),
         HasIdIn(j) \/ ~j.generate, NEW c, c.data = Placed(b.data, b.cur, Zero), NEW made
  PROVE  Converted(j, c, made)
<1>1. PICK up, N : Unfinished(b, up, <<>>) /\ AllWays(j, Elements(b), N) /\ Stands(b, up, N)
  BY DEF Complete
<1> DEFINE E == Elements(b)  P == KeysOf(E, N)  z == b.cur
<1>2. Finished(c, up, z) /\ EndAdded(b, c) /\ LiesWell(b, up)
  BY <1>1, LinkEnd, LiesWellIs
<1>3. /\ Elements(c) = E /\ LiesWell(c, up) /\ Stands(c, up, N)
      /\ \A x \in E : x \in Nat /\ x < z
  BY <1>1, <1>2, EndElements
<1> HIDE DEF z, E
<1>4. ForWays(j, E, N)
  BY <1>1 DEF ForWays, AllWays, E
<1>5. ReadsThrough(c, up, P) /\ \A x \in E : Entry(c, P, x) = Told(N[x])
  BY <1>3, <1>4, ReadsOf
<1>6. \A q, x \in E : q < x => ~Begins(Keys(N[x]), Keys(N[q]))
  BY <1>1, NoneForgotten DEF E
<1>7. \A q, x \in E : q < x => ~Begins(P[x], P[q])
  BY <1>6 DEF KeysOf
<1>8. Shown(c, P, z) = E
  BY <1>3, <1>7 DEF Shown, Forgotten
<1> HIDE DEF P
<1>9. ReadSet(c, P, z) = {Told(N[x]) : x \in E}
  BY <1>5, <1>8 DEF ReadSet
<1>10. {Told(N[x]) : x \in E} = {Told(s) : s \in WaysOf(j)}
  BY <1>1 DEF AllWays, E
<1>11. ReadSet(c, P, z) = Contents(j.heap, j.root)
  BY <1>9, <1>10, ContentsAre
<1>12. TripEnds(j, ReadSet(c, P, z), made)
  BY <1>11 DEF TripEnds
<1> QED
  BY <1>2, <1>5, <1>12 DEF Converted

\* No other way begins like the one to an id that is false.
LEMMA NothingUnderId ==
  ASSUME NEW j, JobOK(j), ~HasIdIn(j), NEW s \in WaysOf(j), Begins(IdPath, Keys(s))
  PROVE  Keys(s) = IdPath
<1> DEFINE k == <<"string", IdField>>  n == Len(s)
<1>1. n \in Nat /\ n >= 1 /\ Len(Keys(s)) = n /\ Keys(s) \in Seq(KeyOfPairs(j)) /\ IsWay(j, s)
  BY KeysAre, WayIs
<1>2. Len(IdPath) = 1 /\ IdPath[1] = k /\ IdPath = <<k>>
  BY DEF IdPath
<1> HIDE DEF k, n
<1>3. 1 \in 1..n
  BY <1>1
<1>4. Keys(s)[1] = k /\ Keys(s)[1] = s[1][1]
  BY <1>2, <1>3 DEF Begins, Keys, n
<1>5. s[1] \in j.heap[j.root]
  BY <1>1, <1>3 DEF IsWay, GoesOnAt, n
<1>6. s[1][2] = <<"boolean", FALSE>>
  BY <1>4, <1>5 DEF HasIdIn, k
<1>7. n = 1
  <2> SUFFICES ASSUME n # 1 PROVE FALSE
    OBVIOUS
  <2>1. 2 \in 1..n /\ 2 - 1 = 1
    BY <1>1
  <2>2. GoesOnAt(j, s, 1, s[2])
    BY <1>1, <2>1 DEF IsWay, n
  <2>3. s[1][2][1] = "table"
    BY <2>2 DEF GoesOnAt
  <2> QED
    BY <1>6, <2>3
<1>8. Keys(s) \in [1..1 -> KeyOfPairs(j)]
  <2> DEFINE K == KeyOfPairs(j)
  <2>1. Keys(s) \in Seq(K) /\ Len(Keys(s)) = 1
    BY <1>1, <1>7
  <2> HIDE DEF K
  <2>2. Keys(s) \in [1..1 -> K]
    BY <2>1
  <2> QED
    BY <2>2 DEF K
<1>9. Keys(s) = [i \in 1..1 |-> k]
  BY <1>4, <1>8
<1>10. <<k>> = [i \in 1..1 |-> k]
  OBVIOUS
<1> QED
  BY <1>2, <1>9, <1>10

\* The new id comes in.
IdIn(b, c, d, e, id) ==
  /\ CameIn(b, c, e) /\ IsElement(e) /\ e.type = "OID" /\ e.key = IdField /\ e.val = OidBytes(id)
  /\ d.data = Placed(c.data, c.cur, Zero)

\* The ways without the ids, and the new one.
IdKeys(E, N, z) == [x \in E \cup {z} |-> IF x = z THEN IdPath ELSE Keys(N[x])]

IdComes(j, d, to, N, E, z, id) ==
  /\ Elements(d) = E \cup {z} /\ z \notin E /\ to[z] = 0 /\ ForWays(j, E, N)
  /\ \A x \in E : (to[x] = 0 \/ to[x] \in E) /\ \E p : StandsFor(d, to, N, x, p)
  /\ d.data[z].type = "OID" /\ d.data[z].key = IdField /\ d.data[z].val = OidBytes(id)

LEMMA IdReads ==
  ASSUME NEW j, NEW d, NEW to, NEW N, NEW E, NEW z, NEW id, IdComes(j, d, to, N, E, z, id)
  PROVE  /\ ReadsThrough(d, to, IdKeys(E, N, z))
         /\ \A x \in E : Entry(d, IdKeys(E, N, z), x) = Told(N[x])
         /\ Entry(d, IdKeys(E, N, z), z) = IdEntry(id)
<1>6. /\ Elements(d) = E \cup {z} /\ z \notin E /\ to[z] = 0 /\ ForWays(j, E, N)
      /\ \A x \in E : (to[x] = 0 \/ to[x] \in E) /\ \E p : StandsFor(d, to, N, x, p)
      /\ d.data[z].type = "OID" /\ d.data[z].key = IdField /\ d.data[z].val = OidBytes(id)
  BY DEF IdComes
<1> USE <1>6
<1> DEFINE P == IdKeys(E, N, z)  Q == KeysOf(E, N)
<1>1. P[z] = IdPath /\ \A x \in E : P[x] = Q[x]
  BY DEF IdKeys, KeysOf
<1> HIDE DEF P, Q
<1>2. ASSUME NEW x \in E PROVE ReadsAs(d, to, P, x) /\ Entry(d, P, x) = Told(N[x])
  <2>1. PICK p : StandsFor(d, to, N, x, p)
    OBVIOUS
  <2>2. ReadsAs(d, to, Q, x) /\ Entry(d, Q, x) = Told(N[x])
    <3>1. LiesAmong(to, E, x)
      BY DEF LiesAmong
    <3> QED
      BY <2>1, <3>1, StandsReads DEF Q
  <2>3. Above(to, P, x) = Above(to, Q, x) /\ P[x] = Q[x]
    BY <1>1 DEF Above
  <2> QED
    BY <2>2, <2>3 DEF ReadsAs, Entry
<1>3. ReadsAs(d, to, P, z) /\ Entry(d, P, z) = IdEntry(id)
  <2>1. Above(to, P, z) = <<>> /\ LiesInArray(d, to, z) = FALSE
    BY DEF Above, LiesInArray
  <2>2. KeyRead(FALSE, IdField) = <<"string", IdField>>
    BY DEF KeyRead
  <2>3. P[z] = Append(<<>>, <<"string", IdField>>)
    BY <1>1 DEF IdPath
  <2>4. ValueRead(d.data[z]) = <<"string", OidToString(OidBytes(id))>>
    BY DEF ValueRead, LuaValue, TableTypes, NumberTypes
  <2> QED
    BY <1>1, <2>1, <2>2, <2>3, <2>4 DEF ReadsAs, Entry, IdEntry, PlainTypes
<1>4. Paths(d, P)
  <2> DEFINE K == KeyOfPairs(j) \cup {<<"string", IdField>>}
  <2>1. IdPath \in Seq(K)
    BY DEF IdPath
  <2>2. ASSUME NEW x \in E PROVE P[x] \in Seq(K)
    <3>1. P[x] \in Seq(KeyOfPairs(j))
      BY <1>1, KeysAre DEF Q, KeysOf, ForWays
    <3>2. KeyOfPairs(j) \subseteq K
      OBVIOUS
    <3> HIDE DEF K
    <3> QED
      BY <3>1, <3>2
  <2> HIDE DEF K
  <2> QED
    BY <1>1, <2>1, <2>2 DEF Paths
<1>5. ReadsThrough(d, to, P)
  BY <1>2, <1>3, <1>4 DEF ReadsThrough
<1> QED
  BY <1>2, <1>3, <1>5 DEF P

LEMMA IdShown ==
  ASSUME NEW j, JobOK(j), NEW d, NEW N, NEW E, AllWays(j, E, N), NEW z, Elements(d) = E \cup {z},
         z \notin E, \A x \in E : x \in Nat /\ x < z, z \in Nat, NEW end \in Nat, z < end
  PROVE  Shown(d, IdKeys(E, N, z), end) = {q \in E : ~Begins(IdPath, Keys(N[q]))} \cup {z}
<1> DEFINE P == IdKeys(E, N, z)
<1>1. P[z] = IdPath /\ \A x \in E : P[x] = Keys(N[x])
  BY DEF IdKeys
<1> HIDE DEF P
<1>2. \A q \in E : q < end /\ ~(z < q) /\ q < z
  OBVIOUS
<1>3. \A q \in E, x \in E : q < x => ~Begins(P[x], P[q])
  BY <1>1, NoneForgotten
<1>4. z \in Shown(d, P, end)
  BY <1>2 DEF Shown, Forgotten
<1>5. ASSUME NEW q \in E PROVE q \in Shown(d, P, end) <=> ~Begins(IdPath, Keys(N[q]))
  BY <1>1, <1>2, <1>3 DEF Shown, Forgotten
<1>6. Shown(d, P, end) \subseteq E \cup {z}
  BY DEF Shown
<1> QED
  BY <1>4, <1>5, <1>6 DEF P

LEMMA IdEnd ==
  ASSUME NEW j, JobOK(j), NEW b, BuilderOK(b), b.finished = FALSE, Complete(j, b),
         ~(HasIdIn(j) \/ ~j.generate), NEW c, BuilderOK(c), c.finished = FALSE, NEW d, NEW e, NEW id,
         IdIn(b, c, d, e, id), NEW made, NEW k \in 1..Len(made), made[k] = id
  PROVE  Converted(j, d, made)
<1>1. PICK up, N : Unfinished(b, up, <<>>) /\ AllWays(j, Elements(b), N) /\ Stands(b, up, N)
  BY DEF Complete
<1>2. /\ CameIn(b, c, e) /\ IsElement(e) /\ e.type = "OID" /\ e.key = IdField /\ e.val = OidBytes(id)
      /\ d.data = Placed(c.data, c.cur, Zero)
  BY DEF IdIn
<1> DEFINE E == Elements(b)  z == b.cur  end == c.cur  to == AndAt(up, c.cur, up[b.cur])
           P == IdKeys(E, N, z)
<1>3. Unfinished(c, to, <<>>) /\ KeepsPlaces(b, up, to)
  <2>1. e.type \notin {"OBJECT", "ARRAY", "EOO"} /\ to = AndAt(up, c.cur, up[b.cur])
    BY <1>2
  <2> HIDE DEF to
  <2> QED
    BY <1>1, <1>2, <2>1, LinkValue
<1> HIDE DEF to
<1>4. Finished(d, to, end) /\ EndAdded(c, d)
  BY <1>2, <1>3, LinkEnd
<1>5. GotPlaced(b, c, z, e)
  BY <1>2, PlacedIs DEF CameIn
<1>6. /\ z \notin DOMAIN b.data /\ DOMAIN c.data = DOMAIN b.data \cup {z} /\ c.data[z] = e
      /\ \A x \in DOMAIN b.data : c.data[x] = b.data[x]
      /\ Ahead(b) = DOMAIN b.data \cup {z} /\ z \in Nat
  BY <1>5 DEF GotPlaced
<1>7. /\ end \notin DOMAIN c.data /\ end \in Nat
      /\ \A x \in DOMAIN c.data : x \in Nat /\ x < end
  BY Lying
<1>8. /\ DOMAIN d.data = DOMAIN c.data \cup {end} /\ d.data[end].type = "EOO" /\ SameElements(c, d)
  BY <1>4 DEF EndAdded
<1>9. SameElements(b, d)
  BY <1>6, <1>8 DEF SameElements
<1>10. d.data[z].type = "OID" /\ d.data[z].key = IdField /\ d.data[z].val = OidBytes(id)
  <2>1. z \in DOMAIN c.data
    BY <1>6
  <2> QED
    BY <1>2, <1>6, <1>8, <2>1 DEF SameElements
<1>11. Elements(d) = E \cup {z} /\ z \notin E
  BY <1>6, <1>7, <1>8, <1>9, <1>10 DEF Elements, SameElements
<1>12. LiesWell(b, up) /\ SamePlaces(b, up, to) /\ SameWays(b, N, N)
  BY <1>1, <1>3, <1>6, LiesWellIs DEF KeepsPlaces, SamePlaces, SameWays
<1>13. \A x \in E : \E p : StandsFor(d, to, N, x, p)
  BY <1>1, <1>9, <1>12, StillStands
<1>14. to[z] = 0 /\ \A x \in E : to[x] = 0 \/ to[x] \in E
  <2>1. up[z] = 0
    BY <1>1 DEF Unfinished, Opens
  <2> QED
    BY <1>3, <1>6, <1>12, <2>1 DEF KeepsPlaces, LiesWell, Elements
<1>15. \A x \in E : x \in Nat /\ x < z
  BY Lying DEF Elements
<1>16. z < end
  BY <1>6, <1>7
<1> HIDE DEF E, z, end
<1>17. AllWays(j, E, N) /\ ForWays(j, E, N)
  BY <1>1 DEF E, ForWays, AllWays
<1>18. ReadsThrough(d, to, P) /\ (\A x \in E : Entry(d, P, x) = Told(N[x])) /\ Entry(d, P, z) = IdEntry(id)
  <2>1. IdComes(j, d, to, N, E, z, id)
    BY <1>10, <1>11, <1>13, <1>14, <1>17 DEF IdComes
  <2> QED
    BY <2>1, IdReads
<1>19. Shown(d, P, end) = {q \in E : ~Begins(IdPath, Keys(N[q]))} \cup {z}
  BY <1>6, <1>7, <1>11, <1>15, <1>16, <1>17, IdShown DEF z, end
<1> HIDE DEF P
<1> DEFINE G == ReadSet(d, P, end)  source == Contents(j.heap, j.root)
<1>20. G = {Told(N[q]) : q \in {q \in E : ~Begins(IdPath, Keys(N[q]))}} \cup {IdEntry(id)}
  BY <1>18, <1>19 DEF ReadSet
<1>21. \A s \in WaysOf(j) : Begins(IdPath, Keys(s)) <=> Keys(s) = IdPath
  <2>1. Begins(IdPath, IdPath)
    BY DEF Begins
  <2> QED
    BY <2>1, NothingUnderId
<1>22. source = {Told(s) : s \in WaysOf(j)}
  BY ContentsAre
<1>23. \A s : Told(s)[1] = Keys(s)
  BY DEF Told
<1>24. IdEntry(id)[1] = IdPath
  BY DEF IdEntry
<1> HIDE DEF G, source
<1>25. /\ \A x \in G : x = IdEntry(id) \/ \E q \in E : x = Told(N[q])
       /\ \A q \in E : ~Begins(IdPath, Keys(N[q])) => Told(N[q]) \in G
  BY <1>20
<1>26. \A q \in E : N[q] \in WaysOf(j)
  BY <1>17 DEF ForWays
<1>27. \A s \in WaysOf(j) : \E q \in E : N[q] = s
  BY <1>17 DEF AllWays
<1>28. ASSUME NEW x \in G, x[1] # IdPath PROVE x \in source
  BY <1>22, <1>24, <1>25, <1>26, <1>28
<1>29. ASSUME NEW x \in source, x[1] # IdPath PROVE x \in G
  <2>1. PICK s \in WaysOf(j) : x = Told(s)
    BY <1>22
  <2>2. PICK q \in E : N[q] = s
    BY <1>27
  <2>3. ~Begins(IdPath, Keys(s))
    BY <1>21, <1>23, <1>29, <2>1
  <2> QED
    BY <1>25, <2>1, <2>2, <2>3
<1>30. {x \in G : x[1] # IdPath} = {x \in source : x[1] # IdPath}
  BY <1>28, <1>29
<1>31. IdEntry(made[k]) \in G
  BY <1>20
<1>32. TripEnds(j, G, made)
  BY <1>30, <1>31 DEF TripEnds, source
<1> QED
  BY <1>4, <1>18, <1>32 DEF Converted, G

-----------------------------------------------------------------------------
(* BSON_SIZE_OVERFLOW stays once it is set.                                *)

Sticks(b, c) == "SIZE_OVERFLOW" \in b.err => "SIZE_OVERFLOW" \in c.err

LEMMA EstartSticks ==
  ASSUME NEW b, BuilderOK(b), b.bad = "no", NEW type, NEW name \in Seq(Nat), NEW val, NEW len,
         NEW d \in Nat
  PROVE  Sticks(b, Estart(b, type, name, val, len, d).b)
<1> DEFINE r == Estart(b, type, name, val, len, d)
           n == 1 + Len(name) + 1 + d
           space == EnsureSpace(b, n)
           check == CheckFieldName(name)
           element == [type |-> type, key |-> name, val |-> val, len |-> len]
           flagged == Flag(space.b, check.err)
           started == Advance(Place(flagged, element), 2 + Len(name))
           late == Flag(b, {"ALREADY_FINISHED"})
<1>1. n \in Nat /\ BufOK(b) /\ IsBson(b)
  BY DEF BuilderOK, BufOK
<1>2. r = IF b.finished THEN Result(FALSE, late)
          ELSE IF ~space.ok THEN space ELSE IF ~check.ok THEN Result(FALSE, flagged)
          ELSE Result(TRUE, started)
  BY DEF Estart
<1>3. /\ space.ok \in BOOLEAN /\ (~space.ok => space.b.err = {"SIZE_OVERFLOW"})
      /\ (space.ok => space.b.err = b.err) /\ BufOK(space.b)
  BY <1>1, EnsureSpaceOK
<1>4. late.err = b.err \cup {"ALREADY_FINISHED"}
  BY <1>1, FlagFields
<1>5. flagged.err = space.b.err \cup check.err
  BY <1>3, FlagFields DEF BufOK
<1>6. r.ok = TRUE => b.err \subseteq r.b.err
  <2>1. r.ok = TRUE => Added(b, r.b, element, 2 + Len(name))
    BY EstartAdded
  <2> HIDE DEF r, element
  <2> QED
    BY <2>1 DEF Added
<1> HIDE DEF n, space, check, element, flagged, started, late, r
<1>7. r.ok = TRUE \/ r.b = late \/ (~space.ok /\ r = space) \/ (space.ok /\ r.b = flagged)
  BY <1>2, <1>3 DEF Result
<1>8. Sticks(b, r.b)
  BY <1>3, <1>4, <1>5, <1>6, <1>7 DEF Sticks
<1> QED
  BY <1>8 DEF r

LEMMA AppendValueSticks ==
  ASSUME NEW b, BuilderOK(b), b.bad = "no", NEW type, NEW name \in Seq(Nat), NEW val,
         NEW len \in Nat
  PROVE  Sticks(b, AppendValue(b, type, name, val, len).b)
<1> DEFINE e == Estart(b, type, name, val, len, len)
           c == Advance(e.b, len)
           r == AppendValue(b, type, name, val, len)
<1>1. BufOK(b) /\ Len(name) \in Nat
  BY DEF BuilderOK
<1>2. IsBson(e.b) /\ e.ok \in BOOLEAN
  BY <1>1, EstartOK DEF BufOK
<1>3. r = IF e.ok THEN Result(TRUE, c) ELSE e
  BY DEF AppendValue
<1>4. Sticks(b, e.b)
  BY EstartSticks
<1>5. c.err = e.b.err
  BY <1>2, AdvanceFields
<1> HIDE DEF e, c, r
<1>6. r.b = c \/ r.b = e.b
  BY <1>2, <1>3 DEF Result
<1>7. Sticks(b, r.b)
  BY <1>4, <1>5, <1>6 DEF Sticks
<1> QED
  BY <1>7 DEF r

LEMMA ScalarSticks ==
  ASSUME NEW b, BuilderOK(b), b.bad = "no", NEW key, CString(key) \in Seq(Nat), NEW behind,
         NEW v, v[1] \in {"number", "boolean", "string"}, v[1] = "string" => v[2] \in Seq(Byte)
  PROVE  Sticks(b, ScalarIn(b, key, v, behind).b)
<1> DEFINE r == ScalarIn(b, key, v, behind)  name == CString(key)  s == CString(v[2])
           n == 4 + Len(s) + 1
<1>1. CASE v[1] = "number"
  <2>1. r = AppendValue(b, "DOUBLE", name, v[2], 8)
    BY <1>1 DEF ScalarIn, AppendFixed, FixedSize
  <2> QED
    BY <2>1, AppendValueSticks
<1>2. CASE v[1] = "boolean"
  <2>1. r = AppendValue(b, "BOOL", name, v[2], 1)
    BY <1>2 DEF ScalarIn, AppendFixed, FixedSize
  <2> QED
    BY <2>1, AppendValueSticks
<1>3. CASE v[1] = "string" /\ key = IdField
  <2>1. r = AppendValue(b, "OID", name, OidFromString(v[2], behind), 12)
    BY <1>3 DEF ScalarIn, AppendOid
  <2> QED
    BY <2>1, AppendValueSticks
<1>4. CASE v[1] = "string" /\ key # IdField
  <2> DEFINE check == CheckString(s)  flagged == Flag(b, check.err)
             a == AppendValue(b, "STRING", name, s, n)
  <2>1. s \in Seq(Nat)
    BY <1>4, TextSeq, CStringSeq
  <2>2. n \in Nat
    BY <2>1
  <2>3. r = IF check.ok THEN a ELSE Result(FALSE, flagged)
    BY <1>4 DEF ScalarIn, AppendStringBase
  <2> HIDE DEF n, s
  <2>4. Sticks(b, a.b)
    BY <2>2, AppendValueSticks
  <2>5. flagged.err = b.err \cup check.err
    BY FlagFields DEF BuilderOK, BufOK
  <2> HIDE DEF a, check, flagged, r
  <2>6. r.b = a.b \/ r.b = flagged
    BY <2>3 DEF Result
  <2>7. Sticks(b, r.b)
    BY <2>4, <2>5, <2>6 DEF Sticks
  <2> QED
    BY <2>7 DEF r
<1> QED
  BY <1>1, <1>2, <1>3, <1>4

LEMMA StartSubSticks ==
  ASSUME NEW b, BuilderOK(b), b.bad = "no", NEW type, NEW name \in Seq(Nat)
  PROVE  Sticks(b, StartSub(b, type, name).b)
<1> DEFINE e == Estart(b, type, name, <<>>, 0, 5)
           deep == [e.b EXCEPT !.bad = "deep"]
           pushed == [e.b EXCEPT !.stack = Append(@, e.b.cur)]
           c == Advance(pushed, 4)
           r == StartSub(b, type, name)
<1>1. IsBson(e.b)
  BY EstartOK DEF BufOK, BuilderOK
<1>2. r.b \in {e.b, deep, c}
  BY DEF StartSub, Result
<1>3. Sticks(b, e.b)
  BY EstartSticks
<1> DEFINE d == e.b
<1>4. pushed = [d EXCEPT !.stack = Append(d.stack, d.cur)] /\ deep = [d EXCEPT !.bad = "deep"]
  OBVIOUS
<1> HIDE DEF d, deep, pushed
<1>5. deep.err = d.err /\ pushed.err = d.err /\ IsBson(pushed)
  BY <1>1, <1>4 DEF IsBson, d
<1>6. c.err = d.err
  BY <1>5, AdvanceFields
<1> HIDE DEF c, r, e
<1>7. Sticks(b, r.b)
  BY <1>2, <1>3, <1>5, <1>6 DEF Sticks, d
<1> QED
  BY <1>7 DEF r

LEMMA FinishObjectSticks ==
  ASSUME NEW b, BuilderOK(b)
  PROVE  Sticks(b, FinishObject(b).b)
<1> DEFINE space == EnsureSpace(b, 1)
           z == AppendZero(space.b)
           start == b.stack[Len(b.stack)]
           patched == [p \in DOMAIN z.data |->
                         IF z.data[p].type # "EOO" /\ Body(z, p) = start
                           THEN [z.data[p] EXCEPT !.len = z.cur - start] ELSE z.data[p]]
           under == [z EXCEPT !.bad = "under"]
           filled == [z EXCEPT !.data = patched]
           closed == [filled EXCEPT !.stack = SubSeq(z.stack, 1, Len(z.stack) - 1)]
           r == FinishObject(b)
<1>1. /\ space.ok \in BOOLEAN
      /\ space.ok = TRUE => Zeroed(b, z) /\ IsBson(z)
  BY ZeroBegins DEF BufOK
<1>2. ~space.ok => space.b.err = {"SIZE_OVERFLOW"}
  <2>1. BufOK(b) /\ 1 \in Nat
    BY DEF BuilderOK
  <2> QED
    BY <2>1, EnsureSpaceOK
<1>3. r = IF ~space.ok THEN space ELSE IF b.stack = <<>> THEN Result(TRUE, under)
          ELSE Result(TRUE, closed)
  <2>1. closed = [z EXCEPT !.data = patched, !.stack = SubSeq(@, 1, Len(@) - 1)]
    OBVIOUS
  <2> QED
    BY <2>1 DEF FinishObject
<1> HIDE DEF space, z, patched, start
<1>4. IsBson(z) => under.err = z.err
  BY DEF IsBson
<1>5. IsBson(z) => IsBson(filled) /\ filled.err = z.err
  BY DEF IsBson
<1> HIDE DEF filled
<1>6. IsBson(z) => closed.err = z.err
  BY <1>5 DEF IsBson
<1> HIDE DEF under, closed, r
<1>7. (~space.ok /\ r = space) \/ (space.ok = TRUE /\ (r.b = under \/ r.b = closed))
  BY <1>1, <1>3 DEF Result
<1>8. Sticks(b, r.b)
  BY <1>1, <1>2, <1>4, <1>6, <1>7 DEF Sticks, Zeroed
<1> QED
  BY <1>8 DEF r

\* bson_finish: the error flag and a byte too many stay as well.
LEMMA FinishSticks ==
  ASSUME NEW b, BuilderOK(b)
  PROVE  Sticks(b, Finish(b).b) /\ (b.bad = "over" => Finish(b).b.bad = "over")
<1> DEFINE space == EnsureSpace(b, 1)
           z == AppendZero(space.b)
           sized == [z EXCEPT !.size = z.cur]
           closed == [sized EXCEPT !.finished = TRUE]
           slips == IF b.stack = <<>> THEN z.slips ELSE z.slips \cup {"early"}
           whole == [closed EXCEPT !.slips = slips]
           r == Finish(b)
<1>1. /\ space.ok \in BOOLEAN
      /\ space.ok = TRUE => Zeroed(b, z) /\ IsBson(z)
      /\ space.ok = FALSE => Kept(b, space.b)
  BY ZeroBegins DEF BufOK
<1>2. ~space.ok => space.b.err = {"SIZE_OVERFLOW"}
  <2>1. BufOK(b) /\ 1 \in Nat
    BY DEF BuilderOK
  <2> QED
    BY <2>1, EnsureSpaceOK
<1>3. whole = [z EXCEPT !.size = z.cur, !.finished = TRUE,
                        !.slips = IF b.stack = <<>> THEN @ ELSE @ \cup {"early"}]
  OBVIOUS
<1>4. r = IF "NOT_UTF8" \in b.err THEN Result(FALSE, b)
          ELSE IF b.finished THEN Result(TRUE, b)
          ELSE IF ~space.ok THEN space ELSE Result(TRUE, whole)
  BY <1>3 DEF Finish
<1> HIDE DEF space, z, slips
<1>5. IsBson(z) => IsBson(sized) /\ sized.err = z.err /\ sized.bad = z.bad
  BY DEF IsBson
<1> HIDE DEF sized
<1>6. IsBson(z) => IsBson(closed) /\ closed.err = z.err /\ closed.bad = z.bad
  BY <1>5, FinishedField
<1> HIDE DEF closed
<1>7. IsBson(z) => whole.err = z.err /\ whole.bad = z.bad
  BY <1>6 DEF IsBson
<1> HIDE DEF whole, r
<1>8. r.b = b \/ (space.ok = FALSE /\ r = space) \/ (space.ok = TRUE /\ r.b = whole)
  BY <1>1, <1>4 DEF Result
<1>9. Sticks(b, r.b) /\ (b.bad = "over" => r.b.bad = "over")
  <2>1. CASE r.b = b
    BY <2>1 DEF Sticks
  <2>2. CASE space.ok = FALSE /\ r = space
    BY <1>1, <1>2, <2>2 DEF Sticks, Kept
  <2>3. CASE space.ok = TRUE /\ r.b = whole
    BY <1>1, <1>7, <2>3 DEF Sticks, Zeroed
  <2> QED
    BY <1>8, <2>1, <2>2, <2>3
<1> QED
  BY <1>9 DEF r

LEMMA TidyBefore ==
  ASSUME NEW b, NEW c, b.bad = "no", Sticks(b, c), Tidy(c)
  PROVE  Tidy(b)
  BY DEF Tidy, Sticks

-----------------------------------------------------------------------------
(* Every thread that converts a plain table is on its way.                 *)

\* The document on the way to the last pair, or waiting for an id.
BuildsOn(j, b, w, seen) ==
  IF w = <<>> THEN ~(HasIdIn(j) \/ ~j.generate) /\ Complete(j, b) /\ b.stack = <<>>
              ELSE Underway(j, b, w, seen)

\* What is read so far is what will be there in the end.
ReadsOut(j, b, r, table, made) ==
  \E up, P, z : Reading(b, up, P, z, r, table) /\ TripEnds(j, ReadSet(b, P, z), made)

TripAt(j, place, b, w, seen, r, table, made) ==
  j.kind = "lua" /\ Plain(j) /\ Tidy(b) =>
    /\ place # "error" /\ b.bad = "no" /\ b.slips \subseteq {"wrapped"}
    /\ place \in {"build", "insert"} => DOMAIN table = {}
    /\ place = "build" => BuildsOn(j, b, w, seen)
    /\ place = "insert" /\ b.finished => Converted(j, b, made)
    /\ place = "read" => ReadsOut(j, b, r, table, made)
    /\ place = "done" => TripEnds(j, Graph(table), made)

Trip(t) == TripAt(job[t], pc[t], doc[t], walk[t], visited[t], it[t], back[t], ids)

TripInv ==
  /\ visited = [t \in Threads |-> visited[t]] /\ back = [t \in Threads |-> back[t]]
  /\ \A t \in Threads : Trip(t)

\* Ids are only added.
MoreIds(made, more) ==
  \A k \in 1..Len(made) : k \in 1..Len(more) /\ more[k] = made[k]

LEMMA EndsMore ==
  ASSUME NEW j, NEW G, NEW made, NEW more, MoreIds(made, more), TripEnds(j, G, made)
  PROVE  TripEnds(j, G, more)
<1>1. (\E k \in 1..Len(made) : IdEntry(made[k]) \in G) => \E k \in 1..Len(more) : IdEntry(more[k]) \in G
  BY DEF MoreIds
<1> QED
  BY <1>1, Zenon DEF TripEnds

LEMMA TripMore ==
  ASSUME NEW j, NEW place, NEW b, NEW w, NEW seen, NEW r, NEW table, NEW made, NEW more,
         MoreIds(made, more), TripAt(j, place, b, w, seen, r, table, made)
  PROVE  TripAt(j, place, b, w, seen, r, table, more)
<1>1. Converted(j, b, made) => Converted(j, b, more)
  <2>1. ASSUME NEW up, NEW P, NEW z, Finished(b, up, z), ReadsThrough(b, up, P),
               TripEnds(j, ReadSet(b, P, z), made)
        PROVE  Converted(j, b, more)
    <3>1. TripEnds(j, ReadSet(b, P, z), more)
      BY <2>1, EndsMore
    <3> QED
      BY <2>1, <3>1 DEF Converted
  <2> QED
    BY <2>1, Zenon DEF Converted
<1>2. ReadsOut(j, b, r, table, made) => ReadsOut(j, b, r, table, more)
  <2>1. ASSUME NEW up, NEW P, NEW z, Reading(b, up, P, z, r, table),
               TripEnds(j, ReadSet(b, P, z), made)
        PROVE  ReadsOut(j, b, r, table, more)
    <3>1. TripEnds(j, ReadSet(b, P, z), more)
      BY <2>1, EndsMore
    <3> QED
      BY <2>1, <3>1 DEF ReadsOut
  <2> QED
    BY <2>1, Zenon DEF ReadsOut
<1>3. TripEnds(j, Graph(table), made) => TripEnds(j, Graph(table), more)
  BY EndsMore
<1> QED
  BY <1>1, <1>2, <1>3, Zenon DEF TripAt

\* The thread t goes on to a place, with a document, calls and a table.
Changes(t, place, b, w, seen, r, table) ==
  /\ job' = job /\ pc' = [pc EXCEPT ![t] = place] /\ doc' = [doc EXCEPT ![t] = b]
  /\ walk' = [walk EXCEPT ![t] = w] /\ visited' = [visited EXCEPT ![t] = seen]
  /\ it' = [it EXCEPT ![t] = r] /\ back' = [back EXCEPT ![t] = table]

LEMMA ItSelf ==
  ASSUME NEW f, f = [u \in Threads |-> f[u]], NEW t \in Threads
  PROVE  f = [f EXCEPT ![t] = f[t]]
OBVIOUS

Kinds == DocInv /\ ReadOK /\ TripInv

\* All variables are functions of the threads.
LEMMA Selves ==
  ASSUME Kinds, NEW t \in Threads
  PROVE  /\ pc = [pc EXCEPT ![t] = pc[t]] /\ doc = [doc EXCEPT ![t] = doc[t]]
         /\ walk = [walk EXCEPT ![t] = walk[t]] /\ visited = [visited EXCEPT ![t] = visited[t]]
         /\ it = [it EXCEPT ![t] = it[t]] /\ back = [back EXCEPT ![t] = back[t]]
<1>1. pc = [u \in Threads |-> pc[u]] /\ doc = [u \in Threads |-> doc[u]]
      /\ walk = [u \in Threads |-> walk[u]]
  BY DEF Kinds, DocInv, DocsOK, WalkOK
<1>2. it = [u \in Threads |-> it[u]] /\ visited = [u \in Threads |-> visited[u]]
      /\ back = [u \in Threads |-> back[u]]
  BY DEF Kinds, ReadOK, TripInv
<1> QED
  BY <1>1, <1>2, ItSelf

LEMMA ChangedAt ==
  ASSUME NEW f, f = [u \in Threads |-> f[u]], NEW t \in Threads, NEW x, NEW g,
         g = [f EXCEPT ![t] = x]
  PROVE  g = [u \in Threads |-> g[u]] /\ g[t] = x /\ \A u \in Threads : u # t => g[u] = f[u]
OBVIOUS

LEMMA TripStep ==
  ASSUME Kinds, NEW t \in Threads, NEW place, NEW b, NEW w, NEW seen, NEW r, NEW table,
         Changes(t, place, b, w, seen, r, table), MoreIds(ids, ids'),
         TripAt(job[t], place, b, w, seen, r, table, ids')
  PROVE  TripInv'
<1>1. pc = [u \in Threads |-> pc[u]] /\ doc = [u \in Threads |-> doc[u]]
      /\ walk = [u \in Threads |-> walk[u]]
  BY DEF Kinds, DocInv, DocsOK, WalkOK
<1>2. it = [u \in Threads |-> it[u]] /\ visited = [u \in Threads |-> visited[u]]
      /\ back = [u \in Threads |-> back[u]]
  BY DEF Kinds, ReadOK, TripInv
<1>3. /\ job' = job /\ pc' = [pc EXCEPT ![t] = place] /\ doc' = [doc EXCEPT ![t] = b]
      /\ walk' = [walk EXCEPT ![t] = w] /\ visited' = [visited EXCEPT ![t] = seen]
      /\ it' = [it EXCEPT ![t] = r] /\ back' = [back EXCEPT ![t] = table]
  BY DEF Changes
<1>4. /\ pc'[t] = place /\ \A u \in Threads : u # t => pc'[u] = pc[u]
      /\ doc'[t] = b /\ \A u \in Threads : u # t => doc'[u] = doc[u]
      /\ walk'[t] = w /\ \A u \in Threads : u # t => walk'[u] = walk[u]
  BY <1>1, <1>3, ChangedAt
<1>5. /\ visited'[t] = seen /\ \A u \in Threads : u # t => visited'[u] = visited[u]
      /\ it'[t] = r /\ \A u \in Threads : u # t => it'[u] = it[u]
      /\ back'[t] = table /\ \A u \in Threads : u # t => back'[u] = back[u]
  BY <1>2, <1>3, ChangedAt
<1>6. visited' = [u \in Threads |-> visited'[u]] /\ back' = [u \in Threads |-> back'[u]]
  BY <1>2, <1>3, ChangedAt
<1>7. ASSUME NEW u \in Threads PROVE Trip(u)'
  <2>1. CASE u = t
    BY <1>3, <1>4, <1>5, <2>1 DEF Trip
  <2>2. CASE u # t
    <3>1. TripAt(job[u], pc[u], doc[u], walk[u], visited[u], it[u], back[u], ids)
      BY DEF Kinds, TripInv, Trip
    <3>2. TripAt(job[u], pc[u], doc[u], walk[u], visited[u], it[u], back[u], ids')
      BY <3>1, TripMore
    <3> QED
      BY <1>3, <1>4, <1>5, <2>2, <3>2 DEF Trip
  <2> QED
    BY <2>1, <2>2
<1> QED
  BY <1>6, <1>7 DEF TripInv

\* What is known of a thread that converts a plain table.
LEMMA TripHere ==
  ASSUME Kinds, NEW t \in Threads
  PROVE  TripAt(job[t], pc[t], doc[t], walk[t], visited[t], it[t], back[t], ids)
BY DEF Kinds, TripInv, Trip

\* Nothing happens to the threads.
LEMMA TripSame ==
  ASSUME Kinds, UNCHANGED <<job, pc, doc, walk, visited, it, back>>, MoreIds(ids, ids')
  PROVE  TripInv'
<1>1. ASSUME NEW u \in Threads PROVE Trip(u)'
  <2>1. TripAt(job[u], pc[u], doc[u], walk[u], visited[u], it[u], back[u], ids')
    BY TripHere, TripMore
  <2> QED
    BY <2>1 DEF Trip
<1> QED
  BY <1>1 DEF TripInv, Kinds

\* A thread with another job builds its document.
LEMMA TripOther ==
  ASSUME Kinds, NEW t \in Threads, job[t].kind # "lua", NEW b, NEW place, Build(t, b, place),
         UNCHANGED luaVars, MoreIds(ids, ids')
  PROVE  TripInv'
<1>1. Changes(t, place, b, walk[t], visited[t], it[t], back[t])
  BY Selves DEF Changes, Build, luaVars
<1>2. TripAt(job[t], place, b, walk[t], visited[t], it[t], back[t], ids')
  BY DEF TripAt
<1> QED
  BY <1>1, <1>2, TripStep

LEMMA IdsGrow ==
  ASSUME OidTypeOK, OidNext \/ UNCHANGED oidVars PROVE MoreIds(ids, ids')
<1> DEFINE D == [time : Nat, fuzz : Nat, inc : Nat]
<1>1. ids \in Seq(D)
  BY DEF OidTypeOK
<1> HIDE DEF D
<1>2. Len(ids) \in Nat
  BY <1>1
<1>3. CASE ids' = ids
  BY <1>3 DEF MoreIds
<1>4. CASE \E t \in Threads : GenOut(t)
  <2>1. PICK t \in Threads : GenOut(t)
    BY <1>4
  <2> DEFINE x == Made(t)  more == Append(ids, x)
  <2>2. ids' = more
    BY <2>1 DEF GenOut
  <2> HIDE DEF x
  <2>3. MoreIds(ids, more)
    BY <1>1 DEF MoreIds
  <2> QED
    BY <2>2, <2>3
<1>5. ids' = ids \/ \E t \in Threads : GenOut(t)
  BY DEF OidNext, oidVars, GenStart, GenInside, GenIncrement, GenCheckFuzz, GenSeed
<1> QED
  BY <1>3, <1>4, <1>5

-----------------------------------------------------------------------------
(* Steps of table_to_bson.                                                 *)

\* A conversion that goes on well.
LEMMA BuildsAt ==
  ASSUME NEW j, NEW b, b.slips \subseteq {"wrapped"}, NEW c, GoesWell(b, c), NEW w, w # <<>>,
         NEW seen, Underway(j, c, w, seen), NEW r, NEW table, DOMAIN table = {}, NEW made
  PROVE  TripAt(j, "build", c, w, seen, r, table, made)
<1>1. c.bad = "no" /\ c.slips \subseteq {"wrapped"}
  BY DEF GoesWell
<1>2. BuildsOn(j, c, w, seen)
  BY DEF BuildsOn
<1> QED
  BY <1>1, <1>2 DEF TripAt

\* Where a plain table is being converted.
LEMMA BuildsHere ==
  ASSUME Kinds, NEW t \in Threads, pc[t] = "build", job[t].kind = "lua", Plain(job[t]), Tidy(doc[t])
  PROVE  /\ doc[t].bad = "no" /\ doc[t].slips \subseteq {"wrapped"} /\ DOMAIN back[t] = {}
         /\ BuildsOn(job[t], doc[t], walk[t], visited[t]) /\ JobOK(job[t])
         /\ BuilderOK(doc[t]) /\ doc[t].finished = FALSE
<1>1. TripAt(job[t], pc[t], doc[t], walk[t], visited[t], it[t], back[t], ids)
  BY TripHere
<1>2. BuilderOK(doc[t]) /\ doc[t].finished = FALSE
  BY DocTyped DEF Kinds, DocInv
<1>3. JobOK(job[t])
  BY DEF Kinds, DocInv, JobsOK
<1> QED
  BY <1>1, <1>2, <1>3 DEF TripAt

LEMMA CallsHere ==
  ASSUME Kinds, NEW t \in Threads
  PROVE  walk[t] \in Seq(Calls(DOMAIN job[t].heap, SUBSET Pairs(t), BOOLEAN))
BY DEF Kinds, DocInv, WalkOK, Walks, Calls

LEMMA DueHere ==
  ASSUME Kinds, NEW t \in Threads, walk[t] # <<>>, NEW p \in Last(walk[t]).left, NextPair(t, p),
         Plain(job[t]), Tidy(doc[t])
  PROVE  /\ DueIn(job[t], doc[t], walk[t], Len(walk[t]), p)
         /\ Underway(job[t], doc[t], walk[t], visited[t])
         /\ KeyFor(Last(walk[t]), p, KeyIn(Last(walk[t]), p))
         /\ ValueFor(job[t], p[2], KeyIn(Last(walk[t]), p))
<1> DEFINE w == walk[t]  n == Len(w)
<1>1. pc[t] = "build" /\ job[t].kind = "lua"
  BY DEF NextPair, At
<1>2. /\ doc[t].bad = "no" /\ BuilderOK(doc[t]) /\ doc[t].finished = FALSE /\ JobOK(job[t])
      /\ BuildsOn(job[t], doc[t], w, visited[t])
  BY <1>1, BuildsHere
<1>3. n \in Nat \ {0}
  BY PairDue DEF Kinds
<1>4. Last(w) = w[n]
  BY DEF Last
<1>5. DueIn(job[t], doc[t], w, n, p)
  BY <1>2, <1>3, <1>4 DEF DueIn
<1>6. Underway(job[t], doc[t], w, visited[t])
  BY <1>2 DEF BuildsOn
<1>7. KeyFor(w[n], p, KeyIn(w[n], p)) /\ ValueFor(job[t], p[2], KeyIn(w[n], p))
  BY <1>5, <1>6, DueIs
<1> QED
  BY <1>4, <1>5, <1>6, <1>7

\* A plain table has no pair that is not converted.
LEMMA BadPairTrip ==
  ASSUME Kinds, NEW t \in Threads, walk[t] # <<>>, BadPair(t), MoreIds(ids, ids')
  PROVE  TripInv'
<1>1. PICK p \in Last(walk[t]).left :
        /\ NextPair(t, p)
        /\ ~ConvertibleKey(t, p) \/ p[2][1] \notin {"number", "boolean", "string", "table"}
        /\ Build(t, doc[t], "error")
        /\ UNCHANGED luaVars
  BY DEF BadPair
<1>2. Changes(t, "error", doc[t], walk[t], visited[t], it[t], back[t])
  BY <1>1, Selves DEF Changes, Build, luaVars
<1>3. ~(Plain(job[t]) /\ Tidy(doc[t]))
  <2> SUFFICES ASSUME Plain(job[t]), Tidy(doc[t]) PROVE FALSE
    OBVIOUS
  <2>1. /\ KeyFor(Last(walk[t]), p, KeyIn(Last(walk[t]), p))
        /\ ValueFor(job[t], p[2], KeyIn(Last(walk[t]), p))
    BY <1>1, DueHere
  <2>2. ConvertibleIn(Last(walk[t]), p) /\ p[2][1] \in {"number", "boolean", "string", "table"}
    BY <2>1 DEF KeyFor, ValueFor
  <2>3. ConvertibleKey(t, p)
    BY <2>2 DEF ConvertibleIn, ConvertibleKey
  <2> QED
    BY <1>1, <2>2, <2>3
<1>4. TripAt(job[t], "error", doc[t], walk[t], visited[t], it[t], back[t], ids')
  BY <1>3 DEF TripAt
<1> QED
  BY <1>2, <1>4, TripStep

LEMMA ScalarPairTrip ==
  ASSUME Kinds, NEW t \in Threads, walk[t] # <<>>, ScalarPair(t), MoreIds(ids, ids')
  PROVE  TripInv'
<1>1. PICK p \in Last(walk[t]).left, behind \in Behind :
        /\ NextPair(t, p)
        /\ ConvertibleKey(t, p) /\ p[2][1] \in {"number", "boolean", "string"}
        /\ LET r == ScalarAppended(t, PairKey(t, p), p[2], behind)
           IN  Build(t, r.b, IF r.ok THEN "build" ELSE "error")
        /\ walk' = [walk EXCEPT ![t] = Without(@, p)]
        /\ UNCHANGED <<visited, it, back>>
  BY DEF ScalarPair
<1> DEFINE b == doc[t]  w == walk[t]  n == Len(w)  key == KeyIn(Last(w), p)
           r == ScalarIn(b, key, p[2], behind)
           place == IF r.ok THEN "build" ELSE "error"
           less == Without(w, p)
<1>2. /\ PairOK(job[t].heap, p) /\ n \in Nat \ {0} /\ BuilderOK(b) /\ b.bad = "no"
      /\ pc[t] = "build" /\ job[t].kind = "lua"
  BY <1>1, PairDue DEF Kinds, NextPair
<1>3. PairKey(t, p) = key
  BY DEF PairKey, KeyIn
<1>4. ScalarAppended(t, PairKey(t, p), p[2], behind) = r
  BY <1>3 DEF ScalarAppended, ScalarIn
<1>5. Build(t, r.b, place)
  BY <1>1, <1>4
<1>6. walk' = [walk EXCEPT ![t] = less]
  BY <1>1 DEF Kinds, DocInv, WalkOK
<1> HIDE DEF place, less
<1>7. Changes(t, place, r.b, less, visited[t], it[t], back[t])
  BY <1>1, <1>5, <1>6, Selves DEF Changes, Build
<1>8. Sticks(b, r.b)
  <2>1. CString(key) \in Seq(Nat)
    BY <1>1, <1>2, <1>3, PairKeySeq
  <2>2. p[2][1] = "string" => p[2][2] \in Seq(Byte)
    BY <1>2 DEF PairOK
  <2> HIDE DEF key
  <2> QED
    BY <1>1, <1>2, <2>1, <2>2, ScalarSticks
<1>9. TripAt(job[t], place, r.b, less, visited[t], it[t], back[t], ids')
  <2>1. CASE Plain(job[t]) /\ Tidy(r.b)
    <3>1. Tidy(b)
      BY <1>2, <1>8, <2>1, TidyBefore
    <3>2. b.slips \subseteq {"wrapped"} /\ DOMAIN back[t] = {}
      BY <1>2, <2>1, <3>1, BuildsHere
    <3>3. DueIn(job[t], b, w, n, p) /\ Underway(job[t], b, w, visited[t])
      BY <1>1, <2>1, <3>1, DueHere
    <3>4. w \in Seq(Calls(DOMAIN job[t].heap, SUBSET Pairs(t), BOOLEAN))
      BY CallsHere
    <3>5. r = ScalarIn(b, KeyIn(w[n], p), p[2], behind)
      BY DEF Last
    <3>6. p[2][1] # "table"
      BY <1>1
    <3> HIDE DEF r, n
    <3>7. r.ok = TRUE /\ GoesWell(b, r.b) /\ Underway(job[t], r.b, Without(w, p), visited[t])
      BY <2>1, <3>3, <3>4, <3>5, <3>6, ValueTrip
    <3>8. less # <<>>
      <4>1. Len(less) = n
        BY <1>2, <3>4, WithoutIs DEF less, n
      <4> QED
        BY <1>2, <4>1
    <3>9. place = "build"
      BY <3>7 DEF place
    <3> QED
      BY <3>2, <3>7, <3>8, <3>9, BuildsAt DEF less
  <2>2. CASE ~(Plain(job[t]) /\ Tidy(r.b))
    BY <2>2 DEF TripAt
  <2> QED
    BY <2>1, <2>2
<1> HIDE DEF r
<1> QED
  BY <1>7, <1>9, TripStep

LEMMA TablePairTrip ==
  ASSUME Kinds, NEW t \in Threads, walk[t] # <<>>, TablePair(t), MoreIds(ids, ids')
  PROVE  TripInv'
<1>1. PICK p \in Last(walk[t]).left :
        /\ NextPair(t, p)
        /\ ConvertibleKey(t, p) /\ p[2][1] = "table"
        /\ LET sub == p[2][2]
               name == CString(PairKey(t, p))
               r == IF IsArray(t, sub) THEN StartArray(doc[t], name) ELSE StartObject(doc[t], name)
               fine == r.ok /\ sub \notin visited[t]
           IN  /\ Build(t, r.b, IF fine THEN "build" ELSE "error")
               /\ visited' = [visited EXCEPT ![t] = @ \cup {sub}]
               /\ walk' = [walk EXCEPT ![t] =
                    IF fine THEN Append(Without(@, p), StartWalk(t, sub, IsArray(t, sub)))
                            ELSE @]
        /\ UNCHANGED <<it, back>>
  BY DEF TablePair
<1> DEFINE sub == p[2][2]
           name == CString(PairKey(t, p))
           type == IF IsArray(t, sub) THEN "ARRAY" ELSE "OBJECT"
           r == IF IsArray(t, sub) THEN StartArray(doc[t], name) ELSE StartObject(doc[t], name)
           fine == r.ok /\ sub \notin visited[t]
           place == IF fine THEN "build" ELSE "error"
           less == Without(walk[t], p)
           g == StartWalk(t, sub, IsArray(t, sub))
           deeper == Append(less, g)
           next == IF fine THEN deeper ELSE walk[t]
           seen == visited[t] \cup {sub}
           b == doc[t]  w == walk[t]  n == Len(w)
<1>2. /\ PairOK(job[t].heap, p) /\ n \in Nat \ {0} /\ BuilderOK(b) /\ b.bad = "no"
      /\ pc[t] = "build" /\ job[t].kind = "lua"
  BY <1>1, PairDue DEF Kinds, NextPair
<1>3. Build(t, r.b, place) /\ walk' = [walk EXCEPT ![t] = next]
      /\ visited' = [visited EXCEPT ![t] = seen]
  <2>1. Build(t, r.b, place)
    BY <1>1, Zenon
  <2>2. walk' = [walk EXCEPT ![t] = next]
    BY <1>1, Zenon
  <2>3. visited' = [visited EXCEPT ![t] = seen]
    BY <1>1, Zenon
  <2> QED
    BY <2>1, <2>2, <2>3
<1>4. r = StartSub(b, type, name)
  BY DEF StartArray, StartObject
<1> HIDE DEF r, place, next, seen
<1>5. Changes(t, place, r.b, next, seen, it[t], back[t])
  BY <1>1, <1>3, Selves DEF Changes, Build
<1>6. Sticks(b, r.b)
  <2>1. name \in Seq(Nat)
    BY <1>1, <1>2, PairKeySeq
  <2> HIDE DEF name, type
  <2> QED
    BY <1>2, <1>4, <2>1, StartSubSticks
<1>7. TripAt(job[t], place, r.b, next, seen, it[t], back[t], ids')
  <2>1. CASE Plain(job[t]) /\ Tidy(r.b)
    <3>1. Tidy(b)
      BY <1>2, <1>6, <2>1, TidyBefore
    <3>2. b.slips \subseteq {"wrapped"} /\ DOMAIN back[t] = {}
      BY <1>2, <2>1, <3>1, BuildsHere
    <3>3. /\ DueIn(job[t], b, w, n, p) /\ Underway(job[t], b, w, visited[t])
          /\ KeyFor(Last(w), p, KeyIn(Last(w), p)) /\ ValueFor(job[t], p[2], KeyIn(Last(w), p))
      BY <1>1, <2>1, <3>1, DueHere
    <3>4. w \in Seq(Calls(DOMAIN job[t].heap, SUBSET Pairs(t), BOOLEAN))
      BY CallsHere
    <3>5. name = KeyIn(w[n], p)
      <4>1. PairKey(t, p) = KeyIn(Last(w), p)
        BY DEF PairKey, KeyIn
      <4>2. name = PairKey(t, p)
        BY <3>3, <4>1 DEF KeyFor, PlainFor
      <4> QED
        BY <4>1, <4>2 DEF Last
    <3>6. IsArray(t, sub) = ArrayIn(job[t], sub)
      <4>1. sub \in DOMAIN job[t].heap
        BY <1>1, <3>3 DEF ValueFor
      <4>2. job[t].meta[sub] = "none"
        BY <2>1, <4>1 DEF Plain
      <4> QED
        BY <4>2 DEF IsArray, ArrayIn
    <3>7. type = IF ArrayIn(job[t], p[2][2]) THEN "ARRAY" ELSE "OBJECT"
      BY <3>6
    <3>8. g = [tbl |-> p[2][2], left |-> job[t].heap[p[2][2]], array |-> ArrayIn(job[t], p[2][2])]
      BY <3>6 DEF StartWalk
    <3>9. r = StartSub(b, type, KeyIn(w[n], p))
      BY <1>4, <3>5
    <3>10. p[2][1] = "table"
      BY <1>1
    <3> HIDE DEF g, n, type
    <3>15. GoesDown(job[t], b, w, n, p, type, r, g)
      BY <2>1, <3>7, <3>8, <3>9, <3>10 DEF GoesDown
    <3>16. WentDown(job[t], b, w, p, r, g, visited[t])
      BY <3>3, <3>4, <3>15, TableTrip
    <3>11. /\ r.ok = TRUE /\ p[2][2] \notin visited[t] /\ GoesWell(b, r.b)
           /\ Underway(job[t], r.b, Append(Without(w, p), g), visited[t] \cup {p[2][2]})
      BY <3>16 DEF WentDown
    <3>12. place = "build" /\ next = deeper
      BY <3>11 DEF place, next
    <3>13. deeper # <<>>
      <4>1. less \in Seq(Calls(DOMAIN job[t].heap, SUBSET Pairs(t), BOOLEAN) \cup {g})
        <5>1. less \in Seq(Walks(t))
          BY <1>2, <3>4, LessOK DEF n, Walks, Calls
        <5> DEFINE D == Walks(t)  E == Calls(DOMAIN job[t].heap, SUBSET Pairs(t), BOOLEAN)
        <5>2. D = E
          BY DEF Walks, Calls
        <5>3. less \in Seq(D)
          BY <5>1
        <5> HIDE DEF D, E, less
        <5>4. less \in Seq(E)
          BY <5>2, <5>3
        <5>5. less \in Seq(E \cup {g})
          BY <5>4
        <5> QED
          BY <5>5 DEF E
      <4> HIDE DEF less
      <4> QED
        BY <4>1
    <3>14. Underway(job[t], r.b, deeper, seen)
      BY <3>11 DEF seen
    <3> HIDE DEF deeper
    <3> QED
      BY <3>2, <3>11, <3>12, <3>13, <3>14, BuildsAt
  <2>2. CASE ~(Plain(job[t]) /\ Tidy(r.b))
    BY <2>2 DEF TripAt
  <2> QED
    BY <2>1, <2>2
<1> QED
  BY <1>5, <1>7, TripStep

LEMMA EndOfTableTrip ==
  ASSUME Kinds, NEW t \in Threads, EndOfTable(t), MoreIds(ids, ids')
  PROVE  TripInv'
<1> DEFINE b == doc[t]  w == walk[t]
           r == FinishObject(b)
           place == IF r.ok THEN "build" ELSE "error"
           front == Front(w)
<1>1. /\ Build(t, r.b, place) /\ walk' = [walk EXCEPT ![t] = front] /\ Len(w) > 1
      /\ b.bad = "no" /\ pc[t] = "build" /\ job[t].kind = "lua" /\ Last(w).left = {}
      /\ UNCHANGED <<visited, it, back>>
  BY DEF EndOfTable, At, Sane
<1> HIDE DEF r, place, front
<1>2. Changes(t, place, r.b, front, visited[t], it[t], back[t])
  BY <1>1, Selves DEF Changes, Build
<1>3. BuilderOK(b)
  BY DocTyped DEF Kinds, DocInv
<1>4. Sticks(b, r.b)
  BY <1>3, FinishObjectSticks DEF r
<1>5. TripAt(job[t], place, r.b, front, visited[t], it[t], back[t], ids')
  <2>1. CASE Plain(job[t]) /\ Tidy(r.b)
    <3>1. Tidy(b)
      BY <1>1, <1>4, <2>1, TidyBefore
    <3>2. /\ b.slips \subseteq {"wrapped"} /\ DOMAIN back[t] = {} /\ JobOK(job[t])
          /\ b.finished = FALSE /\ BuildsOn(job[t], b, w, visited[t])
      BY <1>1, <2>1, <3>1, BuildsHere
    <3> DEFINE S == Calls(DOMAIN job[t].heap, SUBSET Pairs(t), BOOLEAN)
    <3>3. w \in Seq(S)
      BY CallsHere
    <3> HIDE DEF S
    <3>4. w # <<>>
      BY <1>1, <3>3
    <3>5. Underway(job[t], b, w, visited[t])
      BY <3>2, <3>4 DEF BuildsOn
    <3>6. EndsIn(job[t], b, w)
      BY <1>1, <1>3, <2>1, <3>2 DEF EndsIn, Last
    <3>7. r.ok = TRUE /\ GoesWell(b, r.b) /\ Underway(job[t], r.b, Front(w), visited[t])
      BY <1>1, <2>1, <3>3, <3>5, <3>6, EndTrip DEF r
    <3>8. front # <<>>
      <4> DEFINE n == Len(w) - 1
      <4>1. n \in Nat /\ n >= 1 /\ Len(w) = n + 1
        BY <1>1, <3>3
      <4> HIDE DEF n
      <4>2. Len(front) = n
        BY <3>3, <4>1, FrontIs DEF front
      <4> QED
        BY <4>1, <4>2
    <3>9. place = "build"
      BY <3>7 DEF place
    <3> QED
      BY <3>2, <3>7, <3>8, <3>9, BuildsAt DEF front
  <2>2. CASE ~(Plain(job[t]) /\ Tidy(r.b))
    BY <2>2 DEF TripAt
  <2> QED
    BY <2>1, <2>2
<1> QED
  BY <1>2, <1>5, TripStep

-----------------------------------------------------------------------------
(* The end of the document.                                                *)

LEMMA EndOfRootTrip ==
  ASSUME Kinds, NEW t \in Threads, EndOfRoot(t), MoreIds(ids, ids')
  PROVE  TripInv'
<1> DEFINE j == job[t]  b == doc[t]  w == walk[t]  c == Finish(b).b  empty == <<>>
<1>1. /\ walk' = [walk EXCEPT ![t] = empty] /\ Len(w) = 1 /\ b.bad = "no"
      /\ pc[t] = "build" /\ j.kind = "lua" /\ Last(w).left = {} /\ UNCHANGED <<visited, it, back>>
  BY DEF EndOfRoot, At, Sane
<1>2. HasId(t) <=> HasIdIn(j)
  BY DEF HasId, HasIdIn
<1>3. BuilderOK(b) /\ b.finished = FALSE
  BY <1>1, DocTyped DEF Kinds, DocInv
<1>4. ASSUME Plain(j), Tidy(b)
      PROVE  /\ Complete(j, b) /\ b.stack = <<>> /\ JobOK(j)
             /\ b.slips \subseteq {"wrapped"} /\ DOMAIN back[t] = {}
  <2>1. /\ b.slips \subseteq {"wrapped"} /\ DOMAIN back[t] = {} /\ JobOK(j)
        /\ BuildsOn(j, b, w, visited[t])
    BY <1>1, <1>4, BuildsHere
  <2>2. w # <<>>
    <3> DEFINE S == Calls(DOMAIN j.heap, SUBSET Pairs(t), BOOLEAN)
    <3>1. w \in Seq(S)
      BY CallsHere
    <3> HIDE DEF S
    <3> QED
      BY <1>1, <3>1
  <2>3. Underway(j, b, w, visited[t])
    BY <2>1, <2>2 DEF BuildsOn
  <2>4. EndsIn(j, b, w)
    BY <1>1, <1>3, <1>4, <2>1 DEF EndsIn, Last
  <2>5. Complete(j, b) /\ b.stack = <<>>
    BY <1>1, <2>3, <2>4, RootTrip
  <2> QED
    BY <2>1, <2>5
<1> HIDE DEF empty
<1>5. CASE HasIdIn(j) \/ ~j.generate
  <2>1. Build(t, c, "insert")
    BY <1>2, <1>5 DEF EndOfRoot
  <2>2. Changes(t, "insert", c, empty, visited[t], it[t], back[t])
    BY <1>1, <2>1, Selves DEF Changes, Build
  <2>3. TripAt(j, "insert", c, empty, visited[t], it[t], back[t], ids')
    <3>1. CASE Plain(j) /\ Tidy(c)
      <4>1. Tidy(b)
        BY <1>1, <1>3, <3>1, FinishSticks, TidyBefore
      <4>2. /\ Complete(j, b) /\ b.stack = <<>> /\ JobOK(j)
            /\ b.slips \subseteq {"wrapped"} /\ DOMAIN back[t] = {}
        BY <1>4, <3>1, <4>1
      <4>3. /\ c.bad = "no" /\ c.slips \subseteq b.slips \cup {"wrapped"}
            /\ c.finished => EndIn(b, c)
        BY <1>1, <1>3, <3>1, <4>2, FinishTidy
      <4>4. c.finished => Converted(j, c, ids')
        BY <1>3, <1>5, <4>2, <4>3, PlainEnd DEF EndIn
      <4> HIDE DEF c
      <4> QED
        BY <4>2, <4>3, <4>4 DEF TripAt
    <3>2. CASE ~(Plain(j) /\ Tidy(c))
      BY <3>2 DEF TripAt
    <3> QED
      BY <3>1, <3>2
  <2> QED
    BY <2>2, <2>3, TripStep
<1>6. CASE ~(HasIdIn(j) \/ ~j.generate)
  <2>1. UNCHANGED threadVars
    BY <1>2, <1>6 DEF EndOfRoot
  <2>2. Changes(t, "build", b, empty, visited[t], it[t], back[t])
    BY <1>1, <2>1, Selves DEF Changes, threadVars
  <2>3. TripAt(j, "build", b, empty, visited[t], it[t], back[t], ids')
    <3>1. CASE Plain(j) /\ Tidy(b)
      <4>1. /\ Complete(j, b) /\ b.stack = <<>>
            /\ b.slips \subseteq {"wrapped"} /\ DOMAIN back[t] = {}
        BY <1>4, <3>1
      <4>2. BuildsOn(j, b, empty, visited[t])
        BY <1>6, <4>1 DEF BuildsOn, empty
      <4> QED
        BY <1>1, <4>1, <4>2 DEF TripAt
    <3>2. CASE ~(Plain(j) /\ Tidy(b))
      BY <3>2 DEF TripAt
    <3> QED
      BY <3>1, <3>2
  <2> QED
    BY <2>2, <2>3, TripStep
<1> QED
  BY <1>5, <1>6

LEMMA IdFieldPlain == IdField \in Seq(Nat) /\ CheckFieldName(IdField).ok
<1>1. IdField \in Seq(Nat) /\ \A i \in 1..Len(IdField) : IdField[i] \in 1..127
  BY DEF IdField
<1> QED
  BY <1>1, AsciiPlain, PlainPasses DEF PlainFor

LEMMA NewIdTrip ==
  ASSUME Kinds, OidTypeOK, NEW t \in Threads, NewId(t), MoreIds(ids, ids')
  PROVE  TripInv'
<1> DEFINE j == job[t]  b == doc[t]  id == Made(t)
           r == AppendValue(b, "OID", IdField, OidBytes(id), 12)
           c == r.b
           d == Finish(c).b
           e == [type |-> "OID", key |-> IdField, val |-> OidBytes(id), len |-> 12]
<1>1. /\ Build(t, d, "insert") /\ UNCHANGED <<walk, visited, it, back>>
      /\ b.bad = "no" /\ pc[t] = "build" /\ j.kind = "lua" /\ walk[t] = <<>>
      /\ ids' = Append(ids, id)
  BY DEF NewId, luaVars, Sane, GenOut, AppendOid
<1>2. BuilderOK(b) /\ b.finished = FALSE
  BY <1>1, DocTyped DEF Kinds, DocInv
<1>3. IdField \in Seq(Nat) /\ CheckFieldName(IdField).ok /\ 12 \in Nat /\ "OID" \in Types
  BY IdFieldPlain DEF Types
<1>4. Sticks(b, c)
  BY <1>1, <1>2, <1>3, AppendValueSticks
<1>5. BuilderOK(c) /\ c.finished = FALSE
  BY <1>1, <1>2, <1>3, AppendOidBuilt DEF Built, AppendOid
<1>6. Tidy(r.b) => r.ok = TRUE /\ ValueIn(b, c, e)
  BY <1>1, <1>2, <1>3, AppendValueTidy
<1>7. Sticks(c, d) /\ (c.bad = "over" => d.bad = "over")
  BY <1>5, FinishSticks
<1>8. IsElement(e) /\ e.type = "OID" /\ e.key = IdField /\ e.val = OidBytes(id)
  BY <1>3, ElementIs
<1>9. PICK k \in 1..Len(ids') : ids'[k] = id
  <2> DEFINE D == [time : Nat, fuzz : Nat, inc : Nat]  more == Append(ids, id)
  <2>1. ids \in Seq(D)
    BY DEF OidTypeOK
  <2> HIDE DEF D, id
  <2>2. Len(ids) + 1 \in 1..Len(more) /\ more[Len(ids) + 1] = id
    BY <2>1
  <2> QED
    BY <1>1, <2>2
<1>10. Changes(t, "insert", d, walk[t], visited[t], it[t], back[t])
  BY <1>1, Selves DEF Changes, Build
<1>11. Finish(c).b = d
  OBVIOUS
<1> HIDE DEF r, c, d, e, id
<1>12. TripAt(j, "insert", d, walk[t], visited[t], it[t], back[t], ids')
  <2>1. CASE Plain(j) /\ Tidy(d)
    <3>1. Tidy(c)
      BY <1>7, <2>1 DEF Tidy, Sticks
    <3>2. Tidy(b)
      BY <1>1, <1>4, <3>1, TidyBefore
    <3>3. /\ b.slips \subseteq {"wrapped"} /\ DOMAIN back[t] = {} /\ JobOK(j)
          /\ BuildsOn(j, b, walk[t], visited[t])
      BY <1>1, <2>1, <3>2, BuildsHere
    <3>4. ~(HasIdIn(j) \/ ~j.generate) /\ Complete(j, b) /\ b.stack = <<>>
      BY <1>1, <3>3 DEF BuildsOn
    <3>5. ValueIn(b, c, e)
      BY <1>6, <3>1 DEF c
    <3>6. c.bad = "no" /\ c.slips \subseteq {"wrapped"} /\ c.stack = <<>> /\ CameIn(b, c, e)
      BY <3>3, <3>4, <3>5 DEF ValueIn, CameIn
    <3>7. /\ d.bad = "no" /\ d.slips \subseteq {"wrapped"}
          /\ d.finished => EndIn(c, d)
      <4>1. /\ Finish(c).b.bad = "no" /\ Finish(c).b.slips \subseteq c.slips \cup {"wrapped"}
            /\ Finish(c).b.finished => EndIn(c, Finish(c).b)
        BY <1>5, <1>11, <2>1, <3>6, FinishTidy
      <4> QED
        BY <1>11, <3>6, <4>1
    <3>8. ASSUME d.finished PROVE Converted(j, d, ids')
      <4>1. IdIn(b, c, d, e, id)
        BY <1>8, <3>6, <3>7, <3>8 DEF IdIn, EndIn
      <4> QED
        BY <1>2, <1>5, <1>9, <3>3, <3>4, <4>1, IdEnd
    <3> QED
      BY <3>3, <3>7, <3>8 DEF TripAt
  <2>2. CASE ~(Plain(j) /\ Tidy(d))
    BY <2>2 DEF TripAt
  <2> QED
    BY <2>1, <2>2
<1> QED
  BY <1>10, <1>12, TripStep

\* mongo_insert does not change the document, and what it accepts is read.
LEMMA InsertTrip ==
  ASSUME Kinds, NEW t \in Threads, Insert(t), MoreIds(ids, ids')
  PROVE  TripInv'
<1> DEFINE j == job[t]  b == doc[t]
           accepted == ValidateNs(j.ns) /\ BsonValid(b)
           read == accepted /\ ~Damaged(b)
           place == IF ~accepted THEN "refused" ELSE IF read THEN "read" ELSE "done"
           first == StartRead(0, FALSE, <<>>)
           next == IF read THEN <<first>> ELSE it[t]
<1>1. /\ pc' = [pc EXCEPT ![t] = place] /\ it' = [it EXCEPT ![t] = next]
      /\ UNCHANGED <<job, doc, walk, visited, back>> /\ pc[t] = "insert"
  BY DEF Insert, At, Sane
<1>2. BsonValid(b) => b.finished
  BY DEF BsonValid
<1>3. first = [i |-> [at |-> 4, first |-> TRUE], array |-> FALSE, path |-> <<>>]
  BY DEF StartRead, IteratorFromBuffer
<1>4. /\ place \in {"refused", "read", "done"} /\ (place = "read" => next = <<first>> /\ BsonValid(b))
      /\ (place = "done" => Damaged(b))
  OBVIOUS
<1> HIDE DEF place, next, first
<1>5. Changes(t, place, b, walk[t], visited[t], next, back[t])
  BY <1>1, Selves DEF Changes
<1>6. TripAt(j, place, b, walk[t], visited[t], next, back[t], ids')
  <2>1. CASE j.kind = "lua" /\ Plain(j) /\ Tidy(b)
    <3>1. TripAt(j, "insert", b, walk[t], visited[t], it[t], back[t], ids)
      BY <1>1, TripHere
    <3>2. TripAt(j, "insert", b, walk[t], visited[t], it[t], back[t], ids')
      BY <3>1, TripMore
    <3>3. /\ b.bad = "no" /\ b.slips \subseteq {"wrapped"} /\ DOMAIN back[t] = {}
          /\ b.finished => Converted(j, b, ids')
      BY <2>1, <3>2 DEF TripAt
    <3>4. ~Damaged(b)
      BY <3>3 DEF Damaged
    <3>5. ASSUME place = "read" PROVE ReadsOut(j, b, next, back[t], ids')
      <4>1. Converted(j, b, ids')
        BY <1>2, <1>4, <3>3, <3>5
      <4>2. PICK up, P, z : Finished(b, up, z) /\ ReadsThrough(b, up, P)
                            /\ TripEnds(j, ReadSet(b, P, z), ids')
        BY <4>1 DEF Converted
      <4>3. next = <<[i |-> [at |-> 4, first |-> TRUE], array |-> FALSE, path |-> <<>>]>>
        BY <1>3, <1>4, <3>5
      <4>4. Reading(b, up, P, z, next, back[t])
        BY <3>3, <4>2, <4>3, ReadStarts
      <4> QED
        BY <4>2, <4>4 DEF ReadsOut
    <3> QED
      BY <1>4, <3>3, <3>4, <3>5 DEF TripAt
  <2>2. CASE ~(j.kind = "lua" /\ Plain(j) /\ Tidy(b))
    BY <2>2 DEF TripAt
  <2> QED
    BY <2>1, <2>2
<1> QED
  BY <1>5, <1>6, TripStep

-----------------------------------------------------------------------------
(* The steps of bson_to_table.                                             *)

\* Where a document of a plain table is being read.
LEMMA ReadHere ==
  ASSUME Kinds, NEW t \in Threads, pc[t] = "read"
  PROVE  IteratorsOK(it[t], doc[t]) /\ it[t] # <<>>
BY DEF Kinds, ReadOK

LEMMA ReadingHere ==
  ASSUME Kinds, NEW t \in Threads, pc[t] = "read", job[t].kind = "lua", Plain(job[t]), Tidy(doc[t]),
         MoreIds(ids, ids')
  PROVE  /\ doc[t].bad = "no" /\ doc[t].slips \subseteq {"wrapped"}
         /\ ReadsOut(job[t], doc[t], it[t], back[t], ids')
<1>1. TripAt(job[t], pc[t], doc[t], walk[t], visited[t], it[t], back[t], ids)
  BY TripHere
<1>2. TripAt(job[t], pc[t], doc[t], walk[t], visited[t], it[t], back[t], ids')
  BY <1>1, TripMore
<1> QED
  BY <1>2 DEF TripAt

\* A step of one that goes on reading.
LEMMA ReadsAlong ==
  ASSUME Kinds, NEW t \in Threads, pc[t] = "read", job[t].kind = "lua", MoreIds(ids, ids'),
         UNCHANGED <<job, doc, walk, visited>>, NEW s, it' = [it EXCEPT ![t] = s],
         NEW T, back' = [back EXCEPT ![t] = T], pc' = [pc EXCEPT ![t] = "read"],
         Plain(job[t]) /\ Tidy(doc[t]) => ReadsOut(job[t], doc[t], s, T, ids')
  PROVE  TripInv'
<1>1. Changes(t, "read", doc[t], walk[t], visited[t], s, T)
  BY Selves DEF Changes
<1>2. TripAt(job[t], "read", doc[t], walk[t], visited[t], s, T, ids')
  <2>1. CASE Plain(job[t]) /\ Tidy(doc[t])
    BY <2>1, ReadingHere DEF TripAt
  <2>2. CASE ~(Plain(job[t]) /\ Tidy(doc[t]))
    BY <2>2 DEF TripAt
  <2> QED
    BY <2>1, <2>2
<1> QED
  BY <1>1, <1>2, TripStep

\* bson_iterator_next of the innermost iterator.
LEMMA PassedGoes ==
  ASSUME NEW t \in Threads, NEW r, IteratorsOK(r, doc[t]), r # <<>>, NEW n, n = Len(r),
         NEW x, x = Stop(r, n), r[n].i.first \in BOOLEAN, doc[t].data[x].type # "EOO"
  PROVE  GoesPast(doc[t], r, Passed(t, r), n, x)
<1> DEFINE b == doc[t]  i == IteratorNext(b, r[n].i)  v == [r[n] EXCEPT !.i = i]
           y == IF r[n].i.first THEN x ELSE NextOffset(b, x)
<1>1. n \in Nat \ {0} /\ IteratorOK(r[n], b)
  BY IteratorsLast DEF Last
<1>2. Passed(t, r) = [r EXCEPT ![n] = v]
  BY DEF Passed
<1>3. PICK S : r \in Seq(S)
  BY DEF IteratorsOK
<1>4. i.at = y /\ i.first \in BOOLEAN
  <2>1. x = r[n].i.at /\ {"at", "first"} \subseteq DOMAIN r[n].i
    BY <1>1 DEF Stop, IteratorOK
  <2> DEFINE o == r[n].i
  <2>2. {"at", "first"} \subseteq DOMAIN o /\ o.first \in BOOLEAN /\ o.at = x /\ b.data[o.at].type # "EOO"
    BY <2>1
  <2> HIDE DEF o, b
  <2>3. i = IteratorNext(b, o) /\ y = IF o.first THEN x ELSE NextOffset(b, x)
    BY DEF o
  <2> HIDE DEF i, y
  <2>4. CASE o.first
    BY <2>2, <2>3, <2>4 DEF IteratorNext
  <2>5. CASE ~o.first
    <3>1. i = [o EXCEPT !.at = NextOffset(b, o.at)]
      BY <2>2, <2>3, <2>5 DEF IteratorNext
    <3> QED
      BY <2>2, <2>3, <2>5, <3>1
  <2> QED
    BY <2>4, <2>5
<1> HIDE DEF i, y
<1>5. v.i = i /\ v.path = r[n].path /\ v.array = r[n].array
  BY <1>1 DEF IteratorOK
<1> HIDE DEF v
<1> DEFINE s == [r EXCEPT ![n] = v]
<1>6. Len(s) = n /\ s[n] = v /\ \A k \in 1..(n - 1) : s[k] = r[k]
  <2>1. DOMAIN r = 1..n /\ n \in 1..n
    BY <1>1, <1>3
  <2>2. DOMAIN s = 1..n /\ s[n] = v
    BY <2>1
  <2>3. \A k \in 1..(n - 1) : k \in 1..n /\ k # n
    BY <1>1
  <2>4. Len(s) = n
    BY <1>1, <2>2
  <2> QED
    BY <2>1, <2>2, <2>3, <2>4
<1> HIDE DEF s
<1>7. GoesTo(r, s, n, y)
  BY <1>4, <1>5, <1>6 DEF GoesTo
<1> QED
  BY <1>2, <1>7 DEF GoesPast, s, y

\* The element the innermost iterator is at.
LEMMA AtStop ==
  ASSUME Kinds, NEW t \in Threads, pc[t] = "read", NEW types, ReadsAt(t, types), NEW n, n = Len(it[t])
  PROVE  /\ n \in Nat \ {0} /\ Last(it[t]) = it[t][n] /\ Last(it[t]).i.at = Stop(it[t], n)
         /\ Stop(it[t], n) \in DOMAIN doc[t].data /\ doc[t].data[Stop(it[t], n)].type \in types
<1>1. n \in Nat \ {0}
  BY ReadHere, IteratorsLast
<1> QED
  BY <1>1 DEF ReadsAt, Last, Stop

\* The innermost iterator, the n-th, stands at the element x.
StandsThere(t, n, x, up, P, z) ==
  /\ pc[t] = "read" /\ n = Len(it[t]) /\ x = Stop(it[t], n) /\ x \in Elements(doc[t])
  /\ Last(it[t]) = it[t][n] /\ Reading(doc[t], up, P, z, it[t], back[t])

\* Its path.
LEMMA PathThere ==
  ASSUME Kinds, NEW t \in Threads, NEW n, NEW x, NEW up, NEW P, NEW z,
         StandsThere(t, n, x, up, P, z)
  PROVE  ReadPath(t) = P[x] /\ ReadableKey(t) /\ doc[t].data[x].type \in PlainTypes
<1>1. HasPath(doc[t], P, it[t][n], x)
  BY PathHere DEF StandsThere
<1>2. Last(it[t]).i.at = x /\ Last(it[t]) = it[t][n]
  BY DEF StandsThere, Stop
<1> QED
  BY <1>1, <1>2 DEF ReadPath, ReadableKey, KeyRead, HasPath

LEMMA ReadScalarTrip ==
  ASSUME Kinds, NEW t \in Threads, ReadScalar(t), job[t].kind = "lua", MoreIds(ids, ids')
  PROVE  TripInv'
<1> DEFINE r == it[t]  n == Len(r)  b == doc[t]  x == Stop(r, n)
           s == Passed(t, r)
           T == Assign(back[t], ReadPath(t), LuaValue(b.data[Last(r).i.at]))
<1>1. /\ pc[t] = "read" /\ ReadsAt(t, ValueTypes)
      /\ UNCHANGED <<job, pc, doc, walk, visited>> /\ it' = [it EXCEPT ![t] = s]
      /\ back' = [back EXCEPT ![t] = T]
  BY DEF ReadScalar, ReadsAt, At, threadVars
<1>2. /\ n \in Nat \ {0} /\ Last(r) = r[n] /\ Last(r).i.at = x
      /\ x \in DOMAIN b.data /\ b.data[x].type \in ValueTypes
  BY <1>1, AtStop
<1>3. IteratorsOK(r, b) /\ r # <<>>
  BY <1>1, ReadHere
<1>4. b.data[x].type # "EOO" /\ b.data[x].type \notin TableTypes
  BY <1>2 DEF ValueTypes, NumberTypes, TableTypes
<1>5. x \in Elements(b)
  BY <1>2, <1>4 DEF Elements
<1>6. ASSUME Plain(job[t]) /\ Tidy(b) PROVE ReadsOut(job[t], b, s, T, ids')
  <2>1. ReadsOut(job[t], b, r, back[t], ids')
    BY <1>1, <1>6, ReadingHere
  <2>2. PICK up, P, z : Reading(b, up, P, z, r, back[t]) /\ TripEnds(job[t], ReadSet(b, P, z), ids')
    BY <2>1 DEF ReadsOut
  <2>3. ReadPath(t) = P[x]
    <3> HIDE DEF n, x
    <3>1. n = Len(it[t]) /\ x = Stop(it[t], n)
      BY DEF n, x
    <3>2. StandsThere(t, n, x, up, P, z)
      BY <1>1, <1>2, <1>5, <2>2, <3>1 DEF StandsThere
    <3> QED
      BY <3>2, PathThere
  <2>4. PutAt(b, P, back[t], x, T)
    BY <1>2, <1>4, <2>3 DEF PutAt, ValueRead
  <2>5. r[n].i.first \in BOOLEAN
    <3>1. Along(b, up, P, r) /\ n \in 1..Len(r)
      BY <1>2, <2>2 DEF Reading
    <3> QED
      BY <3>1 DEF Along, ReadsIn
  <2>6. GoesPast(b, r, s, n, x)
    BY <1>3, <1>4, <2>5, PassedGoes
  <2> HIDE DEF T, s, x, n
  <2>7. n = Len(r) /\ x = Stop(r, n)
    BY DEF n, x
  <2>8. Reading(b, up, P, z, s, T)
    BY <1>4, <1>5, <2>2, <2>4, <2>6, <2>7, ReadValue
  <2> QED
    BY <2>2, <2>8 DEF ReadsOut
<1> HIDE DEF s, T
<1>7. pc' = [pc EXCEPT ![t] = "read"]
  BY <1>1, Selves
<1> QED
  BY <1>1, <1>6, <1>7, ReadsAlong

LEMMA ReadTableTrip ==
  ASSUME Kinds, NEW t \in Threads, ReadTable(t), job[t].kind = "lua", MoreIds(ids, ids')
  PROVE  TripInv'
<1> DEFINE r == it[t]  n == Len(r)  b == doc[t]  x == Stop(r, n)
           at == Last(r).i.at
           array == b.data[at].type = "ARRAY"
           q == StartRead(Body(b, at), array, ReadPath(t))
           s == Append(r, q)
           T == Assign(back[t], ReadPath(t), TableMark)
<1>1. /\ pc[t] = "read" /\ ReadsAt(t, TableTypes)
      /\ UNCHANGED <<job, pc, doc, walk, visited>>
      /\ back' = [back EXCEPT ![t] = T]
  BY DEF ReadTable, ReadsAt, At, threadVars
<1>8. it' = [it EXCEPT ![t] = s]
  BY Zenon DEF ReadTable
<1>2. /\ n \in Nat \ {0} /\ Last(r) = r[n] /\ at = x
      /\ x \in DOMAIN b.data /\ b.data[x].type \in TableTypes
  BY <1>1, AtStop
<1>3. IteratorsOK(r, b) /\ r # <<>>
  BY <1>1, ReadHere
<1>5. x \in Elements(b)
  BY <1>2 DEF Elements, TableTypes
<1>6. ASSUME Plain(job[t]) /\ Tidy(b) PROVE ReadsOut(job[t], b, s, T, ids')
  <2>1. ReadsOut(job[t], b, r, back[t], ids')
    BY <1>1, <1>6, ReadingHere
  <2>2. PICK up, P, z : Reading(b, up, P, z, r, back[t]) /\ TripEnds(job[t], ReadSet(b, P, z), ids')
    BY <2>1 DEF ReadsOut
  <2>3. ReadPath(t) = P[x]
    <3> HIDE DEF n, x
    <3>1. n = Len(it[t]) /\ x = Stop(it[t], n)
      BY DEF n, x
    <3>2. StandsThere(t, n, x, up, P, z)
      BY <1>1, <1>2, <1>5, <2>2, <3>1 DEF StandsThere
    <3> QED
      BY <3>2, PathThere
  <2>4. PutAt(b, P, back[t], x, T)
    BY <1>2, <2>3 DEF PutAt, ValueRead
  <2>5. /\ q.path = P[x] /\ (q.array <=> b.data[x].type = "ARRAY")
        /\ q.i.at = Body(b, x) + 4 /\ q.i.first \in BOOLEAN
    BY <1>2, <2>3 DEF StartRead, IteratorFromBuffer
  <2> HIDE DEF q
  <2>6. Len(s) = n + 1 /\ s[n + 1] = q /\ \A k \in 1..n : s[k] = r[k]
    <3>1. PICK S : r \in Seq(S)
      BY <1>3 DEF IteratorsOK
    <3> QED
      BY <3>1
  <2> HIDE DEF s, T, x, n
  <2>7. GoesIn(b, P, r, s, n, x)
    BY <2>5, <2>6 DEF GoesIn
  <2>8. n = Len(r) /\ x = Stop(r, n)
    BY DEF n, x
  <2>9. Reading(b, up, P, z, s, T)
    BY <1>2, <1>5, <2>2, <2>4, <2>7, <2>8, ReadDown
  <2> QED
    BY <2>2, <2>9 DEF ReadsOut
<1> HIDE DEF s, T
<1>7. pc' = [pc EXCEPT ![t] = "read"]
  BY <1>1, Selves
<1> QED
  BY <1>1, <1>6, <1>7, <1>8, ReadsAlong

\* Below the end of an object its element is passed.
LEMMA BelowEnd ==
  ASSUME NEW b, NEW up, NEW P, NEW z, NEW r, NEW table, Reading(b, up, P, z, r, table),
         NEW n, n + 1 = Len(r), n \in Nat, n >= 1
  PROVE  Stop(r, n) \in Elements(b) /\ r[n].i.first \in BOOLEAN
<1>1. LiesIn(b, up, z) /\ Along(b, up, P, r)
  BY FinishedIs DEF Reading
<1>2. n \in 1..Len(r) /\ n + 1 \in 1..Len(r) /\ n + 1 # 1 /\ (n + 1) - 1 = n
  OBVIOUS
<1>3. ReadsIn(b, up, P, r, n) /\ ReadsIn(b, up, P, r, n + 1)
  BY <1>1, <1>2 DEF Along
<1> DEFINE x == Stop(r, n)  e == Stop(r, n + 1)
<1>4. x \in DOMAIN b.data /\ e \in DOMAIN b.data /\ up[e] = x /\ r[n].i.first \in BOOLEAN
  BY <1>2, <1>3 DEF ReadsIn
<1> HIDE DEF x, e
<1>5. x # 0
  BY <1>1, <1>4 DEF LiesIn
<1>6. x \in Elements(b)
  BY <1>1, <1>4, <1>5 DEF LiesIn
<1> QED
  BY <1>4, <1>6 DEF x

\* The calls below the innermost.
CallsTo(f, r, n) == Len(f) = n /\ (\A k \in 1..n : f[k] = r[k]) /\ Stop(f, n) = Stop(r, n)

LEMMA CallsBelow ==
  ASSUME NEW r, NEW b, IteratorsOK(r, b), NEW n, n + 1 = Len(r), n \in Nat, n >= 1
  PROVE  CallsTo(Front(r), r, n)
<1>1. PICK S : r \in Seq(S)
  BY DEF IteratorsOK
<1>2. Front(r) = SubSeq(r, 1, n)
  BY DEF Front
<1>3. Len(SubSeq(r, 1, n)) = n /\ \A k \in 1..n : SubSeq(r, 1, n)[k] = r[k]
  BY <1>1
<1>4. n \in 1..n
  OBVIOUS
<1> DEFINE f == Front(r)
<1>5. Len(f) = n /\ \A k \in 1..n : f[k] = r[k]
  <2>1. f = SubSeq(r, 1, n)
    BY <1>2
  <2> HIDE DEF f
  <2> QED
    BY <1>3, <2>1
<1> HIDE DEF f
<1>6. Len(f) = n /\ (\A k \in 1..n : f[k] = r[k]) /\ Stop(f, n) = Stop(r, n)
  BY <1>4, <1>5 DEF Stop
<1> QED
  BY <1>6 DEF f, CallsTo

LEMMA PastBelow ==
  ASSUME NEW b, NEW r, NEW f, NEW s, NEW n \in Nat, n >= 1, NEW x, \A k \in 1..n : f[k] = r[k],
         GoesPast(b, f, s, n, x)
  PROVE  GoesPast(b, r, s, n, x)
<1>1. f[n] = r[n] /\ \A k \in 1..(n - 1) : f[k] = r[k]
  OBVIOUS
<1> DEFINE y == IF r[n].i.first THEN x ELSE NextOffset(b, x)
<1>2. GoesTo(f, s, n, y)
  BY <1>1 DEF GoesPast
<1> HIDE DEF y
<1>3. GoesTo(r, s, n, y)
  BY <1>1, <1>2 DEF GoesTo
<1> QED
  BY <1>3 DEF GoesPast, y

LEMMA ReadEndTrip ==
  ASSUME Kinds, NEW t \in Threads, ReadEnd(t), job[t].kind = "lua", MoreIds(ids, ids')
  PROVE  TripInv'
<1> DEFINE r == it[t]  m == Len(r)  n == m - 1  b == doc[t]  e == Stop(r, m)  x == Stop(r, n)
           more == m > 1
           front == Front(r)
           past == Passed(t, front)
           empty == <<>>
           next == IF more THEN past ELSE empty
           place == IF more THEN "read" ELSE "done"
<1>1. /\ pc[t] = "read" /\ ReadsAt(t, {"EOO"}) /\ UNCHANGED <<job, doc, walk, visited, back>>
      /\ it' = [it EXCEPT ![t] = next] /\ pc' = [pc EXCEPT ![t] = place]
  BY Zenon DEF ReadEnd, ReadsAt, At
<1>2. m \in Nat \ {0} /\ e \in DOMAIN b.data /\ b.data[e].type \in {"EOO"}
  BY <1>1, AtStop
<1>3. IteratorsOK(r, b) /\ r # <<>>
  BY <1>1, ReadHere
<1>5. e \notin Elements(b)
  BY <1>2 DEF Elements
<1>6. CASE more
  <2>1. n + 1 = m /\ n \in Nat /\ n >= 1
    BY <1>2, <1>6
  <2>2. it' = [it EXCEPT ![t] = past] /\ pc' = [pc EXCEPT ![t] = "read"]
    BY <1>1, <1>6
  <2>3. IteratorsOK(front, b) /\ front # <<>>
    BY <1>3, <1>6, IteratorsFront
  <2>4. ASSUME Plain(job[t]) /\ Tidy(b) PROVE ReadsOut(job[t], b, past, back[t], ids')
    <3>1. ReadsOut(job[t], b, r, back[t], ids')
      BY <1>1, <2>4, ReadingHere
    <3>2. PICK up, P, z : Reading(b, up, P, z, r, back[t]) /\ TripEnds(job[t], ReadSet(b, P, z), ids')
      BY <3>1 DEF ReadsOut
    <3> HIDE DEF n
    <3>3. x \in Elements(b) /\ r[n].i.first \in BOOLEAN
      BY <2>1, <3>2, BelowEnd
    <3>4. Len(front) = n /\ (\A k \in 1..n : front[k] = r[k]) /\ Stop(front, n) = x
      <4>1. n + 1 = Len(r) /\ n \in Nat /\ n >= 1
        BY <2>1
      <4>2. CallsTo(front, r, n)
        BY <1>3, <4>1, CallsBelow
      <4> QED
        BY <4>2 DEF CallsTo
    <3>5. front[n].i.first \in BOOLEAN /\ b.data[x].type # "EOO"
      BY <2>1, <3>3, <3>4 DEF Elements
    <3> HIDE DEF front
    <3>6. GoesPast(b, front, past, n, x)
      <4> DEFINE k == n
      <4>1. k = Len(front) /\ x = Stop(front, k) /\ front[k].i.first \in BOOLEAN
        BY <3>4, <3>5
      <4> HIDE DEF k, x
      <4>2. GoesPast(b, front, past, k, x)
        BY <2>3, <3>5, <4>1, PassedGoes
      <4> QED
        BY <4>2 DEF k
    <3> HIDE DEF past
    <3>7. GoesPast(b, r, past, n, x)
      BY <2>1, <3>4, <3>6, PastBelow
    <3> HIDE DEF x, e
    <3>8. x = Stop(r, n) /\ e = Stop(r, n + 1)
      BY <2>1 DEF x, e
    <3>9. Reading(b, up, P, z, past, back[t])
      BY <1>5, <2>1, <3>2, <3>7, <3>8, ReadUp
    <3> QED
      BY <3>2, <3>9 DEF ReadsOut
  <2> HIDE DEF past
  <2>5. back' = [back EXCEPT ![t] = back[t]]
    BY <1>1, Selves
  <2> QED
    BY <1>1, <2>2, <2>4, <2>5, ReadsAlong
<1>7. CASE ~more
  <2>1. m = 1
    <3>1. m \in Nat \ {0} /\ ~(m > 1)
      BY <1>2, <1>7
    <3> HIDE DEF m
    <3> QED
      BY <3>1
  <2>2. it' = [it EXCEPT ![t] = empty] /\ pc' = [pc EXCEPT ![t] = "done"]
    BY <1>1, <1>7
  <2> HIDE DEF empty
  <2>3. Changes(t, "done", b, walk[t], visited[t], empty, back[t])
    BY <1>1, <2>2, Selves DEF Changes
  <2>4. TripAt(job[t], "done", b, walk[t], visited[t], empty, back[t], ids')
    <3>1. CASE Plain(job[t]) /\ Tidy(b)
      <4>1. /\ b.bad = "no" /\ b.slips \subseteq {"wrapped"}
            /\ ReadsOut(job[t], b, r, back[t], ids')
        BY <1>1, <3>1, ReadingHere
      <4>2. PICK up, P, z : Reading(b, up, P, z, r, back[t]) /\ TripEnds(job[t], ReadSet(b, P, z), ids')
        BY <4>1 DEF ReadsOut
      <4>3. Graph(back[t]) = ReadSet(b, P, z)
        BY <1>5, <2>1, <4>2, ReadOut
      <4>4. TripEnds(job[t], Graph(back[t]), ids')
        BY <4>2, <4>3
      <4> QED
        BY <4>1, <4>4 DEF TripAt
    <3>2. CASE ~(Plain(job[t]) /\ Tidy(b))
      BY <3>2 DEF TripAt
    <3> QED
      BY <3>1, <3>2
  <2> QED
    BY <2>3, <2>4, TripStep
<1> QED
  BY <1>6, <1>7

LEMMA ReadErrorTrip ==
  ASSUME Kinds, NEW t \in Threads, ReadError(t), job[t].kind = "lua", MoreIds(ids, ids')
  PROVE  TripInv'
<1> DEFINE r == it[t]  n == Len(r)  b == doc[t]  x == Stop(r, n)
           others == Types \ (ValueTypes \cup TableTypes \cup {"EOO"})
           some == Types \ {"EOO"}
<1>1. /\ pc[t] = "read" /\ pc' = [pc EXCEPT ![t] = "error"]
      /\ UNCHANGED <<job, doc, walk, visited, it, back>>
  BY DEF ReadError, ReadsAt, At, luaVars
<1>2. ReadsAt(t, others) \/ (ReadsAt(t, some) /\ ~ReadableKey(t))
  BY DEF ReadError
<1>3. /\ Last(r) = r[n] /\ x \in DOMAIN b.data
      /\ b.data[x].type \in others \/ (b.data[x].type \in some /\ ~ReadableKey(t))
  <2>1. CASE ReadsAt(t, others)
    BY <1>1, <2>1, AtStop
  <2>2. CASE ReadsAt(t, some) /\ ~ReadableKey(t)
    BY <1>1, <2>2, AtStop
  <2> QED
    BY <1>2, <2>1, <2>2
<1>4. x \in Elements(b)
  BY <1>3 DEF Elements
<1>5. ~(Plain(job[t]) /\ Tidy(b))
  <2> SUFFICES ASSUME Plain(job[t]), Tidy(b) PROVE FALSE
    OBVIOUS
  <2>1. ReadsOut(job[t], b, r, back[t], ids')
    BY <1>1, ReadingHere
  <2>2. PICK up, P, z : Reading(b, up, P, z, r, back[t])
    BY <2>1 DEF ReadsOut
  <2>3. ReadableKey(t) /\ b.data[x].type \in PlainTypes
    <3>1. StandsThere(t, n, x, up, P, z)
      BY <1>1, <1>3, <1>4, <2>2 DEF StandsThere
    <3> QED
      BY <3>1, PathThere
  <2> QED
    BY <1>3, <2>3 DEF PlainTypes, ValueTypes, TableTypes, NumberTypes
<1>6. Changes(t, "error", b, walk[t], visited[t], r, back[t])
  BY <1>1, Selves DEF Changes
<1>7. TripAt(job[t], "error", b, walk[t], visited[t], r, back[t], ids')
  BY <1>5 DEF TripAt
<1> QED
  BY <1>6, <1>7, TripStep

-----------------------------------------------------------------------------
(* The invariant, and the property.                                        *)

LEMMA LuaTrip ==
  ASSUME Kinds, OidTypeOK, NEW t \in Threads, LuaStep(t), MoreIds(ids, ids')
  PROVE  TripInv'
<1>1. CASE walk[t] # <<>> /\ (BadPair(t) \/ ScalarPair(t) \/ TablePair(t))
  BY <1>1, BadPairTrip, ScalarPairTrip, TablePairTrip
<1>2. CASE EndOfTable(t) \/ EndOfRoot(t) \/ NewId(t)
  BY <1>2, EndOfTableTrip, EndOfRootTrip, NewIdTrip
<1>3. ASSUME pc[t] = "read", job[t].kind # "lua", UNCHANGED <<job, doc, walk, visited>>,
             NEW place, pc' = [pc EXCEPT ![t] = place], NEW r, it' = [it EXCEPT ![t] = r],
             NEW table, back' = [back EXCEPT ![t] = table]
      PROVE  TripInv'
  <2>1. Changes(t, place, doc[t], walk[t], visited[t], r, table)
    BY <1>3, Selves DEF Changes
  <2>2. TripAt(job[t], place, doc[t], walk[t], visited[t], r, table, ids')
    BY <1>3 DEF TripAt
  <2> QED
    BY <2>1, <2>2, TripStep
<1>4. CASE ReadScalar(t)
  <2>1. CASE job[t].kind = "lua"
    BY <1>4, <2>1, ReadScalarTrip
  <2>2. CASE job[t].kind # "lua"
    <3> DEFINE T == Assign(back[t], ReadPath(t), LuaValue(doc[t].data[Last(it[t]).i.at]))
               s == Passed(t, it[t])
    <3>1. /\ pc[t] = "read" /\ UNCHANGED <<job, pc, doc, walk, visited>>
          /\ it' = [it EXCEPT ![t] = s] /\ back' = [back EXCEPT ![t] = T]
      BY <1>4 DEF ReadScalar, ReadsAt, At, threadVars
    <3> HIDE DEF T, s
    <3>2. pc' = [pc EXCEPT ![t] = pc[t]]
      BY <3>1, Selves
    <3> QED
      BY <1>3, <2>2, <3>1, <3>2
  <2> QED
    BY <2>1, <2>2
<1>5. CASE ReadTable(t)
  <2>1. CASE job[t].kind = "lua"
    BY <1>5, <2>1, ReadTableTrip
  <2>2. CASE job[t].kind # "lua"
    <3> DEFINE T == Assign(back[t], ReadPath(t), TableMark)
               s == LET at == Last(it[t]).i.at
                    IN  Append(it[t], StartRead(Body(doc[t], at), doc[t].data[at].type = "ARRAY", ReadPath(t)))
    <3>1. /\ pc[t] = "read" /\ UNCHANGED <<job, pc, doc, walk, visited>>
          /\ back' = [back EXCEPT ![t] = T]
      BY <1>5 DEF ReadTable, ReadsAt, At, threadVars
    <3>2. it' = [it EXCEPT ![t] = s]
      BY <1>5, Zenon DEF ReadTable
    <3> HIDE DEF T, s
    <3>3. pc' = [pc EXCEPT ![t] = pc[t]]
      BY <3>1, Selves
    <3> QED
      BY <1>3, <2>2, <3>1, <3>2, <3>3
  <2> QED
    BY <2>1, <2>2
<1>6. CASE ReadEnd(t)
  <2>1. CASE job[t].kind = "lua"
    BY <1>6, <2>1, ReadEndTrip
  <2>2. CASE job[t].kind # "lua"
    <3> DEFINE s == IF Len(it[t]) > 1 THEN Passed(t, Front(it[t])) ELSE <<>>
               place == IF Len(it[t]) > 1 THEN "read" ELSE "done"
    <3>1. /\ pc[t] = "read" /\ UNCHANGED <<job, doc, walk, visited, back>>
          /\ it' = [it EXCEPT ![t] = s] /\ pc' = [pc EXCEPT ![t] = place]
      BY <1>6, Zenon DEF ReadEnd, ReadsAt, At
    <3> HIDE DEF s, place
    <3>2. back' = [back EXCEPT ![t] = back[t]]
      BY <3>1, Selves
    <3> QED
      BY <1>3, <2>2, <3>1, <3>2
  <2> QED
    BY <2>1, <2>2
<1>7. CASE ReadError(t)
  <2>1. CASE job[t].kind = "lua"
    BY <1>7, <2>1, ReadErrorTrip
  <2>2. CASE job[t].kind # "lua"
    <3>1. /\ pc[t] = "read" /\ pc' = [pc EXCEPT ![t] = "error"]
          /\ UNCHANGED <<job, doc, walk, visited, it, back>>
      BY <1>7 DEF ReadError, ReadsAt, At, luaVars
    <3>2. it' = [it EXCEPT ![t] = it[t]] /\ back' = [back EXCEPT ![t] = back[t]]
      BY <3>1, Selves
    <3> QED
      BY <1>3, <2>2, <3>1, <3>2
  <2> QED
    BY <2>1, <2>2
<1> QED
  BY <1>1, <1>2, <1>4, <1>5, <1>6, <1>7 DEF LuaStep

\* The programs of other kinds.
LEMMA BconIsBcon ==
  ASSUME NEW t \in Threads, BconStep(t) PROVE job[t].kind # "lua"
<1>1. ASSUME NEW states, NEW tokens, Reads(t, states, tokens) PROVE job[t].kind = "bcon"
  BY <1>1 DEF Reads
<1>8. ASSUME ReadsValue(t) PROVE job[t].kind = "bcon"
  BY <1>1, <1>8 DEF ReadsValue
<1>2. CASE BconNewId(t) \/ BconTakeId(t)
  BY <1>2, <1>8 DEF BconNewId, BconTakeId
<1>3. CASE BconKey(t) \/ BconSpec(t)
  BY <1>1, <1>3 DEF BconKey, BconSpec
<1>4. CASE BconOpenBrace(t) \/ BconOpenBracket(t)
  BY <1>1, <1>4 DEF BconOpenBrace, BconOpenBracket
<1>5. CASE BconCloseBrace(t) \/ BconCloseBracket(t)
  BY <1>1, <1>5 DEF BconCloseBrace, BconCloseBracket
<1>6. CASE BconScalar(t) \/ BconSkip(t)
  BY <1>6, <1>8 DEF BconScalar, BconSkip
<1>7. CASE BconEmbed(t) \/ BconEnd(t)
  BY <1>7, <1>8 DEF BconEmbed, BconEnd, Ends
<1> QED
  BY <1>2, <1>3, <1>4, <1>5, <1>6, <1>7 DEF BconStep

LEMMA CIsC ==
  ASSUME NEW t \in Threads, CProgram(t)
  PROVE  \E b : Build(t, b, "build") /\ UNCHANGED luaVars /\ job[t].kind # "lua"
<1>1. ASSUME NEW b, CallC(t, b) PROVE Build(t, b, "build") /\ UNCHANGED luaVars /\ job[t].kind # "lua"
  BY <1>1 DEF CallC
<1> QED
  BY <1>1, Zenon DEF CProgram

LEMMA TripNext == Kinds /\ OidTypeOK /\ [Next]_vars => TripInv'
<1> SUFFICES ASSUME Kinds, OidTypeOK, [Next]_vars PROVE TripInv'
  OBVIOUS
<1>1. MoreIds(ids, ids')
  BY StepOid, IdsGrow
<1>2. CASE UNCHANGED vars
  BY <1>1, <1>2, TripSame DEF vars, threadVars, luaVars
<1>3. ASSUME NEW t \in Threads, Step(t) PROVE TripInv'
  <2>1. CASE LuaStep(t)
    BY <1>1, <2>1, LuaTrip
  <2>2. CASE BconStep(t) /\ UNCHANGED luaVars
    <3>1. CASE UNCHANGED threadVars
      BY <1>1, <2>2, <3>1, TripSame DEF threadVars, luaVars
    <3>2. CASE \E b : \E place \in {"build", "insert", "error"} : Build(t, b, place)
      <4>1. PICK b : \E place \in {"build", "insert", "error"} : Build(t, b, place)
        BY <3>2
      <4>2. PICK place \in {"build", "insert", "error"} : Build(t, b, place)
        BY <4>1
      <4>3. job[t].kind # "lua"
        BY <2>2, BconIsBcon
      <4> QED
        BY <1>1, <2>2, <4>2, <4>3, TripOther
    <3> QED
      BY <2>2, <3>1, <3>2, BconBuilds
  <2>3. CASE CProgram(t)
    <3>1. PICK b : Build(t, b, "build") /\ UNCHANGED luaVars /\ job[t].kind # "lua"
      BY <2>3, CIsC
    <3> QED
      BY <1>1, <3>1, TripOther
  <2>4. CASE CInsert(t)
    <3>1. Build(t, doc[t], "insert") /\ UNCHANGED luaVars /\ job[t].kind # "lua"
      BY <2>4 DEF CInsert
    <3> QED
      BY <1>1, <3>1, TripOther
  <2>5. CASE OidCall(t) \/ Inside(t)
    BY <1>1, <2>5, TripSame DEF OidCall, Inside, threadVars, luaVars
  <2>6. CASE OidReturn(t)
    <3>1. PICK place \in {"build", "done"} : Build(t, doc[t], place)
      BY <2>6 DEF OidReturn
    <3>2. UNCHANGED luaVars /\ job[t].kind # "lua"
      BY <2>6 DEF OidReturn
    <3> QED
      BY <1>1, <3>1, <3>2, TripOther
  <2>7. CASE Insert(t)
    BY <1>1, <2>7, InsertTrip
  <2> QED
    BY <1>3, <2>1, <2>2, <2>3, <2>4, <2>5, <2>6, <2>7 DEF Step
<1> QED
  BY <1>2, <1>3 DEF Next, Exit

-----------------------------------------------------------------------------
(* The beginning.                                                          *)

LEMMA RootPlain ==
  ASSUME NEW j, Plain(j), j.root \in DOMAIN j.heap
  PROVE  ArrayIn(j, j.root) = FALSE
<1> DEFINE pairs == j.heap[j.root]
<1>1. \A p \in pairs : p[1][1] = "string"
  BY DEF Plain
<1>2. ASSUME NEW p \in pairs, TIsArray(pairs) PROVE FALSE
  <2>1. p[1] \in {<<"number", i>> : i \in 1..Cardinality(pairs)}
    BY <1>2 DEF TIsArray
  <2>2. PICK i \in 1..Cardinality(pairs) : p[1] = <<"number", i>>
    BY <2>1
  <2> QED
    BY <1>1, <2>2
<1> QED
  BY <1>2 DEF ArrayIn

LEMMA LengthsDiffer ==
  ASSUME NEW w, NEW none, Len(w) = 1, Len(none) = 0
  PROVE  w # none
<1> QED
  OBVIOUS

LEMMA TripBegins ==
  ASSUME NEW j, JobOK(j), NEW f, f.tbl = j.root, f.left = j.heap[j.root], f.array = FALSE,
         NEW r, NEW table, DOMAIN table = {}, NEW made
  PROVE  TripAt(j, "build", NewBson, <<f>>, {j.root}, r, table, made)
<1> DEFINE b == NewBson  w == <<f>>  none == <<>>  seen == {j.root}
           up == [x \in {4} |-> 0]  N == [x \in {} |-> none]
<1>1. b.bad = "no" /\ b.slips = {} /\ DOMAIN b.data = {}
  BY DEF NewBson, InitBson, NoElements
<1>2. Elements(b) = {}
  BY <1>1 DEF Elements
<1>3. Unfinished(b, up, none)
  BY NewUnfinished
<1>4. j.root \in DOMAIN j.heap
  BY DEF JobOK
<1>5. Walked(j, w, none, {}, N)
  BY <1>4, WalkStarts
<1>6. Len(w) = 1 /\ w[1] = f /\ w # none
  <2>1. Len(w) = 1 /\ w[1] = f /\ Len(none) = 0
    OBVIOUS
  <2> HIDE DEF w, none
  <2> QED
    BY <2>1, LengthsDiffer
<1>7. ASSUME Plain(j) PROVE Underway(j, b, w, seen)
  <2>1. CallIs(j, f)
    BY <1>4, <1>7, RootPlain DEF CallIs
  <2>2. Seen(j, w, seen)
    BY <2>1, SeenStarts
  <2>3. Stands(b, up, N)
    BY <1>2 DEF Stands
  <2>4. OpenAlong(b, w, none, none, N)
    <3>1. Len(none) = 0
      OBVIOUS
    <3> HIDE DEF w, none
    <3> QED
      BY <1>6, <3>1 DEF OpenAlong
  <2>5. Walked(j, w, none, Elements(b), N)
    BY <1>2, <1>5
  <2> HIDE DEF b, w, none, up, N, seen
  <2>6. Converting(j, b, w, seen, up, none, N, none)
    BY <1>3, <2>2, <2>3, <2>4, <2>5 DEF Converting
  <2> QED
    BY <2>6 DEF Underway
<1> HIDE DEF b, w, none, up, N, seen
<1>8. Plain(j) => BuildsOn(j, b, w, seen)
  BY <1>6, <1>7 DEF BuildsOn, none
<1>9. TripAt(j, "build", b, w, seen, r, table, made)
  BY <1>1, <1>8 DEF TripAt
<1> QED
  BY <1>9 DEF b, w, seen

LEMMA TripInit == Init => TripInv
<1> SUFFICES ASSUME Init PROVE TripInv
  OBVIOUS
<1>1. JobsOK
  BY DocInit DEF DocInv
<1>2. /\ pc = [t \in Threads |-> IF job[t].kind = "none" THEN "done" ELSE "build"]
      /\ doc = [t \in Threads |-> NewBson]
      /\ back = [t \in Threads |-> [p \in {} |-> TableMark]]
  BY DEF Init
<1>3. /\ walk = [t \in Threads |->
            IF job[t].kind = "lua" THEN <<StartWalk(t, job[t].root, FALSE)>> ELSE <<>>]
      /\ visited = [t \in Threads |-> IF job[t].kind = "lua" THEN {job[t].root} ELSE {}]
  BY DEF Init
<1>4. ASSUME NEW t \in Threads PROVE Trip(t)
  <2>1. CASE job[t].kind = "lua"
    <3> DEFINE f == StartWalk(t, job[t].root, FALSE)  table == [p \in {} |-> TableMark]
    <3>1. f.tbl = job[t].root /\ f.left = job[t].heap[job[t].root] /\ f.array = FALSE
      BY DEF StartWalk
    <3>2. DOMAIN table = {}
      OBVIOUS
    <3>3. /\ pc[t] = "build" /\ doc[t] = NewBson /\ back[t] = table
          /\ walk[t] = <<f>> /\ visited[t] = {job[t].root}
      BY <1>2, <1>3, <2>1
    <3> HIDE DEF f, table
    <3>4. JobOK(job[t])
      BY <1>1 DEF JobsOK
    <3>5. TripAt(job[t], "build", NewBson, <<f>>, {job[t].root}, it[t], table, ids)
      BY <3>1, <3>2, <3>4, TripBegins
    <3> QED
      BY <3>3, <3>5 DEF Trip
  <2>2. CASE job[t].kind # "lua"
    BY <2>2 DEF Trip, TripAt
  <2> QED
    BY <2>1, <2>2
<1> QED
  BY <1>2, <1>3, <1>4 DEF TripInv

LEMMA TripSays == TripInv => RoundTrip
<1> SUFFICES ASSUME TripInv, NEW t \in Threads, job[t].kind = "lua" /\ Plain(job[t]),
                    doc[t].bad # "over" /\ "SIZE_OVERFLOW" \notin doc[t].err
             PROVE  LET read == {<<p, back[t][p]>> : p \in DOMAIN back[t]}
                        source == Contents(job[t].heap, job[t].root)
                        made == <<<<"string", IdField>>>>
                    IN  /\ pc[t] # "error" /\ doc[t].bad = "no"
                        /\ pc[t] = "done" =>
                             IF HasId(t) \/ ~job[t].generate THEN read = source
                             ELSE {e \in read : e[1] # made} = {e \in source : e[1] # made}
                                  /\ \E k \in 1..Len(ids) :
                                       <<made, <<"string", OidToString(OidBytes(ids[k]))>>>> \in read
  BY DEF RoundTrip
<1> DEFINE j == job[t]  G == Graph(back[t])
<1>1. TripAt(j, pc[t], doc[t], walk[t], visited[t], it[t], back[t], ids)
  BY DEF TripInv, Trip
<1>2. Tidy(doc[t])
  BY DEF Tidy
<1>3. pc[t] # "error" /\ doc[t].bad = "no" /\ (pc[t] = "done" => TripEnds(j, G, ids))
  BY <1>1, <1>2 DEF TripAt
<1>4. HasId(t) <=> HasIdIn(j)
  BY DEF HasId, HasIdIn
<1>5. G = {<<p, back[t][p]>> : p \in DOMAIN back[t]}
  BY DEF Graph
<1>6. \A k : IdEntry(ids[k]) = <<<<<<"string", IdField>>>>, <<"string", OidToString(OidBytes(ids[k]))>>>>
  BY DEF IdEntry, IdPath
<1>7. pc[t] = "done" =>
        IF HasId(t) \/ ~j.generate THEN G = Contents(j.heap, j.root)
        ELSE {e \in G : e[1] # <<<<"string", IdField>>>>}
                = {e \in Contents(j.heap, j.root) : e[1] # <<<<"string", IdField>>>>}
             /\ \E k \in 1..Len(ids) :
                  <<<<<<"string", IdField>>>>, <<"string", OidToString(OidBytes(ids[k]))>>>> \in G
  BY <1>3, <1>4, <1>6, Zenon DEF TripEnds, IdPath
<1> HIDE DEF G
<1> QED
  BY <1>3, <1>5, <1>7, Zenon

\* Lua tables that bson.lua is meant for come back as they were (table_to_bson,
\* mongo_insert, bson_to_table), whatever the other threads do: for any number of
\* threads, any jobs, any order of the pairs, any width of tables with string keys.
THEOREM TablesComeBack == Spec => []RoundTrip
<1>1. Init => DocInv /\ ReadOK /\ OidInv /\ TripInv
  BY DocInit, ReadInit, OidInitInv, TripInit
<1>2. DocInv /\ ReadOK /\ OidInv /\ TripInv /\ [Next]_vars
        => DocInv' /\ ReadOK' /\ OidInv' /\ TripInv'
  <2> SUFFICES ASSUME DocInv, ReadOK, OidInv, TripInv, [Next]_vars
               PROVE  DocInv' /\ ReadOK' /\ OidInv' /\ TripInv'
    OBVIOUS
  <2>1. DocInv' /\ ReadOK'
    BY DocStep, ReadStep
  <2>2. OidInv'
    BY StepOid, OidTypeStep, CounterStep DEF OidInv
  <2>3. TripInv'
    BY TripNext DEF Kinds, OidInv
  <2> QED
    BY <2>1, <2>2, <2>3
<1>3. TripInv => RoundTrip
  BY TripSays
<1> QED
  BY <1>1, <1>2, <1>3, PTL DEF Spec
=============================================================================
