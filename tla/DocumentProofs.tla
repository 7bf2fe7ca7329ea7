--------------------------- MODULE DocumentProofs ---------------------------
(***************************************************************************)
(* Every program leaves its document in order, whatever it appends: no     *)
(* byte lands behind a buffer, what is sent can be read and is legal, its  *)
(* ids differ, and the elements of arrays are numbered.                    *)
(***************************************************************************)
EXTENDS Documents, BuilderProofs, FiniteSetTheorems, SequenceTheorems

\* The inputs are what Assignments promises.
JobsOK == \A t \in Threads : JobOK(job[t])

Places == {"build", "insert", "read", "done", "refused", "error"}

\* What is known of the document b where a program with the job j is.
AtOK(j, place, b) ==
  /\ place = "build" /\ j.kind # "c" => b.finished = FALSE
  /\ place \in {"insert", "refused"} /\ j.kind # "c" /\ b.finished => "NOT_UTF8" \notin b.err
  /\ j.kind \in {"lua", "bcon", "c"} /\ place \in {"read", "done"} =>
       ValidateNs(j.ns) /\ BsonValid(b) /\ b.bad = "no"
  /\ place = "refused" => ~(ValidateNs(j.ns) /\ BsonValid(b)) /\ b.bad = "no"
  /\ place = "read" => ~Damaged(b)

DocsOK ==
  /\ doc = [t \in Threads |-> doc[t]] /\ pc \in [Threads -> Places]
  /\ \A t \in Threads : BuilderOK(doc[t]) /\ AtOK(job[t], pc[t], doc[t])

\* The pairs a walk has to come to are pairs of the tables of its thread.
Pairs(t) == UNION {job[t].heap[x] : x \in DOMAIN job[t].heap}
Walks(t) == [tbl : DOMAIN job[t].heap, left : SUBSET Pairs(t), array : BOOLEAN]

WalkOK ==
  /\ walk = [t \in Threads |-> walk[t]]
  /\ \A t \in Threads : walk[t] \in Seq(Walks(t))

\* A call of the BCON parser reads one of the lists, its key is a text, the states
\* to return to are those where an element may begin, and its indices are numbers.
Rests == {"Element", "ArraySpecValue"}

FrameOK(f, lists) ==
  /\ {"list", "at", "state", "key", "spec", "docs", "index", "indices", "failed"} \subseteq DOMAIN f
  /\ f.list \in DOMAIN lists /\ f.key \in Seq(Byte) /\ f.docs \in Seq(Rests)
  /\ f.index \in Nat /\ f.indices \in Seq(Nat)

FramesOK(s, lists) == s \in Seq({f \in {s[k] : k \in 1..Len(s)} : FrameOK(f, lists)})

ParseOK ==
  /\ parse = [t \in Threads |-> parse[t]]
  /\ \A t \in Threads : FramesOK(parse[t], job[t].lists)

DocInv == JobsOK /\ DocsOK /\ WalkOK /\ ParseOK

-----------------------------------------------------------------------------
(* Texts.                                                                  *)

LEMMA CStringSeq ==
  ASSUME NEW s \in Seq(Nat) PROVE CString(s) \in Seq(Nat)
<1> DEFINE before == {i \in 1..Len(s) : \A j \in 1..i : s[j] # 0}
           n == Cardinality(before)
<1>1. Len(s) \in Nat
  OBVIOUS
<1>2. IsFiniteSet(1..Len(s)) /\ Cardinality(1..Len(s)) = Len(s)
  <2> DEFINE m == Len(s)
  <2>1. m \in Nat /\ 1 \in Int /\ m \in Int
    BY <1>1
  <2> HIDE DEF m
  <2>2. IsFiniteSet(1..m) /\ Cardinality(1..m) = IF 1 > m THEN 0 ELSE m - 1 + 1
    BY <2>1, FS_Interval, Zenon
  <2>3. Cardinality(1..m) = m
    BY <2>1, <2>2
  <2> QED
    BY <2>2, <2>3 DEF m
<1>3. IsFiniteSet(before) /\ n <= Len(s)
  BY <1>2, FS_Subset
<1>4. n \in Nat
  BY <1>3, FS_CardinalityType
<1>5. CString(s) = SubSeq(s, 1, n)
  BY DEF CString
<1> HIDE DEF before, n
<1>6. SubSeq(s, 1, n) \in Seq(Nat)
  BY <1>1, <1>3, <1>4
<1> QED
  BY <1>5, <1>6

LEMMA TextSeq ==
  ASSUME NEW s \in Seq(Byte)
  PROVE  s \in Seq(Nat)
<1>1. \A c \in Byte : c \in Nat
  BY DEF Byte
<1>2. Len(s) \in Nat /\ s \in [1..Len(s) -> Byte]
  OBVIOUS
<1>3. \A i \in 1..Len(s) : s[i] \in Nat
  BY <1>1, <1>2
<1>4. s \in [1..Len(s) -> Nat]
  BY <1>2, <1>3
<1> QED
  BY <1>2, <1>4

LEMMA NumberSeq ==
  ASSUME NEW n \in Int
  PROVE  TextOfNumber(n) \in Seq(Nat)
<1>1. CASE n < 0
  <2> DEFINE d == 48 - n
  <2>1. d \in Nat /\ 45 \in Nat
    BY <1>1
  <2>2. TextOfNumber(n) = <<45, d>>
    BY <1>1 DEF TextOfNumber
  <2> HIDE DEF d
  <2> QED
    BY <2>1, <2>2
<1>2. CASE ~(n < 0)
  <2> DEFINE d == 48 + n
  <2>1. d \in Nat
    BY <1>2
  <2>2. TextOfNumber(n) = <<d>>
    BY <1>2 DEF TextOfNumber
  <2> HIDE DEF d
  <2> QED
    BY <2>1, <2>2
<1> QED
  BY <1>1, <1>2

LEMMA NumberBack ==
  ASSUME NEW n \in -9..9
  PROVE  NumberOfText(TextOfNumber(n)) = n
<1>1. CASE n < 0
  <2>1. TextOfNumber(n) = <<45, 48 - n>>
    BY <1>1 DEF TextOfNumber
  <2> QED
    BY <2>1 DEF NumberOfText
<1>2. CASE ~(n < 0)
  <2>1. TextOfNumber(n) = <<48 + n>>
    BY <1>2 DEF TextOfNumber
  <2> QED
    BY <1>2, <2>1 DEF NumberOfText
<1> QED
  BY <1>1, <1>2

LEMMA IndexSeq ==
  ASSUME NEW n \in Nat
  PROVE  ArrayKeyString(n) \in Seq(Nat)
<1> DEFINE d == 48 + n  q == 48 + (n \div 10)  r == 48 + (n % 10)
<1>1. d \in Nat /\ q \in Nat /\ r \in Nat
  OBVIOUS
<1>2. ArrayKeyString(n) = IF n < 10 THEN <<d>> ELSE <<q, r>>
  BY DEF ArrayKeyString
<1> HIDE DEF d, q, r
<1> QED
  BY <1>1, <1>2

LEMMA KeySeq ==
  ASSUME NEW k, k[1] \in {"number", "boolean", "string"}, k[1] = "string" => k[2] \in Seq(Byte),
         k[1] = "number" => k[2] \in -9..9
  PROVE  KeyText(k) \in Seq(Nat)
<1>1. CASE k[1] = "number"
  BY <1>1, NumberSeq DEF KeyText
<1>2. CASE k[1] = "boolean"
  <2>1. KeyText(k) = IF k[2] THEN <<116, 114, 117, 101>> ELSE <<102, 97, 108, 115, 101>>
    BY <1>2 DEF KeyText
  <2>2. <<116, 114, 117, 101>> \in Seq(Nat) /\ <<102, 97, 108, 115, 101>> \in Seq(Nat)
    OBVIOUS
  <2> QED
    BY <2>1, <2>2
<1>3. CASE k[1] = "string"
  BY <1>3, TextSeq DEF KeyText
<1> QED
  BY <1>1, <1>2, <1>3

-----------------------------------------------------------------------------
(* Sequences of calls.                                                     *)

LEMMA FramesIn ==
  ASSUME NEW F, NEW lists, NEW s \in Seq(F), \A f \in F : FrameOK(f, lists)
  PROVE  FramesOK(s, lists)
<1> DEFINE G == {f \in {s[k] : k \in 1..Len(s)} : FrameOK(f, lists)}
<1>1. \A k \in 1..Len(s) : s[k] \in G
  OBVIOUS
<1>2. s \in [1..Len(s) -> G] /\ Len(s) \in Nat
  BY <1>1
<1> HIDE DEF G
<1>3. s \in Seq(G)
  BY <1>2
<1> QED
  BY <1>3 DEF FramesOK, G

LEMMA FramesAppend ==
  ASSUME NEW s, NEW f, NEW lists, FramesOK(s, lists), FrameOK(f, lists)
  PROVE  FramesOK(Append(s, f), lists)
<1> DEFINE G == {g \in {s[k] : k \in 1..Len(s)} : FrameOK(g, lists)}
<1>1. s \in Seq(G) /\ \A g \in G \cup {f} : FrameOK(g, lists)
  BY DEF FramesOK
<1> HIDE DEF G
<1>2. Append(s, f) \in Seq(G \cup {f})
  BY <1>1
<1> QED
  BY <1>1, <1>2, FramesIn

LEMMA FramesFront ==
  ASSUME NEW s, NEW lists, FramesOK(s, lists), s # <<>>
  PROVE  /\ FramesOK(Front(s), lists) /\ FrameOK(Last(s), lists)
         /\ Len(Front(s)) = Len(s) - 1
<1> DEFINE G == {g \in {s[k] : k \in 1..Len(s)} : FrameOK(g, lists)}
<1>1. s \in Seq(G) /\ \A g \in G : FrameOK(g, lists)
  BY DEF FramesOK
<1> HIDE DEF G
<1> DEFINE m == Len(s) - 1
<1>2. Len(s) \in Nat /\ Len(s) # 0
  BY <1>1
<1>3. s[Len(s)] \in G
  BY <1>1, <1>2
<1>4. m \in Nat /\ m <= Len(s)
  BY <1>2
<1> HIDE DEF m
<1>5. SubSeq(s, 1, m) \in Seq(G) /\ Len(SubSeq(s, 1, m)) = m
  BY <1>1, <1>2, <1>4
<1>6. Front(s) = SubSeq(s, 1, m)
  BY DEF Front, m
<1> QED
  BY <1>1, <1>3, <1>5, <1>6, FramesIn DEF Last, m

LEMMA FramesChange ==
  ASSUME NEW s, NEW lists, FramesOK(s, lists), NEW n, NEW f, FrameOK(f, lists)
  PROVE  FramesOK([s EXCEPT ![n] = f], lists)
<1> DEFINE G == {g \in {s[k] : k \in 1..Len(s)} : FrameOK(g, lists)}
<1>1. s \in Seq(G) /\ \A g \in G \cup {f} : FrameOK(g, lists)
  BY DEF FramesOK
<1> HIDE DEF G
<1>2. Len(s) \in Nat /\ s \in [1..Len(s) -> G \cup {f}]
  BY <1>1
<1>3. [s EXCEPT ![n] = f] \in [1..Len(s) -> G \cup {f}]
  BY <1>2
<1>4. [s EXCEPT ![n] = f] \in Seq(G \cup {f})
  BY <1>2, <1>3
<1> QED
  BY <1>1, <1>4, FramesIn

\* The other fields of a call may be anything.
LEMMA FrameKept ==
  ASSUME NEW f, NEW lists, FrameOK(f, lists), NEW y
  PROVE  /\ FrameOK([f EXCEPT !.at = y], lists) /\ FrameOK([f EXCEPT !.state = y], lists)
         /\ FrameOK([f EXCEPT !.spec = y], lists) /\ FrameOK([f EXCEPT !.failed = y], lists)
         /\ y \in Seq(Rests) => FrameOK([f EXCEPT !.docs = y], lists)
         /\ y \in Seq(Byte) => FrameOK([f EXCEPT !.key = y], lists)
         /\ y \in Nat => FrameOK([f EXCEPT !.index = y], lists)
         /\ y \in Seq(Nat) => FrameOK([f EXCEPT !.indices = y], lists)
  BY DEF FrameOK

LEMMA CountedOK ==
  ASSUME NEW f, NEW lists, FrameOK(f, lists)
  PROVE  /\ Counted(f) \in Nat /\ Append(f.indices, Counted(f)) \in Seq(Nat)
         /\ NextKey(f) \in Seq(Nat) /\ Append(f.docs, Resting(f)) \in Seq(Rests)
<1>1. f.index \in Nat /\ f.indices \in Seq(Nat) /\ f.key \in Seq(Byte)
  BY DEF FrameOK
<1>2. Counted(f) \in Nat
  BY <1>1 DEF Counted
<1>3. NextKey(f) \in Seq(Nat)
  BY <1>1, IndexSeq, TextSeq DEF NextKey
<1>4. Append(f.docs, Resting(f)) \in Seq(Rests)
  <2>1. Resting(f) \in Rests
    BY DEF Resting, Rests
  <2> QED
    BY <2>1 DEF FrameOK
<1> QED
  BY <1>1, <1>2, <1>3, <1>4

\* The states and the indices when the innermost array has been closed.
LEMMA FrontIn ==
  ASSUME NEW S, NEW s \in Seq(S)
  PROVE  Front(s) \in Seq(S) /\ (s # <<>> => Last(s) \in S)
<1> DEFINE n == Len(s) - 1
<1>1. Front(s) = SubSeq(s, 1, n)
  BY DEF Front
<1>2. CASE s = <<>>
  <2>1. n = -1
    BY <1>2
  <2>2. SubSeq(s, 1, n) = <<>>
    BY <2>1, SubSeqEmpty
  <2> QED
    BY <1>1, <1>2, <2>2
<1>3. CASE s # <<>>
  <2>1. Len(s) \in Nat /\ Len(s) # 0
    BY <1>3
  <2>2. n \in Nat /\ n <= Len(s) /\ s[Len(s)] \in S
    BY <2>1
  <2> HIDE DEF n
  <2>3. SubSeq(s, 1, n) \in Seq(S)
    BY <2>2
  <2> QED
    BY <1>1, <2>2, <2>3 DEF Last
<1> QED
  BY <1>2, <1>3

LEMMA UncountedOK ==
  ASSUME NEW f, NEW lists, FrameOK(f, lists)
  PROVE  /\ Front(f.docs) \in Seq(Rests) /\ Front(f.indices) \in Seq(Nat)
         /\ (IF f.indices = <<>> THEN f.index ELSE Last(f.indices)) \in Nat
  BY FrontIn DEF FrameOK

-----------------------------------------------------------------------------
(* Steps of a Lua program.                                                 *)

LEMMA DocTyped ==
  ASSUME DocsOK, NEW t \in Threads
  PROVE  /\ BuilderOK(doc[t]) /\ doc[t].finished \in BOOLEAN
         /\ pc[t] = "build" /\ job[t].kind # "c" => doc[t].finished = FALSE
  BY DEF DocsOK, BuilderOK, Typed, AtOK

LEMMA BuildOK ==
  ASSUME JobsOK, DocsOK, NEW t \in Threads, NEW b, BuilderOK(b), NEW place \in Places,
         AtOK(job[t], place, b), Build(t, b, place)
  PROVE  JobsOK' /\ DocsOK' /\ job' = job
<1>1. job' = job /\ doc' = [doc EXCEPT ![t] = b] /\ pc' = [pc EXCEPT ![t] = place]
  BY DEF Build
<1>2. JobsOK'
  BY <1>1 DEF JobsOK
<1>3. /\ doc' = [u \in Threads |-> doc'[u]] /\ doc'[t] = b
      /\ \A u \in Threads : u # t => doc'[u] = doc[u]
  BY <1>1 DEF DocsOK
<1>4. /\ pc' \in [Threads -> Places] /\ pc'[t] = place
      /\ \A u \in Threads : u # t => pc'[u] = pc[u]
  BY <1>1 DEF DocsOK
<1>5. ASSUME NEW u \in Threads
      PROVE  BuilderOK(doc'[u]) /\ AtOK(job'[u], pc'[u], doc'[u])
  <2>1. CASE u = t
    BY <1>1, <1>3, <1>4, <2>1
  <2>2. CASE u # t
    BY <1>1, <1>3, <1>4, <2>2 DEF DocsOK
  <2> QED
    BY <2>1, <2>2
<1>6. DocsOK'
  BY <1>3, <1>4, <1>5 DEF DocsOK
<1> QED
  BY <1>1, <1>2, <1>6

\* A program that goes on with its document, or stops.
LEMMA BuiltAt ==
  ASSUME DocsOK, NEW t \in Threads, pc[t] = "build", NEW b, b.finished = doc[t].finished
  PROVE  AtOK(job[t], "build", b) /\ AtOK(job[t], "error", b)
  BY DocTyped DEF AtOK

LEMMA InsertAt ==
  ASSUME NEW j, NEW b, j.kind # "c" => (b.finished => "NOT_UTF8" \notin b.err)
  PROVE  AtOK(j, "insert", b)
  BY DEF AtOK

\* A step that adds to the document.
LEMMA GoesOnOK ==
  ASSUME JobsOK, DocsOK, NEW t \in Threads, pc[t] = "build", NEW b, Built(doc[t], b),
         NEW place \in {"build", "error"}, Build(t, b, place)
  PROVE  JobsOK' /\ DocsOK' /\ job' = job
<1>1. BuilderOK(b) /\ b.finished = doc[t].finished
  BY DEF Built
<1>2. AtOK(job[t], "build", b) /\ AtOK(job[t], "error", b)
  BY <1>1, BuiltAt
<1>3. place \in Places /\ AtOK(job[t], place, b)
  BY <1>2 DEF Places
<1> QED
  BY <1>1, <1>3, BuildOK

\* A pair that is due.
LEMMA PairDue ==
  ASSUME DocInv, NEW t \in Threads, walk[t] # <<>>, NEW p \in Last(walk[t]).left,
         NextPair(t, p)
  PROVE  /\ PairOK(job[t].heap, p) /\ Len(walk[t]) \in Nat \ {0}
         /\ walk[t] \in Seq(Walks(t)) /\ Last(walk[t]) \in Walks(t)
         /\ BuilderOK(doc[t]) /\ doc[t].bad = "no" /\ pc[t] = "build"
<1>1. walk[t] \in Seq(Walks(t)) /\ JobOK(job[t])
  BY DEF DocInv, WalkOK, JobsOK
<1>2. Len(walk[t]) \in Nat \ {0}
  BY <1>1
<1>3. Last(walk[t]) \in Walks(t)
  BY <1>1, <1>2 DEF Last
<1>4. p \in Pairs(t)
  BY <1>3 DEF Walks
<1>5. BuilderOK(doc[t]) /\ doc[t].bad = "no" /\ pc[t] = "build"
  BY DocTyped DEF DocInv, NextPair, At, Sane
<1> QED
  BY <1>1, <1>2, <1>3, <1>4, <1>5 DEF Pairs, JobOK, TableOK

LEMMA PairKeySeq ==
  ASSUME NEW t, NEW p, NEW heap, PairOK(heap, p), ConvertibleKey(t, p)
  PROVE  CString(PairKey(t, p)) \in Seq(Nat)
<1>1. KeyText(p[1]) \in Seq(Nat)
  BY KeySeq DEF PairOK, ConvertibleKey
<1>2. PairKey(t, p) \in Seq(Nat)
  <2>1. CASE ~Last(walk[t]).array
    BY <1>1, <2>1 DEF PairKey
  <2>2. CASE Last(walk[t]).array
    <3>1. NumberOfText(KeyText(p[1])) \in Int
      <4>1. CASE p[1][1] = "number"
        BY <4>1, NumberBack DEF KeyText, PairOK
      <4>2. CASE p[1][1] = "string" /\ IsNumberText(p[1][2])
        <5>1. PICK n \in -9..9 : p[1][2] = TextOfNumber(n)
          BY <4>2 DEF IsNumberText
        <5>2. KeyText(p[1]) = TextOfNumber(n)
          BY <4>2, <5>1 DEF KeyText
        <5> QED
          BY <5>2, NumberBack
      <4> QED
        BY <2>2, <4>1, <4>2 DEF ConvertibleKey
    <3> DEFINE n == NumberOfText(KeyText(p[1])) - 1
    <3>2. n \in Int
      BY <3>1
    <3>3. PairKey(t, p) = TextOfNumber(n)
      BY <2>2 DEF PairKey
    <3> HIDE DEF n
    <3> QED
      BY <3>2, <3>3, NumberSeq
  <2> QED
    BY <2>1, <2>2
<1> QED
  BY <1>2, CStringSeq

LEMMA ScalarAppendedOK ==
  ASSUME NEW t, BuilderOK(doc[t]), doc[t].bad = "no", NEW key, CString(key) \in Seq(Nat),
         NEW behind,
         NEW v, v[1] \in {"number", "boolean", "string"}, v[1] = "string" => v[2] \in Seq(Byte)
  PROVE  Built(doc[t], ScalarAppended(t, key, v, behind).b)
<1>1. CASE v[1] = "number"
  <2>1. ScalarAppended(t, key, v, behind) = AppendFixed(doc[t], "DOUBLE", CString(key), v[2])
    BY <1>1 DEF ScalarAppended
  <2> QED
    BY <2>1, AppendFixedBuilt
<1>2. CASE v[1] = "boolean"
  <2>1. ScalarAppended(t, key, v, behind) = AppendFixed(doc[t], "BOOL", CString(key), v[2])
    BY <1>2 DEF ScalarAppended
  <2> QED
    BY <2>1, AppendFixedBuilt
<1>3. CASE v[1] = "string" /\ key = IdField
  <2>1. ScalarAppended(t, key, v, behind) =
          AppendOid(doc[t], CString(key), OidFromString(v[2], behind))
    BY <1>3 DEF ScalarAppended
  <2> QED
    BY <2>1, AppendOidBuilt
<1>4. CASE v[1] = "string" /\ key # IdField
  <2>1. ScalarAppended(t, key, v, behind) =
          AppendStringBase(doc[t], "STRING", CString(key), CString(v[2]))
    BY <1>4 DEF ScalarAppended
  <2>2. CString(v[2]) \in Seq(Nat)
    BY <1>4, TextSeq, CStringSeq
  <2> QED
    BY <2>1, <2>2, AppendStringBaseBuilt
<1> QED
  BY <1>1, <1>2, <1>3, <1>4

LEMMA WalkChange ==
  ASSUME WalkOK, NEW t \in Threads, NEW next \in Seq(Walks(t)), job' = job,
         walk' = [walk EXCEPT ![t] = next]
  PROVE  WalkOK'
<1>1. \A u \in Threads : Walks(u)' = Walks(u)
  BY DEF Walks, Pairs
<1> QED
  BY <1>1 DEF WalkOK

LEMMA WalkSame ==
  ASSUME WalkOK, UNCHANGED <<job, walk>>
  PROVE  WalkOK'
<1>1. \A u \in Threads : Walks(u)' = Walks(u)
  BY DEF Walks, Pairs
<1> QED
  BY <1>1 DEF WalkOK

\* One pair less to come.
LEMMA LessOK ==
  ASSUME NEW t, NEW s \in Seq(Walks(t)), Len(s) \in Nat \ {0}, NEW p
  PROVE  Without(s, p) \in Seq(Walks(t))
<1> DEFINE w == s[Len(s)]
           v == [w EXCEPT !.left = w.left \ {p}]
<1>1. w \in Walks(t)
  OBVIOUS
<1>2. v \in Walks(t)
  BY <1>1 DEF Walks
<1>3. Without(s, p) = [s EXCEPT ![Len(s)] = v]
  BY DEF Without
<1> HIDE DEF v
<1>4. [s EXCEPT ![Len(s)] = v] \in Seq(Walks(t))
  BY <1>2
<1> QED
  BY <1>3, <1>4

LEMMA StartWalkOK ==
  ASSUME NEW t, NEW x \in DOMAIN job[t].heap, NEW array \in BOOLEAN
  PROVE  StartWalk(t, x, array) \in Walks(t)
  BY DEF StartWalk, Walks, Pairs

LEMMA ScalarPairStep ==
  ASSUME DocInv, NEW t \in Threads, walk[t] # <<>>, ScalarPair(t), UNCHANGED parse
  PROVE  DocInv'
<1>1. PICK p \in Last(walk[t]).left, behind \in Behind :
        /\ NextPair(t, p)
        /\ ConvertibleKey(t, p) /\ p[2][1] \in {"number", "boolean", "string"}
        /\ LET r == ScalarAppended(t, PairKey(t, p), p[2], behind)
           IN  Build(t, r.b, IF r.ok THEN "build" ELSE "error")
        /\ walk' = [walk EXCEPT ![t] = Without(@, p)]
  BY DEF ScalarPair
<1>2. /\ PairOK(job[t].heap, p) /\ Len(walk[t]) \in Nat \ {0}
      /\ walk[t] \in Seq(Walks(t)) /\ Last(walk[t]) \in Walks(t)
      /\ BuilderOK(doc[t]) /\ doc[t].bad = "no" /\ pc[t] = "build"
  BY <1>1, PairDue
<1> DEFINE r == ScalarAppended(t, PairKey(t, p), p[2], behind)
<1>3. Built(doc[t], r.b)
  <2>1. CString(PairKey(t, p)) \in Seq(Nat)
    BY <1>1, <1>2, PairKeySeq
  <2>2. p[2][1] = "string" => p[2][2] \in Seq(Byte)
    BY <1>2 DEF PairOK
  <2> QED
    BY <1>1, <1>2, <2>1, <2>2, ScalarAppendedOK
<1> DEFINE place == IF r.ok THEN "build" ELSE "error"
<1>4. Build(t, r.b, place) /\ place \in {"build", "error"}
  BY <1>1
<1> HIDE DEF r, place
<1>5. JobsOK' /\ DocsOK' /\ job' = job
  BY <1>2, <1>3, <1>4, GoesOnOK DEF DocInv
<1> DEFINE less == Without(walk[t], p)
<1>6. walk' = [walk EXCEPT ![t] = less]
  BY <1>1 DEF DocInv, WalkOK
<1>7. less \in Seq(Walks(t))
  BY <1>2, LessOK
<1> HIDE DEF less
<1>8. WalkOK'
  BY <1>5, <1>6, <1>7, WalkChange DEF DocInv
<1> QED
  BY <1>5, <1>8 DEF DocInv, ParseOK

LEMMA TablePairStep ==
  ASSUME DocInv, NEW t \in Threads, walk[t] # <<>>, TablePair(t), UNCHANGED parse
  PROVE  DocInv'
<1>1. PICK p \in Last(walk[t]).left :
        /\ NextPair(t, p)
        /\ ConvertibleKey(t, p) /\ p[2][1] = "table"
        /\ LET sub == p[2][2]
               name == CString(PairKey(t, p))
               r == IF IsArray(t, sub) THEN StartArray(doc[t], name) ELSE StartObject(doc[t], name)
               fine == r.ok /\ sub \notin visited[t]
           IN  /\ Build(t, r.b, IF fine THEN "build" ELSE "error")
               /\ walk' = [walk EXCEPT ![t] =
                    IF fine THEN Append(Without(@, p), StartWalk(t, sub, IsArray(t, sub)))
                            ELSE @]
  BY DEF TablePair
<1> DEFINE sub == p[2][2]
           name == CString(PairKey(t, p))
           r == IF IsArray(t, sub) THEN StartArray(doc[t], name) ELSE StartObject(doc[t], name)
           fine == r.ok /\ sub \notin visited[t]
           place == IF fine THEN "build" ELSE "error"
           less == Without(walk[t], p)
           deeper == Append(less, StartWalk(t, sub, IsArray(t, sub)))
           next == IF fine THEN deeper ELSE walk[t]
<1>2. /\ PairOK(job[t].heap, p) /\ Len(walk[t]) \in Nat \ {0}
      /\ walk[t] \in Seq(Walks(t)) /\ Last(walk[t]) \in Walks(t)
      /\ BuilderOK(doc[t]) /\ doc[t].bad = "no" /\ pc[t] = "build"
  BY <1>1, PairDue
<1>3. Build(t, r.b, place) /\ walk' = [walk EXCEPT ![t] = next] /\ place \in {"build", "error"}
  <2>1. Build(t, r.b, place)
    BY <1>1, Zenon
  <2>2. walk' = [walk EXCEPT ![t] = next]
    BY <1>1, Zenon
  <2> QED
    BY <2>1, <2>2
<1>4. name \in Seq(Nat)
  BY <1>1, <1>2, PairKeySeq
<1>5. sub \in DOMAIN job[t].heap
  BY <1>1, <1>2 DEF PairOK
<1>6. StartWalk(t, sub, IsArray(t, sub)) \in Walks(t)
  BY <1>5, StartWalkOK DEF IsArray
<1>7. less \in Seq(Walks(t))
  BY <1>2, LessOK
<1> HIDE DEF less, sub, name
<1>8. deeper \in Seq(Walks(t))
  BY <1>6, <1>7
<1>9. Built(doc[t], r.b)
  BY <1>2, <1>4, StartSubBuilt DEF StartArray, StartObject
<1> HIDE DEF r, fine, place, deeper
<1>10. next \in Seq(Walks(t))
  BY <1>2, <1>8
<1> HIDE DEF next
<1>11. JobsOK' /\ DocsOK' /\ job' = job
  BY <1>2, <1>3, <1>9, GoesOnOK DEF DocInv
<1>12. WalkOK'
  BY <1>3, <1>10, <1>11, WalkChange DEF DocInv
<1> QED
  BY <1>11, <1>12 DEF DocInv, ParseOK

LEMMA EndOfTableStep ==
  ASSUME DocInv, NEW t \in Threads, EndOfTable(t), UNCHANGED parse
  PROVE  DocInv'
<1> DEFINE r == FinishObject(doc[t])
           place == IF r.ok THEN "build" ELSE "error"
           front == Front(walk[t])
<1>1. /\ Build(t, r.b, place) /\ walk' = [walk EXCEPT ![t] = front] /\ Len(walk[t]) > 1
      /\ place \in {"build", "error"} /\ doc[t].bad = "no" /\ pc[t] = "build"
  BY DEF EndOfTable, At, Sane
<1>2. Built(doc[t], r.b)
  BY <1>1, DocTyped, FinishObjectBuilt DEF DocInv
<1>3. walk[t] \in Seq(Walks(t))
  BY DEF DocInv, WalkOK
<1>4. front \in Seq(Walks(t))
  <2> DEFINE n == Len(walk[t]) - 1
  <2>1. n \in Nat /\ n <= Len(walk[t])
    BY <1>1, <1>3
  <2> HIDE DEF n
  <2>2. SubSeq(walk[t], 1, n) \in Seq(Walks(t))
    BY <1>3, <2>1
  <2> QED
    BY <2>2 DEF Front, n
<1> HIDE DEF r, place, front
<1>5. JobsOK' /\ DocsOK' /\ job' = job
  BY <1>1, <1>2, GoesOnOK DEF DocInv
<1>6. WalkOK'
  BY <1>1, <1>4, <1>5, WalkChange DEF DocInv
<1> QED
  BY <1>5, <1>6 DEF DocInv, ParseOK

\* What leaves jobs, documents, places and calls alone.
LEMMA IdleOK ==
  ASSUME DocInv, UNCHANGED <<job, pc, doc, walk, parse>> PROVE DocInv'
  BY WalkSame DEF DocInv, JobsOK, DocsOK, ParseOK

\* What leaves the calls alone, and a document in order.
LEMMA BuiltOK ==
  ASSUME DocInv, NEW t \in Threads, NEW b, BuilderOK(b), NEW place \in Places,
         AtOK(job[t], place, b), Build(t, b, place), UNCHANGED <<walk, parse>>
  PROVE  DocInv'
<1>1. JobsOK' /\ DocsOK' /\ job' = job
  BY BuildOK DEF DocInv
<1> QED
  BY <1>1, WalkSame DEF DocInv, ParseOK

\* What changes the place alone.
LEMMA MovedOn ==
  ASSUME DocInv, NEW t \in Threads, NEW place \in Places, AtOK(job[t], place, doc[t]),
         pc' = [pc EXCEPT ![t] = place], UNCHANGED <<job, doc, walk, parse>>
  PROVE  DocInv'
<1>1. Build(t, doc[t], place)
  BY DEF Build, DocInv, DocsOK
<1>2. BuilderOK(doc[t])
  BY DocTyped DEF DocInv
<1> QED
  BY <1>1, <1>2, BuiltOK

LEMMA EndOfRootStep ==
  ASSUME DocInv, NEW t \in Threads, EndOfRoot(t), UNCHANGED parse
  PROVE  DocInv'
<1> DEFINE empty == <<>>
<1>1. walk' = [walk EXCEPT ![t] = empty] /\ empty \in Seq(Walks(t))
  BY DEF EndOfRoot
<1>2. pc[t] = "build" /\ job[t].kind # "c"
  BY DEF EndOfRoot, At
<1> HIDE DEF empty
<1>3. CASE Build(t, Finish(doc[t]).b, "insert")
  <2> DEFINE b == Finish(doc[t]).b
  <2>1. BuilderOK(doc[t]) /\ doc[t].finished = FALSE
    BY <1>2, DocTyped DEF DocInv
  <2>2. BuilderOK(b) /\ (b.finished => "NOT_UTF8" \notin b.err)
    BY <2>1, FinishBuilt
  <2>3. Build(t, b, "insert") /\ "insert" \in Places
    BY <1>3 DEF Places
  <2> HIDE DEF b
  <2>4. AtOK(job[t], "insert", b)
    BY <2>2, InsertAt
  <2>5. JobsOK' /\ DocsOK' /\ job' = job
    BY <2>2, <2>3, <2>4, BuildOK DEF DocInv
  <2>6. WalkOK'
    BY <1>1, <2>5, WalkChange DEF DocInv
  <2> QED
    BY <2>5, <2>6 DEF DocInv, ParseOK
<1>4. CASE UNCHANGED threadVars
  <2>1. UNCHANGED <<job, pc, doc>>
    BY <1>4 DEF threadVars
  <2>2. WalkOK'
    BY <1>1, <2>1, WalkChange DEF DocInv
  <2> QED
    BY <2>1, <2>2 DEF DocInv, JobsOK, DocsOK, ParseOK
<1> QED
  BY <1>3, <1>4 DEF EndOfRoot

LEMMA NewIdStep ==
  ASSUME DocInv, NEW t \in Threads, NewId(t), UNCHANGED parse
  PROVE  DocInv'
<1> DEFINE with == AppendOid(doc[t], IdField, OidBytes(Made(t))).b
           b == Finish(with).b
<1>1. IdField \in Seq(Nat)
  BY DEF IdField
<1>2. /\ Build(t, b, "insert") /\ UNCHANGED <<walk, parse>> /\ "insert" \in Places
      /\ doc[t].bad = "no" /\ pc[t] = "build" /\ job[t].kind = "lua"
  BY DEF NewId, luaVars, Sane, Places
<1>3. BuilderOK(doc[t]) /\ doc[t].finished = FALSE
  BY <1>2, DocTyped DEF DocInv
<1>4. BuilderOK(with) /\ with.finished = FALSE
  BY <1>1, <1>2, <1>3, AppendOidBuilt DEF Built
<1> HIDE DEF with
<1>5. BuilderOK(b) /\ (b.finished => "NOT_UTF8" \notin b.err)
  BY <1>4, FinishBuilt
<1> HIDE DEF b
<1>6. AtOK(job[t], "insert", b)
  BY <1>5, InsertAt
<1> QED
  BY <1>2, <1>5, <1>6, BuiltOK

LEMMA ReadEndStep ==
  ASSUME DocInv, NEW t \in Threads, ReadEnd(t), UNCHANGED parse
  PROVE  DocInv'
<1> DEFINE place == IF Len(it[t]) > 1 THEN "read" ELSE "done"
<1>1. /\ pc[t] = "read" /\ UNCHANGED <<job, doc, walk, parse>>
      /\ pc' = [pc EXCEPT ![t] = place]
  BY DEF ReadEnd, ReadsAt, At
<1>2. place \in {"read", "done"}
  OBVIOUS
<1> HIDE DEF place
<1>3. AtOK(job[t], place, doc[t])
  BY <1>1, <1>2 DEF DocInv, DocsOK, AtOK
<1>4. place \in Places
  BY <1>2 DEF Places
<1> QED
  BY <1>1, <1>3, <1>4, MovedOn

LEMMA ErrorAt ==
  ASSUME NEW j, NEW b PROVE AtOK(j, "error", b) /\ "error" \in Places
  BY DEF AtOK, Places

LEMMA LuaStepOK ==
  ASSUME DocInv, NEW t \in Threads, LuaStep(t), UNCHANGED parse
  PROVE  DocInv'
<1>1. CASE BadPair(t)
  <2>1. Build(t, doc[t], "error") /\ UNCHANGED walk
    BY <1>1 DEF BadPair, luaVars
  <2>2. BuilderOK(doc[t])
    BY DocTyped DEF DocInv
  <2> QED
    BY <2>1, <2>2, ErrorAt, BuiltOK
<1>2. CASE walk[t] # <<>> /\ ScalarPair(t)
  BY <1>2, ScalarPairStep
<1>3. CASE walk[t] # <<>> /\ TablePair(t)
  BY <1>3, TablePairStep
<1>4. CASE EndOfTable(t)
  BY <1>4, EndOfTableStep
<1>5. CASE EndOfRoot(t)
  BY <1>5, EndOfRootStep
<1>6. CASE NewId(t)
  BY <1>6, NewIdStep
<1>7. CASE ReadScalar(t) \/ ReadTable(t)
  BY <1>7, IdleOK DEF ReadScalar, ReadTable, threadVars
<1>8. CASE ReadEnd(t)
  BY <1>8, ReadEndStep
<1>9. CASE ReadError(t)
  <2>1. UNCHANGED <<job, doc, walk, parse>> /\ pc' = [pc EXCEPT ![t] = "error"]
    BY <1>9 DEF ReadError, luaVars
  <2> QED
    BY <2>1, ErrorAt, MovedOn
<1> QED
  BY <1>1, <1>2, <1>3, <1>4, <1>5, <1>6, <1>7, <1>8, <1>9 DEF LuaStep

-----------------------------------------------------------------------------
(* Steps of the BCON parser.                                               *)

LEMMA ParseChange ==
  ASSUME ParseOK, NEW t \in Threads, NEW next, FramesOK(next, job[t].lists), job' = job,
         parse' = [parse EXCEPT ![t] = next]
  PROVE  ParseOK'
  BY DEF ParseOK

\* A step that leaves the builder in order and the calls with their lists.
LEMMA ParsedOK ==
  ASSUME DocInv, NEW t \in Threads, NEW b, BuilderOK(b), NEW place \in Places,
         AtOK(job[t], place, b), Build(t, b, place),
         NEW next, FramesOK(next, job[t].lists), parse' = [parse EXCEPT ![t] = next],
         UNCHANGED walk
  PROVE  DocInv'
<1>1. JobsOK' /\ DocsOK' /\ job' = job
  BY BuildOK DEF DocInv
<1>2. ParseOK'
  BY <1>1, ParseChange DEF DocInv
<1> QED
  BY <1>1, <1>2, WalkSame DEF DocInv

LEMMA ParsedOn ==
  ASSUME DocInv, NEW t \in Threads, pc[t] = "build", NEW b, Built(doc[t], b),
         Build(t, b, "build"),
         NEW next, FramesOK(next, job[t].lists), parse' = [parse EXCEPT ![t] = next],
         UNCHANGED walk
  PROVE  DocInv'
<1>1. BuilderOK(b) /\ b.finished = doc[t].finished /\ "build" \in Places
  BY DEF Built, Places
<1>2. AtOK(job[t], "build", b)
  BY <1>1, BuiltAt DEF DocInv
<1> QED
  BY <1>1, <1>2, ParsedOK

LEMMA ContinueOK ==
  ASSUME DocInv, NEW t \in Threads, parse[t] # <<>>, pc[t] = "build",
         NEW b, Built(doc[t], b), NEW f, FrameOK(f, job[t].lists), Continue(t, b, f), UNCHANGED walk
  PROVE  DocInv'
<1> DEFINE g == [f EXCEPT !.at = f.at + 1]
           next == Append(Front(parse[t]), g)
<1>1. FrameOK(g, job[t].lists)
  BY FrameKept
<1>2. Build(t, b, "build") /\ parse' = [parse EXCEPT ![t] = next]
  BY DEF Continue
<1> HIDE DEF g
<1>3. FramesOK(next, job[t].lists)
  BY <1>1, FramesFront, FramesAppend DEF DocInv, ParseOK
<1> HIDE DEF next
<1> QED
  BY <1>2, <1>3, ParsedOn

\* Where a call reads something, it is a call that is in order, and a text it
\* reads is one.
LEMMA ReadsOK ==
  ASSUME DocInv, NEW t \in Threads, NEW states, NEW tokens, Reads(t, states, tokens)
  PROVE  /\ parse[t] # <<>> /\ FrameOK(Current(t), job[t].lists) /\ BuilderOK(doc[t])
         /\ Element(t)[1] = "text" => Element(t)[2] \in Seq(Byte)
         /\ Element(t)[1] = "list" => Element(t)[2] \in DOMAIN job[t].lists
         /\ doc[t].bad = "no" /\ pc[t] = "build"
<1>1. /\ parse[t] # <<>> /\ Current(t).at \in 1..Len(job[t].lists[Current(t).list])
      /\ doc[t].bad = "no" /\ pc[t] = "build"
  BY DEF Reads, At, Sane
<1>2. FrameOK(Current(t), job[t].lists)
  BY <1>1, FramesFront DEF Current, DocInv, ParseOK
<1>3. ListOK(job[t].lists, job[t].lists[Current(t).list])
  BY <1>2 DEF DocInv, JobsOK, JobOK, FrameOK
<1> QED
  BY <1>1, <1>2, <1>3, DocTyped DEF ListOK, Element, DocInv

\* A document without a flaw in itself.
LEMMA SelfBuilt ==
  ASSUME NEW b, BuilderOK(b) PROVE Built(b, b)
  BY DEF Built

LEMMA AfterValueOK ==
  ASSUME NEW f, NEW lists, FrameOK(f, lists) PROVE FrameOK(AfterValue(f), lists)
<1> DEFINE f1 == [f EXCEPT !.state = Resting(f)]
           f2 == [f1 EXCEPT !.spec = NoSpec]
           f3 == [f2 EXCEPT !.index = Counted(f)]
<1>1. AfterValue(f) = f3
  BY DEF AfterValue
<1>2. FrameOK(f1, lists)
  BY FrameKept
<1> HIDE DEF f1
<1>3. FrameOK(f2, lists) /\ Counted(f) \in Nat
  BY <1>2, FrameKept, CountedOK
<1> HIDE DEF f2
<1>4. FrameOK(f3, lists)
  BY <1>3, FrameKept
<1> QED
  BY <1>1, <1>4

\* One bracket opened.
LEMMA OpenStep ==
  ASSUME DocInv, NEW t \in Threads, BconOpenBrace(t) \/ BconOpenBracket(t), UNCHANGED walk
  PROVE  DocInv'
<1> DEFINE f == Current(t)
           docs == [f EXCEPT !.docs = Append(f.docs, Resting(f))]
           element == [docs EXCEPT !.state = "Element"]
           array == [docs EXCEPT !.state = "ArraySpecValue"]
           indices == [array EXCEPT !.indices = Append(f.indices, Counted(f))]
           inDoc == [element EXCEPT !.index = Counted(f)]
           inArray == [indices EXCEPT !.index = 0]
           lists == job[t].lists
<1>1. /\ parse[t] # <<>> /\ FrameOK(f, lists) /\ BuilderOK(doc[t])
      /\ doc[t].bad = "no" /\ pc[t] = "build"
  BY ReadsOK DEF BconOpenBrace, BconOpenBracket
<1>2. /\ NextKey(f) \in Seq(Nat) /\ Counted(f) \in Nat
      /\ Append(f.indices, Counted(f)) \in Seq(Nat) /\ Append(f.docs, Resting(f)) \in Seq(Rests)
  BY <1>1, CountedOK
<1>3. /\ Built(doc[t], StartObject(doc[t], NextKey(f)).b)
      /\ Built(doc[t], StartArray(doc[t], NextKey(f)).b)
  BY <1>1, <1>2, StartSubBuilt DEF StartObject, StartArray
<1>4. \/ Continue(t, StartObject(doc[t], NextKey(f)).b, inDoc)
      \/ Continue(t, StartArray(doc[t], NextKey(f)).b, inArray)
  <2>1. CASE BconOpenBrace(t)
    <3>1. inDoc = [f EXCEPT !.docs = Append(@, Resting(f)), !.state = "Element",
                            !.index = Counted(f)]
      OBVIOUS
    <3> QED
      BY <2>1, <3>1 DEF BconOpenBrace
  <2>2. CASE BconOpenBracket(t)
    <3>1. inArray = [f EXCEPT !.docs = Append(@, Resting(f)), !.state = "ArraySpecValue",
                              !.indices = Append(@, Counted(f)), !.index = 0]
      OBVIOUS
    <3> QED
      BY <2>2, <3>1 DEF BconOpenBracket
  <2> QED
    BY <2>1, <2>2
<1> HIDE DEF f, lists
<1>5. FrameOK(docs, lists)
  BY <1>1, <1>2, FrameKept
<1> HIDE DEF docs
<1>6. FrameOK(element, lists) /\ FrameOK(array, lists)
  BY <1>5, FrameKept
<1> HIDE DEF element, array
<1>7. FrameOK(inDoc, lists) /\ FrameOK(indices, lists)
  BY <1>2, <1>6, FrameKept
<1> HIDE DEF inDoc, indices
<1>8. FrameOK(inArray, lists)
  BY <1>7, FrameKept
<1> HIDE DEF inArray
<1> QED
  BY <1>1, <1>3, <1>4, <1>7, <1>8, ContinueOK DEF lists

\* One bracket closed, or one too many.
LEMMA ClosedOK ==
  ASSUME NEW f, NEW b, BuilderOK(b), b.bad = "no" PROVE Built(b, Closed(f, b))
<1> DEFINE c == FinishObject(b).b
           d == [c EXCEPT !.bad = "under"]
<1>1. BuilderOK(c) /\ c.finished = b.finished
  BY FinishObjectBuilt DEF Built
<1>2. Closed(f, b) = IF f.docs = <<>> THEN d ELSE c
  BY DEF Closed
<1> HIDE DEF c
<1>3. /\ IsBson(d) /\ d.data = c.data /\ d.cur = c.cur /\ d.dataSize = c.dataSize
      /\ d.size = c.size /\ d.finished = c.finished /\ d.stack = c.stack /\ d.err = c.err
      /\ d.bad = "under" /\ d.slips = c.slips
  BY <1>1 DEF BuilderOK, BufOK, IsBson
<1> HIDE DEF d
<1>4. BufOK(d)
  BY <1>1, <1>3 DEF BuilderOK, BufOK
<1>5. Typed(d)
  BY <1>1, <1>3 DEF BuilderOK, Typed
<1>6. BuilderOK(d)
  BY <1>3, <1>4, <1>5 DEF BuilderOK
<1> QED
  BY <1>1, <1>2, <1>3, <1>6 DEF Built

LEMMA CloseStep ==
  ASSUME DocInv, NEW t \in Threads, BconCloseBrace(t) \/ BconCloseBracket(t), UNCHANGED walk
  PROVE  DocInv'
<1> DEFINE f == Current(t)
           docs == [f EXCEPT !.docs = Front(f.docs)]
           state == [docs EXCEPT !.state = IF f.docs = <<>> THEN f.state ELSE Last(f.docs)]
           index == [state EXCEPT !.index = IF f.indices = <<>> THEN f.index
                                            ELSE Last(f.indices)]
           indices == [index EXCEPT !.indices = Front(f.indices)]
           lists == job[t].lists
<1>1. /\ parse[t] # <<>> /\ FrameOK(f, lists) /\ BuilderOK(doc[t])
      /\ doc[t].bad = "no" /\ pc[t] = "build"
  BY ReadsOK DEF BconCloseBrace, BconCloseBracket
<1>2. Built(doc[t], Closed(f, doc[t]))
  BY <1>1, ClosedOK
<1>3. Continue(t, Closed(f, doc[t]), state) \/ Continue(t, Closed(f, doc[t]), indices)
  <2>1. CASE BconCloseBrace(t)
    <3>1. state = [f EXCEPT !.docs = Front(@),
                            !.state = IF f.docs = <<>> THEN @ ELSE Last(f.docs)]
      OBVIOUS
    <3> QED
      BY <2>1, <3>1 DEF BconCloseBrace
  <2>2. CASE BconCloseBracket(t)
    <3>1. indices = [f EXCEPT !.docs = Front(@),
                              !.state = IF f.docs = <<>> THEN @ ELSE Last(f.docs),
                              !.index = IF f.indices = <<>> THEN @ ELSE Last(f.indices),
                              !.indices = Front(@)]
      OBVIOUS
    <3> QED
      BY <2>2, <3>1 DEF BconCloseBracket
  <2> QED
    BY <2>1, <2>2
<1>4. /\ Front(f.docs) \in Seq(Rests) /\ Front(f.indices) \in Seq(Nat)
      /\ (IF f.indices = <<>> THEN f.index ELSE Last(f.indices)) \in Nat
  BY <1>1, UncountedOK
<1> HIDE DEF f, lists
<1>5. FrameOK(docs, lists)
  BY <1>1, <1>4, FrameKept
<1> HIDE DEF docs
<1>6. FrameOK(state, lists)
  BY <1>5, FrameKept
<1> HIDE DEF state
<1>7. FrameOK(index, lists)
  BY <1>6, <1>4, FrameKept
<1> HIDE DEF index
<1>8. FrameOK(indices, lists)
  BY <1>7, <1>4, FrameKept
<1> HIDE DEF indices
<1> QED
  BY <1>1, <1>2, <1>3, <1>6, <1>8, ContinueOK DEF lists

LEMMA KeyStep ==
  ASSUME DocInv, NEW t \in Threads, BconKey(t) \/ BconSpec(t), UNCHANGED walk
  PROVE  DocInv'
<1> DEFINE f == Current(t)
           lists == job[t].lists
           s == Element(t)[2]
           keyed == [f EXCEPT !.key = s]
           named == [keyed EXCEPT !.state = "DocSpecValue"]
           state == IF InArray(f) THEN "ArrayValue" ELSE "DocValue"
           spec == [f EXCEPT !.spec = s]
           typed == [spec EXCEPT !.state = state]
<1>1. /\ parse[t] # <<>> /\ FrameOK(f, lists) /\ Built(doc[t], doc[t])
      /\ pc[t] = "build"
  BY ReadsOK, SelfBuilt DEF BconKey, BconSpec
<1>2. CASE BconKey(t)
  <2>1. s \in Seq(Byte)
    BY <1>2, ReadsOK DEF BconKey, IsText
  <2>2. named = [f EXCEPT !.key = Element(t)[2], !.state = "DocSpecValue"]
    OBVIOUS
  <2>3. Continue(t, doc[t], named)
    BY <1>2, <2>2 DEF BconKey
  <2> HIDE DEF f, lists, s
  <2>4. FrameOK(keyed, lists)
    BY <1>1, <2>1, FrameKept
  <2> HIDE DEF keyed
  <2>5. FrameOK(named, lists)
    BY <2>4, FrameKept
  <2> HIDE DEF named
  <2> QED
    BY <1>1, <2>3, <2>5, ContinueOK DEF lists
<1>3. CASE BconSpec(t)
  <2>1. typed = [f EXCEPT !.spec = Element(t)[2],
                          !.state = IF InArray(f) THEN "ArrayValue" ELSE "DocValue"]
    OBVIOUS
  <2>2. Continue(t, doc[t], typed)
    BY <1>3, <2>1 DEF BconSpec
  <2> HIDE DEF f, lists, s, state
  <2>3. FrameOK(spec, lists)
    BY <1>1, FrameKept
  <2> HIDE DEF spec
  <2>4. FrameOK(typed, lists)
    BY <2>3, FrameKept
  <2> HIDE DEF typed
  <2> QED
    BY <1>1, <2>2, <2>4, ContinueOK DEF lists
<1> QED
  BY <1>2, <1>3

LEMMA BconAppendedOK ==
  ASSUME NEW b, BuilderOK(b), b.bad = "no", NEW key \in Seq(Nat), NEW spec, NEW v,
         FixedTypeOf(spec) # "none" \/ v \in Seq(Nat)
  PROVE  Built(b, BconAppended(b, key, spec, v).b)
<1> DEFINE type == FixedTypeOf(spec)
           value == CASE type = "BOOL" -> v # 0 [] type = "DATE" -> v * 1000 [] OTHER -> v
           text == IF spec[3] = 120 THEN "SYMBOL" ELSE "STRING"
           id == OidFromString(v, 0)
<1>1. type \in {"none", "LONG", "DOUBLE", "DATE", "INT", "BOOL", "NULL"}
  <2>1. FixedTypeOf(spec) \in {"none", "LONG", "DOUBLE", "DATE", "INT", "BOOL", "NULL"}
    BY Zenon DEF FixedTypeOf
  <2> QED
    BY <2>1
<1>2. BconAppended(b, key, spec, v) =
        IF type # "none" THEN AppendFixed(b, type, key, value)
        ELSE IF spec[3] = 111 THEN AppendOid(b, key, id)
        ELSE AppendStringBase(b, text, key, v)
  BY DEF BconAppended
<1>3. text \in {"STRING", "SYMBOL"}
  OBVIOUS
<1> HIDE DEF type, value, text, id
<1>4. CASE type # "none"
  <2>1. BconAppended(b, key, spec, v) = AppendFixed(b, type, key, value)
    BY <1>2, <1>4
  <2> QED
    BY <1>1, <1>4, <2>1, AppendFixedBuilt
<1>5. CASE type = "none" /\ spec[3] = 111
  BY <1>2, <1>5, AppendOidBuilt
<1>6. CASE type = "none" /\ spec[3] # 111
  <2>1. BconAppended(b, key, spec, v) = AppendStringBase(b, text, key, v)
        /\ v \in Seq(Nat) /\ text \in {"STRING", "SYMBOL", "CODE"}
    BY <1>2, <1>3, <1>6 DEF type
  <2> QED
    BY <2>1, AppendStringBaseBuilt
<1> QED
  BY <1>4, <1>5, <1>6

\* Every value but an embedded list.
LEMMA ScalarStep ==
  ASSUME DocInv, NEW t \in Threads, BconScalar(t), UNCHANGED walk
  PROVE  DocInv'
<1> DEFINE f == Current(t)
           lists == job[t].lists
           v == IF Element(t) = <<"null">> THEN 0 ELSE Element(t)[2]
           b == BconAppended(doc[t], NextKey(f), f.spec, v).b
           after == AfterValue(f)
<1>1. /\ ReadsValue(t) /\ (FixedTypeOf(f.spec) # "none" \/ IsText(t))
      /\ Continue(t, b, after)
  BY DEF BconScalar
<1>2. /\ parse[t] # <<>> /\ FrameOK(f, lists) /\ BuilderOK(doc[t])
      /\ Element(t)[1] = "text" => Element(t)[2] \in Seq(Byte)
      /\ doc[t].bad = "no" /\ pc[t] = "build"
  BY <1>1, ReadsOK DEF ReadsValue
<1>3. NextKey(f) \in Seq(Nat)
  BY <1>2, CountedOK
<1>4. IsText(t) => v \in Seq(Nat)
  BY <1>2, TextSeq DEF IsText
<1>5. Built(doc[t], b)
  BY <1>1, <1>2, <1>3, <1>4, BconAppendedOK
<1>6. FrameOK(after, lists)
  BY <1>2, AfterValueOK
<1> HIDE DEF f, b, after, lists
<1> QED
  BY <1>1, <1>2, <1>5, <1>6, ContinueOK DEF lists

LEMMA SkipStep ==
  ASSUME DocInv, NEW t \in Threads, BconSkip(t), UNCHANGED walk
  PROVE  DocInv'
<1>1. /\ parse[t] # <<>> /\ FrameOK(Current(t), job[t].lists) /\ Built(doc[t], doc[t])
      /\ pc[t] = "build"
  BY ReadsOK, SelfBuilt DEF BconSkip, ReadsValue
<1>2. FrameOK(AfterValue(Current(t)), job[t].lists)
  BY <1>1, AfterValueOK
<1> QED
  BY <1>1, <1>2, ContinueOK DEF BconSkip

LEMMA TakeIdStep ==
  ASSUME DocInv, NEW t \in Threads, BconTakeId(t), UNCHANGED walk
  PROVE  DocInv'
<1> DEFINE f == Current(t)
           lists == job[t].lists
           after == AfterValue(f)
           g == [after EXCEPT !.at = after.at + 1]
           next == Append(Front(parse[t]), g)
           b == AppendOid(doc[t], NextKey(f), OidBytes(Made(t))).b
<1>1. /\ Build(t, b, "build") /\ parse' = [parse EXCEPT ![t] = next] /\ parse[t] # <<>>
      /\ doc[t].bad = "no" /\ pc[t] = "build"
  BY DEF BconTakeId, Sane
<1>2. FramesOK(parse[t], lists) /\ BuilderOK(doc[t])
  BY DocTyped DEF DocInv, ParseOK
<1>3. FrameOK(f, lists) /\ FramesOK(Front(parse[t]), lists)
  BY <1>1, <1>2, FramesFront DEF Current
<1>4. Built(doc[t], b)
  <2>1. NextKey(f) \in Seq(Nat)
    BY <1>3, CountedOK
  <2> QED
    BY <1>1, <1>2, <2>1, AppendOidBuilt
<1> HIDE DEF f, lists, b
<1>5. FrameOK(after, lists)
  BY <1>3, AfterValueOK
<1> HIDE DEF after
<1>6. FrameOK(g, lists)
  BY <1>5, FrameKept
<1> HIDE DEF g
<1>7. FramesOK(next, lists)
  BY <1>3, <1>6, FramesAppend
<1> HIDE DEF next
<1> QED
  BY <1>1, <1>4, <1>7, ParsedOn DEF lists

LEMMA EmbedStep ==
  ASSUME DocInv, NEW t \in Threads, BconEmbed(t), UNCHANGED walk
  PROVE  DocInv'
<1> DEFINE f == Current(t)
           lists == job[t].lists
           array == f.spec[3] = 65
           name == NextKey(f)
           r == IF array THEN StartArray(doc[t], name) ELSE StartObject(doc[t], name)
           after == AfterValue(f)
           g == [after EXCEPT !.at = after.at + 1]
           outer == Append(Front(parse[t]), g)
           state == IF array THEN "ArraySpecValue" ELSE "Element"
           call == StartParse(Element(t)[2], state)
           next == Append(outer, call)
<1>1. /\ ReadsValue(t) /\ Element(t)[1] = "list"
      /\ Build(t, r.b, "build") /\ parse' = [parse EXCEPT ![t] = next]
  BY DEF BconEmbed
<1>2. /\ parse[t] # <<>> /\ FrameOK(f, lists) /\ BuilderOK(doc[t])
      /\ Element(t)[2] \in DOMAIN lists /\ doc[t].bad = "no" /\ pc[t] = "build"
  BY <1>1, ReadsOK DEF ReadsValue
<1>3. FramesOK(Front(parse[t]), lists)
  BY <1>2, FramesFront DEF DocInv, ParseOK
<1>4. name \in Seq(Nat)
  BY <1>2, CountedOK
<1>5. FrameOK(call, lists)
  BY <1>2 DEF StartParse, FrameOK
<1>6. FrameOK(after, lists)
  BY <1>2, AfterValueOK
<1> HIDE DEF f, lists, name, call, after
<1>7. Built(doc[t], r.b)
  BY <1>2, <1>4, StartSubBuilt DEF StartArray, StartObject
<1> HIDE DEF r
<1>8. FrameOK(g, lists)
  BY <1>6, FrameKept
<1> HIDE DEF g
<1>9. FramesOK(outer, lists)
  BY <1>3, <1>8, FramesAppend
<1> HIDE DEF outer
<1>10. FramesOK(next, lists)
  BY <1>5, <1>9, FramesAppend
<1> HIDE DEF next
<1> QED
  BY <1>1, <1>2, <1>7, <1>10, ParsedOn DEF lists

LEMMA EndStep ==
  ASSUME DocInv, NEW t \in Threads, BconEnd(t), UNCHANGED walk
  PROVE  DocInv'
<1> DEFINE lists == job[t].lists
           outer == Front(parse[t])
           ok == Current(t).state = Current(t).start
           n == Len(outer)
           top == outer[n]
           failed == [top EXCEPT !.failed = ~ok]
           next == [outer EXCEPT ![n] = failed]
           finished == Finish(doc[t])
           b == IF ok THEN finished.b ELSE doc[t]
           place == IF ok /\ finished.ok THEN "insert" ELSE "error"
<1>1. /\ parse[t] # <<>> /\ doc[t].bad = "no" /\ pc[t] = "build"
      /\ job[t].kind = "bcon"
  BY DEF BconEnd, Ends, At, Sane
<1>2. FramesOK(outer, lists) /\ BuilderOK(doc[t]) /\ doc[t].finished = FALSE
  BY <1>1, FramesFront, DocTyped DEF DocInv, ParseOK
<1>3. CASE outer # <<>>
  <2>1. Build(t, FinishObject(doc[t]).b, "build") /\ parse' = [parse EXCEPT ![t] = next]
    <3>1. next = [outer EXCEPT ![Len(outer)].failed = ~ok]
      OBVIOUS
    <3> QED
      BY <1>3, <3>1 DEF BconEnd
  <2>2. FrameOK(top, lists)
    BY <1>2, <1>3, FramesFront DEF Last
  <2>3. Built(doc[t], FinishObject(doc[t]).b)
    BY <1>1, <1>2, FinishObjectBuilt
  <2> HIDE DEF lists, outer, ok, n, top
  <2>4. FrameOK(failed, lists)
    BY <2>2, FrameKept
  <2> HIDE DEF failed
  <2>5. FramesOK(next, lists)
    BY <1>2, <2>4, FramesChange
  <2> HIDE DEF next
  <2> QED
    BY <1>1, <2>1, <2>3, <2>5, ParsedOn DEF lists
<1>4. CASE outer = <<>>
  <2> DEFINE empty == <<>>
  <2>1. Build(t, b, place) /\ parse' = [parse EXCEPT ![t] = empty]
    BY <1>4 DEF BconEnd
  <2>2. BuilderOK(b) /\ (finished.ok /\ ok => (b.finished => "NOT_UTF8" \notin b.err))
    BY <1>2, FinishBuilt
  <2>3. place \in Places /\ AtOK(job[t], place, b)
    <3> HIDE DEF b
    <3>1. CASE ok /\ finished.ok
      BY <2>2, <3>1, InsertAt DEF Places
    <3>2. CASE ~(ok /\ finished.ok)
      BY <3>2, ErrorAt
    <3> QED
      BY <3>1, <3>2
  <2>4. FramesOK(empty, lists)
    BY <1>2, <1>4
  <2> HIDE DEF b, place, empty, lists
  <2> QED
    BY <2>1, <2>2, <2>3, <2>4, ParsedOK DEF lists
<1> QED
  BY <1>3, <1>4

LEMMA BconStepOK ==
  ASSUME DocInv, NEW t \in Threads, BconStep(t), UNCHANGED walk
  PROVE  DocInv'
<1>1. CASE BconNewId(t)
  BY <1>1, IdleOK DEF BconNewId, threadVars
<1>2. CASE BconKey(t) \/ BconSpec(t)
  BY <1>2, KeyStep
<1>3. CASE BconOpenBrace(t) \/ BconOpenBracket(t)
  BY <1>3, OpenStep
<1>4. CASE BconCloseBrace(t) \/ BconCloseBracket(t)
  BY <1>4, CloseStep
<1>5. CASE BconScalar(t)
  BY <1>5, ScalarStep
<1>6. CASE BconSkip(t)
  BY <1>6, SkipStep
<1>7. CASE BconTakeId(t)
  BY <1>7, TakeIdStep
<1>8. CASE BconEmbed(t)
  BY <1>8, EmbedStep
<1>9. CASE BconEnd(t)
  BY <1>9, EndStep
<1> QED
  BY <1>1, <1>2, <1>3, <1>4, <1>5, <1>6, <1>7, <1>8, <1>9 DEF BconStep

-----------------------------------------------------------------------------
(* Calls of a C program.                                                   *)

LEMMA AnotherIs == OneWhole(Another) /\ Another.size \in Nat
<1>1. Another = Whole
  BY DEF Another, Whole, One
<1>2. OneWhole(Whole) /\ Whole.size \in Nat
  BY WholeIs DEF OneWhole
<1> QED
  BY <1>1, <1>2

\* A call leaves the document in order.
LEMMA CallOK ==
  ASSUME DocInv, NEW t \in Threads, NEW b, BuilderOK(b), CallC(t, b)
  PROVE  DocInv'
<1>1. Build(t, b, "build") /\ UNCHANGED <<walk, parse>> /\ job[t].kind = "c"
  BY DEF CallC, luaVars
<1>2. AtOK(job[t], "build", b) /\ "build" \in Places
  BY <1>1 DEF AtOK, Places
<1> QED
  BY <1>1, <1>2, BuiltOK

LEMMA CalledOK ==
  ASSUME DocInv, NEW t \in Threads, NEW b, Built(doc[t], b), CallC(t, b)
  PROVE  DocInv'
  BY CallOK DEF Built

LEMMA CProgramOK ==
  ASSUME DocInv, NEW t \in Threads, CProgram(t)
  PROVE  DocInv'
<1>1. BuilderOK(doc[t]) /\ doc[t].bad = "no"
  <2>1. At(t, "build")
    BY Zenon DEF CProgram, CallC
  <2> QED
    BY <2>1, DocTyped DEF DocInv, At, Sane
<1>2. \A s \in CNames \cup CTexts : s \in Seq(Nat)
  BY DocumentsAssumption, TextSeq
<1>3. ASSUME NEW name \in CNames, NEW type \in {"INT", "TIMESTAMP"},
             CallC(t, AppendFixed(doc[t], type, name, 1).b)
      PROVE  DocInv'
  <2>1. Built(doc[t], AppendFixed(doc[t], type, name, 1).b)
    BY <1>1, <1>2, AppendFixedBuilt
  <2> QED
    BY <1>3, <2>1, CalledOK
<1>4. ASSUME NEW name \in CNames, NEW old \in BOOLEAN,
             CallC(t, AppendBinary(doc[t], old, name, << 1 >>).b)
      PROVE  DocInv'
  <2>1. Built(doc[t], AppendBinary(doc[t], old, name, << 1 >>).b)
    <3>1. Len(<< 1 >>) \in Nat /\ name \in Seq(Nat)
      BY <1>2
    <3> QED
      BY <1>1, <3>1, AppendBinaryBuilt
  <2> QED
    BY <1>4, <2>1, CalledOK
<1>5. ASSUME NEW name \in CNames, CallC(t, AppendCodeWScope(doc[t], name, << 97 >>, Another).b)
      PROVE  DocInv'
  <2>1. Built(doc[t], AppendCodeWScope(doc[t], name, << 97 >>, Another).b)
    <3>1. Len(<< 97 >>) \in Nat /\ name \in Seq(Nat)
      BY <1>2
    <3> QED
      BY <1>1, <3>1, AnotherIs, AppendCodeWScopeBuilt
  <2> QED
    BY <1>5, <2>1, CalledOK
<1>6. ASSUME NEW name \in CNames,
             \/ CallC(t, StartObject(doc[t], name).b)
             \/ CallC(t, StartArray(doc[t], name).b)
      PROVE  DocInv'
  <2>1. /\ Built(doc[t], StartObject(doc[t], name).b)
        /\ Built(doc[t], StartArray(doc[t], name).b)
    BY <1>1, <1>2, StartSubBuilt DEF StartObject, StartArray
  <2> QED
    BY <1>6, <2>1, CalledOK
<1>7. ASSUME NEW name \in CNames, CallC(t, AppendBson(doc[t], name, Another).b)
      PROVE  DocInv'
  <2>1. Built(doc[t], AppendBson(doc[t], name, Another).b)
    BY <1>1, <1>2, AnotherIs, AppendBsonBuilt
  <2> QED
    BY <1>7, <2>1, CalledOK
<1>8. ASSUME NEW name \in CNames, CallC(t, AppendElement(doc[t], name, Another, 4).b)
      PROVE  DocInv'
  <2>1. Built(doc[t], AppendElement(doc[t], name, Another, 4).b)
    BY <1>1, <1>2, AnotherIs, AppendElementBuilt
  <2> QED
    BY <1>8, <2>1, CalledOK
<1>9. ASSUME NEW name \in CNames, NEW s \in CTexts,
             \/ CallC(t, AppendStringBase(doc[t], "STRING", name, s).b)
             \/ CallC(t, AppendRegex(doc[t], name, s, <<>>).b)
      PROVE  DocInv'
  <2>1. name \in Seq(Nat) /\ s \in Seq(Nat) /\ Len(<<>>) \in Nat
    BY <1>2
  <2>2. Built(doc[t], AppendStringBase(doc[t], "STRING", name, s).b)
    BY <1>1, <2>1, AppendStringBaseBuilt
  <2>3. Built(doc[t], AppendRegex(doc[t], name, s, <<>>).b)
    BY <1>1, <2>1, AppendRegexBuilt
  <2> QED
    BY <1>9, <2>2, <2>3, CalledOK
<1>10. ASSUME CallC(t, AppendElementAsIs(doc[t], Another, 4).b)
       PROVE  DocInv'
  <2>1. Built(doc[t], AppendElementAsIs(doc[t], Another, 4).b)
    BY <1>1, AnotherIs, AppendElementAsIsBuilt
  <2> QED
    BY <1>10, <2>1, CalledOK
<1>11. ASSUME CallC(t, FinishObject(doc[t]).b) PROVE DocInv'
  BY <1>1, <1>11, FinishObjectBuilt, CalledOK
<1>12. ASSUME CallC(t, Finish(doc[t]).b) PROVE DocInv'
  BY <1>1, <1>12, FinishBuilt, CallOK
<1>13. ASSUME doc[t].finished, CallC(t, CopyBson(doc[t]))
       PROVE  DocInv'
  <2>1. BuilderOK(CopyBson(doc[t]))
    BY <1>1, <1>13, CopyBsonBuilt
  <2> QED
    BY <1>13, <2>1, CallOK
<1> QED
  BY <1>3, <1>4, <1>5, <1>6, <1>7, <1>8, <1>9, <1>10, <1>11, <1>12, <1>13, Zenon DEF CProgram

-----------------------------------------------------------------------------
(* All steps.                                                              *)

\* mongo_insert.
LEMMA InsertStep ==
  ASSUME DocInv, NEW t \in Threads, Insert(t)
  PROVE  DocInv'
<1> DEFINE accepted == ValidateNs(job[t].ns) /\ BsonValid(doc[t])
           read == accepted /\ ~Damaged(doc[t])
           place == IF ~accepted THEN "refused" ELSE IF read THEN "read" ELSE "done"
<1>1. /\ pc' = [pc EXCEPT ![t] = place] /\ UNCHANGED <<job, doc, walk, parse>>
      /\ pc[t] = "insert" /\ doc[t].bad = "no"
  BY DEF Insert, At, Sane
<1>2. AtOK(job[t], "insert", doc[t])
  BY <1>1 DEF DocInv, DocsOK
<1>3. AtOK(job[t], place, doc[t]) /\ place \in Places
  <2>1. CASE accepted
    BY <1>1, <2>1 DEF AtOK, Places
  <2>2. CASE ~accepted
    BY <1>1, <1>2, <2>2 DEF AtOK, Places
  <2> QED
    BY <2>1, <2>2
<1> HIDE DEF place
<1> QED
  BY <1>1, <1>3, MovedOn

LEMMA DocStep == DocInv /\ [Next]_vars => DocInv'
<1> SUFFICES ASSUME DocInv, [Next]_vars PROVE DocInv'
  OBVIOUS
<1>1. CASE UNCHANGED vars
  BY <1>1, IdleOK DEF vars, threadVars, luaVars
<1>2. ASSUME NEW t \in Threads, Step(t) PROVE DocInv'
  <2>1. CASE LuaStep(t) /\ UNCHANGED <<parse, calls>>
    BY <2>1, LuaStepOK
  <2>2. CASE BconStep(t) /\ UNCHANGED luaVars
    BY <2>2, BconStepOK DEF luaVars
  <2>3. CASE CProgram(t)
    BY <2>3, CProgramOK
  <2>4. CASE CInsert(t)
    <3>1. /\ Build(t, doc[t], "insert") /\ UNCHANGED <<walk, parse>> /\ job[t].kind = "c"
          /\ "insert" \in Places
      BY <2>4 DEF CInsert, luaVars, Places
    <3>2. BuilderOK(doc[t])
      BY DocTyped DEF DocInv
    <3>3. AtOK(job[t], "insert", doc[t])
      BY <3>1, InsertAt
    <3> QED
      BY <3>1, <3>2, <3>3, BuiltOK
  <2>5. CASE OidCall(t)
    BY <2>5, IdleOK DEF OidCall, threadVars, luaVars
  <2>6. CASE OidReturn(t)
    <3> DEFINE place == IF calls[t] + 1 = MaxIds THEN "done" ELSE "build"
    <3>1. /\ Build(t, doc[t], place) /\ UNCHANGED <<walk, parse>> /\ job[t].kind = "oid"
          /\ place \in {"done", "build"} /\ pc[t] = "build"
      BY <2>6 DEF OidReturn, luaVars
    <3>2. BuilderOK(doc[t]) /\ AtOK(job[t], pc[t], doc[t])
      BY DEF DocInv, DocsOK
    <3> HIDE DEF place
    <3>3. AtOK(job[t], place, doc[t]) /\ place \in Places
      BY <3>1, <3>2 DEF AtOK, Places
    <3> QED
      BY <3>1, <3>2, <3>3, BuiltOK
  <2>7. CASE Insert(t)
    BY <2>7, InsertStep
  <2>8. CASE Inside(t)
    BY <2>8, IdleOK DEF Inside, threadVars, luaVars
  <2> QED
    BY <1>2, <2>1, <2>2, <2>3, <2>4, <2>5, <2>6, <2>7, <2>8 DEF Step
<1> QED
  BY <1>1, <1>2 DEF Next, Exit

LEMMA DocInit == Init => DocInv
<1> SUFFICES ASSUME Init PROVE DocInv
  OBVIOUS
<1>1. JobsOK
  BY DocumentsAssumption DEF Init, JobsOK
<1>2. DocsOK
  <2>1. BuilderOK(NewBson) /\ NewBson.finished = FALSE
    BY NewBuilt
  <2>2. /\ doc = [t \in Threads |-> NewBson] /\ job \in Assignments
        /\ pc = [t \in Threads |-> IF job[t].kind = "none" THEN "done" ELSE "build"]
    BY DEF Init
  <2>3. pc \in [Threads -> Places]
    BY <2>2 DEF Places
  <2>4. ASSUME NEW t \in Threads PROVE AtOK(job[t], pc[t], doc[t])
    BY <2>1, <2>2 DEF AtOK
  <2> QED
    BY <2>1, <2>2, <2>3, <2>4 DEF DocsOK
<1>3. WalkOK
  <2>1. walk = [t \in Threads |->
          IF job[t].kind = "lua" THEN <<StartWalk(t, job[t].root, FALSE)>> ELSE <<>>]
    BY DEF Init
  <2>2. ASSUME NEW t \in Threads PROVE StartWalk(t, job[t].root, FALSE) \in Walks(t)
    BY <1>1, StartWalkOK DEF JobsOK, JobOK
  <2>3. ASSUME NEW t \in Threads PROVE walk[t] \in Seq(Walks(t))
    <3> DEFINE w == StartWalk(t, job[t].root, FALSE)
               first == <<w>>
               none == <<>>
    <3>1. w \in Walks(t)
      BY <2>2
    <3> HIDE DEF w
    <3>2. first \in Seq(Walks(t)) /\ none \in Seq(Walks(t))
      BY <3>1
    <3>3. walk[t] \in {first, none}
      BY <2>1 DEF w
    <3> HIDE DEF first, none
    <3> QED
      BY <3>2, <3>3
  <2> QED
    BY <2>1, <2>3 DEF WalkOK
<1>4. ParseOK
  <2> DEFINE call == StartParse("main", "Element")
  <2>1. parse = [t \in Threads |-> IF job[t].kind = "bcon" THEN <<call>> ELSE <<>>]
    BY DEF Init
  <2>2. ASSUME NEW t \in Threads PROVE FrameOK(call, job[t].lists)
    <3>1. "main" \in DOMAIN job[t].lists
      BY <1>1 DEF JobsOK, JobOK
    <3> QED
      BY <3>1 DEF StartParse, FrameOK
  <2> HIDE DEF call
  <2>3. ASSUME NEW t \in Threads PROVE FramesOK(<<call>>, job[t].lists)
    <3> DEFINE lists == job[t].lists  F == {call}  s == <<call>>
    <3>1. s \in Seq(F)
      OBVIOUS
    <3>2. \A f \in F : FrameOK(f, lists)
      BY <2>2
    <3> HIDE DEF lists, F, s
    <3>3. FramesOK(s, lists)
      BY <3>1, <3>2, FramesIn
    <3> QED
      BY <3>3 DEF s, lists
  <2>4. ASSUME NEW lists PROVE FramesOK(<<>>, lists)
    <3> DEFINE F == {}  s == <<>>
    <3>1. s \in Seq(F)
      OBVIOUS
    <3>2. \A f \in F : FrameOK(f, lists)
      OBVIOUS
    <3> HIDE DEF F, s
    <3>3. FramesOK(s, lists)
      BY <3>1, <3>2, FramesIn
    <3> QED
      BY <3>3 DEF s
  <2> QED
    BY <2>1, <2>3, <2>4 DEF ParseOK
<1> QED
  BY <1>1, <1>2, <1>3, <1>4 DEF DocInv

\* No byte is written behind the buffer of a document (bson_ensure_space): with
\* any tables, lists and C programs, any limits and any number of threads.
THEOREM WritesInBuffer == Spec => []InBuffer
<1>1. Init => DocInv
  BY DocInit
<1>2. DocInv /\ [Next]_vars => DocInv'
  BY DocStep
<1>3. DocInv => InBuffer
  BY DEF DocInv, DocsOK, BuilderOK, BufOK, InBuffer, InsideBuffer, Slipped
<1> QED
  BY <1>1, <1>2, <1>3, PTL DEF Spec

-----------------------------------------------------------------------------
(* What is sent.                                                           *)

\* LegalKey says of a key what the flags of bson_check_field_name say.
LEMMA LegalKeyIs ==
  ASSUME NEW s \in Seq(Nat)
  PROVE  LegalKey(s) <=> CheckFieldName(s).err = {}
<1>1. Len(s) \in Nat
  OBVIOUS
<1>2. Dollared(s) <=> /\ Len(s) > 0 /\ s[1] = Dollar
                      /\ ~(\/ Len(s) > 3 /\ SubSeq(s, 2, 4) = <<114, 101, 102>>
                           \/ s \in {<<Dollar, 105, 100>>, <<Dollar, 100, 98>>})
  <2>1. Len(s) >= 4 <=> Len(s) > 3
    BY <1>1
  <2>2. ASSUME Len(s) > 0, s[1] = Dollar, NEW x, NEW y
        PROVE  s = <<Dollar, x, y>> <=> Len(s) = 3 /\ SubSeq(s, 2, 3) = <<x, y>>
    <3> DEFINE u == SubSeq(s, 2, 3)
    <3>1. Len(s) = 3 => u \in Seq(Nat) /\ Len(u) = 2 /\ u[1] = s[2] /\ u[2] = s[3]
      <4>1. ASSUME Len(s) = 3
            PROVE  /\ u \in Seq(Nat) /\ Len(u) = (IF 2 <= 3 THEN 3 - 2 + 1 ELSE 0)
                   /\ \A i \in 1..(3 - 2 + 1) : u[i] = s[2 + i - 1]
        <5>1. 2 \in 1..Len(s) /\ 3 \in 1..Len(s)
          BY <4>1
        <5>2. s[2] \in Nat /\ s[3] \in Nat
          BY <5>1
        <5>3. \A i \in 2..3 : i = 2 \/ i = 3
          OBVIOUS
        <5>4. \A i \in 2..3 : s[i] \in Nat
          BY <5>2, <5>3
        <5> QED
          BY <4>1, <5>4, SubSeqProperties
      <4>2. 1 \in 1..(3 - 2 + 1) /\ 2 \in 1..(3 - 2 + 1) /\ 2 + 1 - 1 = 2 /\ 2 + 2 - 1 = 3
        OBVIOUS
      <4> HIDE DEF u
      <4> QED
        BY <4>1, <4>2
    <3>2. s = <<Dollar, x, y>> => Len(s) = 3 /\ s[2] = x /\ s[3] = y
      OBVIOUS
    <3> HIDE DEF u
    <3>3. ASSUME s = <<Dollar, x, y>> PROVE Len(s) = 3 /\ u = <<x, y>>
      <4>1. u \in Seq(Nat) /\ Len(u) = 2 /\ u[1] = x /\ u[2] = y
        BY <3>1, <3>2, <3>3
      <4>2. u = <<x, y>>
        BY <4>1
      <4> QED
        BY <3>2, <3>3, <4>2
    <3>4. ASSUME Len(s) = 3, u = <<x, y>> PROVE s = <<Dollar, x, y>>
      <4>1. u[1] = x /\ u[2] = y
        BY <3>4
      <4>2. s[2] = x /\ s[3] = y
        BY <3>1, <3>4, <4>1
      <4> QED
        BY <2>2, <3>4, <4>2
    <3> QED
      BY <3>3, <3>4 DEF u
  <2>3. ASSUME Len(s) > 0, s[1] = Dollar
        PROVE  IsDbRef(s) <=> \/ Len(s) > 3 /\ SubSeq(s, 2, 4) = <<114, 101, 102>>
                              \/ s \in {<<Dollar, 105, 100>>, <<Dollar, 100, 98>>}
    <3>1. s = <<Dollar, 105, 100>> <=> Len(s) = 3 /\ SubSeq(s, 2, 3) = <<105, 100>>
      BY <2>2, <2>3
    <3>2. s = <<Dollar, 100, 98>> <=> Len(s) = 3 /\ SubSeq(s, 2, 3) = <<100, 98>>
      BY <2>2, <2>3
    <3> QED
      BY <2>1, <3>1, <3>2, Zenon DEF IsDbRef
  <2> QED
    BY <2>3, Zenon DEF Dollared
<1>3. LegalKey(s) <=> DotlessText(s) /\ ~Dollared(s)
  BY <1>2, Zenon DEF LegalKey, DotlessText
<1> QED
  BY <1>3, CleanKey

LEMMA ValidNs ==
  ASSUME JobsOK, NEW t \in Threads
  PROVE  ValidateNs(job[t].ns) <=> LegalNs(job[t].ns)
<1>1. job[t].ns \in Seq(Byte)
  BY DEF JobsOK, JobOK
<1> QED
  BY <1>1, TextSeq, NsIs

\* The texts of a document are checked when they are appended.
LEMMA LegalTexts ==
  ASSUME NEW b, BuilderOK(b), b.bad = "no", b.slips \cap {"foreign", "forgot"} = {},
         NEW p \in DOMAIN b.data
  PROVE  /\ LegalKey(b.data[p].key) <=> CheckFieldName(b.data[p].key).err = {}
         /\ CheckFieldName(b.data[p].key).err \subseteq b.err
         /\ CheckFieldName(b.data[p].key).err \subseteq KeyFlags
         /\ b.data[p].type \in {"STRING", "SYMBOL"} => AcceptedText(b.data[p].val)
<1>1. b.data[p].key \in Seq(Nat)
  BY DEF BuilderOK, Typed, IsElement
<1>2. CheckFieldName(b.data[p].key).err \subseteq b.err /\ TextChecked(b.data[p])
  BY DEF BuilderOK, Honest
<1>3. CheckFieldName(b.data[p].key).err \subseteq KeyFlags
  BY <1>1, CheckFieldNameFlags
<1>4. b.data[p].type \in {"STRING", "SYMBOL"} => AcceptedText(b.data[p].val)
  BY <1>2, AcceptedIs DEF TextChecked
<1> QED
  BY <1>1, <1>2, <1>3, <1>4, LegalKeyIs

\* mongo_insert looks at no more than the name and the flags, and lets a document
\* pass if and only if its texts are legal: with any names, keys and strings.
LEMMA Judged ==
  ASSUME DocInv, NEW t \in Threads, doc[t].slips \cap {"forgot", "foreign"} = {}
  PROVE  /\ Sent(t) => LegalNs(job[t].ns) /\ LegalDoc(doc[t])
         /\ pc[t] = "refused" /\ job[t].kind # "c" => ~(LegalNs(job[t].ns) /\ LegalDoc(doc[t]))
<1> DEFINE b == doc[t]
<1>1. BuilderOK(b) /\ AtOK(job[t], pc[t], b) /\ JobsOK
  BY DEF DocInv, DocsOK
<1>2. ValidateNs(job[t].ns) <=> LegalNs(job[t].ns)
  BY <1>1, ValidNs
<1>3. b.slips \cap {"foreign", "forgot"} = {}
  OBVIOUS
<1> HIDE DEF b
<1>4. ASSUME Sent(t) PROVE LegalNs(job[t].ns) /\ LegalDoc(b)
  <2>1. ValidateNs(job[t].ns) /\ BsonValid(b) /\ b.bad = "no"
    BY <1>1, <1>4 DEF AtOK, Sent
  <2>2. ASSUME NEW p \in DOMAIN b.data
        PROVE  /\ LegalKey(b.data[p].key)
               /\ b.data[p].type \in {"STRING", "SYMBOL"} => AcceptedText(b.data[p].val)
    <3> DEFINE err == CheckFieldName(b.data[p].key).err
    <3>1. /\ LegalKey(b.data[p].key) <=> err = {}
          /\ err \subseteq b.err /\ err \subseteq KeyFlags
          /\ b.data[p].type \in {"STRING", "SYMBOL"} => AcceptedText(b.data[p].val)
      BY <1>1, <1>3, <2>1, LegalTexts
    <3>2. b.err \cap KeyFlags = {}
      BY <2>1 DEF BsonValid, KeyFlags
    <3> HIDE DEF err
    <3>3. err = {}
      BY <3>1, <3>2
    <3> QED
      BY <3>1, <3>3
  <2> QED
    BY <1>2, <2>1, <2>2 DEF LegalDoc, BsonValid
<1>5. ASSUME pc[t] = "refused", job[t].kind # "c", LegalNs(job[t].ns), LegalDoc(b)
      PROVE  FALSE
  <2>1. /\ ~(ValidateNs(job[t].ns) /\ BsonValid(b)) /\ b.bad = "no"
        /\ b.finished => "NOT_UTF8" \notin b.err
    BY <1>1, <1>5 DEF AtOK
  <2>2. b.finished /\ b.size <= MaxBson /\ "NOT_UTF8" \notin b.err
    BY <1>5, <2>1 DEF LegalDoc
  <2>3. PICK f \in b.err \cap {"FIELD_HAS_DOT", "FIELD_INIT_DOLLAR"} : TRUE
    BY <1>2, <1>5, <2>1, <2>2 DEF BsonValid
  <2>4. PICK p \in DOMAIN b.data : f \in CheckFieldName(b.data[p].key).err
    BY <1>1, <1>3, <2>1, <2>2, <2>3 DEF BuilderOK, Honest
  <2>5. LegalKey(b.data[p].key) <=> CheckFieldName(b.data[p].key).err = {}
    BY <1>1, <1>3, <2>1, LegalTexts
  <2> QED
    BY <1>5, <2>4, <2>5 DEF LegalDoc
<1> QED
  BY <1>4, <1>5 DEF b

THEOREM SentIsLegal == Spec => []SentIffLegal
<1>1. Init => DocInv
  BY DocInit
<1>2. DocInv /\ [Next]_vars => DocInv'
  BY DocStep
<1>3. DocInv => SentIffLegal
  BY Judged DEF SentIffLegal
<1> QED
  BY <1>1, <1>2, <1>3, PTL DEF Spec

\* A document that is sent leads an iterator from element to element to its end.
THEOREM SentIsReadable == Spec => []SentReadable
<1>1. Init => DocInv
  BY DocInit
<1>2. DocInv /\ [Next]_vars => DocInv'
  BY DocStep
<1>3. ASSUME DocInv PROVE SentReadable
  <2>1. ASSUME NEW t \in Threads, Sent(t), ~Damaged(doc[t]) PROVE Readable(doc[t])
    <3> DEFINE b == doc[t]
    <3>1. BuilderOK(b) /\ AtOK(job[t], pc[t], b)
      BY <1>3 DEF DocInv, DocsOK
    <3>2. BsonValid(b) /\ b.bad = "no" /\ ~Damaged(b)
      BY <2>1, <3>1 DEF AtOK, Sent
    <3> HIDE DEF b
    <3>3. b.slips \cap {"early", "forgot", "headless", "late", "torn"} = {}
      BY <3>1, <3>2 DEF Damaged, BuilderOK, TornFlag, BsonValid
    <3>4. Readable(b)
      BY <3>1, <3>2, <3>3 DEF BuilderOK, Layout, BsonValid
    <3> QED
      BY <3>4 DEF b
  <2> QED
    BY <2>1 DEF SentReadable
<1> QED
  BY <1>1, <1>2, <1>3, PTL DEF Spec

-----------------------------------------------------------------------------
(* Reading.                                                                *)

Offsets(b) == {p \in DOMAIN b.data : p < b.size}

\* A call of iterator_to_table whose iterator is at an element of b.
IteratorOK(r, b) ==
  /\ {"i", "array", "path"} \subseteq DOMAIN r /\ {"at", "first"} \subseteq DOMAIN r.i
  /\ r.i.at \in Offsets(b)

IteratorsOK(s, b) == \E S : s \in Seq(S) /\ \A r \in S : IteratorOK(r, b)

ReadOK ==
  /\ it = [t \in Threads |-> it[t]]
  /\ \A t \in Threads : pc[t] = "read" =>
       Readable(doc[t]) /\ it[t] # <<>> /\ IteratorsOK(it[t], doc[t])

LEMMA ReadableIfSent ==
  ASSUME NEW b, BuilderOK(b), BsonValid(b), b.bad = "no", ~Damaged(b)
  PROVE  Readable(b)
<1>1. b.slips \cap {"early", "forgot", "headless", "late", "torn"} = {}
  BY DEF Damaged, BuilderOK, TornFlag, BsonValid
<1> QED
  BY <1>1 DEF BuilderOK, Layout, BsonValid

LEMMA StartReadOK ==
  ASSUME NEW b, NEW offset, offset + 4 \in Offsets(b), NEW array, NEW path
  PROVE  IteratorOK(StartRead(offset, array, path), b)
  BY DEF StartRead, IteratorFromBuffer, IteratorOK

LEMMA IteratorsAppend ==
  ASSUME NEW s, NEW b, IteratorsOK(s, b), NEW r, IteratorOK(r, b)
  PROVE  IteratorsOK(Append(s, r), b) /\ Append(s, r) # <<>>
<1>1. PICK S : s \in Seq(S) /\ \A q \in S : IteratorOK(q, b)
  BY DEF IteratorsOK
<1>2. Append(s, r) \in Seq(S \cup {r}) /\ Append(s, r) # <<>>
  BY <1>1
<1>3. \A q \in S \cup {r} : IteratorOK(q, b)
  BY <1>1
<1> QED
  BY <1>2, <1>3 DEF IteratorsOK

LEMMA IteratorsLast ==
  ASSUME NEW s, NEW b, IteratorsOK(s, b), s # <<>>
  PROVE  IteratorOK(Last(s), b) /\ Len(s) \in Nat \ {0}
<1>1. PICK S : s \in Seq(S) /\ \A q \in S : IteratorOK(q, b)
  BY DEF IteratorsOK
<1>2. Len(s) \in Nat \ {0}
  BY <1>1
<1>3. s[Len(s)] \in S
  BY <1>1, <1>2
<1> QED
  BY <1>1, <1>2, <1>3 DEF Last

LEMMA IteratorsFront ==
  ASSUME NEW s, NEW b, IteratorsOK(s, b), Len(s) > 1
  PROVE  IteratorsOK(Front(s), b) /\ Front(s) # <<>>
<1>1. PICK S : s \in Seq(S) /\ \A q \in S : IteratorOK(q, b)
  BY DEF IteratorsOK
<1> DEFINE n == Len(s) - 1
<1>2. n \in Nat /\ n <= Len(s) /\ n > 0
  BY <1>1
<1>3. Front(s) = SubSeq(s, 1, n)
  BY DEF Front
<1> HIDE DEF n
<1>4. SubSeq(s, 1, n) \in Seq(S) /\ Len(SubSeq(s, 1, n)) = n
  BY <1>1, <1>2
<1>5. SubSeq(s, 1, n) # <<>>
  BY <1>2, <1>4
<1> QED
  BY <1>1, <1>3, <1>4, <1>5 DEF IteratorsOK

\* bson_iterator_next goes from an element to an element.
LEMMA PassedOK ==
  ASSUME NEW t \in Threads, Readable(doc[t]), NEW s, IteratorsOK(s, doc[t]), s # <<>>
  PROVE  IteratorsOK(Passed(t, s), doc[t]) /\ Passed(t, s) # <<>>
<1> DEFINE b == doc[t]  n == Len(s)  r == s[n]
           i == IteratorNext(b, r.i)
           v == [r EXCEPT !.i = i]
<1>1. Passed(t, s) = [s EXCEPT ![n] = v]
  BY DEF Passed
<1>2. PICK S : s \in Seq(S) /\ \A q \in S : IteratorOK(q, b)
  BY DEF IteratorsOK
<1>3. n \in Nat \ {0} /\ IteratorOK(r, b)
  BY IteratorsLast DEF Last
<1> HIDE DEF n, r
<1>4. b.data[r.i.at].type # "EOO" => NextOffset(b, r.i.at) \in Offsets(b)
  BY <1>3 DEF Readable, Offsets, IteratorOK
<1>5. {"at", "first"} \subseteq DOMAIN i /\ i.at \in Offsets(b)
  BY <1>3, <1>4 DEF IteratorNext, IteratorOK
<1> HIDE DEF i, b
<1>6. IteratorOK(v, b)
  BY <1>3, <1>5 DEF IteratorOK
<1> HIDE DEF v
<1>7. [s EXCEPT ![n] = v] \in Seq(S \cup {v})
  <2>1. s \in [1..Len(s) -> S \cup {v}] /\ Len(s) \in Nat
    BY <1>2
  <2>2. [s EXCEPT ![n] = v] \in [1..Len(s) -> S \cup {v}]
    BY <2>1
  <2> QED
    BY <2>1, <2>2
<1>8. [s EXCEPT ![n] = v] # <<>>
  <2>1. n \in DOMAIN [s EXCEPT ![n] = v]
    BY <1>2, <1>3 DEF n
  <2> QED
    BY <2>1
<1>9. \A q \in S \cup {v} : IteratorOK(q, b)
  BY <1>2, <1>6 DEF b
<1> QED
  BY <1>1, <1>7, <1>8, <1>9 DEF IteratorsOK, b

\* A step of t that does not read.
Elsewhere(t) ==
  /\ it' = it /\ pc'[t] # "read"
  /\ \A u \in Threads \ {t} : pc'[u] = pc[u] /\ doc'[u] = doc[u]

LEMMA ElsewhereOK ==
  ASSUME ReadOK, NEW t \in Threads, Elsewhere(t)
  PROVE  ReadOK'
  BY DEF ReadOK, Elsewhere

LEMMA UnreadOK ==
  ASSUME ReadOK, UNCHANGED <<pc, doc, it>> PROVE ReadOK'
  BY DEF ReadOK

\* A step of t that reads.
LEMMA ReadsOn ==
  ASSUME ReadOK, DocsOK, NEW t \in Threads, UNCHANGED doc,
         NEW place, pc' = [pc EXCEPT ![t] = place],
         NEW next, it' = [it EXCEPT ![t] = next],
         place = "read" => Readable(doc[t]) /\ next # <<>> /\ IteratorsOK(next, doc[t])
  PROVE  ReadOK'
<1>1. /\ it' = [u \in Threads |-> it'[u]] /\ it'[t] = next
      /\ \A u \in Threads : u # t => it'[u] = it[u]
  BY DEF ReadOK
<1>2. pc'[t] = place /\ \A u \in Threads : u # t => pc'[u] = pc[u]
  BY DEF DocsOK
<1>3. ASSUME NEW u \in Threads, pc'[u] = "read"
      PROVE  Readable(doc'[u]) /\ it'[u] # <<>> /\ IteratorsOK(it'[u], doc'[u])
  <2>1. CASE u = t
    BY <1>1, <1>2, <1>3, <2>1
  <2>2. CASE u # t
    BY <1>1, <1>2, <1>3, <2>2 DEF ReadOK
  <2> QED
    BY <2>1, <2>2
<1> QED
  BY <1>1, <1>3 DEF ReadOK

LEMMA BuildElsewhere ==
  ASSUME DocsOK, NEW t \in Threads, NEW b, NEW place, place # "read", Build(t, b, place),
         it' = it
  PROVE  Elsewhere(t)
  BY DEF DocsOK, Build, Elsewhere

LEMMA ReadScalarStep ==
  ASSUME ReadOK, DocsOK, NEW t \in Threads, ReadScalar(t)
  PROVE  ReadOK'
<1> DEFINE next == Passed(t, it[t])
<1>1. /\ pc[t] = "read" /\ UNCHANGED <<pc, doc>> /\ it' = [it EXCEPT ![t] = next]
  BY DEF ReadScalar, ReadsAt, At, threadVars
<1>2. Readable(doc[t]) /\ it[t] # <<>> /\ IteratorsOK(it[t], doc[t])
  BY <1>1 DEF ReadOK
<1>3. next # <<>> /\ IteratorsOK(next, doc[t])
  BY <1>2, PassedOK
<1>4. pc' = [pc EXCEPT ![t] = "read"]
  BY <1>1 DEF DocsOK
<1> HIDE DEF next
<1> QED
  BY <1>1, <1>2, <1>3, <1>4, ReadsOn

LEMMA ReadTableStep ==
  ASSUME ReadOK, DocsOK, NEW t \in Threads, ReadTable(t)
  PROVE  ReadOK'
<1> DEFINE b == doc[t]
           at == Last(it[t]).i.at
           array == b.data[at].type = "ARRAY"
           path == ReadPath(t)
           r == StartRead(Body(b, at), array, path)
           next == Append(it[t], r)
<1>1. /\ pc[t] = "read" /\ UNCHANGED <<pc, doc>> /\ b.data[at].type \in {"OBJECT", "ARRAY"}
  BY DEF ReadTable, ReadsAt, At, threadVars, TableTypes
<1>2. Readable(b) /\ it[t] # <<>> /\ IteratorsOK(it[t], b)
  BY <1>1 DEF ReadOK
<1>3. it' = [it EXCEPT ![t] = next]
  BY Zenon DEF ReadTable
<1>4. at \in Offsets(b)
  BY <1>2, IteratorsLast DEF IteratorOK
<1>5. pc' = [pc EXCEPT ![t] = "read"]
  BY <1>1 DEF DocsOK
<1> HIDE DEF at, path, array
<1>6. Body(b, at) + 4 \in Offsets(b)
  BY <1>1, <1>2, <1>4 DEF Readable, Offsets
<1>7. IteratorOK(r, b)
  BY <1>6, StartReadOK
<1> HIDE DEF r
<1>8. next # <<>> /\ IteratorsOK(next, b)
  BY <1>2, <1>7, IteratorsAppend
<1> HIDE DEF next
<1> QED
  BY <1>1, <1>2, <1>3, <1>5, <1>8, ReadsOn

LEMMA ReadLastStep ==
  ASSUME ReadOK, DocsOK, NEW t \in Threads, ReadEnd(t)
  PROVE  ReadOK'
<1> DEFINE more == Len(it[t]) > 1
           front == Front(it[t])
           next == IF more THEN Passed(t, front) ELSE <<>>
           place == IF more THEN "read" ELSE "done"
<1>1. /\ pc[t] = "read" /\ UNCHANGED doc
      /\ it' = [it EXCEPT ![t] = next] /\ pc' = [pc EXCEPT ![t] = place]
  BY Zenon DEF ReadEnd, ReadsAt, At
<1>2. Readable(doc[t]) /\ it[t] # <<>> /\ IteratorsOK(it[t], doc[t])
  BY <1>1 DEF ReadOK
<1>3. more => IteratorsOK(front, doc[t]) /\ front # <<>>
  BY <1>2, IteratorsFront
<1> HIDE DEF front, more
<1>4. place = "read" => Readable(doc[t]) /\ next # <<>> /\ IteratorsOK(next, doc[t])
  BY <1>2, <1>3, PassedOK
<1> HIDE DEF next, place
<1>5. UNCHANGED doc
  BY <1>1
<1>6. pc' = [pc EXCEPT ![t] = place]
  BY <1>1
<1>7. it' = [it EXCEPT ![t] = next]
  BY <1>1
<1> QED
  BY <1>4, <1>5, <1>6, <1>7, ReadsOn

LEMMA InsertReads ==
  ASSUME ReadOK, DocsOK, NEW t \in Threads, Insert(t)
  PROVE  ReadOK'
<1> DEFINE accepted == ValidateNs(job[t].ns) /\ BsonValid(doc[t])
           read == accepted /\ ~Damaged(doc[t])
           place == IF ~accepted THEN "refused" ELSE IF read THEN "read" ELSE "done"
           first == StartRead(0, FALSE, <<>>)
           begun == Append(<<>>, first)
           next == IF read THEN <<first>> ELSE it[t]
<1>1. /\ pc' = [pc EXCEPT ![t] = place] /\ UNCHANGED doc /\ it' = [it EXCEPT ![t] = next]
      /\ doc[t].bad = "no"
  BY DEF Insert, At, Sane
<1>2. ASSUME place = "read"
      PROVE  Readable(doc[t]) /\ next # <<>> /\ IteratorsOK(next, doc[t])
  <2>1. read /\ next = <<first>>
    BY <1>2
  <2>2. Readable(doc[t])
    BY <1>1, <2>1, DocTyped, ReadableIfSent
  <2>3. 0 + 4 \in Offsets(doc[t])
    BY <2>2 DEF Readable, Offsets
  <2>4. IteratorOK(first, doc[t])
    BY <2>3, StartReadOK
  <2> HIDE DEF first
  <2>5. <<first>> \in Seq({first}) /\ <<first>> # <<>>
    OBVIOUS
  <2>6. \A r \in {first} : IteratorOK(r, doc[t])
    BY <2>4
  <2>7. IteratorsOK(<<first>>, doc[t])
    <3> DEFINE one == <<first>>  S == {first}
    <3>1. one \in Seq(S) /\ \A r \in S : IteratorOK(r, doc[t])
      BY <2>5, <2>6
    <3> HIDE DEF one, S
    <3>2. IteratorsOK(one, doc[t])
      BY <3>1 DEF IteratorsOK
    <3> QED
      BY <3>2 DEF one
  <2> QED
    BY <2>1, <2>2, <2>5, <2>7
<1> HIDE DEF place, next
<1> QED
  BY <1>1, <1>2, ReadsOn

LEMMA LuaStepReads ==
  ASSUME ReadOK, DocsOK, NEW t \in Threads, LuaStep(t)
  PROVE  ReadOK'
<1>1. CASE BadPair(t)
  BY <1>1, BuildElsewhere, ElsewhereOK DEF BadPair, luaVars
<1>2. CASE ScalarPair(t)
  <2>1. PICK p \in Last(walk[t]).left, behind \in Behind :
          LET r == ScalarAppended(t, PairKey(t, p), p[2], behind)
          IN  Build(t, r.b, IF r.ok THEN "build" ELSE "error") /\ it' = it
    BY <1>2 DEF ScalarPair
  <2> DEFINE r == ScalarAppended(t, PairKey(t, p), p[2], behind)
             place == IF r.ok THEN "build" ELSE "error"
  <2>2. Build(t, r.b, place) /\ it' = it /\ place # "read"
    BY <2>1
  <2> HIDE DEF r, place
  <2> QED
    BY <2>2, BuildElsewhere, ElsewhereOK
<1>3. CASE TablePair(t)
  <2>1. PICK p \in Last(walk[t]).left :
          LET sub == p[2][2]
              name == CString(PairKey(t, p))
              r == IF IsArray(t, sub) THEN StartArray(doc[t], name) ELSE StartObject(doc[t], name)
              fine == r.ok /\ sub \notin visited[t]
          IN  Build(t, r.b, IF fine THEN "build" ELSE "error") /\ it' = it
    BY <1>3 DEF TablePair
  <2> DEFINE sub == p[2][2]
             name == CString(PairKey(t, p))
             r == IF IsArray(t, sub) THEN StartArray(doc[t], name) ELSE StartObject(doc[t], name)
             place == IF r.ok /\ sub \notin visited[t] THEN "build" ELSE "error"
  <2>2. Build(t, r.b, place) /\ it' = it
    BY <2>1, Zenon
  <2>3. place # "read"
    OBVIOUS
  <2> HIDE DEF r, place
  <2> QED
    BY <2>2, <2>3, BuildElsewhere, ElsewhereOK
<1>4. CASE EndOfTable(t)
  <2> DEFINE r == FinishObject(doc[t])
             place == IF r.ok THEN "build" ELSE "error"
  <2>1. Build(t, r.b, place) /\ it' = it /\ place # "read"
    BY <1>4 DEF EndOfTable
  <2> HIDE DEF r, place
  <2> QED
    BY <2>1, BuildElsewhere, ElsewhereOK
<1>5. CASE EndOfRoot(t)
  <2>1. CASE Build(t, Finish(doc[t]).b, "insert")
    BY <1>5, <2>1, BuildElsewhere, ElsewhereOK DEF EndOfRoot
  <2>2. CASE UNCHANGED threadVars
    BY <1>5, <2>2, UnreadOK DEF EndOfRoot, threadVars
  <2> QED
    BY <1>5, <2>1, <2>2 DEF EndOfRoot
<1>6. CASE NewId(t)
  BY <1>6, BuildElsewhere, ElsewhereOK DEF NewId, luaVars
<1>7. CASE ReadScalar(t) \/ ReadTable(t) \/ ReadEnd(t)
  BY <1>7, ReadScalarStep, ReadTableStep, ReadLastStep
<1>8. CASE ReadError(t)
  <2>1. pc' = [pc EXCEPT ![t] = "error"] /\ UNCHANGED <<doc, it>>
    BY <1>8 DEF ReadError, luaVars
  <2>2. Elsewhere(t)
    BY <2>1 DEF DocsOK, Elsewhere
  <2> QED
    BY <2>2, ElsewhereOK
<1> QED
  BY <1>1, <1>2, <1>3, <1>4, <1>5, <1>6, <1>7, <1>8 DEF LuaStep

\* The steps of the BCON parser build and do not read.
LEMMA BconBuilds ==
  ASSUME NEW t \in Threads, BconStep(t)
  PROVE  \/ \E b : \E place \in {"build", "insert", "error"} : Build(t, b, place)
         \/ UNCHANGED threadVars
<1>1. CASE BconNewId(t)
  BY <1>1 DEF BconNewId
<1>2. CASE BconKey(t) \/ BconSpec(t)
  BY <1>2 DEF BconKey, BconSpec, Continue
<1>3. CASE BconOpenBrace(t) \/ BconOpenBracket(t)
  BY <1>3 DEF BconOpenBrace, BconOpenBracket, Continue
<1>4. CASE BconCloseBrace(t) \/ BconCloseBracket(t)
  BY <1>4 DEF BconCloseBrace, BconCloseBracket, Continue
<1>5. CASE BconScalar(t) \/ BconSkip(t)
  BY <1>5 DEF BconScalar, BconSkip, Continue
<1>6. CASE BconTakeId(t)
  BY <1>6 DEF BconTakeId
<1>7. CASE BconEmbed(t)
  BY <1>7 DEF BconEmbed
<1>8. CASE BconEnd(t)
  BY <1>8 DEF BconEnd
<1> QED
  BY <1>1, <1>2, <1>3, <1>4, <1>5, <1>6, <1>7, <1>8 DEF BconStep

LEMMA CBuilds ==
  ASSUME NEW t \in Threads, CProgram(t)
  PROVE  \E b : Build(t, b, "build") /\ it' = it
<1>1. ASSUME NEW b, CallC(t, b) PROVE Build(t, b, "build") /\ it' = it
  BY <1>1 DEF CallC, luaVars
<1> QED
  BY <1>1, Zenon DEF CProgram

LEMMA ReadStep == DocInv /\ ReadOK /\ [Next]_vars => ReadOK'
<1> SUFFICES ASSUME DocInv, ReadOK, [Next]_vars PROVE ReadOK'
  OBVIOUS
<1>1. DocsOK
  BY DEF DocInv
<1>2. CASE UNCHANGED vars
  BY <1>2, UnreadOK DEF vars, threadVars, luaVars
<1>3. ASSUME NEW t \in Threads, Step(t) PROVE ReadOK'
  <2>1. CASE LuaStep(t)
    BY <1>1, <2>1, LuaStepReads
  <2>2. CASE BconStep(t) /\ UNCHANGED luaVars
    <3>1. CASE UNCHANGED threadVars
      BY <2>2, <3>1, UnreadOK DEF threadVars, luaVars
    <3>2. CASE \E b : \E place \in {"build", "insert", "error"} : Build(t, b, place)
      <4>1. PICK b : \E place \in {"build", "insert", "error"} : Build(t, b, place)
        BY <3>2
      <4>2. PICK place \in {"build", "insert", "error"} : Build(t, b, place)
        BY <4>1
      <4>3. it' = it
        BY <2>2 DEF luaVars
      <4> QED
        BY <1>1, <4>2, <4>3, BuildElsewhere, ElsewhereOK
    <3> QED
      BY <2>2, <3>1, <3>2, BconBuilds
  <2>3. CASE CProgram(t)
    BY <1>1, <2>3, CBuilds, BuildElsewhere, ElsewhereOK
  <2>4. CASE CInsert(t)
    BY <1>1, <2>4, BuildElsewhere, ElsewhereOK DEF CInsert, luaVars
  <2>5. CASE OidCall(t) \/ Inside(t)
    BY <2>5, UnreadOK DEF OidCall, Inside, threadVars, luaVars
  <2>6. CASE OidReturn(t)
    <3>1. PICK place \in {"build", "done"} : Build(t, doc[t], place) /\ it' = it
      BY <2>6 DEF OidReturn, luaVars
    <3> QED
      BY <1>1, <3>1, BuildElsewhere, ElsewhereOK
  <2>7. CASE Insert(t)
    BY <1>1, <2>7, InsertReads
  <2> QED
    BY <1>3, <2>1, <2>2, <2>3, <2>4, <2>5, <2>6, <2>7 DEF Step
<1> QED
  BY <1>2, <1>3 DEF Next, Exit

LEMMA ReadInit == Init => ReadOK
<1> SUFFICES ASSUME Init PROVE ReadOK
  OBVIOUS
<1>1. /\ it = [t \in Threads |-> <<>>]
      /\ pc = [t \in Threads |-> IF job[t].kind = "none" THEN "done" ELSE "build"]
  BY DEF Init
<1> QED
  BY <1>1 DEF ReadOK

\* Reading a document that was sent never leaves its elements (bson_iterator_next):
\* not between them, not behind the last one, however deep it is.
THEOREM ReadsInside == Spec => []ReadInside
<1>1. Init => DocInv /\ ReadOK
  BY DocInit, ReadInit
<1>2. DocInv /\ ReadOK /\ [Next]_vars => DocInv' /\ ReadOK'
  BY DocStep, ReadStep
<1>3. ASSUME ReadOK PROVE ReadInside
  <2>1. ASSUME NEW t \in Threads, pc[t] = "read", NEW k \in 1..Len(it[t])
        PROVE  it[t][k].i.at \in DOMAIN doc[t].data
    <3>1. PICK S : it[t] \in Seq(S) /\ \A r \in S : IteratorOK(r, doc[t])
      BY <1>3, <2>1 DEF ReadOK, IteratorsOK
    <3>2. it[t][k] \in S
      BY <2>1, <3>1
    <3> QED
      BY <3>1, <3>2 DEF IteratorOK, Offsets
  <2> QED
    BY <2>1 DEF ReadInside
<1> QED
  BY <1>1, <1>2, <1>3, PTL DEF Spec

-----------------------------------------------------------------------------
(* Object ids differ, for any number of threads, any programs and any      *)
(* random numbers.                                                         *)

OidNext == \E t \in Threads : GenStart(t) \/ GenInside(t) \/ GenOut(t)

\* Thread t has a counter value of its own: it has been counted, and the id is not
\* made yet.
Holds(t) == gen[t].at \in {"fuzz", "seed", "out"}

\* One call at most is between the read and the write of the counter, and it read
\* the last value.
OneReads ==
  /\ \A t \in Threads : gen[t].at = "inc" => gen[t].i = incr /\ ~IncFunc
  /\ \A t, u \in Threads : gen[t].at = "inc" /\ gen[u].at = "inc" => t = u

\* The values given away are less than the counter.
BelowCounter ==
  /\ \A t \in Threads : Holds(t) => gen[t].i < incr
  /\ \A n \in 1..Len(ids) : ids[n].inc < incr

\* They differ.
GivenOnce ==
  /\ \A t, u \in Threads : Holds(t) /\ Holds(u) /\ t # u => gen[t].i # gen[u].i
  /\ \A t \in Threads : \A n \in 1..Len(ids) : Holds(t) => gen[t].i # ids[n].inc
  /\ \A m, n \in 1..Len(ids) : m # n => ids[m].inc # ids[n].inc

CounterInv == ~raced => OneReads /\ BelowCounter /\ GivenOnce

OidInv == OidTypeOK /\ CounterInv

-----------------------------------------------------------------------------
(* What a program does besides leaves the variables of bson_oid_gen alone. *)

LEMMA LuaStepOid ==
  ASSUME NEW t \in Threads, LuaStep(t) PROVE OidNext \/ UNCHANGED oidVars
<1>1. CASE BadPair(t) \/ ScalarPair(t) \/ TablePair(t) \/ EndOfTable(t)
  BY <1>1 DEF BadPair, ScalarPair, TablePair, EndOfTable
<1>2. CASE EndOfRoot(t)
  BY <1>2 DEF EndOfRoot, OidNext
<1>3. CASE NewId(t)
  BY <1>3 DEF NewId, OidNext
<1>4. CASE ReadScalar(t) \/ ReadTable(t) \/ ReadEnd(t) \/ ReadError(t)
  BY <1>4 DEF ReadScalar, ReadTable, ReadEnd, ReadError
<1> QED
  BY <1>1, <1>2, <1>3, <1>4 DEF LuaStep

LEMMA BconStepOid ==
  ASSUME NEW t \in Threads, BconStep(t) PROVE OidNext \/ UNCHANGED oidVars
<1>1. CASE BconKey(t) \/ BconSpec(t)
  BY <1>1 DEF BconKey, BconSpec, Continue
<1>2. CASE BconOpenBrace(t) \/ BconOpenBracket(t)
  BY <1>2 DEF BconOpenBrace, BconOpenBracket, Continue
<1>3. CASE BconCloseBrace(t) \/ BconCloseBracket(t)
  BY <1>3 DEF BconCloseBrace, BconCloseBracket, Continue
<1>4. CASE BconScalar(t) \/ BconSkip(t)
  BY <1>4 DEF BconScalar, BconSkip, Continue
<1>5. CASE BconNewId(t) \/ BconTakeId(t)
  BY <1>5 DEF BconNewId, BconTakeId, OidNext
<1>6. CASE BconEmbed(t) \/ BconEnd(t)
  BY <1>6 DEF BconEmbed, BconEnd
<1> QED
  BY <1>1, <1>2, <1>3, <1>4, <1>5, <1>6 DEF BconStep

LEMMA StepOid ==
  ASSUME [Next]_vars PROVE OidNext \/ UNCHANGED oidVars
<1>1. CASE UNCHANGED vars
  BY <1>1 DEF vars
<1>2. CASE Exit
  BY <1>2 DEF Exit, vars
<1>3. ASSUME NEW t \in Threads, Step(t) PROVE OidNext \/ UNCHANGED oidVars
  <2>1. CASE LuaStep(t)
    BY <2>1, LuaStepOid
  <2>2. CASE BconStep(t)
    BY <2>2, BconStepOid
  <2>3. CASE CProgram(t)
    BY <2>3 DEF CProgram, CallC
  <2>4. CASE CInsert(t) \/ Insert(t)
    BY <2>4 DEF CInsert, Insert
  <2>5. CASE OidCall(t) \/ OidReturn(t) \/ Inside(t)
    BY <2>5 DEF OidCall, OidReturn, Inside, OidNext
  <2> QED
    BY <1>3, <2>1, <2>2, <2>3, <2>4, <2>5 DEF Step
<1> QED
  BY <1>1, <1>2, <1>3 DEF Next

-----------------------------------------------------------------------------
(* The invariant.                                                          *)

LEMMA OidInitInv == Init => OidInv
<1> SUFFICES ASSUME OidInit PROVE OidInv
  BY DEF Init
<1>1. /\ now = 1 /\ incr = 0 /\ fuzz = 0 /\ ids = <<>> /\ raced = FALSE
      /\ gen = [t \in Threads |-> [at |-> "idle", i |-> 0, t |-> 0]]
  BY DEF OidInit, Idle
<1>2. OidTypeOK
  <2>1. gen \in [Threads -> [at : {"idle", "inc", "fuzz", "seed", "out"}, i : Nat, t : Nat]]
    BY <1>1
  <2>2. ids \in Seq([time : Nat, fuzz : Nat, inc : Nat])
    BY <1>1
  <2>3. now \in Nat /\ incr \in Nat /\ fuzz \in Nat /\ raced \in BOOLEAN
    BY <1>1
  <2> QED
    BY <2>1, <2>2, <2>3 DEF OidTypeOK
<1>3. OneReads /\ BelowCounter /\ GivenOnce
  BY <1>1 DEF OneReads, BelowCounter, GivenOnce, Holds
<1> QED
  BY <1>2, <1>3 DEF OidInv, CounterInv

LEMMA IdsTyped ==
  ASSUME OidTypeOK PROVE \A n \in 1..Len(ids) : ids[n].inc \in Nat
<1> DEFINE Id == [time : Nat, fuzz : Nat, inc : Nat]
<1>1. ids \in Seq(Id)
  BY DEF OidTypeOK
<1>2. \A n \in 1..Len(ids) : ids[n] \in Id
  <2> HIDE DEF Id
  <2> QED BY <1>1
<1> QED
  BY <1>2

LEMMA OidTypeStep ==
  ASSUME OidTypeOK, OidNext \/ UNCHANGED oidVars PROVE OidTypeOK'
<1> USE OidAssumption DEF OidTypeOK
<1>1. CASE UNCHANGED oidVars
  BY <1>1 DEF oidVars
<1>2. ASSUME NEW t \in Threads, GenStart(t) PROVE OidTypeOK'
  BY <1>2 DEF GenStart
<1>3. ASSUME NEW t \in Threads, GenInside(t) PROVE OidTypeOK'
  <2>1. PICK a \in {"fuzz", "seed", "out"} : gen' = [gen EXCEPT ![t].at = a]
    BY <1>3 DEF GenInside, GenIncrement, GenCheckFuzz, GenSeed
  <2>2. UNCHANGED <<now, ids, raced>>
    BY <1>3 DEF GenInside, GenIncrement, GenCheckFuzz, GenSeed
  <2>3. incr' \in Nat /\ fuzz' \in Nat
    BY <1>3 DEF GenInside, GenIncrement, GenCheckFuzz, GenSeed
  <2> QED
    BY <2>1, <2>2, <2>3
<1>4. ASSUME NEW t \in Threads, GenOut(t) PROVE OidTypeOK'
  BY <1>4 DEF GenOut, Made, Idle
<1> QED
  BY <1>1, <1>2, <1>3, <1>4 DEF OidNext

LEMMA CounterStep ==
  ASSUME OidInv, OidNext \/ UNCHANGED oidVars PROVE CounterInv'
<1> SUFFICES ASSUME ~raced' PROVE (OneReads /\ BelowCounter /\ GivenOnce)'
  BY DEF CounterInv
<1>1. CASE UNCHANGED oidVars
  BY <1>1 DEF oidVars, OidInv, CounterInv, OneReads, BelowCounter, GivenOnce, Holds
<1> SUFFICES ASSUME OidNext PROVE (OneReads /\ BelowCounter /\ GivenOnce)'
  BY <1>1
<1>2. OidTypeOK /\ IncFunc \in BOOLEAN
  BY OidAssumption DEF OidInv
<1>3. ~raced /\ OneReads /\ BelowCounter /\ GivenOnce
  BY <1>2 DEF OidNext, GenStart, GenInside, GenIncrement, GenCheckFuzz, GenSeed, GenOut,
     OidInv, CounterInv, OidTypeOK
<1>4. ASSUME NEW t \in Threads, GenStart(t)
      PROVE  (OneReads /\ BelowCounter /\ GivenOnce)'
  <2>1. \A u \in Threads : u # t => gen'[u] = gen[u]
    BY <1>4, <1>2 DEF GenStart, OidTypeOK
  <2>2. gen'[t].i = incr /\ gen'[t].at = IF IncFunc THEN "fuzz" ELSE "inc"
    BY <1>4, <1>2 DEF GenStart, OidTypeOK
  <2>3. ids' = ids /\ incr' = (IF IncFunc THEN incr + 1 ELSE incr)
        /\ \A u \in Threads : gen[u].at # "inc"
    BY <1>4, <1>2 DEF GenStart, OidTypeOK
  <2>4. incr \in Nat /\ \A u \in Threads : gen[u].i \in Nat
    BY <1>2 DEF OidTypeOK
  <2>5. \A n \in 1..Len(ids) : ids[n].inc \in Nat
    BY <1>2, IdsTyped
  <2>6. OneReads'
    BY <1>2, <2>1, <2>2, <2>3, <1>3 DEF OneReads
  <2>7. BelowCounter'
    BY <1>2, <2>1, <2>2, <2>3, <2>4, <2>5, <1>3 DEF BelowCounter, Holds
  <2>8. GivenOnce'
    BY <1>2, <2>1, <2>2, <2>3, <2>4, <2>5, <1>3 DEF GivenOnce, BelowCounter, Holds
  <2> QED
    BY <2>6, <2>7, <2>8
<1>5. ASSUME NEW t \in Threads, GenIncrement(t)
      PROVE  (OneReads /\ BelowCounter /\ GivenOnce)'
  <2>1. \A u \in Threads : u # t => gen'[u] = gen[u]
    BY <1>5, <1>2 DEF GenIncrement, OidTypeOK
  <2>2. gen'[t].i = incr /\ gen'[t].at = "fuzz" /\ gen[t].at = "inc" /\ ~IncFunc
    BY <1>5, <1>2, <1>3 DEF GenIncrement, OidTypeOK, OneReads
  <2>3. ids' = ids /\ incr' = incr + 1
    BY <1>5, <1>2, <1>3 DEF GenIncrement, OidTypeOK, OneReads
  <2>4. incr \in Nat /\ \A u \in Threads : gen[u].i \in Nat
    BY <1>2 DEF OidTypeOK
  <2>5. \A n \in 1..Len(ids) : ids[n].inc \in Nat
    BY <1>2, IdsTyped
  <2>6. OneReads'
    BY <2>1, <2>2, <2>3, <1>3 DEF OneReads
  <2>7. BelowCounter'
    BY <2>1, <2>2, <2>3, <2>4, <2>5, <1>3 DEF BelowCounter, Holds
  <2>8. GivenOnce'
    BY <2>1, <2>2, <2>3, <2>4, <2>5, <1>3 DEF GivenOnce, BelowCounter, Holds
  <2> QED
    BY <2>6, <2>7, <2>8
<1>6. ASSUME NEW t \in Threads, GenCheckFuzz(t) \/ GenSeed(t)
      PROVE  (OneReads /\ BelowCounter /\ GivenOnce)'
  <2>1. PICK a \in {"seed", "out"} : gen' = [gen EXCEPT ![t].at = a]
    BY <1>6 DEF GenCheckFuzz, GenSeed
  <2>2. UNCHANGED <<incr, ids>> /\ gen[t].at \in {"fuzz", "seed"}
    BY <1>6 DEF GenCheckFuzz, GenSeed
  <2>3. \A u \in Threads : /\ gen'[u].i = gen[u].i
                           /\ u # t => gen'[u].at = gen[u].at
    BY <2>1, <1>2 DEF OidTypeOK
  <2>4. gen'[t].at \in {"seed", "out"}
    BY <2>1, <1>2 DEF OidTypeOK
  <2>5. \A u \in Threads : gen'[u].at = "inc" <=> gen[u].at = "inc"
    BY <2>2, <2>3, <2>4
  <2>6. \A u \in Threads : Holds(u)' <=> Holds(u)
    BY <2>2, <2>3, <2>4 DEF Holds
  <2> QED
    BY <1>3, <2>2, <2>3, <2>5, <2>6 DEF OneReads, BelowCounter, GivenOnce
<1>7. ASSUME NEW t \in Threads, GenOut(t)
      PROVE  (OneReads /\ BelowCounter /\ GivenOnce)'
  <2> DEFINE id == Made(t)
  <2>1. ids' = Append(ids, id) /\ incr' = incr
    BY <1>7 DEF GenOut
  <2>2. id \in [time : Nat, fuzz : Nat, inc : Nat] /\ id.inc = gen[t].i
    BY <1>7, <1>2 DEF OidTypeOK, Made
  <2>3. Holds(t)
    BY <1>7 DEF GenOut, Holds
  <2>4. \A u \in Threads : Holds(u)' <=> Holds(u) /\ u # t
    BY <1>7, <1>2 DEF GenOut, Idle, Holds, OidTypeOK
  <2>5. \A u \in Threads : u # t => gen'[u] = gen[u]
    BY <1>7, <1>2 DEF GenOut, OidTypeOK
  <2>6. gen'[t].at = "idle"
    BY <1>7, <1>2 DEF GenOut, Idle, OidTypeOK
  <2> HIDE DEF id
  <2>7. /\ Len(ids') = Len(ids) + 1 /\ ids'[Len(ids) + 1] = id
        /\ \A n \in 1..Len(ids) : ids'[n] = ids[n]
    BY <1>2, <2>1, <2>2 DEF OidTypeOK
  <2>8. \A n \in 1..Len(ids') : n \in 1..Len(ids) \/ n = Len(ids) + 1
    BY <1>2, <2>7 DEF OidTypeOK
  <2>9. OneReads'
    BY <2>1, <2>5, <2>6, <1>3 DEF OneReads
  <2>10. BelowCounter'
    BY <2>1, <2>2, <2>3, <2>4, <2>5, <2>7, <2>8, <1>3 DEF BelowCounter
  <2>11. \A n \in 1..Len(ids) : ids[n].inc # id.inc
    BY <2>2, <2>3, <1>3 DEF GivenOnce
  <2>12. GivenOnce'
    <3>1. \A u, v \in Threads : (Holds(u) /\ Holds(v) /\ u # v => gen[u].i # gen[v].i)'
      BY <2>4, <2>5, <1>3 DEF GivenOnce
    <3>2. \A u \in Threads : \A n \in 1..Len(ids') : (Holds(u) => gen[u].i # ids[n].inc)'
      BY <2>2, <2>3, <2>4, <2>5, <2>7, <2>8, <1>3 DEF GivenOnce
    <3>3. \A m, n \in 1..Len(ids') : m # n => ids'[m].inc # ids'[n].inc
      BY <2>7, <2>8, <2>11, <1>3 DEF GivenOnce
    <3> QED
      BY <3>1, <3>2, <3>3 DEF GivenOnce
  <2> QED
    BY <2>9, <2>10, <2>12
<1> QED
  BY <1>4, <1>5, <1>6, <1>7 DEF OidNext, GenInside

\* The ids a process makes are all different, as long as no call of bson_oid_gen
\* read the counter while another one was about to write it.
THEOREM IdsNeverRepeat == Spec => []IdsAreUnique
<1>1. Init => OidInv
  BY OidInitInv
<1>2. OidInv /\ [Next]_vars => OidInv'
  BY StepOid, OidTypeStep, CounterStep DEF OidInv
<1>3. OidInv => IdsAreUnique
  BY DEF OidInv, CounterInv, GivenOnce, IdsAreUnique, IdsDiffer
<1> QED
  BY <1>1, <1>2, <1>3, PTL DEF Spec

-----------------------------------------------------------------------------
(* Types.                                                                  *)

CallsOK == calls \in [Threads -> Nat]

LEMMA CallsStep == CallsOK /\ [Next]_vars => CallsOK'
<1> SUFFICES ASSUME CallsOK, [Next]_vars PROVE CallsOK'
  OBVIOUS
<1>1. CASE UNCHANGED calls
  BY <1>1 DEF CallsOK
<1>2. ASSUME NEW t \in Threads, calls' = [calls EXCEPT ![t] = @ + 1] PROVE CallsOK'
  BY <1>2 DEF CallsOK
<1>3. ASSUME NEW t \in Threads, Step(t)
      PROVE  UNCHANGED calls \/ calls' = [calls EXCEPT ![t] = @ + 1]
  <2>1. CASE CProgram(t)
    BY <2>1 DEF CProgram, CallC
  <2>2. CASE OidReturn(t)
    BY <2>2 DEF OidReturn
  <2>3. CASE CInsert(t) \/ OidCall(t) \/ Insert(t) \/ Inside(t)
    BY <2>3 DEF CInsert, OidCall, Insert, Inside
  <2> QED
    BY <1>3, <2>1, <2>2, <2>3 DEF Step
<1> QED
  BY <1>1, <1>2, <1>3 DEF Next, Exit, vars

LEMMA BsonTyped == ASSUME NEW b, BuilderOK(b) PROVE BsonOK(b)
<1>1. BufOK(b) /\ Typed(b)
  BY DEF BuilderOK
<1>2. \A p \in DOMAIN b.data : b.data[p].type \in Types /\ b.data[p].len \in Nat
  BY <1>1 DEF Typed, IsElement
<1> QED
  BY <1>1, <1>2 DEF BsonOK, BufOK, Typed

\* The variables have their types (TypeOK), every document whatever was appended.
THEOREM DocumentsTyped == Spec => []TypeOK
<1>1. Init => DocInv /\ OidInv /\ CallsOK
  BY DocInit, OidInitInv DEF Init, CallsOK
<1>2. DocInv /\ OidInv /\ CallsOK /\ [Next]_vars => DocInv' /\ OidInv' /\ CallsOK'
  BY DocStep, StepOid, OidTypeStep, CounterStep, CallsStep DEF OidInv
<1>3. DocInv /\ OidInv /\ CallsOK => TypeOK
  BY BsonTyped DEF DocInv, DocsOK, Places, OidInv, CallsOK, TypeOK
<1> QED
  BY <1>1, <1>2, <1>3, PTL DEF Spec

-----------------------------------------------------------------------------
(* The levels of the document that the calls of the parser know: the       *)
(* innermost state of every call, and those it will return to. Level 0 is  *)
(* the document itself. Level i belongs to the call call[i], which came    *)
(* there by depth[i] brackets, array[i] of them square.                    *)

ArrayAt(f, j) == IF j = Len(f.docs) THEN InArray(f) ELSE f.docs[j + 1] = "ArraySpecValue"

\* The index of the next element of an array.
Due(f, m) == IF m = Len(f.indices) THEN f.index ELSE f.indices[m + 1]

AtTop(s, call, depth, array, i, c) ==
  call[i] = c /\ depth[i] = Len(s[c].docs) /\ array[i] = Len(s[c].indices)

Levels(s, n, call, depth, array) ==
  /\ n \in Nat /\ Len(s) \in Nat
  /\ call \in [0..n -> 1..Len(s)] /\ depth \in [0..n -> Nat] /\ array \in [0..n -> Nat]
  /\ call[0] = 1 /\ AtTop(s, call, depth, array, n, Len(s))
  /\ \A i \in 0..n :
       /\ depth[i] <= Len(s[call[i]].docs) /\ array[i] <= Len(s[call[i]].indices)
       /\ depth[i] <= i /\ call[i - depth[i]] = call[i] /\ depth[i - depth[i]] = 0
       /\ depth[i] = 0 => array[i] = 0
  /\ \A i \in 1..n :
       /\ depth[i] = 0 => call[i] > 1 /\ AtTop(s, call, depth, array, i - 1, call[i] - 1)
       /\ depth[i] > 0 =>
            /\ call[i - 1] = call[i] /\ depth[i - 1] = depth[i] - 1
            /\ array[i] = IF ArrayAt(s[call[i]], depth[i]) THEN array[i - 1] + 1 ELSE array[i - 1]
  /\ \A i, j \in 0..n : i < j /\ call[i] = call[j] => depth[i] < depth[j] /\ array[i] <= array[j]

\* The index the next element of a level gets, -1 in a document.
PlaceOf(s, call, depth, array, i) ==
  IF ArrayAt(s[call[i]], depth[i]) THEN Due(s[call[i]], array[i]) ELSE -1

Tells(s, n, next, call, depth, array) ==
  /\ Levels(s, n, call, depth, array)
  /\ \A i \in 0..n : next[i] = PlaceOf(s, call, depth, array, i)

Describes(s, n, next) ==
  /\ n \in Nat /\ next \in [0..n -> Int]
  /\ \E call, depth, array : Tells(s, n, next, call, depth, array)

Later(x) == IF x = -1 THEN -1 ELSE x + 1

\* One more element at the innermost level, and one that is a level itself.
OneMore(next, n) == [i \in 0..n |-> IF i = n THEN Later(next[n]) ELSE next[i]]
OneDeeper(next, n, x) == [i \in 0..(n + 1) |-> IF i = n + 1 THEN x ELSE next[i]]
Upto(next, n) == [i \in 0..n |-> next[i]]

\* The calls, the last of them changed.
Changed(s, s2, g) ==
  /\ Len(s) \in Nat /\ Len(s) > 0 /\ Len(s2) = Len(s) /\ s2[Len(s)] = g
  /\ \A c \in 1..Len(s) : c # Len(s) => s2[c] = s[c]

Shaped(f) == f.docs \in Seq(Rests) /\ f.indices \in Seq(Nat) /\ f.index \in Nat
AllShaped(s) == \A c \in 1..Len(s) : Shaped(s[c])

LEMMA PlaceIn ==
  ASSUME NEW s, AllShaped(s), NEW n, NEW call, NEW depth, NEW array,
         Levels(s, n, call, depth, array), NEW i \in 0..n
  PROVE  PlaceOf(s, call, depth, array, i) \in Nat \cup {-1}
<1> DEFINE f == s[call[i]]  m == array[i]
<1>1. f.indices \in Seq(Nat) /\ f.index \in Nat /\ m \in Nat /\ m <= Len(f.indices)
  BY DEF Levels, AllShaped, Shaped
<1>2. Due(f, m) \in Nat
  <2> DEFINE t == f.indices
  <2>1. t \in Seq(Nat) /\ f.index \in Nat /\ m <= Len(t) /\ Due(f, m) = IF m = Len(t) THEN f.index ELSE t[m + 1]
    BY <1>1 DEF Due
  <2> HIDE DEF t, m
  <2>2. m # Len(t) => m + 1 \in 1..Len(t)
    BY <1>1, <2>1
  <2> QED
    BY <2>1, <2>2
<1> QED
  BY <1>2 DEF PlaceOf

\* What the innermost level gets next.
LEMMA TopIs ==
  ASSUME NEW s, NEW n, NEW next, Describes(s, n, next)
  PROVE  /\ Len(s) \in Nat /\ Len(s) > 0
         /\ next[n] = IF InArray(s[Len(s)]) THEN s[Len(s)].index ELSE -1
<1>1. PICK call, depth, array :
        /\ Levels(s, n, call, depth, array)
        /\ \A i \in 0..n : next[i] = PlaceOf(s, call, depth, array, i)
  BY DEF Describes, Tells
<1>2. /\ n \in 0..n /\ call[n] = Len(s) /\ depth[n] = Len(s[Len(s)].docs)
      /\ array[n] = Len(s[Len(s)].indices) /\ call[n] \in 1..Len(s) /\ Len(s) \in Nat
  BY <1>1 DEF Levels, AtTop
<1> QED
  BY <1>1, <1>2 DEF PlaceOf, ArrayAt, Due

LEMMA SameLevels ==
  ASSUME NEW s, NEW n, NEW call, NEW depth, NEW array, Levels(s, n, call, depth, array),
         NEW s2, Len(s2) = Len(s),
         \A c \in 1..Len(s) : /\ s2[c].docs = s[c].docs /\ s2[c].indices = s[c].indices
                              /\ InArray(s2[c]) <=> InArray(s[c])
  PROVE  Levels(s2, n, call, depth, array)
<1>1. \A c \in 1..Len(s) : \A j : ArrayAt(s2[c], j) <=> ArrayAt(s[c], j)
  BY DEF ArrayAt
<1>2. /\ n \in Nat /\ Len(s) \in Nat /\ call \in [0..n -> 1..Len(s)]
      /\ depth \in [0..n -> Nat]
      /\ \A i \in 1..n : depth[i] = 0 => call[i] - 1 \in 1..Len(s)
      /\ Len(s) \in 1..Len(s)
  BY DEF Levels, AtTop
<1>3. ASSUME NEW i, NEW c \in 1..Len(s), AtTop(s, call, depth, array, i, c)
      PROVE  AtTop(s2, call, depth, array, i, c)
  BY <1>3 DEF AtTop
<1>4. \A i \in 0..n : call[i] \in 1..Len(s)
  BY <1>2
<1>5. AtTop(s2, call, depth, array, n, Len(s2))
  BY <1>2, <1>3 DEF Levels
<1>6. \A i \in 0..n :
        /\ depth[i] <= Len(s2[call[i]].docs) /\ array[i] <= Len(s2[call[i]].indices)
        /\ depth[i] <= i /\ call[i - depth[i]] = call[i] /\ depth[i - depth[i]] = 0
        /\ depth[i] = 0 => array[i] = 0
  BY <1>4 DEF Levels
<1>7. ASSUME NEW i \in 1..n
      PROVE  /\ depth[i] = 0 => call[i] > 1 /\ AtTop(s2, call, depth, array, i - 1, call[i] - 1)
             /\ depth[i] > 0 =>
                  /\ call[i - 1] = call[i] /\ depth[i - 1] = depth[i] - 1
                  /\ array[i] = IF ArrayAt(s2[call[i]], depth[i]) THEN array[i - 1] + 1
                                ELSE array[i - 1]
  <2>1. call[i] \in 1..Len(s)
    BY <1>2, <1>4
  <2> QED
    BY <1>1, <1>2, <1>3, <2>1 DEF Levels
<1> QED
  BY <1>5, <1>6, <1>7 DEF Levels

\* A step that leaves the levels and the indices.
LEMMA SameDescribes ==
  ASSUME NEW s, NEW n, NEW next, Describes(s, n, next), NEW g, NEW s2, Changed(s, s2, g),
         NEW f, f = s[Len(s)], g.docs = f.docs, g.indices = f.indices, g.index = f.index,
         InArray(g) <=> InArray(f)
  PROVE  Describes(s2, n, next)
<1>1. PICK call, depth, array :
        /\ Levels(s, n, call, depth, array)
        /\ \A i \in 0..n : next[i] = PlaceOf(s, call, depth, array, i)
  BY DEF Describes, Tells
<1>2. \A c \in 1..Len(s) : /\ s2[c].docs = s[c].docs /\ s2[c].indices = s[c].indices
                           /\ InArray(s2[c]) <=> InArray(s[c])
                           /\ s2[c].index = s[c].index
  BY DEF Changed
<1>3. Levels(s2, n, call, depth, array)
  BY <1>1, <1>2, SameLevels DEF Changed
<1>4. \A i \in 0..n : call[i] \in 1..Len(s)
  BY <1>1 DEF Levels
<1>5. \A i \in 0..n : PlaceOf(s2, call, depth, array, i) = PlaceOf(s, call, depth, array, i)
  BY <1>2, <1>4 DEF PlaceOf, ArrayAt, Due
<1> QED
  BY <1>1, <1>3, <1>5 DEF Describes, Tells

\* A step that counts one element of the innermost level.
LEMMA CountedDescribes ==
  ASSUME NEW s, AllShaped(s), NEW n, NEW next, Describes(s, n, next), NEW g, NEW s2, Changed(s, s2, g),
         NEW f, f = s[Len(s)], g.docs = f.docs, g.indices = f.indices, g.index = Counted(f),
         InArray(g) <=> InArray(f)
  PROVE  Describes(s2, n, OneMore(next, n))
<1>1. PICK call, depth, array :
        /\ Levels(s, n, call, depth, array)
        /\ \A i \in 0..n : next[i] = PlaceOf(s, call, depth, array, i)
  BY DEF Describes, Tells
<1>2. \A c \in 1..Len(s) : /\ s2[c].docs = s[c].docs /\ s2[c].indices = s[c].indices
                           /\ InArray(s2[c]) <=> InArray(s[c])
                           /\ c # Len(s) => s2[c].index = s[c].index
  BY DEF Changed
<1>3. Levels(s2, n, call, depth, array)
  BY <1>1, <1>2, SameLevels DEF Changed
<1>4. /\ \A i \in 0..n : call[i] \in 1..Len(s)
      /\ n \in Nat /\ n \in 0..n /\ call[n] = Len(s) /\ depth[n] = Len(f.docs)
      /\ array[n] = Len(f.indices) /\ Len(s) \in 1..Len(s) /\ next \in [0..n -> Int]
  <2>1. Len(s) \in 1..Len(s)
    BY DEF Changed
  <2>2. n \in Nat /\ next \in [0..n -> Int] /\ n \in 0..n
    BY DEF Describes
  <2>3. /\ \A i \in 0..n : call[i] \in 1..Len(s)
        /\ AtTop(s, call, depth, array, n, Len(s))
    BY <1>1 DEF Levels
  <2> QED
    BY <2>1, <2>2, <2>3 DEF AtTop
<1>5. f.index \in Nat
  BY <1>4 DEF AllShaped, Shaped
<1>6. PlaceOf(s2, call, depth, array, n) = Later(next[n])
  <2>1. next[n] = IF InArray(f) THEN f.index ELSE -1
    BY TopIs
  <2>2. PlaceOf(s2, call, depth, array, n) = IF InArray(g) THEN g.index ELSE -1
    BY <1>4 DEF PlaceOf, ArrayAt, Due, Changed
  <2> QED
    BY <1>5, <2>1, <2>2 DEF Later, Counted
<1>7. ASSUME NEW i \in 0..n, i # n
      PROVE  PlaceOf(s2, call, depth, array, i) = PlaceOf(s, call, depth, array, i)
  <2>1. CASE call[i] # Len(s)
    BY <1>4, <2>1 DEF PlaceOf, Changed
  <2>2. CASE call[i] = Len(s) /\ ~ArrayAt(f, depth[i])
    BY <1>2, <1>4, <2>2 DEF PlaceOf, ArrayAt
  <2>3. CASE call[i] = Len(s) /\ InArray(f)
    <3>1. array[i] < Len(f.indices)
      <4>1. i < n /\ n \in 1..n /\ n - 1 \in 0..n /\ i <= n - 1
        BY <1>4, <1>7
      <4>2. depth[i] < depth[n] /\ depth[i] \in Nat /\ depth[n] \in Nat
        BY <1>1, <1>4, <2>3, <4>1 DEF Levels
      <4>3. ArrayAt(s[call[n]], depth[n]) /\ depth[n] > 0
        BY <1>4, <2>3, <4>2 DEF ArrayAt
      <4>4. depth[n] > 0 =>
              /\ call[n - 1] = call[n]
              /\ array[n] = IF ArrayAt(s[call[n]], depth[n]) THEN array[n - 1] + 1 ELSE array[n - 1]
        BY <1>1, <4>1 DEF Levels
      <4>5. /\ \A j, l \in 0..n : j < l /\ call[j] = call[l] => array[j] <= array[l]
            /\ array[i] \in Nat /\ array[n - 1] \in Nat
        BY <1>1, <4>1 DEF Levels
      <4>6. array[i] <= array[n - 1]
        <5>1. CASE i = n - 1
          BY <4>5, <5>1
        <5>2. CASE i # n - 1
          <6>1. i < n - 1 /\ n - 1 \in 0..n
            BY <1>4, <4>1, <5>2
          <6>2. call[n - 1] = call[n] /\ call[n] = Len(s)
            BY <1>4, <4>3, <4>4
          <6>3. call[i] = call[n - 1]
            BY <2>3, <6>2
          <6> QED
            BY <1>7, <4>5, <6>1, <6>3
        <5> QED
          BY <5>1, <5>2
      <4> QED
        BY <1>4, <4>3, <4>4, <4>5, <4>6
    <3>2. array[i] # Len(f.indices)
      BY <1>1, <1>4, <3>1 DEF Levels
    <3> QED
      BY <1>2, <1>4, <2>3, <3>2 DEF PlaceOf, ArrayAt, Due
  <2>4. CASE call[i] = Len(s) /\ ~InArray(f)
    <3>1. g.index = f.index
      BY <2>4 DEF Counted
    <3> QED
      BY <1>2, <1>4, <2>4, <3>1 DEF PlaceOf, ArrayAt, Due, Changed
  <2> QED
    BY <2>1, <2>2, <2>3, <2>4
<1>8. OneMore(next, n) \in [0..n -> Int]
  BY <1>4 DEF OneMore, Later
<1>9. \A i \in 0..n : OneMore(next, n)[i] = PlaceOf(s2, call, depth, array, i)
  BY <1>1, <1>6, <1>7 DEF OneMore
<1> QED
  BY <1>3, <1>4, <1>8, <1>9 DEF Describes, Tells

\* What Levels says, piece by piece.
LEMMA LevelsAre ==
  ASSUME NEW s, NEW n, NEW call, NEW depth, NEW array, Levels(s, n, call, depth, array)
  PROVE  /\ n \in Nat /\ Len(s) \in Nat /\ Len(s) \in 1..Len(s)
         /\ call[n] = Len(s) /\ depth[n] = Len(s[Len(s)].docs) /\ array[n] = Len(s[Len(s)].indices)
         /\ call[0] = 1
         /\ \A i \in 0..n : /\ call[i] \in 1..Len(s) /\ depth[i] \in Nat /\ array[i] \in Nat
                             /\ depth[i] <= Len(s[call[i]].docs)
                             /\ array[i] <= Len(s[call[i]].indices)
                             /\ depth[i] <= i /\ call[i - depth[i]] = call[i]
                             /\ depth[i - depth[i]] = 0
                             /\ depth[i] = 0 => array[i] = 0
         /\ \A i \in 1..n :
              /\ i - 1 \in 0..n
              /\ depth[i] = 0 => /\ call[i] > 1 /\ call[i - 1] = call[i] - 1
                                 /\ depth[i - 1] = Len(s[call[i] - 1].docs)
                                 /\ array[i - 1] = Len(s[call[i] - 1].indices)
              /\ depth[i] > 0 =>
                   /\ call[i - 1] = call[i] /\ depth[i - 1] = depth[i] - 1
                   /\ array[i] = IF ArrayAt(s[call[i]], depth[i]) THEN array[i - 1] + 1
                                 ELSE array[i - 1]
         /\ \A i, j \in 0..n : i < j /\ call[i] = call[j] =>
              depth[i] < depth[j] /\ array[i] <= array[j]
<1>1. n \in Nat /\ Len(s) \in Nat /\ AtTop(s, call, depth, array, n, Len(s)) /\ call[0] = 1
  BY DEF Levels
<1>2. \A i \in 0..n : /\ call[i] \in 1..Len(s) /\ depth[i] \in Nat /\ array[i] \in Nat
                      /\ depth[i] <= Len(s[call[i]].docs)
                      /\ array[i] <= Len(s[call[i]].indices)
                      /\ depth[i] <= i /\ call[i - depth[i]] = call[i]
                      /\ depth[i - depth[i]] = 0
                      /\ depth[i] = 0 => array[i] = 0
  BY DEF Levels
<1>3. \A i \in 1..n :
        /\ depth[i] = 0 => call[i] > 1 /\ AtTop(s, call, depth, array, i - 1, call[i] - 1)
        /\ depth[i] > 0 =>
             /\ call[i - 1] = call[i] /\ depth[i - 1] = depth[i] - 1
             /\ array[i] = IF ArrayAt(s[call[i]], depth[i]) THEN array[i - 1] + 1
                           ELSE array[i - 1]
  BY DEF Levels
<1>4. \A i, j \in 0..n : i < j /\ call[i] = call[j] =>
        depth[i] < depth[j] /\ array[i] <= array[j]
  BY DEF Levels
<1>5. Len(s) \in 1..Len(s)
  BY <1>1, <1>2 DEF AtTop
<1>6. \A i \in 1..n : i - 1 \in 0..n
  BY <1>1
<1> QED
  BY <1>1, <1>2, <1>3, <1>4, <1>5, <1>6 DEF AtTop

\* A call goes one level down.
LEMMA PushDescribes ==
  ASSUME NEW s, AllShaped(s), NEW n, NEW next, Describes(s, n, next), NEW g, NEW s2,
         Changed(s, s2, g), NEW f, f = s[Len(s)], g.docs = Append(f.docs, Resting(f)),
         \/ InArray(g) /\ g.indices = Append(f.indices, f.index) /\ g.index = 0
         \/ ~InArray(g) /\ g.indices = f.indices /\ g.index = f.index
  PROVE  Describes(s2, n + 1, OneDeeper(next, n, IF InArray(g) THEN 0 ELSE -1))
<1>1. PICK call, depth, array :
        /\ Levels(s, n, call, depth, array)
        /\ \A i \in 0..n : next[i] = PlaceOf(s, call, depth, array, i)
  BY DEF Describes, Tells
<1> DEFINE call2 == [i \in 0..(n + 1) |-> IF i = n + 1 THEN Len(s) ELSE call[i]]
           depth2 == [i \in 0..(n + 1) |-> IF i = n + 1 THEN Len(f.docs) + 1 ELSE depth[i]]
           array2 == [i \in 0..(n + 1) |-> IF i = n + 1 THEN Len(g.indices) ELSE array[i]]
           new == IF InArray(g) THEN 0 ELSE -1
           next2 == OneDeeper(next, n, new)
<1>2. /\ n \in Nat /\ Len(s) \in Nat /\ Len(s) \in 1..Len(s) /\ next \in [0..n -> Int]
      /\ Len(s2) = Len(s) /\ s2[Len(s)] = g /\ \A c \in 1..Len(s) : c # Len(s) => s2[c] = s[c]
  BY <1>1, LevelsAre DEF Describes, Changed
<1>3. f.docs \in Seq(Rests) /\ f.indices \in Seq(Nat) /\ f.index \in Nat
  BY <1>2 DEF AllShaped, Shaped
<1>4. /\ Len(f.docs) \in Nat /\ Len(g.docs) = Len(f.docs) + 1
      /\ g.docs[Len(f.docs) + 1] = Resting(f)
      /\ \A j \in 1..Len(f.docs) : g.docs[j] = f.docs[j]
  BY <1>3
<1>5. /\ Len(f.indices) \in Nat
      /\ Len(g.indices) = IF InArray(g) THEN Len(f.indices) + 1 ELSE Len(f.indices)
      /\ InArray(g) => g.indices[Len(f.indices) + 1] = f.index
      /\ \A j \in 1..Len(f.indices) : g.indices[j] = f.indices[j]
  <2>1. CASE InArray(g)
    <3>1. g.indices = Append(f.indices, f.index)
      BY <2>1
    <3> QED
      BY <1>3, <2>1, <3>1
  <2>2. CASE ~InArray(g)
    <3>1. g.indices = f.indices
      BY <2>2
    <3> QED
      BY <1>3, <2>2, <3>1
  <2> QED
    BY <2>1, <2>2
<1>6. ASSUME NEW j \in 0..Len(f.docs) PROVE ArrayAt(g, j) <=> ArrayAt(f, j)
  <2>1. j # Len(g.docs)
    BY <1>4
  <2>2. CASE j = Len(f.docs)
    BY <1>4, <2>1, <2>2 DEF ArrayAt, Resting
  <2>3. CASE j # Len(f.docs)
    <3>1. j + 1 \in 1..Len(f.docs)
      BY <1>4, <2>3
    <3> QED
      BY <1>4, <2>1, <2>3, <3>1 DEF ArrayAt
  <2> QED
    BY <2>2, <2>3
<1>7. ASSUME NEW j \in 0..Len(f.indices) PROVE Due(g, j) = Due(f, j)
  <2>1. CASE j = Len(f.indices)
    BY <1>5, <2>1 DEF Due
  <2>2. CASE j # Len(f.indices)
    <3>1. j + 1 \in 1..Len(f.indices) /\ j # Len(g.indices)
      BY <1>5, <2>2
    <3> QED
      BY <1>5, <2>2, <3>1 DEF Due
  <2> QED
    BY <2>1, <2>2
<1>8. \A i \in 0..n : i \in 0..(n + 1) /\ i # n + 1
  BY <1>2
<1>9. /\ call2 \in [0..(n + 1) -> 1..Len(s)] /\ depth2 \in [0..(n + 1) -> Nat]
      /\ array2 \in [0..(n + 1) -> Nat]
      /\ call2[n + 1] = Len(s) /\ depth2[n + 1] = Len(f.docs) + 1 /\ array2[n + 1] = Len(g.indices)
      /\ \A i \in 0..n : call2[i] = call[i] /\ depth2[i] = depth[i] /\ array2[i] = array[i]
      /\ \A i \in 0..(n + 1) : i = n + 1 \/ i \in 0..n
  <2>1. \A i \in 0..(n + 1) : i = n + 1 \/ i \in 0..n
    BY <1>2
  <2>2. \A i \in 0..n : call[i] \in 1..Len(s) /\ depth[i] \in Nat /\ array[i] \in Nat
    BY <1>1 DEF Levels
  <2>3. n + 1 \in 0..(n + 1) /\ Len(g.indices) \in Nat /\ Len(f.docs) + 1 \in Nat
    BY <1>2, <1>4, <1>5
  <2> QED
    BY <1>2, <1>8, <2>1, <2>2, <2>3
<1> HIDE DEF call2, depth2, array2
<1>10. /\ call[n] = Len(s) /\ depth[n] = Len(f.docs) /\ array[n] = Len(f.indices) /\ n \in 0..n
       /\ \A i \in 0..n : call[i] = Len(s) => depth[i] \in 0..Len(f.docs) /\ array[i] \in 0..Len(f.indices)
       /\ \A i \in 0..n : call[i] \in 1..Len(s) /\ depth[i] \in Nat /\ array[i] \in Nat
  <2>1. /\ call[n] = Len(s) /\ depth[n] = Len(f.docs) /\ array[n] = Len(f.indices) /\ n \in 0..n
    BY <1>1, <1>2, LevelsAre
  <2>2. \A i \in 0..n : /\ call[i] \in 1..Len(s) /\ depth[i] \in Nat /\ array[i] \in Nat
                        /\ depth[i] <= Len(s[call[i]].docs) /\ array[i] <= Len(s[call[i]].indices)
    BY <1>1 DEF Levels
  <2> QED
    BY <1>4, <1>5, <2>1, <2>2
<1>11. Levels(s2, n + 1, call2, depth2, array2)
  <2>1. AtTop(s2, call2, depth2, array2, n + 1, Len(s2))
    BY <1>2, <1>4, <1>9 DEF AtTop
  <2>2. ASSUME NEW i \in 0..(n + 1)
        PROVE  /\ depth2[i] <= Len(s2[call2[i]].docs) /\ array2[i] <= Len(s2[call2[i]].indices)
               /\ depth2[i] <= i /\ call2[i - depth2[i]] = call2[i] /\ depth2[i - depth2[i]] = 0
               /\ depth2[i] = 0 => array2[i] = 0
    <3>1. CASE i = n + 1
      <4>1. /\ depth[n] <= n /\ call[n - depth[n]] = call[n] /\ depth[n - depth[n]] = 0
        BY <1>1, <1>10 DEF Levels
      <4>2. n - depth[n] \in 0..n /\ i - depth2[i] = n - depth[n] /\ depth2[i] <= i
        <5> DEFINE x == depth[n]  y == depth2[i]
        <5>1. x \in Nat /\ y = x + 1 /\ i = n + 1 /\ x <= n /\ n \in Nat
          BY <1>2, <1>9, <1>10, <3>1, <4>1
        <5> HIDE DEF x, y
        <5>2. n - x \in 0..n /\ i - y = n - x /\ y <= i
          BY <5>1
        <5> QED
          BY <5>2 DEF x, y
      <4>3. depth2[i] # 0 /\ depth2[i] <= Len(g.docs) /\ array2[i] <= Len(g.indices)
        BY <1>4, <1>5, <1>9, <3>1
      <4>4. call2[i] = Len(s) /\ s2[call2[i]] = g
        BY <1>2, <1>9, <1>10, <3>1
      <4>5. /\ call2[i - depth2[i]] = call[n - depth[n]]
            /\ depth2[i - depth2[i]] = depth[n - depth[n]]
        BY <1>9, <4>2
      <4>6. call2[i - depth2[i]] = call2[i] /\ depth2[i - depth2[i]] = 0
        BY <1>10, <4>1, <4>4, <4>5
      <4> QED
        BY <4>2, <4>3, <4>4, <4>6
    <3>2. CASE i \in 0..n
      <4>1. /\ depth[i] <= Len(s[call[i]].docs) /\ array[i] <= Len(s[call[i]].indices)
            /\ depth[i] <= i /\ call[i - depth[i]] = call[i] /\ depth[i - depth[i]] = 0
            /\ depth[i] = 0 => array[i] = 0
        BY <1>1, <3>2 DEF Levels
      <4>2. i - depth[i] \in 0..n
        <5> DEFINE x == depth[i]
        <5>1. x \in Nat /\ x <= i /\ i \in 0..n /\ n \in Nat
          BY <1>2, <1>10, <3>2, <4>1
        <5> HIDE DEF x
        <5>2. i - x \in 0..n
          BY <5>1
        <5> QED
          BY <5>2 DEF x
      <4>3. depth[i] <= Len(s2[call[i]].docs) /\ array[i] <= Len(s2[call[i]].indices)
        <5>1. CASE call[i] = Len(s)
          <6>1. depth[i] \in 0..Len(f.docs) /\ array[i] \in 0..Len(f.indices)
            BY <1>10, <3>2, <5>1
          <6>2. Len(f.docs) <= Len(g.docs) /\ Len(f.indices) <= Len(g.indices)
            BY <1>4, <1>5
          <6>3. depth[i] <= Len(g.docs) /\ array[i] <= Len(g.indices)
            BY <1>4, <1>5, <6>1, <6>2
          <6> QED
            BY <1>2, <5>1, <6>3
        <5>2. CASE call[i] # Len(s)
          BY <1>2, <1>10, <3>2, <4>1, <5>2
        <5> QED
          BY <5>1, <5>2
      <4> QED
        BY <1>9, <3>2, <4>1, <4>2, <4>3
    <3> QED
      BY <1>9, <3>1, <3>2
  <2>3. ASSUME NEW i \in 1..(n + 1)
        PROVE  /\ depth2[i] = 0 => call2[i] > 1 /\ AtTop(s2, call2, depth2, array2, i - 1, call2[i] - 1)
               /\ depth2[i] > 0 =>
                    /\ call2[i - 1] = call2[i] /\ depth2[i - 1] = depth2[i] - 1
                    /\ array2[i] = IF ArrayAt(s2[call2[i]], depth2[i]) THEN array2[i - 1] + 1
                                   ELSE array2[i - 1]
    <3>1. CASE i = n + 1
      <4>1. i - 1 = n /\ depth2[i] > 0 /\ depth2[i] # 0
        <5>1. Len(f.docs) + 1 > 0 /\ Len(f.docs) + 1 # 0
          BY <1>4
        <5> QED
          BY <1>2, <1>9, <3>1, <5>1
      <4>2. call2[i - 1] = call2[i] /\ depth2[i - 1] = depth2[i] - 1
        <5>1. call2[i] = Len(s) /\ depth2[i] = Len(f.docs) + 1
          BY <1>9, <3>1
        <5>2. call2[i - 1] = Len(s) /\ depth2[i - 1] = Len(f.docs)
          BY <1>9, <1>10, <4>1
        <5>3. Len(f.docs) = Len(f.docs) + 1 - 1
          BY <1>4
        <5> QED
          BY <5>1, <5>2, <5>3
      <4>3. array2[i] = IF InArray(g) THEN array2[i - 1] + 1 ELSE array2[i - 1]
        <5>1. array2[i] = Len(g.indices)
          BY <1>9, <3>1
        <5>2. array2[i - 1] = Len(f.indices)
          BY <1>9, <1>10, <4>1
        <5> QED
          BY <1>5, <5>1, <5>2
      <4>4. ArrayAt(s2[call2[i]], depth2[i]) <=> InArray(g)
        BY <1>2, <1>4, <1>9, <3>1 DEF ArrayAt
      <4> QED
        BY <4>1, <4>2, <4>3, <4>4
    <3>2. CASE i \in 1..n
      <4>1. i \in 0..n /\ i - 1 \in 0..n
        BY <1>2, <3>2
      <4>2. CASE depth[i] = 0
        <5>1. /\ call[i] > 1 /\ call[i - 1] = call[i] - 1
              /\ depth[i - 1] = Len(s[call[i] - 1].docs)
              /\ array[i - 1] = Len(s[call[i] - 1].indices)
          BY <1>1, <3>2, <4>2, LevelsAre
        <5>2. call[i] - 1 \in 1..Len(s) /\ call[i] - 1 # Len(s)
          BY <1>2, <1>10, <4>1, <5>1
        <5>3. s2[call[i] - 1] = s[call[i] - 1]
          BY <1>2, <5>2
        <5>4. AtTop(s2, call2, depth2, array2, i - 1, call2[i] - 1)
          BY <1>9, <4>1, <5>1, <5>3 DEF AtTop
        <5> QED
          BY <1>9, <4>1, <4>2, <5>1, <5>4
      <4>3. CASE depth[i] # 0
        <5>1. depth[i] > 0
          BY <1>10, <4>1, <4>3
        <5>2. /\ call[i - 1] = call[i] /\ depth[i - 1] = depth[i] - 1
              /\ array[i] = IF ArrayAt(s[call[i]], depth[i]) THEN array[i - 1] + 1 ELSE array[i - 1]
          BY <1>1, <3>2, <5>1, LevelsAre
        <5>3. ArrayAt(s2[call[i]], depth[i]) <=> ArrayAt(s[call[i]], depth[i])
          <6>1. CASE call[i] = Len(s)
            BY <1>2, <1>6, <1>10, <4>1, <6>1
          <6>2. CASE call[i] # Len(s)
            BY <1>2, <1>10, <4>1, <6>2
          <6> QED
            BY <6>1, <6>2
        <5> QED
          BY <1>9, <4>1, <4>3, <5>2, <5>3
      <4> QED
        BY <4>2, <4>3
    <3> QED
      BY <1>2, <3>1, <3>2
  <2>4. ASSUME NEW i \in 0..(n + 1), NEW j \in 0..(n + 1), i < j, call2[i] = call2[j]
        PROVE  depth2[i] < depth2[j] /\ array2[i] <= array2[j]
    <3>1. i \in 0..n
      BY <1>2, <2>4
    <3>2. CASE j = n + 1
      <4>1. call[i] = Len(s)
        BY <1>9, <2>4, <3>1, <3>2
      <4>2. depth[i] \in 0..Len(f.docs) /\ array[i] \in 0..Len(f.indices)
        BY <1>10, <3>1, <4>1
      <4> QED
        BY <1>4, <1>5, <1>9, <3>1, <3>2, <4>2
    <3>3. CASE j \in 0..n
      <4>1. \A x, y \in 0..n : x < y /\ call[x] = call[y] =>
              depth[x] < depth[y] /\ array[x] <= array[y]
        BY <1>1, LevelsAre
      <4> QED
        BY <1>9, <2>4, <3>1, <3>3, <4>1
    <3> QED
      BY <1>9, <3>2, <3>3
  <2>5. n + 1 \in Nat /\ Len(s2) \in Nat /\ call2[0] = 1
    <3>1. call[0] = 1
      BY <1>1, LevelsAre
    <3> QED
      BY <1>2, <1>9, <3>1
  <2> QED
    BY <1>2, <1>9, <2>1, <2>2, <2>3, <2>4, <2>5 DEF Levels
<1>12. ASSUME NEW i \in 0..n
       PROVE  PlaceOf(s2, call2, depth2, array2, i) = PlaceOf(s, call, depth, array, i)
  <2>1. call2[i] = call[i] /\ depth2[i] = depth[i] /\ array2[i] = array[i]
    BY <1>9
  <2>2. CASE call[i] = Len(s)
    <3>1. ArrayAt(g, depth[i]) <=> ArrayAt(f, depth[i])
      BY <1>6, <1>10, <2>2
    <3>2. Due(g, array[i]) = Due(f, array[i])
      BY <1>7, <1>10, <2>2
    <3> QED
      BY <1>2, <2>1, <2>2, <3>1, <3>2 DEF PlaceOf
  <2>3. CASE call[i] # Len(s)
    <3>1. s2[call[i]] = s[call[i]]
      BY <1>2, <1>10, <2>3
    <3> QED
      BY <2>1, <3>1 DEF PlaceOf
  <2> QED
    BY <2>2, <2>3
<1>13. PlaceOf(s2, call2, depth2, array2, n + 1) = new
  <2>1. ArrayAt(g, Len(f.docs) + 1) <=> InArray(g)
    BY <1>4 DEF ArrayAt
  <2>2. InArray(g) => Due(g, Len(g.indices)) = 0
    BY DEF Due
  <2> QED
    BY <1>2, <1>9, <2>1, <2>2 DEF PlaceOf
<1> HIDE DEF new
<1>14. new \in Int
  BY DEF new
<1>15. /\ next2 \in [0..(n + 1) -> Int] /\ next2[n + 1] = new
       /\ \A i \in 0..n : next2[i] = next[i]
  <2>1. next2 = [i \in 0..(n + 1) |-> IF i = n + 1 THEN new ELSE next[i]]
    BY DEF OneDeeper
  <2>2. n + 1 \in 0..(n + 1)
    BY <1>2
  <2> QED
    BY <1>2, <1>8, <1>9, <1>14, <2>1, <2>2
<1> HIDE DEF next2
<1>16. \A i \in 0..(n + 1) : next2[i] = PlaceOf(s2, call2, depth2, array2, i)
  BY <1>1, <1>9, <1>12, <1>13, <1>15
<1>17. Describes(s2, n + 1, next2)
  BY <1>2, <1>11, <1>15, <1>16 DEF Describes, Tells
<1> QED
  BY <1>17 DEF next2, new

\* What is left of a call when levels have been closed is as it was.
Shrunk(f, g) ==
  /\ Len(g.docs) \in Nat /\ Len(g.indices) \in Nat
  /\ \A j \in 0..Len(g.docs) : ArrayAt(g, j) <=> ArrayAt(f, j)
  /\ \A j \in 0..Len(g.indices) : Due(g, j) = Due(f, j)

Left(s, s2) ==
  /\ Len(s2) \in 1..Len(s) /\ \A c \in 1..(Len(s2) - 1) : s2[c] = s[c]
  /\ Shrunk(s[Len(s2)], s2[Len(s2)])

Inner(s, n, call, depth, array) ==
  /\ AtTop(s, call, depth, array, n, Len(s))
  /\ \A i \in 0..n : /\ call[i] <= Len(s)
                     /\ call[i] = Len(s) => /\ depth[i] <= Len(s[Len(s)].docs)
                                            /\ array[i] <= Len(s[Len(s)].indices)

LEMMA ShrunkSelf ==
  ASSUME NEW f, Shaped(f), NEW g, g.docs = f.docs, g.indices = f.indices, g.index = f.index,
         InArray(g) <=> InArray(f)
  PROVE  Shrunk(f, g)
<1>1. Len(f.docs) \in Nat /\ Len(f.indices) \in Nat
  BY DEF Shaped
<1> QED
  BY <1>1 DEF Shrunk, ArrayAt, Due

\* Levels are closed.
LEMMA PrefixDescribes ==
  ASSUME NEW s, NEW n, NEW next, NEW call, NEW depth, NEW array,
         Tells(s, n, next, call, depth, array), next \in [0..n -> Int],
         NEW s2, Left(s, s2), NEW m \in 0..n, Inner(s2, m, call, depth, array)
  PROVE  Describes(s2, m, Upto(next, m))
<1> DEFINE f == s[Len(s2)]  g == s2[Len(s2)]
<1>0. /\ Len(g.docs) \in Nat /\ Len(g.indices) \in Nat
      /\ \A j \in 0..Len(g.docs) : ArrayAt(g, j) <=> ArrayAt(f, j)
      /\ \A j \in 0..Len(g.indices) : Due(g, j) = Due(f, j)
      /\ Len(s2) \in 1..Len(s) /\ \A c \in 1..(Len(s2) - 1) : s2[c] = s[c]
      /\ AtTop(s2, call, depth, array, m, Len(s2))
      /\ \A i \in 0..m : /\ call[i] <= Len(s2)
                         /\ call[i] = Len(s2) =>
                              depth[i] <= Len(g.docs) /\ array[i] <= Len(g.indices)
      /\ Levels(s, n, call, depth, array)
      /\ \A i \in 0..n : next[i] = PlaceOf(s, call, depth, array, i)
  BY DEF Shrunk, Left, Inner, Tells
<1> DEFINE call2 == Upto(call, m)  depth2 == Upto(depth, m)  array2 == Upto(array, m)
           k == Len(s2)
<1>1. /\ n \in Nat /\ Len(s) \in Nat /\ m \in Nat /\ m <= n /\ k \in Nat /\ k \in 1..k
      /\ call[0] = 1 /\ 0 \in 0..m /\ m \in 0..m
      /\ \A i \in 0..m : i \in 0..n
      /\ \A i \in 1..m : i \in 1..n /\ i \in 0..m /\ i - 1 \in 0..m
  BY <1>0, LevelsAre
<1>2. \A i \in 0..m : /\ call[i] \in 1..Len(s) /\ depth[i] \in Nat /\ array[i] \in Nat
                      /\ depth[i] <= Len(s[call[i]].docs) /\ array[i] <= Len(s[call[i]].indices)
                      /\ depth[i] <= i /\ call[i - depth[i]] = call[i] /\ depth[i - depth[i]] = 0
                      /\ depth[i] = 0 => array[i] = 0
  BY <1>0, <1>1 DEF Levels
<1>3. ASSUME NEW i \in 0..m PROVE call[i] \in 1..k /\ (call[i] # k => call[i] \in 1..(k - 1))
  <2> DEFINE c == call[i]
  <2>1. c \in 1..Len(s) /\ c <= k /\ k \in Nat /\ Len(s) \in Nat
    BY <1>0, <1>1, <1>2
  <2> HIDE DEF c, k
  <2>2. c \in 1..k /\ (c # k => c \in 1..(k - 1))
    BY <2>1
  <2> QED
    BY <2>2 DEF c
<1>4. /\ call2 \in [0..m -> 1..k] /\ depth2 \in [0..m -> Nat] /\ array2 \in [0..m -> Nat]
      /\ \A i \in 0..m : call2[i] = call[i] /\ depth2[i] = depth[i] /\ array2[i] = array[i]
  BY <1>2, <1>3 DEF Upto
<1> HIDE DEF call2, depth2, array2
<1>5. AtTop(s2, call2, depth2, array2, m, k)
  BY <1>0, <1>1, <1>4 DEF AtTop
<1>6. ASSUME NEW i \in 0..m
      PROVE  /\ depth2[i] <= Len(s2[call2[i]].docs) /\ array2[i] <= Len(s2[call2[i]].indices)
             /\ depth2[i] <= i /\ call2[i - depth2[i]] = call2[i] /\ depth2[i - depth2[i]] = 0
             /\ depth2[i] = 0 => array2[i] = 0
  <2>1. i - depth[i] \in 0..m
    <3> DEFINE x == depth[i]
    <3>1. x \in Nat /\ x <= i
      BY <1>2
    <3> HIDE DEF x
    <3>2. i - x \in 0..m
      BY <1>1, <3>1
    <3> QED
      BY <3>2 DEF x
  <2>2. depth[i] <= Len(s2[call[i]].docs) /\ array[i] <= Len(s2[call[i]].indices)
    <3>1. CASE call[i] = k
      BY <1>0, <3>1
    <3>2. CASE call[i] # k
      BY <1>0, <1>2, <1>3, <3>2
    <3> QED
      BY <3>1, <3>2
  <2> QED
    BY <1>2, <1>4, <2>1, <2>2
<1>7. ASSUME NEW i \in 1..m
      PROVE  /\ depth2[i] = 0 => call2[i] > 1 /\ AtTop(s2, call2, depth2, array2, i - 1, call2[i] - 1)
             /\ depth2[i] > 0 =>
                  /\ call2[i - 1] = call2[i] /\ depth2[i - 1] = depth2[i] - 1
                  /\ array2[i] = IF ArrayAt(s2[call2[i]], depth2[i]) THEN array2[i - 1] + 1
                                 ELSE array2[i - 1]
  <2>1. i \in 0..m /\ i - 1 \in 0..m /\ i \in 1..n
    BY <1>1
  <2>2. CASE depth[i] = 0
    <3>1. call[i] > 1 /\ AtTop(s, call, depth, array, i - 1, call[i] - 1)
      BY <1>0, <2>1, <2>2 DEF Levels
    <3>2. call[i] - 1 \in 1..(k - 1)
      <4> DEFINE c == call[i]
      <4>1. c \in 1..k /\ c > 1 /\ k \in Nat
        BY <1>1, <1>3, <2>1, <3>1
      <4> HIDE DEF c, k
      <4>2. c - 1 \in 1..(k - 1)
        BY <4>1
      <4> QED
        BY <4>2 DEF c
    <3>3. AtTop(s2, call2, depth2, array2, i - 1, call2[i] - 1)
      BY <1>0, <1>4, <2>1, <3>1, <3>2 DEF AtTop
    <3>4. depth2[i] = 0 /\ ~(depth2[i] > 0) /\ call2[i] > 1
      <4>1. depth2[i] = depth[i] /\ call2[i] = call[i]
        BY <1>4, <2>1
      <4>2. depth2[i] = 0 /\ call2[i] > 1
        BY <2>2, <3>1, <4>1
      <4> QED
        BY <4>2
    <3> QED
      BY <3>3, <3>4
  <2>3. CASE depth[i] # 0
    <3>1. depth[i] > 0
      BY <1>2, <2>1, <2>3
    <3>2. /\ call[i - 1] = call[i] /\ depth[i - 1] = depth[i] - 1
          /\ array[i] = IF ArrayAt(s[call[i]], depth[i]) THEN array[i - 1] + 1 ELSE array[i - 1]
      BY <1>0, <2>1, <3>1 DEF Levels
    <3>3. ArrayAt(s2[call[i]], depth[i]) <=> ArrayAt(s[call[i]], depth[i])
      <4>1. CASE call[i] = k
        <5>1. depth[i] \in 0..Len(g.docs)
          BY <1>0, <1>2, <2>1, <4>1
        <5> QED
          BY <1>0, <4>1, <5>1
      <4>2. CASE call[i] # k
        BY <1>0, <1>3, <2>1, <4>2
      <4> QED
        BY <4>1, <4>2
    <3> QED
      BY <1>4, <2>1, <2>3, <3>2, <3>3
  <2> QED
    BY <2>2, <2>3
<1>8. \A i, j \in 0..m : i < j /\ call2[i] = call2[j] => depth2[i] < depth2[j] /\ array2[i] <= array2[j]
  <2>1. \A i, j \in 0..n : i < j /\ call[i] = call[j] => depth[i] < depth[j] /\ array[i] <= array[j]
    BY <1>0 DEF Levels
  <2> QED
    BY <1>1, <1>4, <2>1
<1>9. Levels(s2, m, call2, depth2, array2)
  BY <1>0, <1>1, <1>4, <1>5, <1>6, <1>7, <1>8 DEF Levels
<1>10. ASSUME NEW i \in 0..m
       PROVE  PlaceOf(s2, call2, depth2, array2, i) = next[i]
  <2>1. next[i] = PlaceOf(s, call, depth, array, i)
    BY <1>0, <1>1
  <2>2. call2[i] = call[i] /\ depth2[i] = depth[i] /\ array2[i] = array[i]
    BY <1>4
  <2>3. CASE call[i] = k
    <3>1. depth[i] \in 0..Len(g.docs) /\ array[i] \in 0..Len(g.indices)
      BY <1>0, <1>2, <2>3
    <3>2. (ArrayAt(g, depth[i]) <=> ArrayAt(f, depth[i])) /\ Due(g, array[i]) = Due(f, array[i])
      BY <1>0, <3>1
    <3> QED
      BY <2>1, <2>2, <2>3, <3>2 DEF PlaceOf
  <2>4. CASE call[i] # k
    <3>1. s2[call[i]] = s[call[i]]
      BY <1>0, <1>3, <2>4
    <3> QED
      BY <2>1, <2>2, <3>1 DEF PlaceOf
  <2> QED
    BY <2>3, <2>4
<1>11. Upto(next, m) \in [0..m -> Int] /\ \A i \in 0..m : Upto(next, m)[i] = next[i]
  BY <1>1 DEF Upto
<1> QED
  BY <1>1, <1>9, <1>10, <1>11 DEF Describes, Tells

\* A bracket is closed.
LEMMA PopDescribes ==
  ASSUME NEW s, AllShaped(s), NEW n, NEW next, Describes(s, n, next), NEW g, NEW s2,
         Changed(s, s2, g), NEW f, f = s[Len(s)], f.docs # <<>>,
         g.docs = Front(f.docs), g.state = Last(f.docs),
         \/ InArray(f) /\ g.indices = Front(f.indices)
              /\ g.index = (IF f.indices = <<>> THEN f.index ELSE Last(f.indices))
         \/ ~InArray(f) /\ g.indices = f.indices /\ g.index = f.index
  PROVE  n - 1 \in Nat /\ Describes(s2, n - 1, Upto(next, n - 1))
<1>1. PICK call, depth, array :
        /\ Levels(s, n, call, depth, array)
        /\ \A i \in 0..n : next[i] = PlaceOf(s, call, depth, array, i)
  BY DEF Describes, Tells
<1> DEFINE m == n - 1  d == Len(f.docs) - 1
<1>2. /\ n \in Nat /\ Len(s) \in Nat /\ Len(s) \in 1..Len(s) /\ next \in [0..n -> Int]
      /\ Len(s2) = Len(s) /\ s2[Len(s)] = g /\ \A c \in 1..Len(s) : c # Len(s) => s2[c] = s[c]
  BY <1>1, LevelsAre DEF Describes, Changed
<1>3. f.docs \in Seq(Rests) /\ f.indices \in Seq(Nat) /\ f.index \in Nat
  BY <1>2 DEF AllShaped, Shaped
<1>4. call[n] = Len(s) /\ depth[n] = Len(f.docs) /\ array[n] = Len(f.indices)
  BY <1>1, LevelsAre
<1>5. /\ Len(f.docs) \in Nat /\ Len(f.docs) > 0 /\ d \in Nat /\ Len(f.docs) = d + 1
      /\ Len(g.docs) = d /\ \A j \in 1..d : g.docs[j] = f.docs[j]
      /\ g.state = f.docs[d + 1] /\ g.state \in Rests
  <2> DEFINE t == f.docs
  <2>1. t \in Seq(Rests) /\ Len(t) \in Nat /\ Len(t) # 0
    BY <1>3
  <2>2. d \in Nat /\ Len(t) = d + 1 /\ d <= Len(t) /\ d + 1 \in 1..Len(t)
    BY <2>1
  <2>3. g.docs = SubSeq(t, 1, d) /\ g.state = t[d + 1]
    BY <2>2 DEF Front, Last
  <2> HIDE DEF t, d
  <2>4. Len(SubSeq(t, 1, d)) = d /\ (\A j \in 1..d : SubSeq(t, 1, d)[j] = t[j]) /\ t[d + 1] \in Rests
    BY <2>1, <2>2
  <2> QED
    BY <2>1, <2>2, <2>3, <2>4 DEF t
<1> HIDE DEF d
<1>6. n # 0 /\ m \in Nat /\ m \in 0..n /\ n \in 1..n /\ n = m + 1
  <2>1. n # 0
    <3>1. depth[n] <= n
      BY <1>1, <1>2 DEF Levels
    <3> QED
      BY <1>2, <1>4, <1>5, <3>1
  <2> QED
    BY <1>2, <2>1
<1>7. /\ call[m] = Len(s) /\ depth[m] = d
      /\ Len(f.indices) = IF InArray(f) THEN array[m] + 1 ELSE array[m]
      /\ array[m] \in Nat
  <2>1. depth[n] > 0
    BY <1>4, <1>5
  <2>2. /\ call[n - 1] = call[n] /\ depth[n - 1] = depth[n] - 1
        /\ array[n] = IF ArrayAt(s[call[n]], depth[n]) THEN array[n - 1] + 1 ELSE array[n - 1]
    BY <1>1, <1>6, <2>1 DEF Levels
  <2>3. ArrayAt(s[call[n]], depth[n]) <=> InArray(f)
    BY <1>4 DEF ArrayAt
  <2>4. array[m] \in Nat
    BY <1>1, <1>6 DEF Levels
  <2>5. depth[n] - 1 = d
    BY <1>4, <1>5
  <2> QED
    BY <1>4, <2>2, <2>3, <2>4, <2>5
<1>8. /\ Len(g.indices) = array[m] /\ \A j \in 0..array[m] : Due(g, j) = Due(f, j)
  <2> DEFINE x == array[m]  t == f.indices
  <2>1. CASE InArray(f)
    <3>1. t \in Seq(Nat) /\ x \in Nat /\ Len(t) = x + 1 /\ t # <<>> /\ Len(t) - 1 = x
      <4>1. t \in Seq(Nat) /\ x \in Nat /\ Len(t) = x + 1
        BY <1>3, <1>7, <2>1
      <4> HIDE DEF t, x
      <4> QED
        BY <4>1
    <3>2. g.indices = SubSeq(t, 1, x) /\ g.index = t[x + 1]
      BY <2>1, <3>1 DEF Front, Last
    <3> HIDE DEF x, t
    <3>3. Len(g.indices) = x /\ \A j \in 1..x : g.indices[j] = t[j]
      BY <3>1, <3>2
    <3>4. ASSUME NEW j \in 0..x PROVE Due(g, j) = Due(f, j)
      <4>1. j # Len(t) /\ (j # x => j + 1 \in 1..x)
        BY <3>1
      <4> QED
        BY <3>2, <3>3, <4>1 DEF Due, t
    <3> QED
      BY <3>3, <3>4 DEF x
  <2>2. CASE ~InArray(f)
    <3>1. g.indices = f.indices /\ g.index = f.index
      BY <2>2
    <3> QED
      BY <1>7, <2>2, <3>1 DEF Due
  <2> QED
    BY <2>1, <2>2
<1>9. ASSUME NEW j \in 0..d PROVE ArrayAt(g, j) <=> ArrayAt(f, j)
  <2>1. j # Len(f.docs)
    BY <1>5
  <2>2. CASE j = d
    <3>1. InArray(g) <=> g.state = "ArraySpecValue"
      BY <1>5 DEF InArray, Rests
    <3> QED
      BY <1>5, <2>1, <2>2, <3>1 DEF ArrayAt
  <2>3. CASE j # d
    <3>1. j + 1 \in 1..d
      BY <1>5, <2>3
    <3> QED
      BY <1>5, <2>1, <2>3, <3>1 DEF ArrayAt
  <2> QED
    BY <2>2, <2>3
<1>10. AtTop(s2, call, depth, array, m, Len(s2))
  BY <1>2, <1>5, <1>7, <1>8 DEF AtTop
<1>11. ASSUME NEW i \in 0..m
       PROVE  /\ call[i] <= Len(s2)
              /\ call[i] = Len(s2) => depth[i] <= Len(g.docs) /\ array[i] <= Len(g.indices)
  <2>1. i \in 0..n /\ m \in 0..n
    BY <1>6
  <2>2. call[i] \in 1..Len(s) /\ depth[i] \in Nat /\ array[i] \in Nat
    BY <1>1, <2>1 DEF Levels
  <2>3. \A x, y \in 0..n : x < y /\ call[x] = call[y] => depth[x] < depth[y] /\ array[x] <= array[y]
    BY <1>1 DEF Levels
  <2>4. ASSUME call[i] = Len(s) PROVE depth[i] <= d /\ array[i] <= array[m]
    <3>1. CASE i = m
      BY <1>5, <1>7, <3>1
    <3>2. CASE i # m
      <4>1. i < m
        BY <1>6, <3>2
      <4> QED
        BY <1>5, <1>7, <2>1, <2>2, <2>3, <2>4, <4>1
    <3> QED
      BY <3>1, <3>2
  <2> QED
    BY <1>2, <1>5, <1>8, <2>2, <2>4
<1>12. /\ Len(s2) \in 1..Len(s) /\ \A c \in 1..(Len(s2) - 1) : s2[c] = s[c]
       /\ f = s[Len(s2)] /\ g = s2[Len(s2)]
  BY <1>2
<1>13. Shrunk(s[Len(s2)], s2[Len(s2)])
  BY <1>5, <1>7, <1>8, <1>9, <1>12 DEF Shrunk
<1> HIDE DEF m
<1>14. Describes(s2, m, Upto(next, m))
  <2>1. Tells(s, n, next, call, depth, array) /\ next \in [0..n -> Int]
    BY <1>1, <1>2 DEF Tells
  <2>2. Inner(s2, m, call, depth, array)
    BY <1>10, <1>11, <1>12 DEF Inner
  <2>3. Left(s, s2)
    BY <1>12, <1>13 DEF Left
  <2>4. m \in 0..n
    BY <1>6
  <2> QED
    BY <2>1, <2>2, <2>3, <2>4, PrefixDescribes
<1> QED
  BY <1>6, <1>14 DEF m

\* An embedded array is begun.
LEMMA EnterDescribes ==
  ASSUME NEW s, NEW n, NEW next, Describes(s, n, next),
         NEW g, g.docs = <<>>, g.indices = <<>>, g.index = 0,
         NEW s2, Len(s2) = Len(s) + 1, s2[Len(s) + 1] = g, \A c \in 1..Len(s) : s2[c] = s[c]
  PROVE  Describes(s2, n + 1, OneDeeper(next, n, IF InArray(g) THEN 0 ELSE -1))
<1>1. PICK call, depth, array :
        /\ Levels(s, n, call, depth, array)
        /\ \A i \in 0..n : next[i] = PlaceOf(s, call, depth, array, i)
  BY DEF Describes, Tells
<1> DEFINE k == Len(s) + 1
           call2 == [i \in 0..(n + 1) |-> IF i = n + 1 THEN k ELSE call[i]]
           depth2 == [i \in 0..(n + 1) |-> IF i = n + 1 THEN 0 ELSE depth[i]]
           array2 == [i \in 0..(n + 1) |-> IF i = n + 1 THEN 0 ELSE array[i]]
           new == IF InArray(g) THEN 0 ELSE -1
           next2 == OneDeeper(next, n, new)
<1>2. n \in Nat /\ Len(s) \in Nat /\ Len(s) \in 1..Len(s) /\ next \in [0..n -> Int]
  BY <1>1, LevelsAre DEF Describes
<1>3. /\ k \in Nat /\ k \in 1..k /\ k > 1 /\ k - 1 = Len(s) /\ Len(g.docs) = 0 /\ Len(g.indices) = 0
      /\ \A c \in 1..Len(s) : c \in 1..k /\ c # k
  BY <1>2
<1>4. \A i \in 0..n : i \in 0..(n + 1) /\ i # n + 1
  BY <1>2
<1>5. \A i \in 0..n : /\ call[i] \in 1..Len(s) /\ depth[i] \in Nat /\ array[i] \in Nat
                      /\ depth[i] <= Len(s[call[i]].docs) /\ array[i] <= Len(s[call[i]].indices)
                      /\ depth[i] <= i /\ call[i - depth[i]] = call[i] /\ depth[i - depth[i]] = 0
                      /\ depth[i] = 0 => array[i] = 0
  BY <1>1 DEF Levels
<1>6. /\ n + 1 \in 0..(n + 1) /\ n \in 0..n /\ 0 \in 0..n
      /\ \A i \in 0..(n + 1) : i = n + 1 \/ i \in 0..n
      /\ \A i \in 1..(n + 1) : i = n + 1 \/ (i \in 1..n /\ i \in 0..n /\ i - 1 \in 0..n)
  BY <1>2
<1>7. /\ call2 \in [0..(n + 1) -> 1..k] /\ depth2 \in [0..(n + 1) -> Nat]
      /\ array2 \in [0..(n + 1) -> Nat]
      /\ call2[n + 1] = k /\ depth2[n + 1] = 0 /\ array2[n + 1] = 0
      /\ \A i \in 0..n : call2[i] = call[i] /\ depth2[i] = depth[i] /\ array2[i] = array[i]
  <2> HIDE DEF k
  <2> QED
    BY <1>3, <1>4, <1>5, <1>6
<1> HIDE DEF k, call2, depth2, array2
<1>8. Len(s2) = k /\ s2[k] = g
  BY DEF k
<1>9. AtTop(s2, call2, depth2, array2, n + 1, k)
  BY <1>3, <1>7, <1>8 DEF AtTop
<1>10. ASSUME NEW i \in 0..(n + 1)
       PROVE  /\ depth2[i] <= Len(s2[call2[i]].docs) /\ array2[i] <= Len(s2[call2[i]].indices)
              /\ depth2[i] <= i /\ call2[i - depth2[i]] = call2[i] /\ depth2[i - depth2[i]] = 0
              /\ depth2[i] = 0 => array2[i] = 0
  <2>1. CASE i = n + 1
    <3>1. i - 0 = i /\ 0 <= i /\ 0 <= 0
      BY <1>2, <2>1
    <3> QED
      BY <1>3, <1>7, <1>8, <2>1, <3>1
  <2>2. CASE i \in 0..n
    <3>1. i - depth[i] \in 0..n
      <4> DEFINE x == depth[i]
      <4>1. x \in Nat /\ x <= i
        BY <1>5, <2>2
      <4> HIDE DEF x
      <4>2. i - x \in 0..n
        BY <1>2, <2>2, <4>1
      <4> QED
        BY <4>2 DEF x
    <3>2. s2[call[i]] = s[call[i]]
      BY <1>5, <2>2
    <3>3. /\ depth[i] <= Len(s[call[i]].docs) /\ array[i] <= Len(s[call[i]].indices)
          /\ depth[i] <= i /\ call[i - depth[i]] = call[i] /\ depth[i - depth[i]] = 0
          /\ depth[i] = 0 => array[i] = 0
      BY <1>5, <2>2
    <3>4. /\ call2[i] = call[i] /\ depth2[i] = depth[i] /\ array2[i] = array[i]
          /\ call2[i - depth[i]] = call[i - depth[i]] /\ depth2[i - depth[i]] = depth[i - depth[i]]
      BY <1>7, <2>2, <3>1
    <3> QED
      BY <3>2, <3>3, <3>4
  <2> QED
    BY <1>6, <2>1, <2>2
<1>11. ASSUME NEW i \in 1..(n + 1)
       PROVE  /\ depth2[i] = 0 => call2[i] > 1 /\ AtTop(s2, call2, depth2, array2, i - 1, call2[i] - 1)
              /\ depth2[i] > 0 =>
                   /\ call2[i - 1] = call2[i] /\ depth2[i - 1] = depth2[i] - 1
                   /\ array2[i] = IF ArrayAt(s2[call2[i]], depth2[i]) THEN array2[i - 1] + 1
                                  ELSE array2[i - 1]
  <2>1. CASE i = n + 1
    <3>1. i - 1 = n /\ ~(0 > 0)
      BY <1>2, <2>1
    <3>2. AtTop(s, call, depth, array, n, Len(s))
      BY <1>1 DEF Levels
    <3>3. AtTop(s2, call2, depth2, array2, n, Len(s))
      BY <1>2, <1>6, <1>7, <3>2 DEF AtTop
    <3> QED
      BY <1>3, <1>7, <2>1, <3>1, <3>3
  <2>2. CASE i \in 1..n
    <3>1. i \in 0..n /\ i - 1 \in 0..n
      BY <1>2, <2>2
    <3>2. CASE depth[i] = 0
      <4>1. call[i] > 1 /\ AtTop(s, call, depth, array, i - 1, call[i] - 1)
        BY <1>1, <2>2, <3>2 DEF Levels
      <4>2. call[i] - 1 \in 1..Len(s)
        <5> DEFINE c == call[i]
        <5>1. c \in 1..Len(s) /\ c > 1
          BY <1>5, <3>1, <4>1
        <5> HIDE DEF c
        <5>2. c - 1 \in 1..Len(s)
          BY <1>2, <5>1
        <5> QED
          BY <5>2 DEF c
      <4>3. AtTop(s2, call2, depth2, array2, i - 1, call2[i] - 1)
        BY <1>7, <3>1, <4>1, <4>2 DEF AtTop
      <4> QED
        BY <1>7, <3>1, <3>2, <4>1, <4>3
    <3>3. CASE depth[i] # 0
      <4>1. depth[i] > 0
        BY <1>5, <3>1, <3>3
      <4>2. /\ call[i - 1] = call[i] /\ depth[i - 1] = depth[i] - 1
            /\ array[i] = IF ArrayAt(s[call[i]], depth[i]) THEN array[i - 1] + 1 ELSE array[i - 1]
        BY <1>1, <2>2, <4>1 DEF Levels
      <4>3. s2[call[i]] = s[call[i]]
        BY <1>5, <3>1
      <4> QED
        BY <1>7, <3>1, <3>3, <4>2, <4>3
    <3> QED
      BY <3>2, <3>3
  <2> QED
    BY <1>6, <2>1, <2>2
<1>12. ASSUME NEW i \in 0..(n + 1), NEW j \in 0..(n + 1), i < j, call2[i] = call2[j]
       PROVE  depth2[i] < depth2[j] /\ array2[i] <= array2[j]
  <2>1. i \in 0..n
    BY <1>2, <1>12
  <2>2. j # n + 1
    BY <1>3, <1>5, <1>7, <1>12, <2>1
  <2>3. \A x, y \in 0..n : x < y /\ call[x] = call[y] => depth[x] < depth[y] /\ array[x] <= array[y]
    BY <1>1 DEF Levels
  <2> QED
    BY <1>6, <1>7, <1>12, <2>1, <2>2, <2>3
<1>13. n + 1 \in Nat /\ call2[0] = 1
  BY <1>1, <1>2, <1>6, <1>7 DEF Levels
<1>14. Levels(s2, n + 1, call2, depth2, array2)
  BY <1>3, <1>7, <1>8, <1>9, <1>10, <1>11, <1>12, <1>13 DEF Levels
<1>15. ASSUME NEW i \in 0..n
       PROVE  PlaceOf(s2, call2, depth2, array2, i) = next[i]
  <2>1. s2[call[i]] = s[call[i]]
    BY <1>5
  <2> QED
    BY <1>1, <1>7, <2>1 DEF PlaceOf
<1>16. PlaceOf(s2, call2, depth2, array2, n + 1) = new
  BY <1>3, <1>7, <1>8 DEF PlaceOf, ArrayAt, Due
<1>17. new \in Int
  OBVIOUS
<1> HIDE DEF new
<1>18. /\ next2 \in [0..(n + 1) -> Int] /\ next2[n + 1] = new
       /\ \A i \in 0..n : next2[i] = next[i]
  <2>1. next2 = [i \in 0..(n + 1) |-> IF i = n + 1 THEN new ELSE next[i]]
    BY DEF OneDeeper
  <2> QED
    BY <1>2, <1>4, <1>6, <1>17, <2>1
<1> HIDE DEF next2
<1>19. \A i \in 0..(n + 1) : next2[i] = PlaceOf(s2, call2, depth2, array2, i)
  BY <1>6, <1>15, <1>16, <1>18
<1>20. Describes(s2, n + 1, next2)
  BY <1>13, <1>14, <1>18, <1>19 DEF Describes, Tells
<1> QED
  BY <1>20 DEF next2, new

\* The call for an embedded array comes to its end, which may be early: then some
\* of its levels are still open.
LEMMA LeaveDescribes ==
  ASSUME NEW s, AllShaped(s), NEW n, NEW next, Describes(s, n, next), Len(s) > 1,
         NEW s2, Len(s2) = Len(s) - 1, \A c \in 1..(Len(s2) - 1) : s2[c] = s[c],
         Shrunk(s[Len(s2)], s2[Len(s2)]), s2[Len(s2)].docs = s[Len(s2)].docs,
         s2[Len(s2)].indices = s[Len(s2)].indices
  PROVE  \E m \in Nat : m < n /\ Describes(s2, m, Upto(next, m))
<1>1. PICK call, depth, array : Tells(s, n, next, call, depth, array)
  BY DEF Describes
<1>2. Levels(s, n, call, depth, array)
  BY <1>1 DEF Tells
<1> DEFINE k == Len(s)  l == Len(s2)  x == n - depth[n]  m == x - 1
<1>3. /\ n \in Nat /\ k \in Nat /\ next \in [0..n -> Int] /\ call[n] = k /\ call[0] = 1
      /\ n \in 0..n /\ depth[n] \in Nat
  BY <1>2, LevelsAre DEF Describes
<1>4. /\ l \in 1..k /\ l = k - 1 /\ k \in 1..k
  BY <1>3
<1>5. depth[n] <= n /\ call[x] = k /\ depth[x] = 0
  BY <1>2, <1>3 DEF Levels
<1>6. x \in 0..n /\ x # 0 /\ x \in 1..n
  <2> DEFINE d == depth[n]
  <2>1. d \in Nat /\ d <= n /\ x = n - d
    BY <1>3, <1>5
  <2>2. x # 0
    BY <1>3, <1>5
  <2> HIDE DEF d, x
  <2> QED
    BY <1>3, <2>1, <2>2
<1> HIDE DEF x
<1>7. m \in Nat /\ m < n /\ m \in 0..n /\ m < x
  BY <1>3, <1>6
<1>8. AtTop(s, call, depth, array, m, l)
  <2>1. depth[x] = 0 => call[x] > 1 /\ AtTop(s, call, depth, array, x - 1, call[x] - 1)
    BY <1>2, <1>6 DEF Levels
  <2> QED
    BY <1>4, <1>5, <2>1
<1> HIDE DEF m
<1>9. Inner(s2, m, call, depth, array)
  <2>1. AtTop(s2, call, depth, array, m, l)
    BY <1>8 DEF AtTop
  <2>2. ASSUME NEW i \in 0..m
        PROVE  /\ call[i] <= l
               /\ call[i] = l => depth[i] <= Len(s2[l].docs) /\ array[i] <= Len(s2[l].indices)
    <3>1. i \in 0..n /\ i < x
      BY <1>3, <1>6, <1>7
    <3>2. /\ call[i] \in 1..k /\ depth[i] \in Nat
          /\ depth[i] <= Len(s[call[i]].docs) /\ array[i] <= Len(s[call[i]].indices)
      BY <1>2, <3>1 DEF Levels
    <3>3. i < x /\ call[i] = call[x] => depth[i] < depth[x]
      BY <1>2, <1>6, <3>1 DEF Levels
    <3>4. call[i] # k
      BY <1>5, <3>1, <3>2, <3>3
    <3>5. call[i] <= l
      BY <1>3, <1>4, <3>2, <3>4
    <3> QED
      BY <3>2, <3>5
  <2> QED
    BY <2>1, <2>2 DEF Inner
<1>10. Left(s, s2)
  BY <1>4 DEF Left
<1>11. Describes(s2, m, Upto(next, m))
  BY <1>1, <1>3, <1>7, <1>9, <1>10, PrefixDescribes
<1> QED
  BY <1>7, <1>11

-----------------------------------------------------------------------------
(* The same levels in the document. *)

\* Every open array has as many elements as its level has counted.
Counts(b, n, next) ==
  \A i \in 1..n : \A p \in DOMAIN b.data :
    IsSub(b, p) /\ b.stack[i] = Body(b, p) =>
      next[i] = IF b.data[p].type = "ARRAY" THEN Cardinality(Kids(b, p)) ELSE -1

Numbered(b) ==
  \A p \in DOMAIN b.data : b.data[p].type = "ARRAY" =>
    \A q \in Kids(b, p) :
      b.data[q].key = ArrayKeyString(Cardinality({r \in Kids(b, p) : r < q}))

LEMMA KidsFinite ==
  ASSUME NEW b, BuilderOK(b), b.finished = FALSE, NEW p
  PROVE  IsFiniteSet(Kids(b, p)) /\ Cardinality(Kids(b, p)) \in Nat
<1> DEFINE x == b.cur
<1>1. x \in Nat /\ DOMAIN b.data \subseteq Nat /\ \A q \in DOMAIN b.data : q < x
  BY Lying
<1>2. Kids(b, p) \subseteq 0..x
  BY <1>1 DEF Kids
<1> HIDE DEF x
<1>3. 0 \in Int /\ x \in Int
  BY <1>1
<1>4. IsFiniteSet(0..x)
  BY <1>3, FS_Interval
<1> QED
  BY <1>2, <1>4, FS_Subset, FS_CardinalityType

LEMMA GainsNumbered ==
  ASSUME NEW b, BuilderOK(b), b.finished = FALSE, NEW c, NEW type, NEW name,
         Gains(b, c, type, name), Numbered(b),
         NEW n, n = Len(b.stack), NEW next, Counts(b, n, next),
         next[n] # -1 => name = ArrayKeyString(next[n])
  PROVE  Numbered(c)
<1> DEFINE x == b.cur
<1>1. /\ x \in Nat /\ b.stack \in Seq(Nat) /\ DOMAIN b.data \subseteq Nat /\ x \notin DOMAIN b.data
      /\ \A p \in DOMAIN b.data : p < x
  BY Lying
<1>2. /\ DOMAIN c.data = DOMAIN b.data \cup {x} /\ c.data[x].key = name /\ Kids(c, x) = {}
      /\ \A p \in DOMAIN b.data :
           /\ c.data[p] = b.data[p]
           /\ Kids(c, p) = IF Innermost(b, p) THEN Kids(b, p) \cup {x} ELSE Kids(b, p)
  BY DEF Gains
<1>3. \A p : Kids(b, p) \subseteq DOMAIN b.data
  BY DEF Kids
<1> HIDE DEF x
<1>4. SUFFICES ASSUME NEW p \in DOMAIN c.data, c.data[p].type = "ARRAY", NEW q \in Kids(c, p)
               PROVE  c.data[q].key = ArrayKeyString(Cardinality({r \in Kids(c, p) : r < q}))
  BY DEF Numbered
<1>5. p \in DOMAIN b.data /\ b.data[p].type = "ARRAY" /\ p # x
  BY <1>1, <1>2, <1>4
<1>6. CASE q \in Kids(b, p)
  <2>1. q \in DOMAIN b.data /\ ~(x < q)
    BY <1>1, <1>3, <1>6
  <2>2. {r \in Kids(c, p) : r < q} = {r \in Kids(b, p) : r < q}
    BY <1>2, <1>5, <2>1
  <2>3. b.data[q].key = ArrayKeyString(Cardinality({r \in Kids(b, p) : r < q}))
    BY <1>5, <1>6 DEF Numbered
  <2> QED
    BY <1>2, <2>1, <2>2, <2>3
<1>7. CASE q \notin Kids(b, p)
  <2>1. Innermost(b, p) /\ q = x
    BY <1>2, <1>4, <1>5, <1>7
  <2>2. {r \in Kids(c, p) : r < q} = Kids(b, p)
    <3>1. \A r \in Kids(b, p) : r < x
      BY <1>1, <1>3
    <3>2. ~(x < x)
      BY <1>1
    <3> QED
      BY <1>2, <1>5, <2>1, <3>1, <3>2
  <2>3. n \in 1..n
    BY <1>1, <2>1 DEF Innermost
  <2>4. next[n] = Cardinality(Kids(b, p))
    BY <1>5, <2>1, <2>3 DEF Counts, Innermost
  <2>5. next[n] # -1
    <3>1. Cardinality(Kids(b, p)) \in Nat
      BY KidsFinite
    <3> QED
      BY <2>4, <3>1
  <2> QED
    BY <1>2, <2>1, <2>2, <2>4, <2>5
<1> QED
  BY <1>6, <1>7

\* An element more in the innermost object, none more in the others.
GainedOne(b, c) == \E type, name : Gains(b, c, type, name)

LEMMA OuterCounts ==
  ASSUME NEW b, BuilderOK(b), b.finished = FALSE, Nested(b), NEW c, GainedOne(b, c),
         NEW next, Counts(b, Len(b.stack), next)
  PROVE  \A i \in 1..Len(b.stack) : \A p \in DOMAIN b.data :
           IsSub(c, p) /\ b.stack[i] = Body(c, p) =>
             OneMore(next, Len(b.stack))[i] =
               IF c.data[p].type = "ARRAY" THEN Cardinality(Kids(c, p)) ELSE -1
<1> DEFINE n == Len(b.stack)  x == b.cur
<1>1. /\ x \notin DOMAIN b.data /\ b.stack \in Seq(Nat) /\ n \in Nat
      /\ \A j \in 1..n : b.stack[j] \in Nat
  <2>1. /\ b.cur \notin DOMAIN b.data /\ b.stack \in Seq(Nat)
        /\ \A j \in 1..Len(b.stack) : b.stack[j] \in Nat
    BY Lying
  <2> QED
    BY <2>1
<1>2. SUFFICES ASSUME NEW i \in 1..n, NEW p \in DOMAIN b.data, IsSub(c, p), b.stack[i] = Body(c, p)
               PROVE  OneMore(next, n)[i] =
                        IF c.data[p].type = "ARRAY" THEN Cardinality(Kids(c, p)) ELSE -1
  OBVIOUS
<1>3. /\ c.data[p] = b.data[p]
      /\ Kids(c, p) = IF Innermost(b, p) THEN Kids(b, p) \cup {x} ELSE Kids(b, p)
  BY DEF Gains, GainedOne
<1>4. IsSub(b, p) /\ b.stack[i] = Body(b, p)
  BY <1>2, <1>3 DEF IsSub, Body
<1>5. next[i] = IF b.data[p].type = "ARRAY" THEN Cardinality(Kids(b, p)) ELSE -1
  BY <1>4 DEF Counts
<1>6. IsFiniteSet(Kids(b, p)) /\ Cardinality(Kids(b, p)) \in Nat /\ x \notin Kids(b, p)
  <2>1. x \notin Kids(b, p)
    BY <1>1 DEF Kids
  <2> QED
    BY <2>1, KidsFinite
<1>7. OneMore(next, n)[i] = IF i = n THEN Later(next[n]) ELSE next[i]
  <2>1. i \in 0..n
    OBVIOUS
  <2> QED
    BY <2>1 DEF OneMore
<1>8. CASE i = n
  <2>1. Innermost(b, p)
    <3>1. b.stack # <<>>
      BY <1>1, <1>8
    <3> QED
      BY <1>4, <1>8, <3>1 DEF Innermost
  <2>2. Cardinality(Kids(c, p)) = Cardinality(Kids(b, p)) + 1
    <3> DEFINE K == Kids(b, p)
    <3>1. Kids(c, p) = K \cup {x}
      BY <1>3, <2>1
    <3>2. IsFiniteSet(K) /\ x \notin K
      BY <1>6
    <3> HIDE DEF K, x
    <3>3. Cardinality(K \cup {x}) = Cardinality(K) + 1
      BY <3>2, FS_AddElement
    <3>4. Cardinality(Kids(c, p)) = Cardinality(K) + 1
      BY <3>1, <3>3
    <3> QED
      BY <3>4 DEF K
  <2> DEFINE count == Cardinality(Kids(b, p))
  <2>3. /\ count \in Nat /\ Cardinality(Kids(c, p)) = count + 1
        /\ next[n] = IF b.data[p].type = "ARRAY" THEN count ELSE -1
    BY <1>5, <1>6, <1>8, <2>2
  <2> HIDE DEF count, n
  <2>4. OneMore(next, n)[i] = Later(next[n])
    BY <1>7, <1>8
  <2>5. CASE b.data[p].type = "ARRAY"
    <3>1. Later(next[n]) = count + 1
      BY <2>3, <2>5 DEF Later
    <3> QED
      BY <1>3, <2>3, <2>4, <2>5, <3>1
  <2>6. CASE b.data[p].type # "ARRAY"
    BY <1>3, <2>3, <2>4, <2>6 DEF Later
  <2> QED
    BY <2>5, <2>6
<1>9. CASE i # n
  <2>1. i < n /\ n \in 1..n
    BY <1>1, <1>9
  <2>2. b.stack[i] < b.stack[n]
    BY <2>1 DEF Nested
  <2>3. ~Innermost(b, p)
    BY <1>1, <1>4, <2>1, <2>2 DEF Innermost
  <2> QED
    BY <1>3, <1>5, <1>7, <1>9, <2>3
<1> QED
  BY <1>8, <1>9

LEMMA ValueCounts ==
  ASSUME NEW b, BuilderOK(b), b.finished = FALSE, Nested(b), NEW c, GainedOne(b, c),
         ~IsSub(c, b.cur), c.stack = b.stack, NEW next, Counts(b, Len(b.stack), next)
  PROVE  Counts(c, Len(b.stack), OneMore(next, Len(b.stack)))
<1>1. \A p \in DOMAIN c.data : IsSub(c, p) => p \in DOMAIN b.data
  BY DEF Gains, GainedOne
<1>2. \A i \in 1..Len(b.stack) : \A p \in DOMAIN b.data :
        IsSub(c, p) /\ b.stack[i] = Body(c, p) =>
          OneMore(next, Len(b.stack))[i] =
            IF c.data[p].type = "ARRAY" THEN Cardinality(Kids(c, p)) ELSE -1
  BY OuterCounts
<1> QED
  BY <1>1, <1>2 DEF Counts

LEMMA SubCounts ==
  ASSUME NEW b, BuilderOK(b), b.finished = FALSE, Nested(b), NEW c,
         NEW type \in {"OBJECT", "ARRAY"}, NEW name, Gains(b, c, type, name),
         c.stack = Append(b.stack, Body(c, b.cur)), NEW next, Counts(b, Len(b.stack), next)
  PROVE  Counts(c, Len(b.stack) + 1, OneDeeper(OneMore(next, Len(b.stack)), Len(b.stack),
                                               IF type = "ARRAY" THEN 0 ELSE -1))
<1> DEFINE x == b.cur  n == Len(b.stack)
           new == IF type = "ARRAY" THEN 0 ELSE -1
           next2 == OneDeeper(OneMore(next, n), n, new)
<1>1. /\ x \in Nat /\ b.stack \in Seq(Nat) /\ n \in Nat /\ x \notin DOMAIN b.data
      /\ \A i \in 1..n : b.stack[i] \in Nat /\ b.stack[i] <= x
      /\ \A p \in DOMAIN b.data : p < x /\ p \in Nat /\ Body(b, p) \in Nat
  <2>1. /\ b.cur \in Nat /\ b.stack \in Seq(Nat) /\ b.cur \notin DOMAIN b.data
        /\ \A i \in 1..Len(b.stack) : b.stack[i] \in Nat /\ b.stack[i] <= b.cur
        /\ DOMAIN b.data \subseteq Nat
        /\ \A p \in DOMAIN b.data : p < b.cur /\ Body(b, p) \in Nat
    BY Lying
  <2> QED
    BY <2>1
<1>2. /\ DOMAIN c.data = DOMAIN b.data \cup {x} /\ c.data[x].type = type /\ Kids(c, x) = {}
      /\ Body(c, x) > x /\ Nested(c) /\ \A p \in DOMAIN b.data : c.data[p] = b.data[p]
  BY DEF Gains
<1>3. /\ \A i \in 1..n : c.stack[i] = b.stack[i]
      /\ c.stack[n + 1] = Body(c, x)
  BY <1>1
<1>4. SUFFICES ASSUME NEW i \in 1..(n + 1), NEW p \in DOMAIN c.data, IsSub(c, p),
                      c.stack[i] = Body(c, p)
               PROVE  next2[i] = IF c.data[p].type = "ARRAY" THEN Cardinality(Kids(c, p)) ELSE -1
  BY DEF Counts
<1>5. i \in 0..(n + 1) /\ (i # n + 1 => i \in 1..n)
  BY <1>1
<1>6. next2[i] = IF i = n + 1 THEN new ELSE OneMore(next, n)[i]
  BY <1>5 DEF OneDeeper
<1>7. \A j \in 1..n : \A q \in DOMAIN b.data :
        IsSub(c, q) /\ b.stack[j] = Body(c, q) =>
          OneMore(next, n)[j] = IF c.data[q].type = "ARRAY" THEN Cardinality(Kids(c, q)) ELSE -1
  <2>1. GainedOne(b, c)
    BY DEF GainedOne
  <2> QED
    BY <2>1, OuterCounts
<1> HIDE DEF x, n, new, next2
<1>8. CASE i = n + 1
  <2>1. p = x
    <3>1. SUFFICES ASSUME p \in DOMAIN b.data PROVE FALSE
      BY <1>2
    <3>2. c.data[p].type # "EOO" /\ x \in Ahead(c) /\ p < x
      BY <1>1, <1>2, <1>4, <3>1 DEF IsSub, Ahead
    <3>3. Body(c, p) <= x
      BY <1>2, <3>2 DEF Nested
    <3> DEFINE y == Body(c, x)  z == Body(c, p)
    <3>4. z = Body(b, p)
      BY <1>2, <3>1 DEF Body
    <3>5. z \in Nat /\ y > x /\ z <= x /\ x \in Nat
      BY <1>1, <1>2, <3>1, <3>3, <3>4
    <3>6. y = z
      BY <1>3, <1>4, <1>8
    <3> HIDE DEF y, z
    <3> QED
      BY <3>5, <3>6
  <2>2. Cardinality(Kids(c, p)) = 0
    BY <1>2, <2>1, FS_EmptySet
  <2> QED
    BY <1>2, <1>6, <1>8, <2>1, <2>2 DEF new
<1>9. CASE i # n + 1
  <2>1. i \in 1..n /\ c.stack[i] = b.stack[i] /\ b.stack[i] \in Nat /\ b.stack[i] <= x
    BY <1>1, <1>3, <1>5, <1>9
  <2>2. p # x
    <3> DEFINE y == Body(c, x)  z == b.stack[i]
    <3>1. y > x /\ z <= x /\ z \in Nat /\ x \in Nat /\ z = Body(c, p)
      BY <1>1, <1>2, <1>4, <2>1
    <3>2. ASSUME p = x PROVE FALSE
      <4>1. y = z
        BY <3>1, <3>2
      <4> HIDE DEF y, z
      <4> QED
        BY <3>1, <4>1
    <3> QED
      BY <3>2
  <2>3. p \in DOMAIN b.data
    BY <1>2, <2>2
  <2>4. b.stack[i] = Body(c, p)
    BY <1>4, <2>1
  <2> QED
    BY <1>4, <1>6, <1>7, <1>9, <2>1, <2>3, <2>4
<1> QED
  BY <1>8, <1>9

LEMMA KeepsCounts ==
  ASSUME NEW b, NEW c, Keeps(b, c), NEW n, NEW next, Counts(b, n, next),
         NEW m \in Nat, n \in Nat, m <= n, \A i \in 1..m : c.stack[i] = b.stack[i]
  PROVE  Counts(c, m, Upto(next, m))
<1>1. SUFFICES ASSUME NEW i \in 1..m, NEW p \in DOMAIN c.data, IsSub(c, p), c.stack[i] = Body(c, p)
               PROVE  Upto(next, m)[i] =
                        IF c.data[p].type = "ARRAY" THEN Cardinality(Kids(c, p)) ELSE -1
  BY DEF Counts
<1>2. i \in 1..n /\ i \in 0..m
  OBVIOUS
<1>3. p \in DOMAIN b.data
  BY <1>1 DEF Keeps, IsSub
<1>4. c.data[p].type = b.data[p].type /\ c.data[p].key = b.data[p].key /\ Kids(c, p) = Kids(b, p)
  BY <1>3 DEF Keeps
<1>5. IsSub(b, p) /\ b.stack[i] = Body(b, p)
  BY <1>1, <1>4 DEF IsSub, Body
<1>6. next[i] = IF b.data[p].type = "ARRAY" THEN Cardinality(Kids(b, p)) ELSE -1
  BY <1>2, <1>3, <1>5 DEF Counts
<1>7. Upto(next, m)[i] = next[i]
  BY <1>2 DEF Upto
<1> QED
  BY <1>4, <1>6, <1>7

LEMMA KeepsNumbered ==
  ASSUME NEW b, NEW c, Keeps(b, c), Numbered(b)
  PROVE  Numbered(c)
<1>1. SUFFICES ASSUME NEW p \in DOMAIN c.data, c.data[p].type = "ARRAY", NEW q \in Kids(c, p)
               PROVE  c.data[q].key = ArrayKeyString(Cardinality({r \in Kids(c, p) : r < q}))
  BY DEF Numbered
<1>2. p \in DOMAIN b.data /\ b.data[p].type = "ARRAY" /\ Kids(c, p) = Kids(b, p)
  BY <1>1 DEF Keeps
<1>3. q \in Kids(b, p) /\ q \in DOMAIN b.data /\ c.data[q].key = b.data[q].key
  BY <1>1, <1>2 DEF Keeps, Kids
<1>4. b.data[q].key = ArrayKeyString(Cardinality({r \in Kids(b, p) : r < q}))
  BY <1>2, <1>3 DEF Numbered
<1> QED
  BY <1>2, <1>3, <1>4

-----------------------------------------------------------------------------
(* The levels of the calls are those of the document, or fewer: a call     *)
(* that ended early left objects open, and the document comes to nothing.  *)

Matches(s, b) ==
  \E n, next :
    /\ n \in Nat /\ Describes(s, n, next) /\ n <= Len(b.stack)
    /\ n = Len(b.stack) => Numbered(b) /\ Counts(b, n, next)

\* The same state with one more element, or with new levels.
LEMMA MatchesSame ==
  ASSUME NEW s, NEW b, Matches(s, b), NEW g, NEW s2, Changed(s, s2, g),
         g.docs = s[Len(s)].docs, g.indices = s[Len(s)].indices, g.index = s[Len(s)].index,
         InArray(g) <=> InArray(s[Len(s)])
  PROVE  Matches(s2, b)
<1>1. PICK n, next :
        /\ n \in Nat /\ Describes(s, n, next) /\ n <= Len(b.stack)
        /\ n = Len(b.stack) => Numbered(b) /\ Counts(b, n, next)
  BY DEF Matches
<1>2. Describes(s2, n, next)
  BY <1>1, SameDescribes
<1> QED
  BY <1>1, <1>2 DEF Matches

\* The key that is due fits.
LEMMA KeyFits ==
  ASSUME NEW s, NEW n, NEW next, Describes(s, n, next)
  PROVE  next[n] # -1 => NextKey(s[Len(s)]) = ArrayKeyString(next[n])
  BY TopIs DEF NextKey

CountedIn(f, g) ==
  /\ g.docs = f.docs /\ g.indices = f.indices /\ g.index = Counted(f)
  /\ InArray(g) <=> InArray(f)

LEMMA MatchesValue ==
  ASSUME NEW s, AllShaped(s), NEW b, BuilderOK(b), b.finished = FALSE, Nested(b), Matches(s, b),
         NEW g, NEW s2, Changed(s, s2, g), CountedIn(s[Len(s)], g),
         NEW c, GainsValue(b, c, NextKey(s[Len(s)])), Clean(c)
  PROVE  Nested(c) /\ Matches(s2, c)
<1> DEFINE f == s[Len(s)]
<1>1. PICK n, next :
        /\ n \in Nat /\ Describes(s, n, next) /\ n <= Len(b.stack)
        /\ n = Len(b.stack) => Numbered(b) /\ Counts(b, n, next)
  BY DEF Matches
<1>2. Describes(s2, n, OneMore(next, n))
  BY <1>1, CountedDescribes DEF CountedIn
<1>3. /\ c.stack = b.stack
      /\ \E type \in Types \ {"OBJECT", "ARRAY"} : Gains(b, c, type, NextKey(f))
  BY DEF GainsValue
<1>4. PICK type \in Types \ {"OBJECT", "ARRAY"} : Gains(b, c, type, NextKey(f))
  BY <1>3
<1>5. Nested(c) /\ GainedOne(b, c) /\ ~IsSub(c, b.cur)
  BY <1>4 DEF Gains, GainedOne, IsSub
<1>6. ASSUME n = Len(b.stack) PROVE Numbered(c) /\ Counts(c, n, OneMore(next, n))
  <2>1. Numbered(b) /\ Counts(b, Len(b.stack), next)
    BY <1>1, <1>6
  <2>2. Counts(c, Len(b.stack), OneMore(next, Len(b.stack)))
    BY <1>3, <1>5, <2>1, ValueCounts
  <2>3. next[n] # -1 => NextKey(f) = ArrayKeyString(next[n])
    BY <1>1, KeyFits
  <2>4. Numbered(c)
    BY <1>4, <1>6, <2>1, <2>3, GainsNumbered
  <2> QED
    BY <1>6, <2>2, <2>4
<1> QED
  BY <1>1, <1>2, <1>3, <1>5, <1>6 DEF Matches

LEMMA Clear ==
  ASSUME NEW b, NEW c, NEW name, GainsValue(b, c, name), Clean(c) PROVE Clean(b)
  BY DEF GainsValue

\* A sub-object is one more level on both sides.
LEMMA SubMatches ==
  ASSUME NEW s, NEW b, BuilderOK(b), b.finished = FALSE, Nested(b),
         NEW n \in Nat, NEW next, Describes(s, n, next), n <= Len(b.stack),
         n = Len(b.stack) => Numbered(b) /\ Counts(b, n, next),
         NEW type \in {"OBJECT", "ARRAY"}, NEW c, Gains(b, c, type, NextKey(s[Len(s)])),
         c.stack = Append(b.stack, Body(c, b.cur)),
         NEW s2, Describes(s2, n + 1, OneDeeper(OneMore(next, n), n,
                                                IF type = "ARRAY" THEN 0 ELSE -1))
  PROVE  Matches(s2, c)
<1> DEFINE deeper == OneDeeper(OneMore(next, n), n, IF type = "ARRAY" THEN 0 ELSE -1)
<1>1. b.stack \in Seq(Nat)
  BY Lying
<1>2. Len(b.stack) \in Nat /\ Len(c.stack) = Len(b.stack) + 1
  BY <1>1
<1>3. ASSUME n + 1 = Len(c.stack) PROVE Numbered(c) /\ Counts(c, n + 1, deeper)
  <2>1. n = Len(b.stack)
    BY <1>2, <1>3
  <2>2. Numbered(b) /\ Counts(b, Len(b.stack), next)
    BY <2>1
  <2>3. Counts(c, Len(b.stack) + 1, OneDeeper(OneMore(next, Len(b.stack)), Len(b.stack),
                                              IF type = "ARRAY" THEN 0 ELSE -1))
    BY <2>2, SubCounts
  <2>4. next[n] # -1 => NextKey(s[Len(s)]) = ArrayKeyString(next[n])
    BY KeyFits
  <2>5. Numbered(c)
    BY <2>1, <2>2, <2>4, GainsNumbered
  <2> QED
    BY <2>1, <2>3, <2>5
<1>4. n + 1 \in Nat /\ n + 1 <= Len(c.stack)
  BY <1>2
<1> HIDE DEF deeper
<1>5. Describes(s2, n + 1, deeper)
  BY DEF deeper
<1> QED
  BY <1>3, <1>4, <1>5 DEF Matches

\* What a started object adds.
Opened(b, c, type, name) ==
  Clean(c) => /\ Clean(b)
              /\ Nested(b) => /\ Gains(b, c, type, name)
                              /\ c.stack = Append(b.stack, Body(c, b.cur))

LEMMA OpensIs ==
  ASSUME NEW b, BuilderOK(b), b.bad = "no", b.finished = FALSE, NEW name \in Seq(Nat)
  PROVE  /\ Opened(b, StartObject(b, name).b, "OBJECT", name)
         /\ Opened(b, StartArray(b, name).b, "ARRAY", name)
<1>1. ASSUME NEW type \in {"OBJECT", "ARRAY"} PROVE Opened(b, StartSub(b, type, name).b, type, name)
  BY StartSubGains DEF Opened
<1> QED
  BY <1>1 DEF StartObject, StartArray

DeeperIn(f, g) ==
  /\ g.docs = Append(f.docs, Resting(f))
  /\ \/ InArray(g) /\ g.indices = Append(f.indices, Counted(f)) /\ g.index = 0
     \/ ~InArray(g) /\ g.indices = f.indices /\ g.index = Counted(f)

LEMMA MatchesOpen ==
  ASSUME NEW s, AllShaped(s), NEW b, BuilderOK(b), b.finished = FALSE, Nested(b), Matches(s, b),
         NEW mid, NEW s1, Changed(s, s1, mid), CountedIn(s[Len(s)], mid), AllShaped(s1),
         NEW g, NEW s2, Changed(s1, s2, g), DeeperIn(s[Len(s)], g),
         NEW c, Opened(b, c, IF InArray(g) THEN "ARRAY" ELSE "OBJECT", NextKey(s[Len(s)])), Clean(c)
  PROVE  Nested(c) /\ Matches(s2, c)
<1> DEFINE f == s[Len(s)]  type == IF InArray(g) THEN "ARRAY" ELSE "OBJECT"
<1>1. PICK n, next :
        /\ n \in Nat /\ Describes(s, n, next) /\ n <= Len(b.stack)
        /\ n = Len(b.stack) => Numbered(b) /\ Counts(b, n, next)
  BY DEF Matches
<1>2. Describes(s1, n, OneMore(next, n))
  BY <1>1, CountedDescribes DEF CountedIn
<1>3. /\ Gains(b, c, type, NextKey(f)) /\ c.stack = Append(b.stack, Body(c, b.cur))
      /\ type \in {"OBJECT", "ARRAY"} /\ (type = "ARRAY" <=> InArray(g))
  BY DEF Opened
<1> HIDE DEF type
<1>4. Describes(s2, n + 1, OneDeeper(OneMore(next, n), n, IF type = "ARRAY" THEN 0 ELSE -1))
  <2> DEFINE more == OneMore(next, n)  h == s1[Len(s1)]
  <2>1. h = mid
    BY DEF Changed
  <2>2. h.docs = f.docs /\ h.indices = f.indices /\ h.index = Counted(f) /\ Resting(h) = Resting(f)
    BY <2>1 DEF CountedIn, Resting
  <2> HIDE DEF h, f, more
  <2>3. /\ g.docs = Append(h.docs, Resting(h))
        /\ \/ InArray(g) /\ g.indices = Append(h.indices, h.index) /\ g.index = 0
           \/ ~InArray(g) /\ g.indices = h.indices /\ g.index = h.index
    BY <2>2 DEF DeeperIn, f
  <2>4. Describes(s1, n, more)
    BY <1>2 DEF more
  <2>5. Describes(s2, n + 1, OneDeeper(more, n, IF InArray(g) THEN 0 ELSE -1))
    BY <2>3, <2>4, PushDescribes DEF h
  <2> QED
    BY <1>3, <2>5 DEF more
<1>5. Nested(c)
  BY <1>3 DEF Gains
<1> QED
  BY <1>1, <1>3, <1>4, <1>5, SubMatches DEF f

\* The call for an embedded array.
Entered(s, s2, g) ==
  /\ g.docs = <<>> /\ g.indices = <<>> /\ g.index = 0
  /\ Len(s2) = Len(s) + 1 /\ s2[Len(s) + 1] = g /\ \A i \in 1..Len(s) : s2[i] = s[i]

LEMMA MatchesEnter ==
  ASSUME NEW s, AllShaped(s), NEW b, BuilderOK(b), b.finished = FALSE, Nested(b), Matches(s, b),
         NEW mid, NEW s1, Changed(s, s1, mid), CountedIn(s[Len(s)], mid),
         NEW g, NEW s2, Entered(s1, s2, g),
         NEW c, Opened(b, c, IF InArray(g) THEN "ARRAY" ELSE "OBJECT", NextKey(s[Len(s)])), Clean(c)
  PROVE  Nested(c) /\ Matches(s2, c)
<1> DEFINE f == s[Len(s)]  type == IF InArray(g) THEN "ARRAY" ELSE "OBJECT"
<1>1. PICK n, next :
        /\ n \in Nat /\ Describes(s, n, next) /\ n <= Len(b.stack)
        /\ n = Len(b.stack) => Numbered(b) /\ Counts(b, n, next)
  BY DEF Matches
<1>2. Describes(s1, n, OneMore(next, n))
  BY <1>1, CountedDescribes DEF CountedIn
<1>3. /\ Gains(b, c, type, NextKey(f)) /\ c.stack = Append(b.stack, Body(c, b.cur))
      /\ type \in {"OBJECT", "ARRAY"} /\ (type = "ARRAY" <=> InArray(g))
  BY DEF Opened
<1> HIDE DEF type
<1>4. Describes(s2, n + 1, OneDeeper(OneMore(next, n), n, IF type = "ARRAY" THEN 0 ELSE -1))
  <2> DEFINE more == OneMore(next, n)
  <2>1. Describes(s1, n, more)
    BY <1>2
  <2> HIDE DEF more
  <2>2. Describes(s2, n + 1, OneDeeper(more, n, IF InArray(g) THEN 0 ELSE -1))
    BY <2>1, EnterDescribes DEF Entered
  <2> QED
    BY <1>3, <2>2 DEF more
<1>5. Nested(c)
  BY <1>3 DEF Gains
<1> QED
  BY <1>1, <1>3, <1>4, <1>5, SubMatches DEF f

\* An object is closed, and with it the innermost level, or more levels.
LEMMA LessMatches ==
  ASSUME NEW s, NEW b, BuilderOK(b), b.bad = "no", b.finished = FALSE, Nested(b),
         NEW n \in Nat, NEW next, Describes(s, n, next), n <= Len(b.stack),
         n = Len(b.stack) => Numbered(b) /\ Counts(b, n, next),
         Clean(FinishObject(b).b), NEW s2, NEW m \in Nat, m < n, Describes(s2, m, Upto(next, m))
  PROVE  Clean(b) /\ Nested(FinishObject(b).b) /\ Matches(s2, FinishObject(b).b)
<1> DEFINE c == FinishObject(b).b  k == Len(b.stack) - 1
<1>1. /\ Clean(b) /\ b.stack # <<>> /\ Keeps(b, c) /\ Nested(c)
      /\ k \in Nat /\ Len(c.stack) = k /\ \A i \in 1..k : c.stack[i] = b.stack[i]
  BY FinishObjectKeeps
<1>2. b.stack \in Seq(Nat)
  BY Lying
<1>3. Len(b.stack) \in Nat /\ k = Len(b.stack) - 1
  BY <1>2
<1> HIDE DEF c, k
<1>4. m <= k /\ (m = k => n = Len(b.stack))
  BY <1>3
<1>5. ASSUME m = k PROVE Numbered(c) /\ Counts(c, m, Upto(next, m))
  <2>1. Numbered(b) /\ Counts(b, n, next)
    BY <1>4, <1>5
  <2>2. m <= n /\ \A i \in 1..m : c.stack[i] = b.stack[i]
    BY <1>1, <1>5
  <2>3. Counts(c, m, Upto(next, m))
    BY <1>1, <2>1, <2>2, KeepsCounts
  <2> QED
    BY <1>1, <2>1, <2>3, KeepsNumbered
<1> QED
  BY <1>1, <1>4, <1>5 DEF Matches, c

ClosedIn(f, g) ==
  /\ f.docs # <<>> /\ g.docs = Front(f.docs) /\ g.state = Last(f.docs)
  /\ \/ /\ InArray(f) /\ g.indices = Front(f.indices)
        /\ g.index = (IF f.indices = <<>> THEN f.index ELSE Last(f.indices))
     \/ ~InArray(f) /\ g.indices = f.indices /\ g.index = f.index

LEMMA MatchesClose ==
  ASSUME NEW s, AllShaped(s), NEW b, BuilderOK(b), b.bad = "no", b.finished = FALSE, Nested(b),
         Matches(s, b), NEW g, NEW s2, Changed(s, s2, g), ClosedIn(s[Len(s)], g),
         Clean(FinishObject(b).b)
  PROVE  Clean(b) /\ Nested(FinishObject(b).b) /\ Matches(s2, FinishObject(b).b)
<1>1. PICK n, next :
        /\ n \in Nat /\ Describes(s, n, next) /\ n <= Len(b.stack)
        /\ n = Len(b.stack) => Numbered(b) /\ Counts(b, n, next)
  BY DEF Matches
<1> DEFINE m == n - 1
<1>2. m \in Nat /\ Describes(s2, m, Upto(next, m))
  BY <1>1, PopDescribes DEF ClosedIn
<1>3. m < n
  BY <1>1
<1> HIDE DEF m
<1> QED
  BY <1>1, <1>2, <1>3, LessMatches

LEMMA MatchesLeave ==
  ASSUME NEW s, AllShaped(s), NEW b, BuilderOK(b), b.bad = "no", b.finished = FALSE, Nested(b),
         Matches(s, b), Len(s) > 1,
         NEW s2, Len(s2) = Len(s) - 1, \A i \in 1..(Len(s2) - 1) : s2[i] = s[i],
         Shrunk(s[Len(s2)], s2[Len(s2)]), s2[Len(s2)].docs = s[Len(s2)].docs,
         s2[Len(s2)].indices = s[Len(s2)].indices,
         Clean(FinishObject(b).b)
  PROVE  Clean(b) /\ Nested(FinishObject(b).b) /\ Matches(s2, FinishObject(b).b)
<1>1. PICK n, next :
        /\ n \in Nat /\ Describes(s, n, next) /\ n <= Len(b.stack)
        /\ n = Len(b.stack) => Numbered(b) /\ Counts(b, n, next)
  BY DEF Matches
<1>2. PICK m \in Nat : m < n /\ Describes(s2, m, Upto(next, m))
  BY <1>1, LeaveDescribes
<1> QED
  BY <1>1, <1>2, LessMatches

\* The end of the document.
LEMMA MatchesEnd ==
  ASSUME NEW s, NEW b, BuilderOK(b), b.bad = "no", b.finished = FALSE, Matches(s, b),
         Finish(b).ok, Clean(Finish(b).b), "early" \notin Finish(b).b.slips
  PROVE  Numbered(Finish(b).b) /\ Finish(b).b.stack = <<>>
<1> DEFINE c == Finish(b).b
<1>1. b.stack = <<>> /\ c.stack = <<>> /\ Keeps(b, c)
  BY FinishKeeps
<1>2. PICK n, next :
        /\ n \in Nat /\ Describes(s, n, next) /\ n <= Len(b.stack)
        /\ n = Len(b.stack) => Numbered(b) /\ Counts(b, n, next)
  BY DEF Matches
<1> HIDE DEF c
<1>3. Len(b.stack) = 0
  BY <1>1
<1>4. n = Len(b.stack)
  BY <1>2, <1>3
<1> QED
  BY <1>1, <1>2, <1>4, KeepsNumbered DEF c

-----------------------------------------------------------------------------
(* Steps of the parser.                                                    *)

NoNulls(j) ==
  \A l \in DOMAIN j.lists : \A i \in 1..Len(j.lists[l]) : j.lists[l][i] # <<"null">>

\* What is known of the document b where a program with the job j is, and the calls s.
KeysAt(j, place, s, b) ==
  j.kind = "bcon" /\ NoNulls(j) /\ Clean(b) =>
    /\ place = "build" => s # <<>> /\ Nested(b) /\ Matches(s, b)
    /\ place \in {"insert", "read", "done"} /\ "early" \notin b.slips =>
         Numbered(b) /\ b.stack = <<>>

KeysInv == \A t \in Threads : KeysAt(job[t], pc[t], parse[t], doc[t])

LEMMA KeysChange ==
  ASSUME DocInv, KeysInv, NEW t \in Threads, NEW b, NEW place, Build(t, b, place),
         NEW next, parse' = [parse EXCEPT ![t] = next], KeysAt(job[t], place, next, b)
  PROVE  KeysInv'
<1>1. job' = job /\ doc' = [doc EXCEPT ![t] = b] /\ pc' = [pc EXCEPT ![t] = place]
  BY DEF Build
<1>2. doc'[t] = b /\ \A u \in Threads : u # t => doc'[u] = doc[u]
  BY <1>1 DEF DocInv, DocsOK
<1>3. pc'[t] = place /\ \A u \in Threads : u # t => pc'[u] = pc[u]
  BY <1>1 DEF DocInv, DocsOK
<1>4. parse'[t] = next /\ \A u \in Threads : u # t => parse'[u] = parse[u]
  BY DEF DocInv, ParseOK
<1>5. ASSUME NEW u \in Threads PROVE KeysAt(job'[u], pc'[u], parse'[u], doc'[u])
  <2>1. CASE u = t
    BY <1>1, <1>2, <1>3, <1>4, <2>1
  <2>2. CASE u # t
    BY <1>1, <1>2, <1>3, <1>4, <2>2 DEF KeysInv
  <2> QED
    BY <2>1, <2>2
<1> QED
  BY <1>5 DEF KeysInv

LEMMA FramesShaped ==
  ASSUME NEW s, NEW lists, FramesOK(s, lists) PROVE AllShaped(s)
<1> DEFINE G == {f \in {s[k] : k \in 1..Len(s)} : FrameOK(f, lists)}
<1>1. s \in Seq(G) /\ \A f \in G : FrameOK(f, lists)
  BY DEF FramesOK
<1> HIDE DEF G
<1>2. \A c \in 1..Len(s) : s[c] \in G
  BY <1>1
<1> QED
  BY <1>1, <1>2 DEF AllShaped, Shaped, FrameOK

LEMMA ChangesLast ==
  ASSUME NEW s, NEW lists, FramesOK(s, lists), s # <<>>, NEW g
  PROVE  Changed(s, Append(Front(s), g), g) /\ Append(Front(s), g) # <<>>
<1> DEFINE G == {f \in {s[k] : k \in 1..Len(s)} : FrameOK(f, lists)}
           m == Len(s) - 1
<1>1. s \in Seq(G)
  BY DEF FramesOK
<1> HIDE DEF G
<1>2. Len(s) \in Nat /\ Len(s) # 0
  BY <1>1
<1>3. m \in Nat /\ m <= Len(s) /\ Len(s) = m + 1
  BY <1>2
<1> HIDE DEF m
<1> DEFINE r == SubSeq(s, 1, m)
<1>4. r \in Seq(G) /\ Len(r) = m /\ \A i \in 1..m : r[i] = s[i]
  BY <1>1, <1>2, <1>3
<1>5. Front(s) = r
  BY DEF Front, m
<1> HIDE DEF r
<1> DEFINE s2 == Append(r, g)
<1>6. Len(s2) = m + 1 /\ s2[m + 1] = g /\ (\A i \in 1..m : s2[i] = s[i]) /\ s2 # <<>>
  BY <1>3, <1>4
<1>7. \A c \in 1..Len(s) : c # Len(s) => c \in 1..m
  BY <1>3
<1> HIDE DEF s2
<1>8. Changed(s, s2, g) /\ s2 # <<>>
  BY <1>2, <1>3, <1>6, <1>7 DEF Changed
<1> QED
  BY <1>5, <1>8 DEF s2

LEMMA AtBuild ==
  ASSUME DocInv, KeysInv, NEW t \in Threads, pc[t] = "build", job[t].kind = "bcon"
  PROVE  /\ FramesOK(parse[t], job[t].lists) /\ AllShaped(parse[t])
         /\ BuilderOK(doc[t]) /\ doc[t].finished = FALSE
         /\ NoNulls(job[t]) /\ Clean(doc[t]) =>
              parse[t] # <<>> /\ Nested(doc[t]) /\ Matches(parse[t], doc[t])
<1>1. FramesOK(parse[t], job[t].lists)
  BY DEF DocInv, ParseOK
<1>2. BuilderOK(doc[t]) /\ doc[t].finished = FALSE
  BY DocTyped DEF DocInv
<1>3. KeysAt(job[t], "build", parse[t], doc[t])
  BY DEF KeysInv
<1> QED
  BY <1>1, <1>2, <1>3, FramesShaped DEF KeysAt

\* The calls with the last one moved on.
Onward(t, f) == Append(Front(parse[t]), [f EXCEPT !.at = f.at + 1])

LEMMA ContinueKeys ==
  ASSUME DocInv, KeysInv, NEW t \in Threads, parse[t] # <<>>,
         NEW b, NEW f, Build(t, b, "build"), parse' = [parse EXCEPT ![t] = Onward(t, f)],
         job[t].kind = "bcon" /\ NoNulls(job[t]) /\ Clean(b) => Nested(b) /\ Matches(Onward(t, f), b)
  PROVE  KeysInv'
<1> DEFINE next == Onward(t, f)
<1>1. Build(t, b, "build") /\ parse' = [parse EXCEPT ![t] = next]
  OBVIOUS
<1>2. next # <<>>
  BY ChangesLast DEF Onward, DocInv, ParseOK
<1> HIDE DEF next
<1>3. KeysAt(job[t], "build", next, b)
  BY <1>2 DEF KeysAt, next
<1> QED
  BY <1>1, <1>3, KeysChange

LEMMA ContinueIs ==
  ASSUME NEW t \in Threads, NEW b, NEW f, Continue(t, b, f)
  PROVE  Build(t, b, "build") /\ parse' = [parse EXCEPT ![t] = Onward(t, f)]
  BY DEF Continue, Onward

\* The last call moves on, with its levels.
LEMMA Moves ==
  ASSUME DocInv, NEW t \in Threads, parse[t] # <<>>, NEW f, NEW lists, FrameOK(f, lists)
  PROVE  LET g == [f EXCEPT !.at = f.at + 1]
         IN  /\ Changed(parse[t], Onward(t, f), g)
             /\ g.docs = f.docs /\ g.indices = f.indices /\ g.index = f.index /\ g.state = f.state
<1> DEFINE g == [f EXCEPT !.at = f.at + 1]
<1>1. Changed(parse[t], Append(Front(parse[t]), g), g)
  BY ChangesLast DEF DocInv, ParseOK
<1>2. g.docs = f.docs /\ g.indices = f.indices /\ g.index = f.index /\ g.state = f.state
  BY DEF FrameOK
<1> QED
  BY <1>1, <1>2 DEF Onward

LEMMA KeyKeys ==
  ASSUME DocInv, KeysInv, NEW t \in Threads, BconKey(t) \/ BconSpec(t)
  PROVE  KeysInv'
<1> DEFINE f == Current(t)
           lists == job[t].lists
           e == Element(t)[2]
<1>1. /\ parse[t] # <<>> /\ FrameOK(f, lists) /\ pc[t] = "build" /\ job[t].kind = "bcon"
  BY ReadsOK DEF BconKey, BconSpec, Reads
<1>2. PICK h : /\ Continue(t, doc[t], h) /\ FrameOK(h, lists)
               /\ h.docs = f.docs /\ h.indices = f.indices /\ h.index = f.index
               /\ InArray(h) <=> InArray(f)
  <2>1. CASE BconKey(t)
    <3> DEFINE h == [f EXCEPT !.key = e, !.state = "DocSpecValue"]
    <3>1. Continue(t, doc[t], h) /\ f.state = "Element" /\ e \in Seq(Byte)
      BY <2>1, ReadsOK DEF BconKey, Reads, IsText
    <3> HIDE DEF e, f
    <3>2. /\ h.docs = f.docs /\ h.indices = f.indices /\ h.index = f.index
          /\ h.state = "DocSpecValue"
      BY <1>1 DEF FrameOK
    <3>3. FrameOK(h, lists)
      BY <1>1, <3>1 DEF FrameOK
    <3> QED
      BY <3>1, <3>2, <3>3 DEF InArray
  <2>2. CASE BconSpec(t)
    <3> DEFINE state == IF InArray(f) THEN "ArrayValue" ELSE "DocValue"
               h == [f EXCEPT !.spec = e, !.state = state]
    <3>1. Continue(t, doc[t], h)
      BY <2>2 DEF BconSpec
    <3>2. InArray(f) => state = "ArrayValue"
      OBVIOUS
    <3>3. ~InArray(f) => state = "DocValue"
      OBVIOUS
    <3> HIDE DEF e, f, state
    <3>4. /\ h.docs = f.docs /\ h.indices = f.indices /\ h.index = f.index /\ h.state = state
      BY <1>1 DEF FrameOK
    <3>5. FrameOK(h, lists)
      BY <1>1 DEF FrameOK
    <3>6. InArray(h) <=> InArray(f)
      <4>1. InArray(h) <=> state \in {"ArraySpecValue", "ArrayValue"}
        BY <3>4 DEF InArray
      <4> QED
        BY <3>2, <3>3, <4>1
    <3> QED
      BY <3>1, <3>4, <3>5, <3>6
  <2> QED
    BY <2>1, <2>2
<1>3. ASSUME NoNulls(job[t]), Clean(doc[t])
      PROVE  Nested(doc[t]) /\ Matches(Onward(t, h), doc[t])
  <2> DEFINE g == [h EXCEPT !.at = h.at + 1]  s == parse[t]
  <2>1. Nested(doc[t]) /\ Matches(s, doc[t])
    BY <1>1, <1>3, AtBuild
  <2>2. /\ Changed(s, Onward(t, h), g)
        /\ g.docs = h.docs /\ g.indices = h.indices /\ g.index = h.index /\ g.state = h.state
    BY <1>1, <1>2, Moves
  <2>3. f = s[Len(s)]
    BY DEF Current, Last
  <2> HIDE DEF g, f, s
  <2>4. InArray(g) <=> InArray(s[Len(s)])
    BY <1>2, <2>2, <2>3 DEF InArray
  <2>5. /\ g.docs = s[Len(s)].docs /\ g.indices = s[Len(s)].indices
        /\ g.index = s[Len(s)].index
    BY <1>2, <2>2, <2>3
  <2> QED
    BY <2>1, <2>2, <2>4, <2>5, MatchesSame
<1> QED
  BY <1>1, <1>2, <1>3, ContinueIs, ContinueKeys

LEMMA AfterIs ==
  ASSUME NEW f, NEW lists, FrameOK(f, lists)
  PROVE  FrameOK(AfterValue(f), lists) /\ CountedIn(f, AfterValue(f))
<1> DEFINE rest == Resting(f)  count == Counted(f)
           g == [f EXCEPT !.state = rest, !.spec = NoSpec, !.index = count]
<1>1. AfterValue(f) = g
  BY DEF AfterValue
<1>2. InArray(f) => rest = "ArraySpecValue"
  BY DEF Resting
<1>3. ~InArray(f) => rest = "Element"
  BY DEF Resting
<1> HIDE DEF rest, count
<1>4. g.docs = f.docs /\ g.indices = f.indices /\ g.index = count /\ g.state = rest
  BY DEF FrameOK
<1>5. InArray(g) <=> InArray(f)
  <2>1. InArray(g) <=> rest \in {"ArraySpecValue", "ArrayValue"}
    BY <1>4 DEF InArray
  <2> QED
    BY <1>2, <1>3, <2>1
<1> QED
  BY <1>1, <1>4, <1>5, AfterValueOK DEF CountedIn, count

\* The last call counts its value and moves on.
LEMMA MovesAfter ==
  ASSUME DocInv, NEW t \in Threads, parse[t] # <<>>, FrameOK(Current(t), job[t].lists)
  PROVE  \E g : /\ Changed(parse[t], Onward(t, AfterValue(Current(t))), g)
                /\ CountedIn(parse[t][Len(parse[t])], g)
<1> DEFINE f == Current(t)  after == AfterValue(f)  g == [after EXCEPT !.at = after.at + 1]
           next == Onward(t, after)
<1>1. FrameOK(after, job[t].lists) /\ CountedIn(f, after)
  BY AfterIs
<1> HIDE DEF after
<1>2. /\ Changed(parse[t], next, g)
      /\ g.docs = after.docs /\ g.indices = after.indices /\ g.index = after.index
      /\ g.state = after.state
  BY <1>1, Moves
<1> HIDE DEF g, next
<1>3. f = parse[t][Len(parse[t])]
  BY DEF Current, Last
<1>4. CountedIn(f, g)
  BY <1>1, <1>2 DEF CountedIn, InArray
<1> QED
  BY <1>2, <1>3, <1>4 DEF next, after

LEMMA ValueKeys ==
  ASSUME DocInv, KeysInv, NEW t \in Threads, pc[t] = "build", job[t].kind = "bcon",
         parse[t] # <<>>, NEW b, GainsValue(doc[t], b, NextKey(Current(t))), Build(t, b, "build"),
         parse' = [parse EXCEPT ![t] = Onward(t, AfterValue(Current(t)))]
  PROVE  KeysInv'
<1> DEFINE f == Current(t)  s == parse[t]  s2 == Onward(t, AfterValue(f))
<1>1. FrameOK(f, job[t].lists)
  BY FramesFront DEF Current, DocInv, ParseOK
<1>2. PICK g : Changed(s, s2, g) /\ CountedIn(s[Len(s)], g)
  BY <1>1, MovesAfter
<1>3. f = s[Len(s)]
  BY DEF Current, Last
<1>4. ASSUME NoNulls(job[t]), Clean(b)
      PROVE  Nested(b) /\ Matches(s2, b)
  <2>1. Clean(doc[t])
    BY <1>4, Clear
  <2>2. /\ AllShaped(s) /\ BuilderOK(doc[t]) /\ doc[t].finished = FALSE
        /\ Nested(doc[t]) /\ Matches(s, doc[t])
    BY <1>4, <2>1, AtBuild
  <2>3. GainsValue(doc[t], b, NextKey(s[Len(s)]))
    BY <1>3
  <2> HIDE DEF s, s2, f
  <2> QED
    BY <1>2, <1>4, <2>2, <2>3, MatchesValue
<1> QED
  BY <1>4, ContinueKeys

LEMMA BconAppendedGains ==
  ASSUME NEW b, BuilderOK(b), b.bad = "no", b.finished = FALSE, NEW key \in Seq(Nat),
         NEW spec, NEW v, FixedTypeOf(spec) # "none" \/ v \in Seq(Nat)
  PROVE  GainsValue(b, BconAppended(b, key, spec, v).b, key)
<1> DEFINE type == FixedTypeOf(spec)
           value == CASE type = "BOOL" -> v # 0 [] type = "DATE" -> v * 1000 [] OTHER -> v
           text == IF spec[3] = 120 THEN "SYMBOL" ELSE "STRING"
           id == OidFromString(v, 0)
<1>1. type \in {"none", "LONG", "DOUBLE", "DATE", "INT", "BOOL", "NULL"}
  <2>1. FixedTypeOf(spec) \in {"none", "LONG", "DOUBLE", "DATE", "INT", "BOOL", "NULL"}
    BY Zenon DEF FixedTypeOf
  <2> QED
    BY <2>1
<1>2. BconAppended(b, key, spec, v) =
        IF type # "none" THEN AppendFixed(b, type, key, value)
        ELSE IF spec[3] = 111 THEN AppendOid(b, key, id)
        ELSE AppendStringBase(b, text, key, v)
  BY DEF BconAppended
<1>3. text \in {"STRING", "SYMBOL"}
  OBVIOUS
<1> HIDE DEF type, value, text, id
<1>4. CASE type # "none"
  <2>1. BconAppended(b, key, spec, v) = AppendFixed(b, type, key, value)
    BY <1>2, <1>4
  <2> QED
    BY <1>1, <1>4, <2>1, AppendFixedGains
<1>5. CASE type = "none" /\ spec[3] = 111
  <2>1. BconAppended(b, key, spec, v) = AppendOid(b, key, id)
    BY <1>2, <1>5
  <2> QED
    BY <2>1, AppendOidGains
<1>6. CASE type = "none" /\ spec[3] # 111
  <2>1. BconAppended(b, key, spec, v) = AppendStringBase(b, text, key, v) /\ v \in Seq(Nat)
    BY <1>2, <1>6 DEF type
  <2> QED
    BY <1>3, <2>1, AppendStringBaseGains
<1> QED
  BY <1>4, <1>5, <1>6

LEMMA ScalarKeys ==
  ASSUME DocInv, KeysInv, NEW t \in Threads, BconScalar(t)
  PROVE  KeysInv'
<1> DEFINE f == Current(t)
           v == IF Element(t) = <<"null">> THEN 0 ELSE Element(t)[2]
           b == BconAppended(doc[t], NextKey(f), f.spec, v).b
<1>1. /\ ReadsValue(t) /\ (FixedTypeOf(f.spec) # "none" \/ IsText(t))
      /\ Continue(t, b, AfterValue(f))
  BY DEF BconScalar
<1>2. /\ parse[t] # <<>> /\ FrameOK(f, job[t].lists) /\ BuilderOK(doc[t])
      /\ Element(t)[1] = "text" => Element(t)[2] \in Seq(Byte)
      /\ doc[t].bad = "no" /\ pc[t] = "build"
  BY <1>1, ReadsOK DEF ReadsValue
<1>3. job[t].kind = "bcon"
  BY <1>1 DEF ReadsValue, Reads
<1>4. NextKey(f) \in Seq(Nat)
  BY <1>2, CountedOK
<1>5. IsText(t) => v \in Seq(Nat)
  BY <1>2, TextSeq DEF IsText
<1>6. doc[t].finished = FALSE
  BY <1>2, <1>3, AtBuild
<1>7. GainsValue(doc[t], b, NextKey(f))
  BY <1>1, <1>2, <1>4, <1>5, <1>6, BconAppendedGains
<1> HIDE DEF b
<1> QED
  BY <1>1, <1>2, <1>3, <1>7, ContinueIs, ValueKeys

LEMMA SkipKeys ==
  ASSUME DocInv, KeysInv, NEW t \in Threads, BconSkip(t)
  PROVE  KeysInv'
<1>1. ReadsValue(t) /\ Element(t) = <<"null">> /\ Continue(t, doc[t], AfterValue(Current(t)))
  BY DEF BconSkip, Skipped
<1>2. parse[t] # <<>> /\ FrameOK(Current(t), job[t].lists)
  BY <1>1, ReadsOK DEF ReadsValue
<1>3. Current(t).at \in 1..Len(job[t].lists[Current(t).list]) /\ Current(t).list \in DOMAIN job[t].lists
  BY <1>1, <1>2 DEF ReadsValue, Reads, FrameOK
<1>4. ~NoNulls(job[t])
  BY <1>1, <1>3 DEF NoNulls, Element
<1> QED
  BY <1>1, <1>2, <1>4, ContinueIs, ContinueKeys

LEMMA TakeIdKeys ==
  ASSUME DocInv, KeysInv, NEW t \in Threads, BconTakeId(t)
  PROVE  KeysInv'
<1> DEFINE f == Current(t)
           b == AppendOid(doc[t], NextKey(f), OidBytes(Made(t))).b
<1>1. /\ Build(t, b, "build") /\ parse[t] # <<>> /\ job[t].kind = "bcon"
      /\ doc[t].bad = "no" /\ pc[t] = "build"
      /\ parse' = [parse EXCEPT ![t] = Onward(t, AfterValue(f))]
  BY DEF BconTakeId, Sane, Onward
<1>2. BuilderOK(doc[t]) /\ doc[t].finished = FALSE
  BY <1>1, AtBuild
<1>3. FrameOK(f, job[t].lists)
  BY <1>1, FramesFront DEF Current, DocInv, ParseOK
<1>4. NextKey(f) \in Seq(Nat)
  BY <1>3, CountedOK
<1>5. GainsValue(doc[t], b, NextKey(f))
  BY <1>1, <1>2, <1>4, AppendOidGains
<1> HIDE DEF b
<1> QED
  BY <1>1, <1>5, ValueKeys

LEMMA OpenKeys ==
  ASSUME DocInv, KeysInv, NEW t \in Threads, BconOpenBrace(t) \/ BconOpenBracket(t)
  PROVE  KeysInv'
<1> DEFINE f == Current(t)  s == parse[t]  b == doc[t]  lists == job[t].lists
           count == Counted(f)
           mid == [f EXCEPT !.index = count]
           s1 == Append(Front(s), mid)
<1>1. /\ s # <<>> /\ FrameOK(f, lists) /\ BuilderOK(b) /\ b.bad = "no" /\ pc[t] = "build"
      /\ job[t].kind = "bcon" /\ f = s[Len(s)]
  BY ReadsOK DEF BconOpenBrace, BconOpenBracket, Reads, Current, Last
<1>2. /\ NextKey(f) \in Seq(Nat) /\ count \in Nat
      /\ Append(f.indices, count) \in Seq(Nat) /\ Append(f.docs, Resting(f)) \in Seq(Rests)
  BY <1>1, CountedOK
<1>3. b.finished = FALSE /\ FramesOK(s, lists) /\ AllShaped(s)
  BY <1>1, AtBuild
<1>4. PICK h, c :
        /\ Continue(t, c, h) /\ FrameOK(h, lists) /\ DeeperIn(f, h)
        /\ Opened(b, c, IF InArray(h) THEN "ARRAY" ELSE "OBJECT", NextKey(f))
  <2>1. CASE BconOpenBrace(t)
    <3> DEFINE docs == Append(f.docs, Resting(f))
               h == [f EXCEPT !.docs = docs, !.state = "Element", !.index = count]
               c == StartObject(b, NextKey(f)).b
    <3>1. Continue(t, c, h)
      BY <2>1 DEF BconOpenBrace
    <3>2. Opened(b, c, "OBJECT", NextKey(f))
      BY <1>1, <1>2, <1>3, OpensIs
    <3> HIDE DEF docs, f, count, c
    <3>3. /\ h.docs = docs /\ h.indices = f.indices /\ h.index = count /\ h.state = "Element"
          /\ FrameOK(h, lists)
      BY <1>1, <1>2 DEF FrameOK, docs
    <3> HIDE DEF h
    <3>4. ~InArray(h)
      BY <3>3 DEF InArray
    <3>5. DeeperIn(f, h)
      BY <3>3, <3>4 DEF DeeperIn, docs, count
    <3> QED
      BY <3>1, <3>2, <3>3, <3>4, <3>5
  <2>2. CASE BconOpenBracket(t)
    <3> DEFINE docs == Append(f.docs, Resting(f))  indices == Append(f.indices, count)
               h == [f EXCEPT !.docs = docs, !.state = "ArraySpecValue",
                              !.indices = indices, !.index = 0]
               c == StartArray(b, NextKey(f)).b
    <3>1. Continue(t, c, h)
      BY <2>2 DEF BconOpenBracket
    <3>2. Opened(b, c, "ARRAY", NextKey(f))
      BY <1>1, <1>2, <1>3, OpensIs
    <3> HIDE DEF docs, indices, f, count, c
    <3>3. /\ h.docs = docs /\ h.indices = indices /\ h.index = 0 /\ h.state = "ArraySpecValue"
          /\ FrameOK(h, lists)
      BY <1>1, <1>2 DEF FrameOK, docs, indices
    <3> HIDE DEF h
    <3>4. InArray(h)
      BY <3>3 DEF InArray
    <3>5. DeeperIn(f, h)
      BY <3>3, <3>4 DEF DeeperIn, docs, indices, count
    <3> QED
      BY <3>1, <3>2, <3>3, <3>4, <3>5
  <2> QED
    BY <2>1, <2>2
<1>5. CountedIn(f, mid) /\ FrameOK(mid, lists)
  <2> HIDE DEF f, count
  <2>1. /\ mid.docs = f.docs /\ mid.indices = f.indices /\ mid.index = count
        /\ mid.state = f.state
    BY <1>1 DEF FrameOK
  <2>2. FrameOK(mid, lists)
    BY <1>1, <1>2, FrameKept
  <2> QED
    BY <2>1, <2>2 DEF CountedIn, InArray, count
<1> HIDE DEF mid
<1>6. Changed(s, s1, mid)
  BY <1>1, <1>3, ChangesLast
<1>7. AllShaped(s1)
  BY <1>1, <1>3, <1>5, FramesFront, FramesAppend, FramesShaped
<1> DEFINE s2 == Onward(t, h)  g == [h EXCEPT !.at = h.at + 1]
<1>8. /\ Changed(s, s2, g)
      /\ g.docs = h.docs /\ g.indices = h.indices /\ g.index = h.index /\ g.state = h.state
  BY <1>1, <1>4, Moves
<1> HIDE DEF s1, s2, g
<1>9. Changed(s1, s2, g)
  BY <1>6, <1>8 DEF Changed
<1>10. DeeperIn(f, g) /\ (InArray(g) <=> InArray(h))
  BY <1>4, <1>8 DEF DeeperIn, InArray
<1>11. ASSUME NoNulls(job[t]), Clean(c) PROVE Nested(c) /\ Matches(s2, c)
  <2>1. Clean(b)
    BY <1>4, <1>11 DEF Opened
  <2>2. Nested(b) /\ Matches(s, b)
    BY <1>1, <1>11, <2>1, AtBuild
  <2>3. Opened(b, c, IF InArray(g) THEN "ARRAY" ELSE "OBJECT", NextKey(s[Len(s)]))
    BY <1>1, <1>4, <1>10
  <2>4. CountedIn(s[Len(s)], mid) /\ DeeperIn(s[Len(s)], g)
    BY <1>1, <1>5, <1>10
  <2> HIDE DEF s, b, f
  <2> QED
    BY <1>1, <1>3, <1>6, <1>7, <1>9, <1>11, <2>2, <2>3, <2>4, MatchesOpen
<1> QED
  BY <1>1, <1>4, <1>11, ContinueIs, ContinueKeys DEF s2

LEMMA CloseKeys ==
  ASSUME DocInv, KeysInv, NEW t \in Threads, BconCloseBrace(t) \/ BconCloseBracket(t)
  PROVE  KeysInv'
<1> DEFINE f == Current(t)  s == parse[t]  b == doc[t]  lists == job[t].lists
           c == Closed(f, b)
<1>1. /\ s # <<>> /\ FrameOK(f, lists) /\ BuilderOK(b) /\ b.bad = "no" /\ pc[t] = "build"
      /\ job[t].kind = "bcon" /\ f = s[Len(s)]
  BY ReadsOK DEF BconCloseBrace, BconCloseBracket, Reads, Current, Last
<1>2. b.finished = FALSE /\ FramesOK(s, lists) /\ AllShaped(s)
  BY <1>1, AtBuild
<1>3. /\ Front(f.docs) \in Seq(Rests) /\ Front(f.indices) \in Seq(Nat)
      /\ (IF f.indices = <<>> THEN f.index ELSE Last(f.indices)) \in Nat
  BY <1>1, UncountedOK
<1>4. PICK h : /\ Continue(t, c, h) /\ FrameOK(h, lists)
               /\ f.docs # <<>> => ClosedIn(f, h)
  <2> DEFINE docs == Front(f.docs)
             state == IF f.docs = <<>> THEN f.state ELSE Last(f.docs)
  <2>1. CASE BconCloseBrace(t)
    <3> DEFINE h == [f EXCEPT !.docs = docs, !.state = state]
    <3>1. Continue(t, c, h) /\ f.state = "Element"
      BY <2>1 DEF BconCloseBrace, Reads
    <3>2. ~InArray(f)
      BY <3>1 DEF InArray
    <3>3. f.docs # <<>> => state = Last(f.docs)
      OBVIOUS
    <3> HIDE DEF docs, state, f, c
    <3>4. /\ h.docs = docs /\ h.indices = f.indices /\ h.index = f.index /\ h.state = state
          /\ FrameOK(h, lists)
      BY <1>1, <1>3 DEF FrameOK, docs
    <3> HIDE DEF h
    <3>5. f.docs # <<>> => ClosedIn(f, h)
      BY <3>2, <3>3, <3>4 DEF ClosedIn, docs
    <3> QED
      BY <3>1, <3>4, <3>5
  <2>2. CASE BconCloseBracket(t)
    <3> DEFINE indices == Front(f.indices)
               index == IF f.indices = <<>> THEN f.index ELSE Last(f.indices)
               h == [f EXCEPT !.docs = docs, !.state = state, !.index = index,
                              !.indices = indices]
    <3>1. Continue(t, c, h) /\ f.state = "ArraySpecValue"
      BY <2>2 DEF BconCloseBracket, Reads
    <3>2. InArray(f)
      BY <3>1 DEF InArray
    <3>3. f.docs # <<>> => state = Last(f.docs)
      OBVIOUS
    <3>4. index \in Nat
      BY <1>3
    <3> HIDE DEF docs, state, f, c, indices, index
    <3>5. /\ h.docs = docs /\ h.indices = indices /\ h.index = index /\ h.state = state
          /\ FrameOK(h, lists)
      BY <1>1, <1>3, <3>4 DEF FrameOK, docs, indices
    <3> HIDE DEF h
    <3>6. f.docs # <<>> => ClosedIn(f, h)
      BY <3>2, <3>3, <3>5 DEF ClosedIn, docs, indices, index
    <3> QED
      BY <3>1, <3>5, <3>6
  <2> QED
    BY <2>1, <2>2
<1> DEFINE s2 == Onward(t, h)  g == [h EXCEPT !.at = h.at + 1]
<1>5. /\ Changed(s, s2, g)
      /\ g.docs = h.docs /\ g.indices = h.indices /\ g.index = h.index /\ g.state = h.state
  BY <1>1, <1>4, Moves
<1> HIDE DEF s2, g
<1>6. CASE f.docs = <<>>
  <2> DEFINE r == FinishObject(b).b
  <2>1. c = [r EXCEPT !.bad = "under"]
    BY <1>6 DEF Closed
  <2>2. IsBson(r)
    BY <1>1, FinishObjectBuilt DEF Built, BuilderOK, BufOK
  <2> HIDE DEF r, c
  <2>3. ~Clean(c)
    BY <2>1, <2>2 DEF Clean, IsBson
  <2> QED
    BY <1>1, <1>4, <2>3, ContinueIs, ContinueKeys
<1>7. CASE f.docs # <<>>
  <2>1. c = FinishObject(b).b
    BY <1>7 DEF Closed
  <2>2. ClosedIn(s[Len(s)], g)
    BY <1>1, <1>4, <1>5, <1>7 DEF ClosedIn
  <2> HIDE DEF c
  <2>3. ASSUME NoNulls(job[t]), Clean(c) PROVE Nested(c) /\ Matches(s2, c)
    <3>1. Clean(b)
      BY <1>1, <1>2, <2>1, <2>3, FinishObjectKeeps
    <3>2. Nested(b) /\ Matches(s, b)
      BY <1>1, <2>3, <3>1, AtBuild
    <3> HIDE DEF s, b, f
    <3> QED
      BY <1>1, <1>2, <1>5, <2>1, <2>2, <2>3, <3>2, MatchesClose
  <2> QED
    BY <1>1, <1>4, <2>3, ContinueIs, ContinueKeys DEF s2
<1> QED
  BY <1>6, <1>7

LEMMA EmbedKeys ==
  ASSUME DocInv, KeysInv, NEW t \in Threads, BconEmbed(t)
  PROVE  KeysInv'
<1> DEFINE f == Current(t)  s == parse[t]  b == doc[t]  lists == job[t].lists
           array == f.spec[3] = 65
           c == (IF array THEN StartArray(b, NextKey(f)) ELSE StartObject(b, NextKey(f))).b
           s1 == Onward(t, AfterValue(f))
           g == StartParse(Element(t)[2], IF array THEN "ArraySpecValue" ELSE "Element")
           s2 == Append(s1, g)
<1>1. ReadsValue(t) /\ Build(t, c, "build") /\ parse' = [parse EXCEPT ![t] = s2]
  BY DEF BconEmbed, Onward
<1>2. /\ s # <<>> /\ FrameOK(f, lists) /\ BuilderOK(b) /\ b.bad = "no" /\ pc[t] = "build"
      /\ job[t].kind = "bcon" /\ f = s[Len(s)]
  BY <1>1, ReadsOK DEF ReadsValue, Reads, Current, Last
<1>3. b.finished = FALSE /\ FramesOK(s, lists) /\ AllShaped(s)
  BY <1>2, AtBuild
<1>4. NextKey(f) \in Seq(Nat)
  BY <1>2, CountedOK
<1>5. /\ g.docs = <<>> /\ g.indices = <<>> /\ g.index = 0
      /\ InArray(g) <=> array
  BY DEF StartParse, InArray
<1>6. Opened(b, c, IF array THEN "ARRAY" ELSE "OBJECT", NextKey(f))
  <2>1. /\ Opened(b, StartObject(b, NextKey(f)).b, "OBJECT", NextKey(f))
        /\ Opened(b, StartArray(b, NextKey(f)).b, "ARRAY", NextKey(f))
    BY <1>2, <1>3, <1>4, OpensIs
  <2> QED
    BY <2>1
<1>7. PICK mid : Changed(s, s1, mid) /\ CountedIn(s[Len(s)], mid)
  BY <1>2, MovesAfter
<1> HIDE DEF g
<1>8. Entered(s1, s2, g) /\ s2 # <<>>
  <2> DEFINE after == AfterValue(f)  h == [after EXCEPT !.at = after.at + 1]
  <2>1. FrameOK(after, lists)
    BY <1>2, AfterIs
  <2> HIDE DEF after
  <2>2. FrameOK(h, lists)
    BY <2>1, FrameKept
  <2>3. s1 = Append(Front(s), h)
    BY DEF Onward, after
  <2> HIDE DEF h, s1
  <2>4. FramesOK(s1, lists)
    BY <1>2, <1>3, <2>2, <2>3, FramesFront, FramesAppend
  <2> DEFINE G == {k \in {s1[i] : i \in 1..Len(s1)} : FrameOK(k, lists)}
  <2>5. s1 \in Seq(G)
    BY <2>4 DEF FramesOK
  <2> HIDE DEF G
  <2>6. Len(s2) = Len(s1) + 1 /\ s2[Len(s1) + 1] = g /\ s2 # <<>> /\ \A i \in 1..Len(s1) : s2[i] = s1[i]
    BY <2>5
  <2> HIDE DEF s2
  <2> QED
    BY <1>5, <2>6 DEF Entered
<1> HIDE DEF c, s1, s2
<1>9. ASSUME NoNulls(job[t]), Clean(c) PROVE Nested(c) /\ Matches(s2, c)
  <2>1. Clean(b)
    BY <1>6, <1>9 DEF Opened
  <2>2. Nested(b) /\ Matches(s, b)
    BY <1>2, <1>9, <2>1, AtBuild
  <2>3. Opened(b, c, IF InArray(g) THEN "ARRAY" ELSE "OBJECT", NextKey(s[Len(s)]))
    BY <1>2, <1>5, <1>6
  <2> HIDE DEF s, b, f
  <2> QED
    BY <1>2, <1>3, <1>5, <1>7, <1>8, <1>9, <2>2, <2>3, MatchesEnter
<1>10. KeysAt(job[t], "build", s2, c)
  BY <1>8, <1>9 DEF KeysAt
<1> QED
  BY <1>1, <1>10, KeysChange

LEMMA EndKeys ==
  ASSUME DocInv, KeysInv, NEW t \in Threads, BconEnd(t)
  PROVE  KeysInv'
<1> DEFINE s == parse[t]  b == doc[t]  lists == job[t].lists
           outer == Front(s)
           ok == Current(t).state = Current(t).start
           n == Len(outer)
           failed == [outer[n] EXCEPT !.failed = ~ok]
           s2 == [outer EXCEPT ![n] = failed]
<1>1. /\ s # <<>> /\ b.bad = "no" /\ pc[t] = "build" /\ job[t].kind = "bcon"
  BY DEF BconEnd, Ends, At, Sane
<1>2. /\ BuilderOK(b) /\ b.finished = FALSE /\ FramesOK(s, lists) /\ AllShaped(s)
  BY <1>1, AtBuild
<1>3. /\ FramesOK(outer, lists) /\ Len(outer) = Len(s) - 1
  BY <1>1, <1>2, FramesFront
<1>4. CASE outer # <<>>
  <2> DEFINE c == FinishObject(b).b
  <2>1. Build(t, c, "build") /\ parse' = [parse EXCEPT ![t] = s2]
    <3>1. s2 = [outer EXCEPT ![Len(outer)].failed = ~ok]
      OBVIOUS
    <3> QED
      BY <1>4, <3>1 DEF BconEnd
  <2> DEFINE G == {k \in {s[i] : i \in 1..Len(s)} : FrameOK(k, lists)}
  <2>2. s \in Seq(G) /\ \A k \in G : FrameOK(k, lists)
    BY <1>2 DEF FramesOK
  <2> HIDE DEF G
  <2>3. /\ Len(s) \in Nat /\ n \in Nat /\ n # 0 /\ n = Len(s) - 1 /\ Len(s) > 1 /\ outer \in Seq(G)
        /\ \A i \in 1..n : outer[i] = s[i]
    <3> DEFINE m == Len(s) - 1
    <3>1. Len(s) \in Nat /\ Len(s) # 0
      BY <1>1, <2>2
    <3>2. m \in Nat /\ m <= Len(s) /\ outer = SubSeq(s, 1, m)
      BY <3>1 DEF Front
    <3> HIDE DEF m, outer
    <3>3. outer \in Seq(G) /\ Len(outer) = m /\ \A i \in 1..m : outer[i] = s[i]
      BY <2>2, <3>1, <3>2
    <3>4. m # 0
      BY <1>4, <3>3
    <3>5. m = Len(s) - 1 /\ Len(s) > 1
      <4>1. m = Len(s) - 1
        BY DEF m
      <4>2. m \in Nat /\ m # 0
        BY <3>2, <3>4
      <4> DEFINE k == Len(s)
      <4>3. k \in Nat /\ m = k - 1
        BY <3>1, <4>1
      <4> HIDE DEF k
      <4>4. k > 1
        BY <4>2, <4>3
      <4> QED
        BY <4>3, <4>4 DEF k
    <3>6. n = m
      BY <3>3
    <3> HIDE DEF n
    <3> QED
      BY <3>1, <3>2, <3>3, <3>4, <3>5, <3>6
  <2>4. n \in 1..n /\ n \in 1..Len(s) /\ outer[n] = s[n] /\ s[n] \in G
    BY <2>2, <2>3
  <2> DEFINE top == s[n]
  <2>5. FrameOK(top, lists) /\ failed = [top EXCEPT !.failed = ~ok]
    BY <2>2, <2>4
  <2>6. Shaped(top)
    BY <1>2, <2>4 DEF AllShaped
  <2>7. /\ Len(s2) = Len(s) - 1 /\ s2[n] = failed /\ s2 # <<>>
        /\ \A i \in 1..(n - 1) : s2[i] = s[i]
    <3> HIDE DEF outer, failed, s, n
    <3>1. outer \in [1..Len(outer) -> G] /\ Len(outer) = n
      BY <2>3 DEF n
    <3>2. DOMAIN s2 = 1..n /\ s2[n] = failed /\ \A i \in 1..(n - 1) : s2[i] = s[i]
      BY <2>3, <2>4, <3>1
    <3>3. s2 \in Seq(G \cup {failed})
      <4>1. s2 \in [1..n -> G \cup {failed}]
        BY <3>1
      <4> QED
        BY <2>3, <4>1
    <3>4. Len(s2) = n
      BY <2>3, <3>2, <3>3
    <3> QED
      BY <2>3, <3>2, <3>3, <3>4
  <2> HIDE DEF top, ok, s2
  <2>8. /\ failed.docs = top.docs /\ failed.indices = top.indices /\ failed.index = top.index
        /\ failed.state = top.state
    BY <2>5 DEF FrameOK
  <2> HIDE DEF failed
  <2>9. Shrunk(top, failed)
    BY <2>6, <2>8, ShrunkSelf DEF InArray
  <2>10. /\ Len(s2) = n /\ Shrunk(s[Len(s2)], s2[Len(s2)]) /\ s2[Len(s2)].docs = s[Len(s2)].docs
         /\ s2[Len(s2)].indices = s[Len(s2)].indices
         /\ \A i \in 1..(Len(s2) - 1) : s2[i] = s[i]
    BY <2>3, <2>7, <2>8, <2>9 DEF top
  <2>11. ASSUME NoNulls(job[t]), Clean(c) PROVE Nested(c) /\ Matches(s2, c)
    <3>1. Clean(b)
      BY <1>1, <1>2, <2>11, FinishObjectKeeps
    <3>2. Nested(b) /\ Matches(s, b)
      BY <1>1, <2>11, <3>1, AtBuild
    <3> HIDE DEF n, outer
    <3> QED
      BY <1>1, <1>2, <2>3, <2>7, <2>10, <2>11, <3>2, MatchesLeave
  <2> HIDE DEF c
  <2>12. KeysAt(job[t], "build", s2, c)
    BY <2>7, <2>11 DEF KeysAt
  <2> QED
    BY <2>1, <2>12, KeysChange
<1>5. CASE outer = <<>>
  <2> DEFINE finished == Finish(b)
             c == IF ok THEN finished.b ELSE b
             place == IF ok /\ finished.ok THEN "insert" ELSE "error"
             none == <<>>
  <2>1. Build(t, c, place) /\ parse' = [parse EXCEPT ![t] = none]
    BY <1>5 DEF BconEnd
  <2>2. ASSUME NoNulls(job[t]), Clean(c), place # "error", "early" \notin c.slips
        PROVE  Numbered(c) /\ c.stack = <<>>
    <3>1. c = finished.b /\ finished.ok
      BY <2>2
    <3> HIDE DEF c
    <3>2. Clean(b)
      BY <1>1, <1>2, <2>2, <3>1, FinishKeeps
    <3>3. Matches(s, b)
      BY <1>1, <2>2, <3>2, AtBuild
    <3> QED
      BY <1>1, <1>2, <2>2, <3>1, <3>3, MatchesEnd
  <2>3. place # "build" /\ (place \in {"insert", "read", "done"} => place # "error")
    OBVIOUS
  <2> HIDE DEF c, place, none
  <2>4. KeysAt(job[t], place, none, c)
    BY <2>2, <2>3 DEF KeysAt
  <2> QED
    BY <2>1, <2>4, KeysChange
<1> QED
  BY <1>4, <1>5

LEMMA SameKeys ==
  ASSUME KeysInv, job' = job,
         \A u \in Threads : job[u].kind = "bcon" =>
           /\ doc'[u] = doc[u] /\ parse'[u] = parse[u]
           /\ pc'[u] = pc[u] \/ (pc[u] \in {"insert", "read"} /\ pc'[u] # "build")
  PROVE  KeysInv'
<1>1. ASSUME NEW u \in Threads PROVE KeysAt(job'[u], pc'[u], parse'[u], doc'[u])
  <2>1. KeysAt(job[u], pc[u], parse[u], doc[u])
    BY DEF KeysInv
  <2> QED
    BY <2>1 DEF KeysAt
<1> QED
  BY <1>1 DEF KeysInv

LEMMA BconKeys ==
  ASSUME DocInv, KeysInv, NEW t \in Threads, BconStep(t)
  PROVE  KeysInv'
<1>1. CASE BconNewId(t)
  BY <1>1, SameKeys DEF BconNewId, threadVars
<1>2. CASE BconKey(t) \/ BconSpec(t)
  BY <1>2, KeyKeys
<1>3. CASE BconOpenBrace(t) \/ BconOpenBracket(t)
  BY <1>3, OpenKeys
<1>4. CASE BconCloseBrace(t) \/ BconCloseBracket(t)
  BY <1>4, CloseKeys
<1>5. CASE BconScalar(t) \/ BconSkip(t) \/ BconTakeId(t)
  BY <1>5, ScalarKeys, SkipKeys, TakeIdKeys
<1>6. CASE BconEmbed(t) \/ BconEnd(t)
  BY <1>6, EmbedKeys, EndKeys
<1> QED
  BY <1>1, <1>2, <1>3, <1>4, <1>5, <1>6 DEF BconStep

\* A program of another kind builds another document.
LEMMA OtherKeys ==
  ASSUME DocInv, KeysInv, NEW t \in Threads, job[t].kind # "bcon", UNCHANGED parse,
         NEW b, NEW place, Build(t, b, place)
  PROVE  KeysInv'
<1>1. job' = job /\ \A u \in Threads : u # t => doc'[u] = doc[u] /\ pc'[u] = pc[u]
  BY DEF Build, DocInv, DocsOK
<1> QED
  BY <1>1, SameKeys

LEMMA LuaKeys ==
  ASSUME DocInv, KeysInv, NEW t \in Threads, LuaStep(t), UNCHANGED parse
  PROVE  KeysInv'
<1>1. CASE BadPair(t)
  BY <1>1, OtherKeys DEF BadPair, NextPair
<1>2. CASE ScalarPair(t)
  BY <1>2, OtherKeys DEF ScalarPair, NextPair
<1>3. CASE TablePair(t)
  <2>1. job[t].kind # "bcon" /\ \E b : \E place : Build(t, b, place)
    BY <1>3 DEF TablePair, NextPair
  <2> QED
    BY <2>1, OtherKeys
<1>4. CASE EndOfTable(t)
  BY <1>4, OtherKeys DEF EndOfTable
<1>5. CASE EndOfRoot(t)
  <2>1. CASE Build(t, Finish(doc[t]).b, "insert")
    BY <1>5, <2>1, OtherKeys DEF EndOfRoot
  <2>2. CASE UNCHANGED threadVars
    BY <2>2, SameKeys DEF threadVars
  <2> QED
    BY <1>5, <2>1, <2>2 DEF EndOfRoot
<1>6. CASE NewId(t)
  BY <1>6, OtherKeys DEF NewId
<1>7. CASE ReadScalar(t) \/ ReadTable(t)
  BY <1>7, SameKeys DEF ReadScalar, ReadTable, threadVars
<1>8. CASE ReadEnd(t) \/ ReadError(t)
  <2>1. PICK place \in {"read", "done", "error"} :
          pc' = [pc EXCEPT ![t] = place] /\ UNCHANGED <<job, doc>> /\ pc[t] = "read"
    BY <1>8 DEF ReadEnd, ReadError, ReadsAt, At
  <2>2. pc'[t] = place /\ \A u \in Threads : u # t => pc'[u] = pc[u]
    BY <2>1 DEF DocInv, DocsOK
  <2> QED
    BY <2>1, <2>2, SameKeys
<1> QED
  BY <1>1, <1>2, <1>3, <1>4, <1>5, <1>6, <1>7, <1>8 DEF LuaStep

LEMMA KeysStep == DocInv /\ KeysInv /\ [Next]_vars => KeysInv'
<1> SUFFICES ASSUME DocInv, KeysInv, [Next]_vars PROVE KeysInv'
  OBVIOUS
<1>1. CASE UNCHANGED vars
  BY <1>1, SameKeys DEF vars, threadVars
<1>2. ASSUME NEW t \in Threads, Step(t) PROVE KeysInv'
  <2>1. CASE LuaStep(t) /\ UNCHANGED <<parse, calls>>
    BY <2>1, LuaKeys
  <2>2. CASE BconStep(t)
    BY <2>2, BconKeys
  <2>3. CASE CProgram(t)
    <3>1. ASSUME NEW b, CallC(t, b)
          PROVE  Build(t, b, "build") /\ job[t].kind = "c" /\ UNCHANGED parse
      BY <3>1 DEF CallC
    <3>2. \E b : Build(t, b, "build") /\ job[t].kind = "c" /\ UNCHANGED parse
      BY <2>3, <3>1, Zenon DEF CProgram
    <3> QED
      BY <3>2, OtherKeys
  <2>4. CASE CInsert(t)
    BY <2>4, OtherKeys DEF CInsert
  <2>5. CASE OidCall(t) \/ Inside(t)
    BY <2>5, SameKeys DEF OidCall, Inside, threadVars
  <2>6. CASE OidReturn(t)
    BY <2>6, OtherKeys DEF OidReturn
  <2>7. CASE Insert(t)
    <3>1. PICK place \in {"refused", "read", "done"} :
            pc' = [pc EXCEPT ![t] = place] /\ UNCHANGED <<job, doc, parse>> /\ pc[t] = "insert"
      BY <2>7 DEF Insert, At
    <3>2. pc'[t] = place /\ \A u \in Threads : u # t => pc'[u] = pc[u]
      BY <3>1 DEF DocInv, DocsOK
    <3> QED
      BY <3>1, <3>2, SameKeys
  <2> QED
    BY <1>2, <2>1, <2>2, <2>3, <2>4, <2>5, <2>6, <2>7 DEF Step
<1> QED
  BY <1>1, <1>2 DEF Next, Exit

LEMMA OneLevel ==
  ASSUME NEW f, f.docs = <<>>, f.indices = <<>>, ~InArray(f)
  PROVE  Describes(<<f>>, 0, [i \in 0..0 |-> -1])
<1> DEFINE s == <<f>>
           next == [i \in 0..0 |-> -1]
           call == [i \in 0..0 |-> 1]
           none == [i \in 0..0 |-> 0]
<1>1. Len(s) = 1 /\ s[1] = f /\ Len(f.docs) = 0 /\ Len(f.indices) = 0
  OBVIOUS
<1>2. /\ call \in [0..0 -> 1..1] /\ none \in [0..0 -> Nat] /\ next \in [0..0 -> Int]
      /\ \A i \in 0..0 : i = 0 /\ call[i] = 1 /\ none[i] = 0 /\ next[i] = -1
      /\ 0 \in 0..0
  OBVIOUS
<1> HIDE DEF s, next, call, none
<1>3. AtTop(s, call, none, none, 0, Len(s))
  BY <1>1, <1>2 DEF AtTop
<1>4. Levels(s, 0, call, none, none)
  <2>1. \A i \in 0..0 :
          /\ none[i] <= Len(s[call[i]].docs) /\ none[i] <= Len(s[call[i]].indices)
          /\ none[i] <= i /\ call[i - none[i]] = call[i] /\ none[i - none[i]] = 0
          /\ none[i] = 0 => none[i] = 0
    BY <1>1, <1>2
  <2>2. /\ 0 \in Nat /\ Len(s) \in Nat /\ call \in [0..0 -> 1..Len(s)]
        /\ none \in [0..0 -> Nat] /\ call[0] = 1
    BY <1>1, <1>2
  <2>3. \A i \in 1..0 : FALSE
    OBVIOUS
  <2>4. \A i, j \in 0..0 : ~(i < j)
    BY <1>2
  <2> QED
    BY <1>3, <2>1, <2>2, <2>3, <2>4 DEF Levels
<1>5. \A i \in 0..0 : next[i] = PlaceOf(s, call, none, none, i)
  <2>1. PlaceOf(s, call, none, none, 0) = -1
    BY <1>1, <1>2 DEF PlaceOf, ArrayAt
  <2> QED
    BY <1>2, <2>1
<1>6. Describes(s, 0, next)
  BY <1>2, <1>4, <1>5 DEF Describes, Tells
<1> QED
  BY <1>6 DEF s, next

LEMMA KeysInit == Init => KeysInv
<1> SUFFICES ASSUME Init PROVE KeysInv
  OBVIOUS
<1> DEFINE f == StartParse("main", "Element")
           s == <<f>>
           b == NewBson
<1>1. /\ doc = [t \in Threads |-> b]
      /\ pc = [t \in Threads |-> IF job[t].kind = "none" THEN "done" ELSE "build"]
      /\ parse = [t \in Threads |-> IF job[t].kind = "bcon" THEN s ELSE <<>>]
  BY DEF Init
<1>2. DOMAIN b.data = {} /\ b.stack = <<>>
  BY DEF NewBson, InitBson, NoElements
<1>3. f.docs = <<>> /\ f.indices = <<>> /\ ~InArray(f)
  BY DEF StartParse, InArray
<1> HIDE DEF f, b
<1>4. s # <<>>
  OBVIOUS
<1>5. Nested(b)
  BY <1>2 DEF Nested
<1>6. Matches(s, b)
  <2> DEFINE next == [i \in 0..0 |-> -1]
  <2>1. Describes(s, 0, next)
    BY <1>3, OneLevel
  <2>2. 0 \in Nat /\ Len(b.stack) = 0
    BY <1>2
  <2> HIDE DEF next
  <2>3. Numbered(b) /\ Counts(b, 0, next)
    BY <1>2 DEF Numbered, Counts
  <2> HIDE DEF s
  <2> QED
    BY <2>1, <2>2, <2>3 DEF Matches
<1> HIDE DEF s
<1>7. ASSUME NEW t \in Threads PROVE KeysAt(job[t], pc[t], parse[t], doc[t])
  BY <1>1, <1>4, <1>5, <1>6 DEF KeysAt
<1> QED
  BY <1>7 DEF KeysInv

\* In a document that is whole, what is below a sub-object is what its length says.
LEMMA KidsAre ==
  ASSUME NEW b, b.stack = <<>>, NEW p
  PROVE  Kids(b, p) = Children(b, p)
<1>1. \A q : ~InStack(b, q)
  BY DEF InStack
<1>2. \A q, r : Encloses(b, q, r) <=> Within(b, q, r)
  BY <1>1 DEF Encloses, Within, IsSub
<1> QED
  BY <1>2 DEF Kids, Children

\* The arrays of a document that bson_append_bcon built have the keys 0, 1, 2, ...,
\* whatever its lists hold and however they nest, if nothing was left out.
THEOREM BconNumbersArrays == Spec => []BconArrayKeys
<1>1. Init => DocInv /\ KeysInv
  BY DocInit, KeysInit
<1>2. DocInv /\ KeysInv /\ [Next]_vars => DocInv' /\ KeysInv'
  BY DocStep, KeysStep
<1>3. ASSUME DocInv, KeysInv PROVE BconArrayKeys
  <2>1. ASSUME NEW t \in Threads, job[t].kind = "bcon", Sent(t), "early" \notin doc[t].slips,
               "SIZE_OVERFLOW" \notin doc[t].err, NoNulls(job[t]),
               NEW p \in DOMAIN doc[t].data, doc[t].data[p].type = "ARRAY",
               NEW q \in Children(doc[t], p)
        PROVE  doc[t].data[q].key =
                 ArrayKeyString(Cardinality({r \in Children(doc[t], p) : r < q}))
    <3> DEFINE b == doc[t]
    <3>1. AtOK(job[t], pc[t], b) /\ KeysAt(job[t], pc[t], parse[t], b)
      BY <1>3 DEF DocInv, DocsOK, KeysInv
    <3>2. Clean(b)
      BY <2>1, <3>1 DEF AtOK, Sent, BsonValid, Clean
    <3>3. Numbered(b) /\ b.stack = <<>>
      BY <2>1, <3>1, <3>2 DEF KeysAt, Sent
    <3> HIDE DEF b
    <3>4. Kids(b, p) = Children(b, p)
      BY <3>3, KidsAre
    <3>5. p \in DOMAIN b.data /\ b.data[p].type = "ARRAY" /\ q \in Children(b, p)
      BY <2>1 DEF b
    <3>6. b.data[q].key = ArrayKeyString(Cardinality({r \in Children(b, p) : r < q}))
      BY <3>3, <3>4, <3>5 DEF Numbered
    <3> QED
      BY <3>6 DEF b
  <2> QED
    BY <2>1 DEF BconArrayKeys, NoNulls
<1> QED
  BY <1>1, <1>2, <1>3, PTL DEF Spec
=============================================================================
