--------------------------- MODULE BuilderProofs ---------------------------
(***************************************************************************)
(* What the scans of encoding.c find in a text of any length, and what     *)
(* mongo_validate_ns accepts. Then the builder: it writes inside its       *)
(* buffer, and what it leaves there can be read to the end and has legal   *)
(* keys and texts, for any sizes, texts and calls.                         *)
(***************************************************************************)
EXTENDS BsonBuilder, MongoNs, WellFoundedInduction, TLAPS

-----------------------------------------------------------------------------
(* Induction.                                                              *)

\* A set with 0 in it, and with n + 1 if n is, has all the numbers.
LEMMA Naturals ==
  ASSUME NEW S, 0 \in S, \A n \in Nat : n \in S => n + 1 \in S
  PROVE  Nat \subseteq S
<1> DEFINE R == OpToRel(<, Nat)
           T == Nat \ S
<1>1. SUFFICES ASSUME T # {} PROVE FALSE
  OBVIOUS
<1>2. R = {ss \in Nat \X Nat : ss[1] < ss[2]}
  BY DEF OpToRel
<1>3. IsWellFoundedOn(R, Nat)
  BY NatLessThanWellFounded
<1> HIDE DEF R
<1>4. PICK x \in T : \A y \in T : <<y, x>> \notin R
  BY <1>1, <1>3, WFMin
<1>5. x # 0 /\ x \in Nat
  OBVIOUS
<1>6. x - 1 \in Nat /\ x - 1 \notin S /\ x - 1 < x
  BY <1>5
<1>7. <<x - 1, x>> \in R
  BY <1>2, <1>5, <1>6
<1> QED
  BY <1>4, <1>6, <1>7

\* The places of a text, from the last to the first.
LEMMA Backwards ==
  ASSUME NEW n \in Nat, NEW T,
         \A p \in 1..n : (\A q \in (p + 1)..n : q \in T) => p \in T
  PROVE  1..n \subseteq T
<1> DEFINE S == {k \in Nat : \A p \in 1..n : p > n - k => p \in T}
<1>1. 0 \in S
  OBVIOUS
<1>2. ASSUME NEW k \in Nat, k \in S PROVE k + 1 \in S
  <2>1. SUFFICES ASSUME NEW p \in 1..n, p > n - (k + 1) PROVE p \in T
    OBVIOUS
  <2>2. \A q \in (p + 1)..n : q \in T
    BY <1>2, <2>1
  <2> QED
    BY <2>2
<1> HIDE DEF S
<1>3. n \in S
  BY <1>1, <1>2, Naturals
<1> QED
  BY <1>3 DEF S

\* F computes the value of a function at p from those at greater places.
Descends(n, V, F) ==
  /\ n \in Nat /\ V # {}
  /\ F \in [1..n -> [[1..n -> V] -> V]]
  /\ \A p \in 1..n : \A g, h \in [1..n -> V] :
       (\A q \in (p + 1)..n : g[q] = h[q]) => F[p][g] = F[p][h]

Solves(h, n, V, F) == h \in [1..n -> V] /\ \A p \in 1..n : h[p] = F[p][h]

\* Such a function exists.
LEMMA Descent ==
  ASSUME NEW n, NEW V, NEW F, Descends(n, V, F)
  PROVE  \E h : Solves(h, n, V, F)
<1> USE DEF Descends
<1> DEFINE S == {k \in Nat : \E h \in [1..n -> V] :
                   \A p \in 1..n : p > n - k => h[p] = F[p][h]}
<1>1. 0 \in S
  <2>1. PICK v \in V : TRUE
    OBVIOUS
  <2>2. [p \in 1..n |-> v] \in [1..n -> V]
    OBVIOUS
  <2>3. \A p \in 1..n : ~(p > n - 0)
    OBVIOUS
  <2> QED
    BY <2>2, <2>3
<1>2. ASSUME NEW k \in Nat, k \in S PROVE k + 1 \in S
  <2>1. PICK h \in [1..n -> V] : \A p \in 1..n : p > n - k => h[p] = F[p][h]
    BY <1>2
  <2>2. CASE n - k \notin 1..n
    BY <2>1, <2>2
  <2>3. CASE n - k \in 1..n
    <3> DEFINE m == n - k
               g == [h EXCEPT ![m] = F[m][h]]
    <3>1. F[m][h] \in V
      BY <2>3
    <3>2. g \in [1..n -> V] /\ g[m] = F[m][h] /\ \A q \in 1..n : q # m => g[q] = h[q]
      BY <2>3, <3>1
    <3> HIDE DEF g
    <3>3. ASSUME NEW p \in 1..n, p > n - (k + 1) PROVE g[p] = F[p][g]
      <4>1. \A q \in (p + 1)..n : g[q] = h[q]
        BY <3>2, <3>3
      <4>2. F[p][g] = F[p][h]
        BY <3>2, <4>1
      <4>3. CASE p = m
        BY <3>2, <4>2, <4>3
      <4>4. CASE p # m
        <5>1. p > n - k
          BY <3>3, <4>4
        <5>2. h[p] = F[p][h]
          BY <2>1, <5>1
        <5> QED
          BY <3>2, <4>2, <4>4, <5>2
      <4> QED
        BY <4>3, <4>4
    <3> QED
      BY <3>2, <3>3
  <2> QED
    BY <2>2, <2>3
<1> HIDE DEF S
<1>3. n \in S
  BY <1>1, <1>2, Naturals
<1>4. PICK h \in [1..n -> V] : \A p \in 1..n : p > n - n => h[p] = F[p][h]
  BY <1>3 DEF S
<1>5. Solves(h, n, V, F)
  BY <1>4 DEF Solves
<1> QED
  BY <1>5

-----------------------------------------------------------------------------
(* bson_validate_string.                                                   *)

Verdicts ==
  {v \in [ok : BOOLEAN, err : SUBSET {"NOT_UTF8", "FIELD_HAS_DOT"}] :
     ~v.ok <=> "NOT_UTF8" \in v.err}

\* What is found from p on, if `later` is what is found at the places behind.
Found(s, checkDot, p, later) ==
  IF p > Len(s) THEN [ok |-> TRUE, err |-> {}]
  ELSE LET rest == IF Sound(s, p) THEN later[CharEnd(s, p) + 1]
                                  ELSE [ok |-> FALSE, err |-> {"NOT_UTF8"}]
       IN  IF checkDot /\ s[p] = Dot
             THEN [rest EXCEPT !.err = @ \cup {"FIELD_HAS_DOT"}]
             ELSE rest

LEMMA Trailing ==
  ASSUME NEW c PROVE TrailingBytesForUTF8(c) \in 0..5
  BY DEF TrailingBytesForUTF8

LEMMA NextCharacter ==
  ASSUME NEW s, Len(s) \in Nat, NEW p \in 1..Len(s), Sound(s, p)
  PROVE  CharEnd(s, p) + 1 \in (p + 1)..(Len(s) + 1)
  BY Trailing DEF Sound, CharEnd

LEMMA FoundIs ==
  ASSUME NEW s, Len(s) \in Nat, NEW checkDot, NEW p \in 1..(Len(s) + 1), NEW later,
         \A q \in (p + 1)..(Len(s) + 1) : later[q] \in Verdicts
  PROVE  Found(s, checkDot, p, later) \in Verdicts
<1> DEFINE rest == IF Sound(s, p) THEN later[CharEnd(s, p) + 1]
                                  ELSE [ok |-> FALSE, err |-> {"NOT_UTF8"}]
<1>1. CASE p > Len(s)
  <2>1. Found(s, checkDot, p, later) = [ok |-> TRUE, err |-> {}]
    BY <1>1 DEF Found
  <2> QED
    BY <2>1 DEF Verdicts
<1>2. CASE ~(p > Len(s))
  <2>1. rest \in Verdicts
    <3>1. CASE Sound(s, p)
      BY <1>2, <3>1, NextCharacter
    <3>2. CASE ~Sound(s, p)
      BY <3>2 DEF Verdicts
    <3> QED
      BY <3>1, <3>2
  <2>2. Found(s, checkDot, p, later) =
          IF checkDot /\ s[p] = Dot THEN [rest EXCEPT !.err = @ \cup {"FIELD_HAS_DOT"}] ELSE rest
    BY <1>2 DEF Found
  <2> HIDE DEF rest
  <2>3. [rest EXCEPT !.err = @ \cup {"FIELD_HAS_DOT"}] \in Verdicts
    BY <2>1 DEF Verdicts
  <2> QED
    BY <2>1, <2>2, <2>3
<1> QED
  BY <1>1, <1>2

\* The scan has a verdict at every place, the one that the places behind lead to.
LEMMA ScanIs ==
  ASSUME NEW s, Len(s) \in Nat, NEW checkDot
  PROVE  LET f == Scan(s, checkDot)
         IN  \A p \in 1..(Len(s) + 1) :
               f[p] = Found(s, checkDot, p, f) /\ f[p] \in Verdicts
<1> DEFINE n == Len(s) + 1
           f == Scan(s, checkDot)
           F == [p \in 1..n |-> [h \in [1..n -> Verdicts] |-> Found(s, checkDot, p, h)]]
<1>1. n \in Nat
  OBVIOUS
<1>2. \A p \in 1..n : \A h \in [1..n -> Verdicts] : Found(s, checkDot, p, h) \in Verdicts
  BY FoundIs
<1>3. F \in [1..n -> [[1..n -> Verdicts] -> Verdicts]]
  BY <1>2
<1>4. \A p \in 1..n : \A g, h \in [1..n -> Verdicts] :
        (\A q \in (p + 1)..n : g[q] = h[q]) => F[p][g] = F[p][h]
  <2>1. SUFFICES ASSUME NEW p \in 1..n, NEW g \in [1..n -> Verdicts],
                        NEW h \in [1..n -> Verdicts], \A q \in (p + 1)..n : g[q] = h[q]
                 PROVE  Found(s, checkDot, p, g) = Found(s, checkDot, p, h)
    OBVIOUS
  <2>2. CASE p \in 1..Len(s) /\ Sound(s, p)
    <3>1. g[CharEnd(s, p) + 1] = h[CharEnd(s, p) + 1]
      BY <2>1, <2>2, NextCharacter
    <3> QED
      BY <2>2, <3>1 DEF Found
  <2>3. CASE p \in 1..Len(s) /\ ~Sound(s, p)
    BY <2>3 DEF Found
  <2>4. CASE p \notin 1..Len(s)
    BY <2>4 DEF Found
  <2> QED
    BY <2>2, <2>3, <2>4
<1>5. Verdicts # {}
  <2>1. [ok |-> TRUE, err |-> {}] \in Verdicts
    BY DEF Verdicts
  <2> QED
    BY <2>1
<1>6. PICK h : Solves(h, n, Verdicts, F)
  <2>1. Descends(n, Verdicts, F)
    <3> HIDE DEF n, F
    <3> QED
      BY <1>1, <1>3, <1>4, <1>5 DEF Descends
  <2> HIDE DEF n, F
  <2> QED
    BY <2>1, Descent
<1>7. h = [p \in 1..n |-> Found(s, checkDot, p, h)]
  BY <1>6 DEF Solves
<1>8. f = CHOOSE g : g = [p \in 1..n |-> Found(s, checkDot, p, g)]
  BY DEF Scan, Found
<1>9. f = [p \in 1..n |-> Found(s, checkDot, p, f)]
  BY <1>7, <1>8
<1> HIDE DEF f
<1>10. \A p \in 1..n : f[p] = Found(s, checkDot, p, f)
  BY <1>9
<1> DEFINE T == {p \in 1..n : f[p] \in Verdicts}
<1>11. ASSUME NEW p \in 1..n, \A q \in (p + 1)..n : q \in T PROVE p \in T
  <2>1. Found(s, checkDot, p, f) \in Verdicts
    BY <1>11, FoundIs
  <2> QED
    BY <1>10, <2>1
<1> HIDE DEF T
<1>12. 1..n \subseteq T
  BY <1>1, <1>11, Backwards
<1> QED
  BY <1>10, <1>12 DEF T, f

\* The flags bson_validate_string raises, and that it fails exactly on what is not
\* UTF-8.
KeyFlags == {"NOT_UTF8", "FIELD_HAS_DOT", "FIELD_INIT_DOLLAR"}

Dollared(s) == Len(s) > 0 /\ s[1] = Dollar /\ ~IsDbRef(s)

LEMMA CheckFieldNameIs ==
  ASSUME NEW s, Len(s) \in Nat
  PROVE  LET scan == Scan(s, TRUE)[1]
             r == CheckFieldName(s)
         IN  /\ scan \in Verdicts /\ r.ok = scan.ok
             /\ r.err = scan.err \cup (IF Dollared(s) THEN {"FIELD_INIT_DOLLAR"} ELSE {})
<1> DEFINE scan == Scan(s, TRUE)[1]
<1>1. scan \in Verdicts
  <2>1. 1 \in 1..(Len(s) + 1)
    OBVIOUS
  <2> QED
    BY <2>1, ScanIs, Zenon
<1>2. CheckFieldName(s) =
        [scan EXCEPT !.err = @ \cup (IF Dollared(s) THEN {"FIELD_INIT_DOLLAR"} ELSE {})]
  BY DEF CheckFieldName, ValidateString, Dollared
<1> HIDE DEF scan
<1>3. CheckFieldName(s).ok = scan.ok
  BY <1>1, <1>2 DEF Verdicts
<1>4. CheckFieldName(s).err = scan.err \cup (IF Dollared(s) THEN {"FIELD_INIT_DOLLAR"} ELSE {})
  BY <1>1, <1>2 DEF Verdicts
<1> QED
  BY <1>1, <1>3, <1>4 DEF scan

LEMMA CheckFieldNameFlags ==
  ASSUME NEW s, Len(s) \in Nat
  PROVE  LET r == CheckFieldName(s)
         IN  r.ok \in BOOLEAN /\ r.err \subseteq KeyFlags /\ (~r.ok <=> "NOT_UTF8" \in r.err)
  BY CheckFieldNameIs DEF Verdicts, KeyFlags

LEMMA CheckStringIs ==
  ASSUME NEW s, Len(s) \in Nat
  PROVE  LET scan == Scan(s, FALSE)[1]
             r == CheckString(s)
         IN  scan \in Verdicts /\ r.ok = scan.ok /\ r.err = scan.err
<1> DEFINE scan == Scan(s, FALSE)[1]
<1>1. scan \in Verdicts
  <2>1. 1 \in 1..(Len(s) + 1)
    OBVIOUS
  <2> QED
    BY <2>1, ScanIs, Zenon
<1>2. CheckString(s) = [scan EXCEPT !.err = scan.err \cup {}]
  BY DEF CheckString, ValidateString
<1> HIDE DEF scan
<1>3. CheckString(s).ok = scan.ok /\ CheckString(s).err = scan.err
  BY <1>1, <1>2 DEF Verdicts
<1> QED
  BY <1>1, <1>3 DEF scan

LEMMA CheckStringFlags ==
  ASSUME NEW s, Len(s) \in Nat
  PROVE  LET r == CheckString(s)
         IN  r.ok \in BOOLEAN /\ r.err \subseteq KeyFlags /\ (~r.ok <=> "NOT_UTF8" \in r.err)
  BY CheckStringIs DEF Verdicts, KeyFlags

-----------------------------------------------------------------------------
(* Characters: what IsLegalUTF8 accepts at the length the first byte tells *)
(* is what UTF-8 knows and the few others.                                 *)

IsCharacter(c) == EncodesACodePoint(c) \/ TakenForACharacter(c)

LEMMA TrailingIs ==
  ASSUME NEW c \in Nat
  PROVE  LET n == TrailingBytesForUTF8(c)
         IN  /\ n = 0 <=> c < 192
             /\ n = 1 <=> 192 <= c /\ c < 224
             /\ n = 2 <=> 224 <= c /\ c < 240
             /\ n = 3 <=> 240 <= c /\ c < 248
             /\ n \in 0..5
<1>1. CASE c < 192
  BY <1>1 DEF TrailingBytesForUTF8
<1>2. CASE 192 <= c /\ c < 224
  BY <1>2 DEF TrailingBytesForUTF8
<1>3. CASE 224 <= c /\ c < 240
  BY <1>3 DEF TrailingBytesForUTF8
<1>4. CASE 240 <= c /\ c < 248
  BY <1>4 DEF TrailingBytesForUTF8
<1>5. CASE 248 <= c /\ c < 252
  BY <1>5 DEF TrailingBytesForUTF8
<1>6. CASE 252 <= c
  BY <1>6 DEF TrailingBytesForUTF8
<1> QED
  BY <1>1, <1>2, <1>3, <1>4, <1>5, <1>6

\* The bytes behind the first one.
LEMMA SecondByte ==
  ASSUME NEW c, c[2] \in Nat
  PROVE  (\A i \in 2..2 : c[i] \in 128..191) <=> 128 <= c[2] /\ c[2] <= 191
<1>1. \A i \in 2..2 : i = 2
  OBVIOUS
<1>2. 2 \in 2..2
  OBVIOUS
<1> QED
  BY <1>1, <1>2

LEMMA SecondAndThirdByte ==
  ASSUME NEW c, c[2] \in Nat, c[3] \in Nat
  PROVE  (\A i \in 2..3 : c[i] \in 128..191) <=>
           128 <= c[2] /\ c[2] <= 191 /\ 128 <= c[3] /\ c[3] <= 191
<1>1. \A i \in 2..3 : i = 2 \/ i = 3
  OBVIOUS
<1>2. 2 \in 2..3 /\ 3 \in 2..3
  OBVIOUS
<1> QED
  BY <1>1, <1>2

LEMMA BytesBehindTheFirst ==
  ASSUME NEW c, c[2] \in Nat, c[3] \in Nat, c[4] \in Nat
  PROVE  (\A i \in 2..4 : c[i] \in 128..191) <=>
           /\ 128 <= c[2] /\ c[2] <= 191 /\ 128 <= c[3] /\ c[3] <= 191
           /\ 128 <= c[4] /\ c[4] <= 191
<1>1. \A i \in 2..4 : i = 2 \/ i = 3 \/ i = 4
  OBVIOUS
<1>2. 2 \in 2..4 /\ 3 \in 2..4 /\ 4 \in 2..4
  OBVIOUS
<1> QED
  BY <1>1, <1>2

\* The bytes behind the second.
LEMMA ThirdByte ==
  ASSUME NEW c, c[3] \in Nat
  PROVE  (\A i \in 3..3 : c[i] \in 128..191) <=> 128 <= c[3] /\ c[3] <= 191
<1>1. \A i \in 3..3 : i = 3
  OBVIOUS
<1>2. 3 \in 3..3
  OBVIOUS
<1> QED
  BY <1>1, <1>2

LEMMA ThirdAndFourthByte ==
  ASSUME NEW c, c[3] \in Nat, c[4] \in Nat
  PROVE  (\A i \in 3..4 : c[i] \in 128..191) <=>
           128 <= c[3] /\ c[3] <= 191 /\ 128 <= c[4] /\ c[4] <= 191
<1>1. \A i \in 3..4 : i = 3 \/ i = 4
  OBVIOUS
<1>2. 3 \in 3..4 /\ 4 \in 3..4
  OBVIOUS
<1> QED
  BY <1>1, <1>2

LEMMA OneByte ==
  ASSUME NEW c, Len(c) = 1, c[1] \in Nat
  PROVE  IsCharacter(c) <=> Len(c) = 1 + TrailingBytesForUTF8(c[1]) /\ IsLegalUTF8(c)
<1>1. EncodesACodePoint(c) <=> c[1] <= 127
  BY SMT DEF EncodesACodePoint
<1>2. ~TakenForACharacter(c)
  BY DEF TakenForACharacter
<1>3. IsLegalUTF8(c) <=> (c[1] < 128 \/ c[1] > 193) /\ c[1] <= 244
  BY SMT DEF IsLegalUTF8
<1>4. IsCharacter(c) <=> c[1] <= 127
  BY <1>1, <1>2 DEF IsCharacter
<1> DEFINE n == TrailingBytesForUTF8(c[1])  character == IsCharacter(c)
           legal == IsLegalUTF8(c)
<1>5. /\ n = 0 <=> c[1] < 192
      /\ n = 1 <=> 192 <= c[1] /\ c[1] < 224
      /\ n = 2 <=> 224 <= c[1] /\ c[1] < 240
      /\ n = 3 <=> 240 <= c[1] /\ c[1] < 248
      /\ n \in 0..5
  BY TrailingIs
<1>6. character <=> Len(c) = 1 + n /\ legal
  <2> HIDE DEF n, character, legal
  <2> QED
    BY <1>3, <1>4, <1>5 DEF character, legal
<1> QED
  BY <1>6

LEMMA TwoBytes ==
  ASSUME NEW c, Len(c) = 2, c[1] \in Nat, c[2] \in Nat
  PROVE  IsCharacter(c) <=> Len(c) = 1 + TrailingBytesForUTF8(c[1]) /\ IsLegalUTF8(c)
<1>1. EncodesACodePoint(c) <=> /\ \A i \in 2..2 : c[i] \in 128..191
                               /\ c[1] \in 192..223
                               /\ 128 <= (c[1] - 192) * 64 + (c[2] - 128)
  BY SMT DEF EncodesACodePoint
<1>2. ~TakenForACharacter(c)
  BY DEF TakenForACharacter
<1>3. IsCharacter(c) <=> 194 <= c[1] /\ c[1] <= 223 /\ 128 <= c[2] /\ c[2] <= 191
  BY <1>1, <1>2, SecondByte DEF IsCharacter
<1>4. IsLegalUTF8(c) <=>
              /\ c[2] <= 191
              /\ c[1] = 224 => c[2] >= 160
              /\ c[1] = 240 => c[2] >= 144
              /\ c[1] = 244 => c[2] <= 143
              /\ c[1] \notin {224, 240, 244} => c[2] >= 128
              /\ (c[1] < 128 \/ c[1] > 193) /\ c[1] <= 244
  BY SMT DEF IsLegalUTF8
<1> DEFINE n == TrailingBytesForUTF8(c[1])  character == IsCharacter(c)
           legal == IsLegalUTF8(c)
<1>5. /\ n = 0 <=> c[1] < 192
      /\ n = 1 <=> 192 <= c[1] /\ c[1] < 224
      /\ n = 2 <=> 224 <= c[1] /\ c[1] < 240
      /\ n = 3 <=> 240 <= c[1] /\ c[1] < 248
      /\ n \in 0..5
  BY TrailingIs
<1>6. character <=> Len(c) = 1 + n /\ legal
  <2> HIDE DEF n, character, legal
  <2> QED
    BY <1>3, <1>4, <1>5 DEF character, legal
<1> QED
  BY <1>6

LEMMA ThreeBytes ==
  ASSUME NEW c, Len(c) = 3, c[1] \in Nat, c[2] \in Nat, c[3] \in Nat
  PROVE  IsCharacter(c) <=> Len(c) = 1 + TrailingBytesForUTF8(c[1]) /\ IsLegalUTF8(c)
<1> DEFINE x == (c[1] - 224) * 4096 + (c[2] - 128) * 64 + (c[3] - 128)
<1>1. EncodesACodePoint(c) <=> /\ \A i \in 2..3 : c[i] \in 128..191
                               /\ c[1] \in 224..239
                               /\ 2048 <= x /\ (x < 55296 \/ x > 57343)
  BY SMT DEF EncodesACodePoint
<1>2. EncodesACodePoint(c) <=>
        /\ 128 <= c[2] /\ c[2] <= 191 /\ 128 <= c[3] /\ c[3] <= 191
        /\ 224 <= c[1] /\ c[1] <= 239
        /\ c[1] = 224 => c[2] >= 160
        /\ c[1] = 237 => c[2] <= 159
  BY <1>1, SecondAndThirdByte
<1>3. TakenForACharacter(c) <=> /\ c[1] = 237 /\ 160 <= c[2] /\ c[2] <= 191
                                /\ 128 <= c[3] /\ c[3] <= 191
  BY SMT DEF TakenForACharacter
<1>4. IsCharacter(c) <=>
        /\ 224 <= c[1] /\ c[1] <= 239 /\ 128 <= c[2] /\ c[2] <= 191
        /\ 128 <= c[3] /\ c[3] <= 191 /\ (c[1] = 224 => c[2] >= 160)
  BY <1>2, <1>3 DEF IsCharacter
<1>5. IsLegalUTF8(c) <=>
        /\ \A i \in 3..3 : c[i] \in 128..191
        /\ c[2] <= 191
        /\ c[1] = 224 => c[2] >= 160
        /\ c[1] = 240 => c[2] >= 144
        /\ c[1] = 244 => c[2] <= 143
        /\ c[1] \notin {224, 240, 244} => c[2] >= 128
        /\ (c[1] < 128 \/ c[1] > 193) /\ c[1] <= 244
  BY SMT DEF IsLegalUTF8
<1>6. IsLegalUTF8(c) <=>
        /\ 128 <= c[3] /\ c[3] <= 191 /\ c[2] <= 191
        /\ c[1] = 224 => c[2] >= 160
        /\ c[1] = 240 => c[2] >= 144
        /\ c[1] = 244 => c[2] <= 143
        /\ c[1] \notin {224, 240, 244} => c[2] >= 128
        /\ (c[1] < 128 \/ c[1] > 193) /\ c[1] <= 244
  BY <1>5, ThirdByte
<1> DEFINE n == TrailingBytesForUTF8(c[1])  character == IsCharacter(c)
           legal == IsLegalUTF8(c)
<1>7. /\ n = 0 <=> c[1] < 192
      /\ n = 1 <=> 192 <= c[1] /\ c[1] < 224
      /\ n = 2 <=> 224 <= c[1] /\ c[1] < 240
      /\ n = 3 <=> 240 <= c[1] /\ c[1] < 248
      /\ n \in 0..5
  BY TrailingIs
<1>8. character <=> Len(c) = 1 + n /\ legal
  <2> HIDE DEF n, character, legal
  <2> QED
    BY <1>4, <1>6, <1>7 DEF character, legal
<1> QED
  BY <1>8

LEMMA FourBytes ==
  ASSUME NEW c, Len(c) = 4, c[1] \in Nat, c[2] \in Nat, c[3] \in Nat, c[4] \in Nat
  PROVE  IsCharacter(c) <=> Len(c) = 1 + TrailingBytesForUTF8(c[1]) /\ IsLegalUTF8(c)
<1> DEFINE x == (c[1] - 240) * 262144 + (c[2] - 128) * 4096 + (c[3] - 128) * 64 + (c[4] - 128)
<1>1. EncodesACodePoint(c) <=> /\ \A i \in 2..4 : c[i] \in 128..191
                               /\ c[1] \in 240..247
                               /\ 65536 <= x /\ x <= 1114111
  BY SMT DEF EncodesACodePoint
<1>2. EncodesACodePoint(c) <=>
        /\ 128 <= c[2] /\ c[2] <= 191 /\ 128 <= c[3] /\ c[3] <= 191
        /\ 128 <= c[4] /\ c[4] <= 191
        /\ 240 <= c[1] /\ c[1] <= 244
        /\ c[1] = 240 => c[2] >= 144
        /\ c[1] = 244 => c[2] <= 143
  BY <1>1, BytesBehindTheFirst
<1>3. TakenForACharacter(c) <=>
        /\ c[1] = 244 /\ c[2] < 128
        /\ 128 <= c[3] /\ c[3] <= 191 /\ 128 <= c[4] /\ c[4] <= 191
  BY SMT DEF TakenForACharacter
<1>4. IsCharacter(c) <=>
              /\ 240 <= c[1] /\ c[1] <= 244 /\ c[2] <= 191 /\ 128 <= c[3] /\ c[3] <= 191
              /\ 128 <= c[4] /\ c[4] <= 191
              /\ c[1] # 244 => 128 <= c[2]
              /\ c[1] = 240 => c[2] >= 144
              /\ c[1] = 244 => c[2] <= 143
  BY <1>2, <1>3 DEF IsCharacter
<1>5. IsLegalUTF8(c) <=>
        /\ \A i \in 3..4 : c[i] \in 128..191
        /\ c[2] <= 191
        /\ c[1] = 224 => c[2] >= 160
        /\ c[1] = 240 => c[2] >= 144
        /\ c[1] = 244 => c[2] <= 143
        /\ c[1] \notin {224, 240, 244} => c[2] >= 128
        /\ (c[1] < 128 \/ c[1] > 193) /\ c[1] <= 244
  BY SMT DEF IsLegalUTF8
<1>6. IsLegalUTF8(c) <=>
              /\ 128 <= c[3] /\ c[3] <= 191 /\ 128 <= c[4] /\ c[4] <= 191 /\ c[2] <= 191
              /\ c[1] = 224 => c[2] >= 160
              /\ c[1] = 240 => c[2] >= 144
              /\ c[1] = 244 => c[2] <= 143
              /\ c[1] \notin {224, 240, 244} => c[2] >= 128
              /\ (c[1] < 128 \/ c[1] > 193) /\ c[1] <= 244
  BY <1>5, ThirdAndFourthByte
<1> DEFINE n == TrailingBytesForUTF8(c[1])  character == IsCharacter(c)
           legal == IsLegalUTF8(c)
<1>7. /\ n = 0 <=> c[1] < 192
      /\ n = 1 <=> 192 <= c[1] /\ c[1] < 224
      /\ n = 2 <=> 224 <= c[1] /\ c[1] < 240
      /\ n = 3 <=> 240 <= c[1] /\ c[1] < 248
      /\ n \in 0..5
  BY TrailingIs
<1>8. character <=> Len(c) = 1 + n /\ legal
  <2> HIDE DEF n, character, legal
  <2> QED
    BY <1>4, <1>6, <1>7 DEF character, legal
<1> QED
  BY <1>8

LEMMA MoreBytes ==
  ASSUME NEW c, NEW n \in Nat, n > 4, Len(c) = n
  PROVE  ~IsCharacter(c) /\ ~IsLegalUTF8(c)
<1>1. n # 1 /\ n # 2 /\ n # 3 /\ n # 4 /\ n \notin 1..4
  OBVIOUS
<1>2. ~IsLegalUTF8(c)
  BY <1>1, Zenon DEF IsLegalUTF8
<1>3. ~EncodesACodePoint(c)
  BY <1>1, SMT DEF EncodesACodePoint
<1>4. ~TakenForACharacter(c)
  BY <1>1 DEF TakenForACharacter
<1> QED
  BY <1>2, <1>3, <1>4 DEF IsCharacter

LEMMA LegalIsCharacter ==
  ASSUME NEW c \in Seq(Nat), Len(c) >= 1
  PROVE  IsCharacter(c) <=> Len(c) = 1 + TrailingBytesForUTF8(c[1]) /\ IsLegalUTF8(c)
<1>1. Len(c) \in Nat /\ \A i \in 1..Len(c) : c[i] \in Nat
  OBVIOUS
<1>2. CASE Len(c) = 1
  <2>1. c[1] \in Nat
    BY <1>1, <1>2
  <2> QED
    BY <1>2, <2>1, OneByte
<1>3. CASE Len(c) = 2
  <2>1. c[1] \in Nat /\ c[2] \in Nat
    BY <1>1, <1>3
  <2> QED
    BY <1>3, <2>1, TwoBytes
<1>4. CASE Len(c) = 3
  <2>1. c[1] \in Nat /\ c[2] \in Nat /\ c[3] \in Nat
    BY <1>1, <1>4
  <2> QED
    BY <1>4, <2>1, ThreeBytes
<1>5. CASE Len(c) = 4
  <2>1. c[1] \in Nat /\ c[2] \in Nat /\ c[3] \in Nat /\ c[4] \in Nat
    BY <1>1, <1>5
  <2> QED
    BY <1>5, <2>1, FourBytes
<1> DEFINE m == Len(c)
<1>6. CASE m > 4
  <2>1. m \in Nat /\ m > 4 /\ Len(c) = m
    BY <1>1, <1>6
  <2> HIDE DEF m
  <2> QED
    BY <2>1, MoreBytes
<1>7. m \in Nat /\ m >= 1
  BY <1>1
<1>8. m = 1 \/ m = 2 \/ m = 3 \/ m = 4 \/ m > 4
  <2> HIDE DEF m
  <2> QED
    BY <1>7
<1> QED
  BY <1>2, <1>3, <1>4, <1>5, <1>6, <1>8
-----------------------------------------------------------------------------
(* What is made of characters.                                             *)

LEMMA Character ==
  ASSUME NEW s \in Seq(Nat), NEW p \in 1..Len(s), NEW q \in p..Len(s)
  PROVE  q < p + 4 /\ IsCharacter(SubSeq(s, p, q)) <=> q = CharEnd(s, p) /\ Sound(s, p)
<1> DEFINE c == SubSeq(s, p, q)  n == TrailingBytesForUTF8(s[p])
<1>1. c \in Seq(Nat) /\ Len(c) = q - p + 1 /\ Len(c) >= 1 /\ c[1] = s[p] /\ Len(s) \in Nat
  OBVIOUS
<1>2. IsCharacter(c) <=> Len(c) = 1 + n /\ IsLegalUTF8(c)
  BY <1>1, LegalIsCharacter
<1>3. IsLegalUTF8(c) => Len(c) <= 4
  <2> HIDE DEF c
  <2>1. IsLegalUTF8(c) => Len(c) \in 1..4
    BY DEF IsLegalUTF8
  <2> DEFINE l == Len(c)
  <2>2. l \in Int
    BY <1>1 DEF c
  <2>3. IsLegalUTF8(c) => l \in 1..4
    BY <2>1
  <2> HIDE DEF l
  <2>4. l \in 1..4 => l <= 4
    BY <2>2
  <2> QED
    BY <2>3, <2>4 DEF l
<1>4. n \in Int
  BY Trailing
<1>5. CharEnd(s, p) = p + n
  BY DEF CharEnd
<1> HIDE DEF n
<1>6. Len(c) = 1 + n <=> q = CharEnd(s, p)
  BY <1>1, <1>4, <1>5
<1>7. q = CharEnd(s, p) => (Sound(s, p) <=> IsLegalUTF8(c))
  BY DEF Sound
<1> HIDE DEF c
<1>8. Len(c) <= 4 => q < p + 4
  BY <1>1
<1> QED
  BY <1>2, <1>3, <1>6, <1>7, <1>8 DEF c

\* From p on s is made of characters, if f is right for the places behind.
MadeFrom(s, p, f) ==
  \/ p = Len(s) + 1
  \/ \E q \in p..Len(s) : q < p + 4 /\ IsCharacter(SubSeq(s, p, q)) /\ f[q + 1]

LEMMA MadeFromIs ==
  ASSUME NEW s \in Seq(Nat), NEW p \in 1..(Len(s) + 1), NEW f
  PROVE  MadeFrom(s, p, f) <=>
           p > Len(s) \/ (p \in 1..Len(s) /\ Sound(s, p) /\ f[CharEnd(s, p) + 1])
<1>1. Len(s) \in Nat
  OBVIOUS
<1>2. CASE p > Len(s)
  BY <1>1, <1>2 DEF MadeFrom
<1>3. CASE p \in 1..Len(s)
  <2>1. MadeFrom(s, p, f) <=> \E q \in p..Len(s) : q = CharEnd(s, p) /\ Sound(s, p) /\ f[q + 1]
    BY <1>1, <1>3, Character DEF MadeFrom
  <2>2. Sound(s, p) => CharEnd(s, p) \in p..Len(s)
    <3>1. CharEnd(s, p) \in Int /\ CharEnd(s, p) >= p
      BY <1>3, Trailing DEF CharEnd
    <3> QED
      BY <1>1, <1>3, <3>1 DEF Sound
  <2> QED
    BY <1>1, <1>3, <2>1, <2>2
<1> QED
  BY <1>1, <1>2, <1>3

\* What the scan says at p.
DotFlags(s, checkDot, p) == IF checkDot /\ s[p] = Dot THEN {"FIELD_HAS_DOT"} ELSE {}

ScanRule(s, checkDot, p) ==
  LET f == Scan(s, checkDot)
      next == f[CharEnd(s, p) + 1]
  IN  /\ f[p].ok \in BOOLEAN
      /\ p > Len(s) => f[p].ok /\ f[p].err = {}
      /\ p \in 1..Len(s) /\ ~Sound(s, p) =>
           ~f[p].ok /\ f[p].err = {"NOT_UTF8"} \cup DotFlags(s, checkDot, p)
      /\ p \in 1..Len(s) /\ Sound(s, p) =>
           /\ CharEnd(s, p) + 1 \in (p + 1)..(Len(s) + 1)
           /\ f[p].ok = next.ok /\ f[p].err = next.err \cup DotFlags(s, checkDot, p)

LEMMA ScanAt ==
  ASSUME NEW s, Len(s) \in Nat, NEW checkDot, NEW p \in 1..(Len(s) + 1)
  PROVE  ScanRule(s, checkDot, p)
<1> DEFINE f == Scan(s, checkDot)
           next == f[CharEnd(s, p) + 1]
           bad == [ok |-> FALSE, err |-> {"NOT_UTF8"}]
           rest == IF Sound(s, p) THEN next ELSE bad
           dotted == [rest EXCEPT !.err = @ \cup {"FIELD_HAS_DOT"}]
<1>1. f[p] = Found(s, checkDot, p, f) /\ f[p] \in Verdicts
  BY ScanIs
<1>2. f[p].ok \in BOOLEAN
  BY <1>1 DEF Verdicts
<1>3. p > Len(s) => f[p].ok /\ f[p].err = {}
  BY <1>1 DEF Found
<1>4. p \in 1..Len(s) => f[p] = IF checkDot /\ s[p] = Dot THEN dotted ELSE rest
  BY <1>1 DEF Found
<1>5. p \in 1..Len(s) /\ Sound(s, p) =>
        CharEnd(s, p) + 1 \in (p + 1)..(Len(s) + 1) /\ next \in Verdicts
  <2>1. p \in 1..Len(s) /\ Sound(s, p) =>
          CharEnd(s, p) + 1 \in (p + 1)..(Len(s) + 1) /\ CharEnd(s, p) + 1 \in 1..(Len(s) + 1)
    BY NextCharacter
  <2> QED
    BY <2>1, ScanIs
<1>6. bad \in Verdicts /\ ~bad.ok /\ bad.err = {"NOT_UTF8"}
  BY DEF Verdicts
<1> HIDE DEF f, next, bad
<1>7. p \in 1..Len(s) => rest \in Verdicts
  BY <1>5, <1>6
<1>8. rest = IF Sound(s, p) THEN next ELSE bad
  OBVIOUS
<1> HIDE DEF rest
<1>9. p \in 1..Len(s) => dotted.ok = rest.ok /\ dotted.err = rest.err \cup {"FIELD_HAS_DOT"}
  BY <1>7 DEF Verdicts
<1> HIDE DEF dotted
<1>10. p \in 1..Len(s) => f[p].ok = rest.ok /\ f[p].err = rest.err \cup DotFlags(s, checkDot, p)
  BY <1>4, <1>9 DEF DotFlags
<1> QED
  BY <1>2, <1>3, <1>5, <1>6, <1>8, <1>10 DEF f, next, ScanRule

\* The scan finds no flaw exactly in what is made of characters.
LEMMA ScanMade ==
  ASSUME NEW s \in Seq(Nat), NEW p \in 1..(Len(s) + 1),
         NEW h, h = [x \in 1..(Len(s) + 1) |-> Scan(s, FALSE)[x].ok]
  PROVE  h[p] = MadeFrom(s, p, h)
<1>1. Len(s) \in Nat
  OBVIOUS
<1>2. MadeFrom(s, p, h) \in BOOLEAN
  BY DEF MadeFrom
<1>3. MadeFrom(s, p, h) <=>
        p > Len(s) \/ (p \in 1..Len(s) /\ Sound(s, p) /\ h[CharEnd(s, p) + 1])
  BY MadeFromIs
<1> DEFINE f == Scan(s, FALSE)
           e == CharEnd(s, p) + 1
<1>4. /\ f[p].ok \in BOOLEAN
      /\ p > Len(s) => f[p].ok
      /\ p \in 1..Len(s) /\ ~Sound(s, p) => ~f[p].ok
      /\ p \in 1..Len(s) /\ Sound(s, p) => e \in (p + 1)..(Len(s) + 1) /\ f[p].ok = f[e].ok
  <2>1. ScanRule(s, FALSE, p)
    BY <1>1, ScanAt
  <2> QED
    BY <2>1, Zenon DEF ScanRule
<1>5. e \in (p + 1)..(Len(s) + 1) => e \in 1..(Len(s) + 1)
  <2> HIDE DEF e
  <2> QED
    BY <1>1
<1>6. \A x \in 1..(Len(s) + 1) : h[x] = f[x].ok
  OBVIOUS
<1>7. MadeFrom(s, p, h) <=> p > Len(s) \/ (p \in 1..Len(s) /\ Sound(s, p) /\ h[e])
  BY <1>3
<1>8. p \in 1..Len(s) <=> ~(p > Len(s))
  BY <1>1
<1> HIDE DEF f, e
<1> QED
  BY <1>2, <1>4, <1>5, <1>6, <1>7, <1>8

\* bson_check_string accepts what is made of the characters the driver knows.
THEOREM AcceptedIs ==
  ASSUME NEW s \in Seq(Nat)
  PROVE  AcceptedText(s) <=> CheckString(s).ok
<1> DEFINE n == Len(s) + 1
           f == CHOOSE g : g = [p \in 1..n |-> MadeFrom(s, p, g)]
           h == [p \in 1..n |-> Scan(s, FALSE)[p].ok]
<1>1. Len(s) \in Nat /\ n \in Nat /\ 1 \in 1..n
  OBVIOUS
<1>2. AcceptedText(s) = f[1]
  BY DEF AcceptedText, MadeOf, MadeFrom, IsCharacter
<1>3. \A p \in 1..n : h[p] = MadeFrom(s, p, h)
  BY ScanMade
<1>4. h = [p \in 1..n |-> MadeFrom(s, p, h)]
  <2>1. h = [p \in 1..n |-> h[p]]
    OBVIOUS
  <2> HIDE DEF h
  <2> QED
    BY <1>3, <2>1
<1> HIDE DEF h
<1>5. f = [p \in 1..n |-> MadeFrom(s, p, f)]
  BY <1>4
<1> HIDE DEF f
<1>6. \A p \in 1..n : f[p] = MadeFrom(s, p, f)
  BY <1>5
<1> DEFINE T == {p \in 1..n : f[p] = h[p]}
<1>7. ASSUME NEW p \in 1..n, \A q \in (p + 1)..n : q \in T PROVE p \in T
  <2>1. CASE p \in 1..Len(s) /\ Sound(s, p)
    <3>1. CharEnd(s, p) + 1 \in (p + 1)..n
      BY <1>1, <2>1, NextCharacter
    <3>2. f[CharEnd(s, p) + 1] = h[CharEnd(s, p) + 1]
      BY <1>7, <3>1
    <3>3. MadeFrom(s, p, f) <=> MadeFrom(s, p, h)
      BY <1>1, <2>1, <3>2, MadeFromIs
    <3>4. MadeFrom(s, p, f) = MadeFrom(s, p, h)
      BY <3>3 DEF MadeFrom
    <3> QED
      BY <1>3, <1>6, <3>4
  <2>2. CASE ~(p \in 1..Len(s) /\ Sound(s, p))
    <3>1. MadeFrom(s, p, f) <=> MadeFrom(s, p, h)
      BY <1>1, <2>2, MadeFromIs
    <3>2. MadeFrom(s, p, f) = MadeFrom(s, p, h)
      BY <3>1 DEF MadeFrom
    <3> QED
      BY <1>3, <1>6, <3>2
  <2> QED
    BY <2>1, <2>2
<1> HIDE DEF T
<1>8. 1..n \subseteq T
  BY <1>1, <1>7, Backwards
<1>9. f[1] = Scan(s, FALSE)[1].ok
  BY <1>1, <1>8 DEF T, h
<1> QED
  BY <1>1, <1>2, <1>9, CheckStringIs
\* The same without dots.
DotlessText(s) ==
  MadeOf(s, LAMBDA c : /\ EncodesACodePoint(c) \/ TakenForACharacter(c)
                       /\ c # <<Dot>>)

DotlessFrom(s, p, f) ==
  \/ p = Len(s) + 1
  \/ \E q \in p..Len(s) :
       q < p + 4 /\ (IsCharacter(SubSeq(s, p, q)) /\ SubSeq(s, p, q) # <<Dot>>) /\ f[q + 1]

LEMMA OfOne ==
  ASSUME NEW c \in Seq(Nat), Len(c) = 1, c[1] = Dot
  PROVE  c = <<Dot>>
<1>1. <<Dot>> \in Seq(Nat) /\ Len(<<Dot>>) = 1 /\ <<Dot>>[1] = Dot
  BY DEF Dot
<1> DEFINE d == <<Dot>>
<1> HIDE DEF d
<1>2. d \in Seq(Nat) /\ Len(d) = 1 /\ d[1] = Dot
  BY <1>1 DEF d
<1>3. \A i \in 1..Len(c) : c[i] = d[i]
  BY <1>2
<1>4. c = d
  BY <1>2, <1>3
<1> QED
  BY <1>4 DEF d

LEMMA NotOfOne ==
  ASSUME NEW c, c[1] # Dot
  PROVE  c # <<Dot>>
<1>1. <<Dot>>[1] = Dot
  OBVIOUS
<1> QED
  BY <1>1

LEMMA DotlessFromIs ==
  ASSUME NEW s \in Seq(Nat), NEW p \in 1..(Len(s) + 1), NEW f
  PROVE  DotlessFrom(s, p, f) <=>
           p > Len(s) \/ (p \in 1..Len(s) /\ Sound(s, p) /\ s[p] # Dot /\ f[CharEnd(s, p) + 1])
<1>1. Len(s) \in Nat
  OBVIOUS
<1>2. CASE p > Len(s)
  BY <1>1, <1>2 DEF DotlessFrom
<1>3. CASE p \in 1..Len(s)
  <2>1. CharEnd(s, p) \in Int /\ CharEnd(s, p) >= p /\ (s[p] = Dot => CharEnd(s, p) = p)
    <3>1. s[p] = Dot => TrailingBytesForUTF8(s[p]) = 0
      BY DEF TrailingBytesForUTF8, Dot
    <3> QED
      BY <1>3, <3>1, Trailing DEF CharEnd
  <2>2. Sound(s, p) => CharEnd(s, p) \in p..Len(s)
    BY <1>1, <1>3, <2>1 DEF Sound
  <2>3. ASSUME NEW q \in p..Len(s), q = CharEnd(s, p)
        PROVE  SubSeq(s, p, q) = <<Dot>> <=> s[p] = Dot
    <3>1. CASE s[p] = Dot
      <4>1. q = p
        BY <2>1, <2>3, <3>1
      <4>2. SubSeq(s, p, p) \in Seq(Nat) /\ Len(SubSeq(s, p, p)) = 1 /\ SubSeq(s, p, p)[1] = s[p]
        BY <1>1, <1>3
      <4> QED
        BY <3>1, <4>1, <4>2, OfOne
    <3>2. CASE s[p] # Dot
      <4>1. SubSeq(s, p, q)[1] = s[p]
        BY <1>1, <1>3
      <4>2. SubSeq(s, p, q) # <<Dot>>
        BY <3>2, <4>1, NotOfOne
      <4> QED
        BY <3>2, <4>2
    <3> QED
      BY <3>1, <3>2
  <2>4. DotlessFrom(s, p, f) <=>
          \E q \in p..Len(s) : q = CharEnd(s, p) /\ Sound(s, p) /\ s[p] # Dot /\ f[q + 1]
    <3>1. ~(p = Len(s) + 1)
      BY <1>1, <1>3
    <3>2. \A q \in p..Len(s) :
            q < p + 4 /\ (IsCharacter(SubSeq(s, p, q)) /\ SubSeq(s, p, q) # <<Dot>>)
            <=> q = CharEnd(s, p) /\ Sound(s, p) /\ s[p] # Dot
      BY <1>3, <2>3, Character
    <3> QED
      BY <3>1, <3>2 DEF DotlessFrom
  <2> QED
    BY <1>1, <1>3, <2>2, <2>4
<1> QED
  BY <1>1, <1>2, <1>3

\* No flaw and no dot from p on.
DotlessAt(s, p) == Scan(s, TRUE)[p].ok /\ "FIELD_HAS_DOT" \notin Scan(s, TRUE)[p].err

LEMMA ScanDotless ==
  ASSUME NEW s \in Seq(Nat), NEW p \in 1..(Len(s) + 1),
         NEW h, h = [x \in 1..(Len(s) + 1) |-> DotlessAt(s, x)]
  PROVE  h[p] = DotlessFrom(s, p, h)
<1>1. Len(s) \in Nat
  OBVIOUS
<1>2. DotlessFrom(s, p, h) \in BOOLEAN
  BY DEF DotlessFrom
<1> DEFINE f == Scan(s, TRUE)
           e == CharEnd(s, p) + 1
<1>3. DotlessFrom(s, p, h) <=>
        p > Len(s) \/ (p \in 1..Len(s) /\ Sound(s, p) /\ s[p] # Dot /\ h[e])
  BY DotlessFromIs
<1>4. /\ f[p].ok \in BOOLEAN
      /\ p > Len(s) => f[p].ok /\ f[p].err = {}
      /\ p \in 1..Len(s) /\ ~Sound(s, p) => ~f[p].ok
      /\ p \in 1..Len(s) /\ Sound(s, p) =>
           /\ e \in (p + 1)..(Len(s) + 1) /\ f[p].ok = f[e].ok
           /\ f[p].err = f[e].err \cup (IF s[p] = Dot THEN {"FIELD_HAS_DOT"} ELSE {})
  <2>1. ScanRule(s, TRUE, p)
    BY <1>1, ScanAt
  <2>2. DotFlags(s, TRUE, p) = IF s[p] = Dot THEN {"FIELD_HAS_DOT"} ELSE {}
    BY DEF DotFlags
  <2> QED
    BY <2>1, <2>2, Zenon DEF ScanRule
<1>5. e \in (p + 1)..(Len(s) + 1) => e \in 1..(Len(s) + 1)
  <2> HIDE DEF e
  <2> QED
    BY <1>1
<1>6. \A x \in 1..(Len(s) + 1) : h[x] = (f[x].ok /\ "FIELD_HAS_DOT" \notin f[x].err)
  BY DEF DotlessAt
<1>7. p \in 1..Len(s) <=> ~(p > Len(s))
  BY <1>1
<1> HIDE DEF f, e
<1> QED
  BY <1>2, <1>3, <1>4, <1>5, <1>6, <1>7

LEMMA DotlessIs ==
  ASSUME NEW s \in Seq(Nat)
  PROVE  DotlessText(s) <=> DotlessAt(s, 1)
<1> DEFINE n == Len(s) + 1
           f == CHOOSE g : g = [p \in 1..n |-> DotlessFrom(s, p, g)]
           h == [p \in 1..n |-> DotlessAt(s, p)]
<1>1. Len(s) \in Nat /\ n \in Nat /\ 1 \in 1..n
  OBVIOUS
<1>2. DotlessText(s) = f[1]
  BY DEF DotlessText, MadeOf, DotlessFrom, IsCharacter
<1>3. \A p \in 1..n : h[p] = DotlessFrom(s, p, h)
  BY ScanDotless
<1>4. h = [p \in 1..n |-> DotlessFrom(s, p, h)]
  <2>1. h = [p \in 1..n |-> h[p]]
    OBVIOUS
  <2> HIDE DEF h
  <2> QED
    BY <1>3, <2>1
<1> HIDE DEF h
<1>5. f = [p \in 1..n |-> DotlessFrom(s, p, f)]
  BY <1>4
<1> HIDE DEF f
<1>6. \A p \in 1..n : f[p] = DotlessFrom(s, p, f)
  BY <1>5
<1> DEFINE T == {p \in 1..n : f[p] = h[p]}
<1>7. ASSUME NEW p \in 1..n, \A q \in (p + 1)..n : q \in T PROVE p \in T
  <2>1. DotlessFrom(s, p, f) <=> DotlessFrom(s, p, h)
    <3>1. CASE p \in 1..Len(s) /\ Sound(s, p)
      <4>1. CharEnd(s, p) + 1 \in (p + 1)..n
        BY <1>1, <3>1, NextCharacter
      <4>2. f[CharEnd(s, p) + 1] = h[CharEnd(s, p) + 1]
        BY <1>7, <4>1
      <4> QED
        BY <1>1, <3>1, <4>2, DotlessFromIs
    <3>2. CASE ~(p \in 1..Len(s) /\ Sound(s, p))
      BY <1>1, <3>2, DotlessFromIs
    <3> QED
      BY <3>1, <3>2
  <2>2. DotlessFrom(s, p, f) = DotlessFrom(s, p, h)
    BY <2>1 DEF DotlessFrom
  <2> QED
    BY <1>3, <1>6, <2>2
<1> HIDE DEF T
<1>8. 1..n \subseteq T
  BY <1>1, <1>7, Backwards
<1>9. f[1] = DotlessAt(s, 1)
  BY <1>1, <1>8 DEF T, h
<1> QED
  BY <1>2, <1>9

\* A key raises no flag exactly if it is made of characters other than dots and
\* does not start with a dollar, unless it names a part of a reference.
THEOREM CleanKey ==
  ASSUME NEW s \in Seq(Nat)
  PROVE  CheckFieldName(s).err = {} <=> DotlessText(s) /\ ~Dollared(s)
<1> DEFINE scan == Scan(s, TRUE)[1]
<1>1. Len(s) \in Nat
  OBVIOUS
<1>2. scan \in Verdicts
      /\ CheckFieldName(s).err = scan.err \cup (IF Dollared(s) THEN {"FIELD_INIT_DOLLAR"} ELSE {})
  BY <1>1, CheckFieldNameIs
<1>3. DotlessText(s) <=> scan.ok /\ "FIELD_HAS_DOT" \notin scan.err
  BY DotlessIs DEF DotlessAt
<1> HIDE DEF scan
<1>4. scan.ok /\ "FIELD_HAS_DOT" \notin scan.err <=> scan.err = {}
  BY <1>2 DEF Verdicts
<1> QED
  BY <1>2, <1>3, <1>4
-----------------------------------------------------------------------------
(* mongo_validate_ns accepts what is a name.                               *)

\* d is the place of the first dot.
FirstDot(ns, d) == d \in 1..Len(ns) /\ ns[d] = Dot /\ \A j \in 1..(d - 1) : ns[j] # Dot

LEMMA FirstDotExists ==
  ASSUME NEW ns, Len(ns) \in Nat, \E i \in 1..Len(ns) : ns[i] = Dot
  PROVE  \E d \in 1..Len(ns) : FirstDot(ns, d)
<1> SUFFICES ASSUME ~\E d \in 1..Len(ns) : FirstDot(ns, d) PROVE FALSE
  OBVIOUS
<1> DEFINE T == {n \in Nat : \A i \in 1..Len(ns) : i <= n => ns[i] # Dot}
<1>1. 0 \in T
  OBVIOUS
<1>2. ASSUME NEW n \in T PROVE n + 1 \in T
  <2>1. SUFFICES ASSUME NEW i \in 1..Len(ns), i <= n + 1, ns[i] = Dot PROVE FALSE
    BY <1>2
  <2>2. i = n + 1
    BY <1>2, <2>1
  <2>3. \A j \in 1..(i - 1) : ns[j] # Dot
    BY <1>2, <2>1, <2>2
  <2> QED
    BY <2>1, <2>3 DEF FirstDot
<1> HIDE DEF T
<1>3. Nat \subseteq T
  BY <1>1, <1>2, Naturals
<1>4. Len(ns) \in T
  BY <1>3
<1> QED
  BY <1>4 DEF T

LEMMA DivisionIs ==
  ASSUME NEW ns, Len(ns) \in Nat
  PROVE  IF \E i \in 1..Len(ns) : ns[i] = Dot THEN FirstDot(ns, Division(ns))
                                              ELSE Division(ns) = Len(ns) + 1
<1>1. CASE \E i \in 1..Len(ns) : ns[i] = Dot
  <2>1. \E d \in 1..Len(ns) : ns[d] = Dot /\ \A j \in 1..(d - 1) : ns[j] # Dot
    BY <1>1, FirstDotExists DEF FirstDot
  <2>2. Division(ns) = CHOOSE i \in 1..Len(ns) : ns[i] = Dot /\ \A j \in 1..(i - 1) : ns[j] # Dot
    BY <1>1, Zenon DEF Division
  <2>3. Division(ns) \in 1..Len(ns) /\ ns[Division(ns)] = Dot
        /\ \A j \in 1..(Division(ns) - 1) : ns[j] # Dot
    BY <2>1, <2>2, Zenon
  <2> QED
    BY <1>1, <2>3 DEF FirstDot
<1>2. CASE ~\E i \in 1..Len(ns) : ns[i] = Dot
  BY <1>2, Zenon DEF Division
<1> QED
  BY <1>1, <1>2

\* What mongo_validate_ns asks of the bytes of a name whose first dot is at d.
Divided(ns, d) ==
  /\ 2 <= d /\ d < Len(ns)
  /\ ns[d + 1] # Dot /\ ns[Len(ns)] # Dot
  /\ \A i \in 1..(d - 1) : ns[i] \notin {Space, Dollar, Slash, Backslash}
  /\ \A i \in (d + 2)..Len(ns) : ~(ns[i - 1] = Dot /\ ns[i] = Dot)
  /\ \A i \in (d + 1)..Len(ns) : ns[i] # Dollar
  /\ Len(ns) <= MaxNs

LEMMA ValidateNsIs ==
  ASSUME NEW ns \in Seq(Nat)
  PROVE  ValidateNs(ns) <=> FirstDot(ns, Division(ns)) /\ Divided(ns, Division(ns))
<1> DEFINE d == Division(ns)
           n == Len(ns)
           db == SubSeq(ns, 1, d - 1)
           collection == SubSeq(ns, d + 1, n)
<1>1. n \in Nat /\ \A i \in 1..n : ns[i] \in Nat
  OBVIOUS
<1>2. d \in 1..(n + 1) /\ (FirstDot(ns, d) <=> d # n + 1)
  BY <1>1, DivisionIs DEF FirstDot
<1>3. ValidateNs(ns) <=>
        /\ db # <<>> /\ collection # <<>>
        /\ collection[1] # Dot
        /\ \A i \in 1..Len(db) : db[i] \notin {Space, Dollar, Slash, Backslash}
        /\ \A i \in 2..Len(collection) : ~(collection[i - 1] = Dot /\ collection[i] = Dot)
        /\ \A i \in 1..Len(collection) : collection[i] # Dollar
        /\ Len(db) + 1 + Len(collection) <= MaxNs
        /\ collection[Len(collection)] # Dot
  BY Zenon DEF ValidateNs
<1> HIDE DEF d
<1>4. /\ db \in Seq(Nat) /\ Len(db) = d - 1
      /\ \A i \in 1..(d - 1) : db[i] = ns[i]
  BY <1>1, <1>2
<1>5. /\ d < n => collection \in Seq(Nat) /\ Len(collection) = n - d
                  /\ \A i \in 1..(n - d) : collection[i] = ns[i + d]
      /\ ~(d < n) => collection = <<>>
  BY <1>1, <1>2
<1>6. db # <<>> <=> 2 <= d
  <2> HIDE DEF db
  <2> QED
    BY <1>2, <1>4
<1>7. CASE d < n
  <2> DEFINE m == n - d
  <2>1. m \in Nat /\ m >= 1 /\ Len(collection) = m /\ collection \in Seq(Nat)
        /\ \A i \in 1..m : collection[i] = ns[i + d]
    BY <1>1, <1>2, <1>5, <1>7
  <2> HIDE DEF collection, db
  <2>2. collection # <<>> /\ collection[1] = ns[d + 1] /\ collection[m] = ns[n]
    <3>1. 1 \in 1..m /\ m \in 1..m /\ 1 + d = d + 1 /\ m + d = n
      BY <1>1, <1>2, <2>1
    <3>2. collection[1] = ns[1 + d] /\ collection[m] = ns[m + d]
      BY <2>1, <3>1
    <3>3. collection # <<>>
      BY <2>1
    <3> QED
      BY <3>1, <3>2, <3>3
  <2>3. (\A i \in 2..m : ~(collection[i - 1] = Dot /\ collection[i] = Dot)) <=>
          \A i \in (d + 2)..n : ~(ns[i - 1] = Dot /\ ns[i] = Dot)
    <3>1. ASSUME \A i \in 2..m : ~(collection[i - 1] = Dot /\ collection[i] = Dot),
                 NEW i \in (d + 2)..n
          PROVE  ~(ns[i - 1] = Dot /\ ns[i] = Dot)
      <4>1. i - d \in 2..m /\ i - d - 1 \in 1..m /\ i - d \in 1..m
        BY <1>1, <1>2, <3>1
      <4>2. (i - d) + d = i /\ ((i - d) - 1) + d = i - 1
        BY <1>1, <1>2
      <4>3. collection[i - d] = ns[i] /\ collection[(i - d) - 1] = ns[i - 1]
        BY <2>1, <4>1, <4>2
      <4> QED
        BY <3>1, <4>1, <4>3
    <3>2. ASSUME \A i \in (d + 2)..n : ~(ns[i - 1] = Dot /\ ns[i] = Dot), NEW i \in 2..m
          PROVE  ~(collection[i - 1] = Dot /\ collection[i] = Dot)
      <4>1. i + d \in (d + 2)..n /\ i - 1 \in 1..m /\ i \in 1..m
        BY <1>1, <1>2, <3>2
      <4>2. (i - 1) + d = (i + d) - 1
        BY <1>1, <1>2
      <4>3. collection[i] = ns[i + d] /\ collection[i - 1] = ns[(i + d) - 1]
        BY <2>1, <4>1, <4>2
      <4> QED
        BY <3>2, <4>1, <4>3
    <3> QED
      BY <3>1, <3>2
  <2>4. (\A i \in 1..m : collection[i] # Dollar) <=> \A i \in (d + 1)..n : ns[i] # Dollar
    <3>1. ASSUME \A i \in 1..m : collection[i] # Dollar, NEW i \in (d + 1)..n
          PROVE  ns[i] # Dollar
      <4>1. i - d \in 1..m
        BY <1>1, <1>2, <3>1
      <4>2. collection[i - d] = ns[i]
        BY <1>1, <1>2, <2>1, <4>1
      <4> QED
        BY <3>1, <4>1, <4>2
    <3>2. ASSUME \A i \in (d + 1)..n : ns[i] # Dollar, NEW i \in 1..m
          PROVE  collection[i] # Dollar
      <4>1. i + d \in (d + 1)..n
        BY <1>1, <1>2, <3>2
      <4> QED
        BY <2>1, <3>2, <4>1
    <3> QED
      BY <3>1, <3>2
  <2>5. (\A i \in 1..Len(db) : db[i] \notin {Space, Dollar, Slash, Backslash}) <=>
          \A i \in 1..(d - 1) : ns[i] \notin {Space, Dollar, Slash, Backslash}
    BY <1>4
  <2>6. Len(db) + 1 + Len(collection) = n
    BY <1>1, <1>2, <1>4, <2>1
  <2>7. FirstDot(ns, d)
    BY <1>1, <1>2, <1>7
  <2>8. Len(collection) = m
    BY <2>1
  <2> QED
    BY <1>3, <1>6, <1>7, <2>2, <2>3, <2>4, <2>5, <2>6, <2>7, <2>8, Zenon DEF Divided, d
<1>8. CASE ~(d < n)
  BY <1>3, <1>5, <1>8 DEF Divided, d
<1> QED
  BY <1>7, <1>8

LEMMA LegalNsIs ==
  ASSUME NEW ns \in Seq(Nat), NEW d, FirstDot(ns, d)
  PROVE  LegalNs(ns) <=> Divided(ns, d)
<1> DEFINE n == Len(ns)
           dots == {0, n + 1} \cup {i \in 1..n : ns[i] = Dot}
<1>1. n \in Nat /\ d \in 1..n /\ ns[d] = Dot /\ \A j \in 1..(d - 1) : ns[j] # Dot
  BY DEF FirstDot
<1>2. LegalNs(ns) <=>
        /\ \A i, j \in dots : i < j => j - i >= 2
        /\ \A i \in 1..n : /\ ns[i] # Dollar
                           /\ ns[i] \in {Space, Slash, Backslash} => \E j \in 1..i : ns[j] = Dot
        /\ n <= MaxNs
  BY <1>1, Zenon DEF LegalNs
<1>3. ASSUME LegalNs(ns) PROVE Divided(ns, d)
  <2>1. 2 <= d
    BY <1>1, <1>2, <1>3
  <2>2. d < n
    BY <1>1, <1>2, <1>3
  <2>3. ns[d + 1] # Dot
    BY <1>1, <1>2, <1>3, <2>2
  <2>4. ns[n] # Dot
    BY <1>1, <1>2, <1>3
  <2>5. \A i \in 1..(d - 1) : ns[i] \notin {Space, Dollar, Slash, Backslash}
    BY <1>1, <1>2, <1>3
  <2>6. \A i \in (d + 2)..n : ~(ns[i - 1] = Dot /\ ns[i] = Dot)
    BY <1>1, <1>2, <1>3
  <2>7. \A i \in (d + 1)..n : ns[i] # Dollar
    BY <1>1, <1>2, <1>3
  <2>8. n <= MaxNs
    BY <1>2, <1>3
  <2> QED
    BY <2>1, <2>2, <2>3, <2>4, <2>5, <2>6, <2>7, <2>8 DEF Divided
<1>4. ASSUME Divided(ns, d) PROVE LegalNs(ns)
  <2>1. /\ 2 <= d /\ d < n
        /\ ns[d + 1] # Dot /\ ns[n] # Dot
        /\ \A i \in 1..(d - 1) : ns[i] \notin {Space, Dollar, Slash, Backslash}
        /\ \A i \in (d + 2)..n : ~(ns[i - 1] = Dot /\ ns[i] = Dot)
        /\ \A i \in (d + 1)..n : ns[i] # Dollar
        /\ n <= MaxNs
    BY <1>4 DEF Divided
  <2>2. ASSUME NEW i \in dots, NEW j \in dots, i < j PROVE j - i >= 2
    <3>1. i \in Nat /\ j \in Nat
      BY <1>1
    <3>2. SUFFICES ASSUME j = i + 1 PROVE FALSE
      BY <2>2, <3>1
    <3>3. i # 0
      BY <1>1, <2>1, <3>2
    <3>4. j # n + 1
      BY <1>1, <2>1, <3>1, <3>2, <3>3
    <3>5. i \in 1..n /\ ns[i] = Dot /\ j \in 1..n /\ ns[j] = Dot
      BY <1>1, <2>2, <3>2, <3>3, <3>4
    <3>6. i >= d
      BY <1>1, <3>5
    <3>7. j \in (d + 2)..n
      BY <1>1, <2>1, <3>2, <3>5, <3>6
    <3>8. ns[j - 1] = Dot
      BY <3>1, <3>2, <3>5
    <3> QED
      BY <2>1, <3>5, <3>7, <3>8
  <2>3. \A i \in 1..n : ns[i] # Dollar
    <3>1. Dot # Dollar
      BY DEF Dot, Dollar
    <3> QED
      BY <1>1, <2>1, <3>1
  <2>4. ASSUME NEW i \in 1..n, ns[i] \in {Space, Slash, Backslash} PROVE \E j \in 1..i : ns[j] = Dot
    <3>1. i >= d
      BY <1>1, <2>1, <2>4
    <3> QED
      BY <1>1, <3>1
  <2> HIDE DEF dots
  <2> QED
    BY <1>2, <2>1, <2>2, <2>3, <2>4
<1> QED
  BY <1>3, <1>4

\* mongo_validate_ns accepts a name if and only if it is one.
THEOREM NsIs ==
  ASSUME NEW ns \in Seq(Nat)
  PROVE  ValidateNs(ns) <=> LegalNs(ns)
<1>1. CASE FirstDot(ns, Division(ns))
  BY <1>1, ValidateNsIs, LegalNsIs
<1>2. CASE ~FirstDot(ns, Division(ns))
  <2>1. ~\E i \in 1..Len(ns) : ns[i] = Dot
    BY <1>2, DivisionIs
  <2>2. ~LegalNs(ns)
    BY <2>1, Zenon DEF LegalNs
  <2> QED
    BY <1>2, <2>2, ValidateNsIs
<1> QED
  BY <1>1, <1>2

-----------------------------------------------------------------------------
(* The builder.                                                            *)

\* b is a record with the fields of a `bson` object.
IsBson(b) ==
  b = [data |-> b.data, cur |-> b.cur, dataSize |-> b.dataSize, size |-> b.size,
       finished |-> b.finished, stack |-> b.stack, err |-> b.err, bad |-> b.bad,
       slips |-> b.slips]

\* A document too long for an int, or a value without the start of its element.
Slipped(b) == b.slips \cap {"wrapped", "headless"} # {}

\* The invariant of a builder: sizes are ints; as long as nothing was written
\* outside of an array the position is in the buffer, and the length of a
\* finished document is that of its bytes.
BufOK(b) ==
  /\ IsBson(b)
  /\ b.cur \in Nat /\ b.cur >= 4
  /\ b.dataSize \in 0..IntMax
  /\ b.size \in Nat
  /\ b.bad = "no" => b.cur <= b.dataSize
  /\ b.bad = "no" /\ b.finished => b.size \in 4..IntMax
  /\ b.bad = "over" => Slipped(b)

\* There is room for n bytes.
Room(b, n) == b.bad = "no" => b.cur + n <= b.dataSize \/ Slipped(b)

-----------------------------------------------------------------------------
(* The steps the operations are made of.                                   *)

\* bson_ensure_space: what it makes of the size is an int that is large enough,
\* although the sum and the product it computes may not fit an int.
LEMMA GrownFits ==
  ASSUME NEW b, BufOK(b), NEW n \in Nat, Grown(b, n) # -1
  PROVE  /\ Grown(b, n) \in b.dataSize..IntMax
         /\ b.cur <= b.dataSize /\ b.cur + n <= IntMax => b.cur + n <= Grown(b, n)
<1> DEFINE sum == WrapInt(b.dataSize + n)
           newSize == FitInt((3 * sum) \div 2)
<1>1. IntMax \in Nat /\ b.dataSize \in 0..IntMax /\ b.cur \in Nat
  BY BuilderAssumption DEF BufOK
<1>2. sum \in Int /\ (sum = b.dataSize + n \/ sum = b.dataSize + n - 2 * (IntMax + 1))
      /\ (sum >= 0 /\ b.dataSize + n <= IntMax <=> sum = b.dataSize + n)
  BY <1>1 DEF WrapInt
<1>3. newSize \in Int /\ newSize <= IntMax
  BY <1>1, <1>2 DEF FitInt
<1>4. newSize = (3 * sum) \div 2 \/ newSize < 0
  BY <1>1, <1>2 DEF FitInt
<1>5. (3 * sum) \div 2 >= sum \/ sum < 0
  BY <1>2
<1>6. (3 * sum) \div 2 < 0 \/ sum >= 0
  BY <1>2
<1>7. Grown(b, n) = IF newSize >= b.dataSize THEN newSize
                    ELSE IF sum < IntMax THEN IntMax ELSE -1
  BY DEF Grown
<1> HIDE DEF sum, newSize
<1>8. Grown(b, n) \in b.dataSize..IntMax
  BY <1>1, <1>2, <1>3, <1>7
<1>9. ASSUME b.cur <= b.dataSize, b.cur + n <= IntMax PROVE b.cur + n <= Grown(b, n)
  <2>1. CASE newSize >= b.dataSize
    <3>1. newSize = (3 * sum) \div 2 /\ sum >= 0
      BY <1>1, <1>2, <1>3, <1>4, <1>6, <2>1
    <3>2. sum = b.dataSize + n
      BY <1>1, <1>2, <1>9, <3>1
    <3> QED
      BY <1>1, <1>3, <1>5, <1>7, <1>9, <2>1, <3>1, <3>2
  <2>2. CASE ~(newSize >= b.dataSize)
    BY <1>1, <1>7, <1>9, <2>2
  <2> QED
    BY <2>1, <2>2
<1> QED
  BY <1>8, <1>9

\* What EXCEPT makes of a `bson` object, for the fields that change together.
LEMMA Fields ==
  ASSUME NEW b, IsBson(b), NEW x, NEW y
  PROVE  /\ [b EXCEPT !.cur = x, !.bad = y] =
              [data |-> b.data, cur |-> x, dataSize |-> b.dataSize, size |-> b.size,
               finished |-> b.finished, stack |-> b.stack, err |-> b.err, bad |-> y,
               slips |-> b.slips]
         /\ [b EXCEPT !.err = x, !.slips = y] =
              [data |-> b.data, cur |-> b.cur, dataSize |-> b.dataSize, size |-> b.size,
               finished |-> b.finished, stack |-> b.stack, err |-> x, bad |-> b.bad,
               slips |-> y]
<1> DEFINE c == [b EXCEPT !.cur = x]  e == [b EXCEPT !.err = x]
<1>1. c = [data |-> b.data, cur |-> x, dataSize |-> b.dataSize, size |-> b.size,
           finished |-> b.finished, stack |-> b.stack, err |-> b.err, bad |-> b.bad,
           slips |-> b.slips]
  BY DEF IsBson
<1>2. e = [data |-> b.data, cur |-> b.cur, dataSize |-> b.dataSize, size |-> b.size,
           finished |-> b.finished, stack |-> b.stack, err |-> x, bad |-> b.bad,
           slips |-> b.slips]
  BY DEF IsBson
<1>3. [b EXCEPT !.cur = x, !.bad = y] = [c EXCEPT !.bad = y]
  OBVIOUS
<1>4. [b EXCEPT !.err = x, !.slips = y] = [e EXCEPT !.slips = y]
  OBVIOUS
<1> HIDE DEF c, e
<1>5. [c EXCEPT !.bad = y] =
        [data |-> b.data, cur |-> x, dataSize |-> b.dataSize, size |-> b.size,
         finished |-> b.finished, stack |-> b.stack, err |-> b.err, bad |-> y,
         slips |-> b.slips]
  BY <1>1
<1>6. [e EXCEPT !.slips = y] =
        [data |-> b.data, cur |-> b.cur, dataSize |-> b.dataSize, size |-> b.size,
         finished |-> b.finished, stack |-> b.stack, err |-> x, bad |-> b.bad,
         slips |-> y]
  BY <1>2
<1> QED
  BY <1>3, <1>4, <1>5, <1>6

LEMMA EnsureSpaceOK ==
  ASSUME NEW b, BufOK(b), NEW n \in Nat
  PROVE  LET r == EnsureSpace(b, n)
         IN  /\ BufOK(r.b) /\ r.ok \in BOOLEAN
             /\ r.ok => Room(r.b, n)
             /\ r.b.cur = b.cur /\ r.b.finished = b.finished /\ r.b.stack = b.stack
             /\ r.b.data = b.data /\ r.b.bad = b.bad /\ r.b.size = b.size
             /\ Slipped(b) => Slipped(r.b)
             /\ r.ok => r.b.err = b.err /\ r.b.slips \in {b.slips, b.slips \cup {"wrapped"}}
             /\ b.cur + n <= IntMax /\ r.ok => r.b.slips = b.slips
             /\ ~r.ok => /\ r.b.err = {"SIZE_OVERFLOW"}
                         /\ r.b.slips = IF b.err = {} THEN b.slips ELSE b.slips \cup {"forgot"}
<1> DEFINE kept == IF b.cur + n > IntMax THEN [b EXCEPT !.slips = @ \cup {"wrapped"}] ELSE b
           r == EnsureSpace(b, n)
<1>1. IntMax \in Nat /\ b.dataSize \in 0..IntMax /\ b.cur \in Nat /\ IsBson(b)
  BY BuilderAssumption DEF BufOK
<1>2. /\ BufOK(kept) /\ kept.cur = b.cur /\ kept.dataSize = b.dataSize /\ kept.bad = b.bad
      /\ kept.finished = b.finished /\ kept.stack = b.stack /\ kept.data = b.data
      /\ kept.size = b.size /\ kept.err = b.err
      /\ kept.slips \in {b.slips, b.slips \cup {"wrapped"}}
      /\ b.cur + n <= IntMax => kept.slips = b.slips
      /\ Slipped(b) => Slipped(kept)
      /\ b.cur + n > IntMax => Slipped(kept)
  BY <1>1 DEF BufOK, IsBson, Slipped
<1> HIDE DEF kept
<1>3. CASE WrapInt(b.cur + n) <= b.dataSize
  <2>1. r = Result(TRUE, kept)
    BY <1>3 DEF EnsureSpace, kept
  <2>2. Room(kept, n)
    BY <1>1, <1>2, <1>3 DEF Room, WrapInt
  <2> QED
    BY <1>2, <2>1, <2>2 DEF Result
<1>4. CASE ~(WrapInt(b.cur + n) <= b.dataSize) /\ Grown(b, n) # -1
  <2> DEFINE g == [kept EXCEPT !.dataSize = Grown(b, n)]
  <2>1. r = Result(TRUE, g)
    BY <1>4 DEF EnsureSpace, kept
  <2>2. /\ Grown(b, n) \in b.dataSize..IntMax
        /\ b.cur <= b.dataSize /\ b.cur + n <= IntMax => b.cur + n <= Grown(b, n)
    BY <1>4, GrownFits
  <2>3. /\ IsBson(g) /\ g.cur = b.cur /\ g.dataSize = Grown(b, n) /\ g.bad = b.bad
        /\ g.finished = b.finished /\ g.stack = b.stack /\ g.data = b.data
        /\ g.size = b.size /\ g.slips = kept.slips /\ g.err = b.err
    BY <1>2 DEF BufOK, IsBson
  <2> HIDE DEF g
  <2>4. BufOK(g)
    BY <1>1, <1>2, <2>2, <2>3 DEF BufOK, Slipped
  <2>5. Room(g, n)
    BY <1>1, <1>2, <2>2, <2>3 DEF Room, BufOK, Slipped
  <2> QED
    BY <1>2, <2>1, <2>3, <2>4, <2>5 DEF Result, Slipped
<1>5. CASE ~(WrapInt(b.cur + n) <= b.dataSize) /\ Grown(b, n) = -1
  <2> DEFINE f == [b EXCEPT !.err = {"SIZE_OVERFLOW"},
                            !.slips = IF b.err = {} THEN @ ELSE @ \cup {"forgot"}]
  <2>1. r = Result(FALSE, f)
    BY <1>5 DEF EnsureSpace
  <2>2. /\ IsBson(f) /\ f.cur = b.cur /\ f.bad = b.bad /\ f.finished = b.finished
        /\ f.stack = b.stack /\ f.data = b.data /\ f.dataSize = b.dataSize
        /\ f.size = b.size /\ f.err = {"SIZE_OVERFLOW"}
        /\ f.slips = IF b.err = {} THEN b.slips ELSE b.slips \cup {"forgot"}
    <3> DEFINE s == IF b.err = {} THEN b.slips ELSE b.slips \cup {"forgot"}
    <3>1. s = IF b.err = {} THEN b.slips ELSE b.slips \cup {"forgot"}
      OBVIOUS
    <3>2. f = [b EXCEPT !.err = {"SIZE_OVERFLOW"}, !.slips = s]
      OBVIOUS
    <3> HIDE DEF s, f
    <3> QED
      BY <1>1, <3>1, <3>2, Fields DEF IsBson
  <2> HIDE DEF f
  <2>3. Slipped(b) => Slipped(f)
    BY <2>2 DEF Slipped
  <2>4. BufOK(f)
    BY <2>2, <2>3 DEF BufOK
  <2>5. r.ok = FALSE /\ r.b = f
    BY <2>1 DEF Result
  <2> QED
    BY <2>2, <2>3, <2>4, <2>5
<1> QED
  BY <1>3, <1>4, <1>5

LEMMA AdvanceFields ==
  ASSUME NEW b, IsBson(b), NEW n
  PROVE  LET a == Advance(b, n)
         IN  /\ IsBson(a) /\ a.cur = b.cur + n /\ a.dataSize = b.dataSize /\ a.size = b.size
             /\ a.finished = b.finished /\ a.slips = b.slips
             /\ a.data = b.data /\ a.stack = b.stack /\ a.err = b.err
             /\ a.bad = IF b.bad = "no" /\ b.cur + n > b.dataSize THEN "over" ELSE b.bad
<1> DEFINE a == Advance(b, n)
           bad == IF b.bad = "no" /\ b.cur + n > b.dataSize THEN "over" ELSE b.bad
<1>1. a = [b EXCEPT !.cur = b.cur + n, !.bad = bad]
  BY DEF Advance
<1> HIDE DEF a, bad
<1>2. a.bad = bad
  BY <1>1, Fields
<1>3. /\ IsBson(a) /\ a.cur = b.cur + n /\ a.dataSize = b.dataSize /\ a.size = b.size
      /\ a.finished = b.finished /\ a.slips = b.slips /\ a.data = b.data
      /\ a.stack = b.stack /\ a.err = b.err
  BY <1>1, Fields DEF IsBson
<1> QED
  BY <1>2, <1>3 DEF a, bad

LEMMA AdvanceOK ==
  ASSUME NEW b, BufOK(b), NEW n \in Nat, Room(b, n)
  PROVE  /\ BufOK(Advance(b, n))
         /\ \A m \in Nat : Room(b, n + m) => Room(Advance(b, n), m)
         /\ Advance(b, n).cur = b.cur + n
         /\ Slipped(b) => Slipped(Advance(b, n))
<1> DEFINE a == Advance(b, n)
<1>1. /\ IsBson(a) /\ a.cur = b.cur + n /\ a.dataSize = b.dataSize /\ a.size = b.size
      /\ a.finished = b.finished /\ a.slips = b.slips
      /\ a.bad = IF b.bad = "no" /\ b.cur + n > b.dataSize THEN "over" ELSE b.bad
  BY AdvanceFields DEF BufOK
<1> HIDE DEF a
<1>2. b.cur \in Nat /\ b.dataSize \in Nat /\ b.cur + n >= 4
  BY BuilderAssumption DEF BufOK
<1>3. BufOK(a)
  BY <1>1, <1>2 DEF BufOK, Slipped, Room
<1>4. \A m \in Nat : Room(b, n + m) => Room(a, m)
  BY <1>1, <1>2 DEF Slipped, Room
<1> QED
  BY <1>1, <1>3, <1>4 DEF a, Slipped

LEMMA FlagOK ==
  ASSUME NEW b, BufOK(b), NEW flags
  PROVE  BufOK(Flag(b, flags)) /\ \A n \in Nat : Room(b, n) => Room(Flag(b, flags), n)
  BY DEF Flag, BufOK, IsBson, Slipped, Room

LEMMA PlaceOK ==
  ASSUME NEW b, BufOK(b), NEW element
  PROVE  /\ BufOK(Place(b, element)) /\ \A n \in Nat : Room(b, n) => Room(Place(b, element), n)
         /\ Place(b, element).cur = b.cur
  BY DEF Place, BufOK, IsBson, Slipped, Room

LEMMA SlipOK ==
  ASSUME NEW b, BufOK(b), NEW slips
  PROVE  BufOK([b EXCEPT !.slips = b.slips \cup slips])
  BY DEF BufOK, IsBson, Slipped

\* The same holds of the room for less.
LEMMA RoomForLess ==
  ASSUME NEW b, BufOK(b), NEW n \in Nat, NEW m \in Nat, Room(b, n + m)
  PROVE  Room(b, n)
  BY BuilderAssumption DEF Room, BufOK

LEMMA MovedFields ==
  ASSUME NEW b, IsBson(b), NEW from, NEW first, NEW last, NEW to
  PROVE  LET m == Moved(b, from, first, last, to)
         IN  /\ IsBson(m) /\ m.cur = b.cur /\ m.dataSize = b.dataSize /\ m.size = b.size
             /\ m.finished = b.finished /\ m.bad = b.bad /\ m.stack = b.stack /\ m.err = b.err
             /\ m.slips = b.slips \cup {"foreign"} \cup from.slips
<1> DEFINE m == Moved(b, from, first, last, to)
           slips == b.slips \cup {"foreign"} \cup from.slips
           moved == {to + p - first : p \in {p \in DOMAIN from.data : first <= p /\ p < last}}
           data == [p \in DOMAIN b.data \cup moved |->
                      IF p \in moved THEN from.data[p - to + first] ELSE b.data[p]]
           c == [b EXCEPT !.data = data]
<1>1. m = [c EXCEPT !.slips = slips]
  BY DEF Moved
<1> HIDE DEF slips, data
<1>2. /\ IsBson(c) /\ c.cur = b.cur /\ c.dataSize = b.dataSize /\ c.size = b.size
      /\ c.finished = b.finished /\ c.bad = b.bad /\ c.stack = b.stack /\ c.err = b.err
  BY DEF IsBson
<1> HIDE DEF c, m
<1>3. /\ IsBson(m) /\ m.cur = b.cur /\ m.dataSize = b.dataSize /\ m.size = b.size
      /\ m.finished = b.finished /\ m.bad = b.bad /\ m.slips = slips
      /\ m.stack = b.stack /\ m.err = b.err
  BY <1>1, <1>2 DEF IsBson
<1> QED
  BY <1>3 DEF m, slips

\* The offsets the elements get that are moved.
MovedTo(from, first, last, to) ==
  {to + p - first : p \in {p \in DOMAIN from.data : first <= p /\ p < last}}

MovedElements(data, from, first, last, to) ==
  [p \in DOMAIN data \cup MovedTo(from, first, last, to) |->
     IF p \in MovedTo(from, first, last, to) THEN from.data[p - to + first] ELSE data[p]]

LEMMA MovedData ==
  ASSUME NEW b, IsBson(b), NEW from, NEW first, NEW last, NEW to
  PROVE  Moved(b, from, first, last, to).data = MovedElements(b.data, from, first, last, to)
<1> DEFINE slips == b.slips \cup {"foreign"} \cup from.slips
           data == [p \in DOMAIN b.data \cup MovedTo(from, first, last, to) |->
                      IF p \in MovedTo(from, first, last, to) THEN from.data[p - to + first]
                                                              ELSE b.data[p]]
           c == [b EXCEPT !.data = data]
<1>1. Moved(b, from, first, last, to) = [c EXCEPT !.slips = slips]
  BY DEF Moved, MovedTo
<1> HIDE DEF slips, data
<1>2. IsBson(c) /\ c.data = data
  BY DEF IsBson
<1> HIDE DEF c
<1>3. [c EXCEPT !.slips = slips].data = data
  BY <1>2 DEF IsBson
<1> QED
  BY <1>1, <1>3 DEF data, MovedElements

\* Bytes moved in from another object change the elements and the slips only.
LEMMA MovedOK ==
  ASSUME NEW b, BufOK(b), NEW from, NEW first, NEW last, NEW to
  PROVE  BufOK(Moved(b, from, first, last, to))
<1> DEFINE m == Moved(b, from, first, last, to)
<1>1. /\ IsBson(m) /\ m.cur = b.cur /\ m.dataSize = b.dataSize /\ m.size = b.size
      /\ m.finished = b.finished /\ m.bad = b.bad
      /\ m.slips = b.slips \cup {"foreign"} \cup from.slips
  BY MovedFields DEF BufOK
<1> HIDE DEF m
<1>2. Slipped(b) => Slipped(m)
  BY <1>1 DEF Slipped
<1>3. BufOK(m)
  BY <1>1, <1>2 DEF BufOK
<1> QED
  BY <1>3 DEF m

\* Bytes moved in without room for them: the slip says so.
LEMMA MovedAnyway ==
  ASSUME NEW b, BufOK(b), NEW n \in Nat, NEW from, NEW first, NEW last, NEW to
  PROVE  LET all == Moved(Advance(b, n), from, first, last, to)
         IN  BufOK([all EXCEPT !.slips = all.slips \cup {"headless"}])
<1> DEFINE a == Advance(b, n)
           m == Moved(a, from, first, last, to)
           h == [m EXCEPT !.slips = m.slips \cup {"headless"}]
<1>1. /\ IsBson(a) /\ a.cur = b.cur + n /\ a.dataSize = b.dataSize /\ a.size = b.size
      /\ a.finished = b.finished
      /\ a.bad = IF b.bad = "no" /\ b.cur + n > b.dataSize THEN "over" ELSE b.bad
  BY AdvanceFields DEF BufOK
<1> HIDE DEF a
<1>2. /\ IsBson(m) /\ m.cur = a.cur /\ m.dataSize = a.dataSize /\ m.size = a.size
      /\ m.finished = a.finished /\ m.bad = a.bad
  BY <1>1, MovedFields
<1> HIDE DEF m
<1>3. /\ IsBson(h) /\ h.cur = m.cur /\ h.dataSize = m.dataSize /\ h.size = m.size
      /\ h.finished = m.finished /\ h.bad = m.bad /\ h.slips = m.slips \cup {"headless"}
  BY <1>2 DEF IsBson
<1> HIDE DEF h
<1>4. Slipped(h)
  BY <1>3 DEF Slipped
<1>5. b.cur \in Nat /\ b.dataSize \in Nat /\ b.cur >= 4 /\ b.cur + n \in Nat
  BY BuilderAssumption DEF BufOK
<1>6. BufOK(h)
  BY <1>1, <1>2, <1>3, <1>4, <1>5 DEF BufOK
<1> QED
  BY <1>6 DEF h, m, a

LEMMA FinishedField ==
  ASSUME NEW b, IsBson(b), NEW y
  PROVE  LET c == [b EXCEPT !.finished = y]
         IN  /\ IsBson(c) /\ c.size = b.size /\ c.cur = b.cur /\ c.dataSize = b.dataSize
             /\ c.bad = b.bad /\ c.slips = b.slips /\ c.data = b.data /\ c.stack = b.stack
             /\ c.err = b.err /\ c.finished = y
  BY DEF IsBson

-----------------------------------------------------------------------------
(* Every operation leaves a builder in order, whether it succeeds or not.  *)

LEMMA EstartOK ==
  ASSUME NEW b, BufOK(b), NEW type, NEW name, Len(name) \in Nat, NEW val, NEW len,
         NEW d \in Nat
  PROVE  LET r == Estart(b, type, name, val, len, d)
         IN  BufOK(r.b) /\ r.ok \in BOOLEAN /\ (r.ok => Room(r.b, d))
<1> DEFINE r == Estart(b, type, name, val, len, d)
           n == 1 + Len(name) + 1 + d
           space == EnsureSpace(b, n)
           check == CheckFieldName(name)
           element == [type |-> type, key |-> name, val |-> val, len |-> len]
           flagged == Flag(space.b, check.err)
           placed == Place(flagged, element)
<1>1. n \in Nat /\ n = (2 + Len(name)) + d /\ 2 + Len(name) \in Nat
  OBVIOUS
<1>2. BufOK(space.b) /\ space.ok \in BOOLEAN /\ (space.ok => Room(space.b, n))
  BY <1>1, EnsureSpaceOK
<1>3. r = IF b.finished THEN Result(FALSE, Flag(b, {"ALREADY_FINISHED"}))
          ELSE IF ~space.ok THEN space
          ELSE IF ~check.ok THEN Result(FALSE, flagged)
          ELSE Result(TRUE, Advance(placed, 2 + Len(name)))
  BY DEF Estart
<1>4. BufOK(flagged) /\ (space.ok => Room(flagged, n))
  BY <1>1, <1>2, FlagOK
<1>5. BufOK(placed) /\ (space.ok => Room(placed, n))
  BY <1>1, <1>4, PlaceOK
<1>6. BufOK(Flag(b, {"ALREADY_FINISHED"}))
  BY FlagOK
<1> DEFINE head == 2 + Len(name)
           started == Advance(placed, head)
<1> HIDE DEF n, space, check, element, flagged, placed, head
<1>7. space.ok => BufOK(started) /\ Room(started, d)
  <2>1. SUFFICES ASSUME space.ok PROVE BufOK(started) /\ Room(started, d)
    OBVIOUS
  <2>2. head \in Nat /\ Room(placed, head + d)
    BY <1>1, <1>5, <2>1 DEF head
  <2>3. Room(placed, head)
    BY <1>5, <2>2, RoomForLess
  <2> QED
    BY <1>5, <2>2, <2>3, AdvanceOK
<1>8. r = IF b.finished THEN Result(FALSE, Flag(b, {"ALREADY_FINISHED"}))
          ELSE IF ~space.ok THEN space
          ELSE IF ~check.ok THEN Result(FALSE, flagged)
          ELSE Result(TRUE, started)
  BY <1>3 DEF head
<1> HIDE DEF r, started
<1>9. CASE b.finished
  BY <1>6, <1>8, <1>9 DEF Result, r
<1>10. CASE ~b.finished /\ ~space.ok
  BY <1>2, <1>8, <1>10 DEF r
<1>11. CASE ~b.finished /\ space.ok /\ ~check.ok
  BY <1>4, <1>8, <1>11 DEF Result, r
<1>12. CASE ~b.finished /\ space.ok /\ check.ok
  BY <1>7, <1>8, <1>12 DEF Result, r
<1> QED
  BY <1>9, <1>10, <1>11, <1>12

LEMMA AppendValueOK ==
  ASSUME NEW b, BufOK(b), NEW type, NEW name, Len(name) \in Nat, NEW val, NEW len \in Nat
  PROVE  BufOK(AppendValue(b, type, name, val, len).b)
<1> DEFINE e == Estart(b, type, name, val, len, len)
<1>1. BufOK(e.b) /\ e.ok \in BOOLEAN /\ (e.ok => Room(e.b, len))
  BY EstartOK
<1>2. AppendValue(b, type, name, val, len) = IF e.ok THEN Result(TRUE, Advance(e.b, len)) ELSE e
  BY DEF AppendValue
<1> HIDE DEF e
<1>3. e.ok => BufOK(Advance(e.b, len))
  BY <1>1, AdvanceOK
<1> QED
  BY <1>1, <1>2, <1>3 DEF Result

LEMMA FixedSizeIn ==
  ASSUME NEW type \in {"LONG", "DOUBLE", "DATE", "TIMESTAMP", "INT", "BOOL", "NULL", "UNDEFINED"}
  PROVE  FixedSize(type) \in Nat
<1>1. CASE type \in {"LONG", "DOUBLE", "DATE", "TIMESTAMP"}
  BY <1>1 DEF FixedSize
<1>2. CASE type = "INT"
  BY <1>2 DEF FixedSize
<1>3. CASE type = "BOOL"
  BY <1>3 DEF FixedSize
<1>4. CASE type \in {"NULL", "UNDEFINED"}
  BY <1>4 DEF FixedSize
<1> QED
  BY <1>1, <1>2, <1>3, <1>4

LEMMA AppendFixedOK ==
  ASSUME NEW b, BufOK(b), NEW name, Len(name) \in Nat, NEW val,
         NEW type \in {"LONG", "DOUBLE", "DATE", "TIMESTAMP", "INT", "BOOL", "NULL", "UNDEFINED"}
  PROVE  BufOK(AppendFixed(b, type, name, val).b)
<1>1. FixedSize(type) \in Nat
  BY FixedSizeIn
<1> QED
  BY <1>1, AppendValueOK DEF AppendFixed

LEMMA AppendOidOK ==
  ASSUME NEW b, BufOK(b), NEW name, Len(name) \in Nat, NEW oid
  PROVE  BufOK(AppendOid(b, name, oid).b)
  BY AppendValueOK DEF AppendOid

LEMMA AppendStringBaseOK ==
  ASSUME NEW b, BufOK(b), NEW type, NEW name, Len(name) \in Nat, NEW s, Len(s) \in Nat
  PROVE  BufOK(AppendStringBase(b, type, name, s).b)
<1>1. BufOK(AppendValue(b, type, name, s, 4 + Len(s) + 1).b)
  BY AppendValueOK
<1>2. BufOK(Flag(b, CheckString(s).err))
  BY FlagOK
<1> QED
  BY <1>1, <1>2 DEF AppendStringBase, Result

LEMMA AppendCodeWScopeOK ==
  ASSUME NEW b, BufOK(b), NEW name, Len(name) \in Nat, NEW code, Len(code) \in Nat,
         NEW scope, scope.size \in Nat
  PROVE  BufOK(AppendCodeWScope(b, name, code, scope).b)
  BY AppendValueOK DEF AppendCodeWScope

LEMMA AppendBinaryOK ==
  ASSUME NEW b, BufOK(b), NEW old \in BOOLEAN, NEW name, Len(name) \in Nat,
         NEW bytes, Len(bytes) \in Nat
  PROVE  BufOK(AppendBinary(b, old, name, bytes).b)
  BY AppendValueOK DEF AppendBinary

LEMMA AppendRegexOK ==
  ASSUME NEW b, BufOK(b), NEW name, Len(name) \in Nat, NEW pattern, Len(pattern) \in Nat,
         NEW opts, Len(opts) \in Nat
  PROVE  BufOK(AppendRegex(b, name, pattern, opts).b)
<1> DEFINE bytes == Len(pattern) + 1 + Len(opts) + 1
           e == Estart(b, "REGEX", name, <<pattern, opts>>, bytes, bytes)
           flagged == Flag(e.b, CheckString(pattern).err)
           torn == [flagged EXCEPT !.slips = flagged.slips \cup {"torn"}]
           r == AppendRegex(b, name, pattern, opts)
<1>1. bytes \in Nat
  OBVIOUS
<1>2. BufOK(e.b) /\ e.ok \in BOOLEAN /\ (e.ok => Room(e.b, bytes))
  BY <1>1, EstartOK
<1>3. r = IF ~e.ok THEN e
          ELSE IF CheckString(pattern).ok THEN Result(TRUE, Advance(e.b, bytes))
          ELSE Result(FALSE, torn)
  BY DEF AppendRegex
<1> HIDE DEF bytes, e, r
<1>4. e.ok => BufOK(Advance(e.b, bytes))
  BY <1>1, <1>2, AdvanceOK
<1>5. BufOK(flagged)
  BY <1>2, FlagOK
<1> HIDE DEF flagged
<1>6. BufOK(torn)
  BY <1>5, SlipOK
<1> HIDE DEF torn
<1> QED
  BY <1>2, <1>3, <1>4, <1>6 DEF Result, r

LEMMA AppendBsonOK ==
  ASSUME NEW b, BufOK(b), NEW name, Len(name) \in Nat, NEW sub, sub.size \in Nat
  PROVE  BufOK(AppendBson(b, name, sub).b)
<1> DEFINE e == Estart(b, "OBJECT", name, <<>>, sub.size, sub.size)
           m == Moved(Advance(e.b, sub.size), sub, 0, sub.size, e.b.cur)
<1>1. BufOK(e.b) /\ e.ok \in BOOLEAN /\ (e.ok => Room(e.b, sub.size))
  BY EstartOK
<1>2. AppendBson(b, name, sub) = IF ~e.ok THEN e ELSE Result(TRUE, m)
  BY DEF AppendBson
<1>3. e.ok => BufOK(m)
  BY <1>1, AdvanceOK, MovedOK
<1> HIDE DEF e, m
<1> QED
  BY <1>1, <1>2, <1>3 DEF Result

LEMMA AppendElementAsIsOK ==
  ASSUME NEW b, BufOK(b), NEW from, NEW p, NextOffset(from, p) - p \in Nat
  PROVE  BufOK(AppendElementAsIs(b, from, p).b)
<1> DEFINE size == NextOffset(from, p) - p
           space == EnsureSpace(b, size)
           all == Moved(Advance(space.b, size), from, p, p + size, space.b.cur)
           late == [all EXCEPT !.slips = all.slips \cup {"late"}]
<1>1. BufOK(space.b) /\ space.ok \in BOOLEAN /\ (space.ok => Room(space.b, size))
  BY EnsureSpaceOK
<1>2. space.ok => BufOK(all)
  BY <1>1, AdvanceOK, MovedOK
<1>3. AppendElementAsIs(b, from, p) =
        IF ~space.ok THEN space ELSE Result(TRUE, IF b.finished THEN late ELSE all)
  BY DEF AppendElementAsIs
<1> HIDE DEF size, space, all
<1>4. space.ok => BufOK(late)
  BY <1>2, SlipOK
<1> HIDE DEF late
<1> QED
  BY <1>1, <1>2, <1>3, <1>4 DEF Result

\* The value is moved in whether there is room for it or not. If there was
\* none, it has no start.
LEMMA AppendElementOK ==
  ASSUME NEW b, BufOK(b), NEW name, Len(name) \in Nat, NEW from, NEW p,
         from.data[p].len \in Nat
  PROVE  BufOK(AppendElement(b, name, from, p).b)
<1> DEFINE old == from.data[p]
           e == Estart(b, old.type, name, old.val, old.len, old.len)
           first == NextOffset(from, p) - old.len
           past == Advance(e.b, old.len)
           all == Moved(past, from, first, first + old.len, e.b.cur)
           headless == [all EXCEPT !.slips = all.slips \cup {"headless"}]
<1>1. BufOK(e.b) /\ e.ok \in BOOLEAN /\ (e.ok => Room(e.b, old.len))
  BY EstartOK
<1>2. AppendElement(b, name, from, p) = Result(TRUE, IF e.ok THEN all ELSE headless)
  BY DEF AppendElement
<1>3. e.ok => BufOK(all)
  BY <1>1, AdvanceOK, MovedOK
<1>4. BufOK(headless)
  <2> DEFINE c == e.b  n == old.len  to == e.b.cur
  <2>1. BufOK(c) /\ n \in Nat
    BY <1>1
  <2> HIDE DEF c, n, to
  <2> QED
    BY <2>1, MovedAnyway DEF c, n, to
<1> HIDE DEF old, e, first, past, all, headless
<1>5. AppendElement(b, name, from, p).b = IF e.ok THEN all ELSE headless
  BY <1>2 DEF Result
<1> QED
  BY <1>1, <1>3, <1>4, <1>5

\* A sub-object needs room for the five bytes of an empty one.
LEMMA StartSubOK ==
  ASSUME NEW b, BufOK(b), NEW type, NEW name, Len(name) \in Nat
  PROVE  BufOK(StartSub(b, type, name).b)
<1> DEFINE e == Estart(b, type, name, <<>>, 0, 5)
           deep == [e.b EXCEPT !.bad = "deep"]
           pushed == [e.b EXCEPT !.stack = Append(@, e.b.cur)]
<1>1. BufOK(e.b) /\ e.ok \in BOOLEAN /\ (e.ok => Room(e.b, 5))
  BY EstartOK
<1>2. StartSub(b, type, name) =
        IF ~e.ok THEN e ELSE IF Len(b.stack) = StackSize THEN Result(TRUE, deep)
        ELSE Result(TRUE, Advance(pushed, 4))
  BY DEF StartSub
<1> DEFINE c == e.b
<1>3. BufOK(c) /\ (e.ok => Room(c, 4 + 1))
  BY <1>1
<1>4. deep = [c EXCEPT !.bad = "deep"] /\ pushed = [c EXCEPT !.stack = Append(c.stack, c.cur)]
  OBVIOUS
<1> HIDE DEF c, deep, pushed
<1>5. BufOK(deep)
  BY <1>3, <1>4 DEF BufOK, IsBson
<1>6. BufOK(pushed) /\ (e.ok => Room(pushed, 4 + 1))
  BY <1>3, <1>4 DEF BufOK, IsBson, Slipped, Room
<1>7. e.ok => BufOK(Advance(pushed, 4))
  <2>1. e.ok => Room(pushed, 4)
    BY <1>6 DEF Room, BufOK
  <2> QED
    BY <1>6, <2>1, AdvanceOK
<1> HIDE DEF e
<1>8. StartSub(b, type, name).b =
        IF ~e.ok THEN e.b ELSE IF Len(b.stack) = StackSize THEN deep ELSE Advance(pushed, 4)
  BY <1>2 DEF Result
<1> QED
  BY <1>1, <1>5, <1>7, <1>8

LEMMA AppendZeroOK ==
  ASSUME NEW b, BufOK(b), Room(b, 1)
  PROVE  BufOK(AppendZero(b))
  BY PlaceOK, AdvanceOK DEF AppendZero

LEMMA FinishObjectOK ==
  ASSUME NEW b, BufOK(b)
  PROVE  BufOK(FinishObject(b).b)
<1> DEFINE space == EnsureSpace(b, 1)
           z == AppendZero(space.b)
           start == b.stack[Len(b.stack)]
           patched == [p \in DOMAIN z.data |->
                         IF z.data[p].type # "EOO" /\ Body(z, p) = start
                           THEN [z.data[p] EXCEPT !.len = z.cur - start] ELSE z.data[p]]
           under == [z EXCEPT !.bad = "under"]
           closed == [z EXCEPT !.data = patched, !.stack = SubSeq(@, 1, Len(@) - 1)]
<1>1. BufOK(space.b) /\ space.ok \in BOOLEAN /\ (space.ok => Room(space.b, 1))
  BY EnsureSpaceOK
<1>2. space.ok => BufOK(z)
  BY <1>1, AppendZeroOK
<1>3. FinishObject(b) =
        IF ~space.ok THEN space ELSE IF b.stack = <<>> THEN Result(TRUE, under)
        ELSE Result(TRUE, closed)
  BY DEF FinishObject
<1> HIDE DEF patched
<1> DEFINE data == [z EXCEPT !.data = patched]
<1>4. closed = [data EXCEPT !.stack = SubSeq(data.stack, 1, Len(data.stack) - 1)]
  BY <1>3
<1> HIDE DEF space, z
<1>5. space.ok => BufOK(under)
  BY <1>2 DEF BufOK, IsBson
<1>6. space.ok => BufOK(data)
  BY <1>2 DEF BufOK, IsBson, Slipped
<1> HIDE DEF data, closed
<1>7. space.ok => BufOK(closed)
  BY <1>4, <1>6 DEF BufOK, IsBson, Slipped
<1> HIDE DEF under
<1>8. FinishObject(b).b =
        IF ~space.ok THEN space.b ELSE IF b.stack = <<>> THEN under ELSE closed
  BY <1>3 DEF Result
<1> QED
  BY <1>1, <1>5, <1>7, <1>8

LEMMA FinishOK ==
  ASSUME NEW b, BufOK(b)
  PROVE  BufOK(Finish(b).b)
<1> DEFINE space == EnsureSpace(b, 1)
           z == AppendZero(space.b)
           slips == IF b.stack = <<>> THEN z.slips ELSE z.slips \cup {"early"}
           sized == [z EXCEPT !.size = z.cur]
           closed == [sized EXCEPT !.finished = TRUE]
           whole == [closed EXCEPT !.slips = slips]
<1>1. BufOK(space.b) /\ space.ok \in BOOLEAN /\ (space.ok => Room(space.b, 1))
  BY EnsureSpaceOK
<1>2. space.ok => BufOK(z)
  BY <1>1, AppendZeroOK
<1>3. whole = [z EXCEPT !.size = z.cur, !.finished = TRUE,
                        !.slips = IF b.stack = <<>> THEN @ ELSE @ \cup {"early"}]
  OBVIOUS
<1>4. Finish(b) = IF "NOT_UTF8" \in b.err THEN Result(FALSE, b)
                  ELSE IF b.finished THEN Result(TRUE, b)
                  ELSE IF ~space.ok THEN space ELSE Result(TRUE, whole)
  BY <1>3 DEF Finish
<1>5. slips \in {z.slips, z.slips \cup {"early"}}
  OBVIOUS
<1> HIDE DEF space, z, slips
<1>6. BufOK(z) => /\ IsBson(sized) /\ sized.size = z.cur /\ sized.cur = z.cur
                  /\ sized.dataSize = z.dataSize /\ sized.bad = z.bad /\ sized.slips = z.slips
  BY DEF BufOK, IsBson
<1> HIDE DEF sized
<1>7. BufOK(z) => /\ IsBson(closed) /\ closed.size = z.cur /\ closed.cur = z.cur
                  /\ closed.dataSize = z.dataSize /\ closed.bad = z.bad
                  /\ closed.slips = z.slips
  BY <1>6, FinishedField
<1> HIDE DEF closed
<1>8. BufOK(z) => /\ IsBson(whole) /\ whole.size = z.cur /\ whole.cur = z.cur
                  /\ whole.dataSize = z.dataSize /\ whole.bad = z.bad
                  /\ whole.slips = slips
  BY <1>7 DEF IsBson
<1> HIDE DEF whole
<1>9. space.ok => BufOK(whole)
  BY <1>2, <1>5, <1>8, BuilderAssumption DEF BufOK, Slipped
<1>10. Finish(b).b = IF "NOT_UTF8" \in b.err THEN b ELSE IF b.finished THEN b
                     ELSE IF ~space.ok THEN space.b ELSE whole
  BY <1>4 DEF Result
<1> QED
  BY <1>1, <1>9, <1>10

LEMMA InitBsonOK ==
  ASSUME NEW bytes \in 4..IntMax
  PROVE  BufOK(InitBson(bytes)) /\ InitBson(bytes).bad = "no"
  BY BuilderAssumption DEF InitBson, BufOK, IsBson

LEMMA CopyBsonOK ==
  ASSUME NEW b, BufOK(b), b.bad = "no", b.finished
  PROVE  BufOK(CopyBson(b))
<1> DEFINE new == InitBson(b.size)
           bytes == [p \in {p \in DOMAIN b.data : p < b.size} |-> b.data[p]]
           c1 == [new EXCEPT !.data = bytes]
           c2 == [c1 EXCEPT !.size = b.size]
           c3 == [c2 EXCEPT !.finished = TRUE]
           c4 == [c3 EXCEPT !.slips = b.slips \cup {"foreign"}]
<1>1. CopyBson(b) = c4
  BY DEF CopyBson
<1>2. b.size \in 4..IntMax
  BY DEF BufOK
<1>3. BufOK(new) /\ new.bad = "no" /\ new.dataSize = b.size /\ new.cur = 4
  BY <1>2, InitBsonOK DEF InitBson
<1> HIDE DEF new, bytes
<1>4. IsBson(c1) /\ c1.bad = "no" /\ c1.dataSize = b.size /\ c1.cur = 4
  BY <1>3 DEF BufOK, IsBson
<1> HIDE DEF c1
<1>5. IsBson(c2) /\ c2.bad = "no" /\ c2.dataSize = b.size /\ c2.cur = 4 /\ c2.size = b.size
  BY <1>4 DEF IsBson
<1> HIDE DEF c2
<1>6. IsBson(c3) /\ c3.bad = "no" /\ c3.dataSize = b.size /\ c3.cur = 4 /\ c3.size = b.size
  BY <1>5, FinishedField
<1> HIDE DEF c3
<1>7. IsBson(c4) /\ c4.bad = "no" /\ c4.dataSize = b.size /\ c4.cur = 4 /\ c4.size = b.size
  BY <1>6 DEF IsBson
<1> HIDE DEF c4
<1> QED
  BY <1>1, <1>2, <1>7, BuilderAssumption DEF BufOK
-----------------------------------------------------------------------------
(* What is in the buffer. As long as nothing was written outside of an     *)
(* array, the elements are whole and lie one behind the other, and the     *)
(* flags tell what was wrong with them; the slips are the exceptions.      *)

IsElement(e) ==
  /\ e = [type |-> e.type, key |-> e.key, val |-> e.val, len |-> e.len]
  /\ e.type \in Types /\ e.key \in Seq(Nat) /\ e.len \in Nat

Typed(b) ==
  /\ DOMAIN b.data \subseteq Nat /\ \A p \in DOMAIN b.data : IsElement(b.data[p])
  /\ b.finished \in BOOLEAN
  /\ b.finished = FALSE \/ "foreign" \notin b.slips => \A p \in DOMAIN b.data : 4 <= p /\ p < b.cur
  /\ b.stack \in Seq(Nat) /\ Len(b.stack) <= StackSize
  /\ \A i \in 1..Len(b.stack) : b.stack[i] <= b.cur
  /\ b.err \subseteq Flags /\ b.slips \subseteq Slips
  /\ b.bad \in {"no", "deep", "under", "over"}

\* An element without its value has left a flag that keeps the document from
\* being finished, unless the flag was overwritten.
TornFlag(b) ==
  "torn" \in b.slips => "forgot" \in b.slips \/ ("NOT_UTF8" \in b.err /\ b.finished = FALSE)

\* The sub-object at p is one that is open.
InStack(b, p) == \E i \in 1..Len(b.stack) : b.stack[i] = Body(b, p)

\* Where an element starts, or will.
Ahead(b) == DOMAIN b.data \cup {b.cur}

\* The element at p leads to the next one; of an open sub-object, to its first.
Leads(b, p) ==
  IF InStack(b, p) THEN Body(b, p) + 4 \in Ahead(b)
  ELSE /\ NextOffset(b, p) \in Ahead(b)
       /\ b.data[p].type \in {"OBJECT", "ARRAY"} =>
            /\ Body(b, p) + 4 \in DOMAIN b.data
            /\ NextOffset(b, p) - 1 \in DOMAIN b.data
            /\ b.data[NextOffset(b, p) - 1].type = "EOO"

Open(b) ==
  /\ 4 \in Ahead(b)
  /\ \A p \in DOMAIN b.data : b.data[p].type # "EOO" => Leads(b, p)

Layout(b) ==
  b.slips \cap {"early", "forgot", "headless", "late", "torn"} = {} =>
    IF b.finished THEN Readable(b) /\ b.stack = <<>> ELSE Open(b)

TextChecked(e) == e.type \in {"STRING", "SYMBOL"} => e.val \in Seq(Nat) /\ CheckString(e.val).ok

\* The flags are those of the keys and strings that are there; NOT_UTF8 may come
\* from one that is not.
Honest(b) ==
  b.slips \cap {"foreign", "forgot"} = {} =>
    /\ \A p \in DOMAIN b.data :
         CheckFieldName(b.data[p].key).err \subseteq b.err /\ TextChecked(b.data[p])
    /\ \A f \in b.err \cap {"FIELD_HAS_DOT", "FIELD_INIT_DOLLAR"} :
         \/ "NOT_UTF8" \in b.err
         \/ \E p \in DOMAIN b.data : f \in CheckFieldName(b.data[p].key).err

BuilderOK(b) ==
  BufOK(b) /\ Typed(b) /\ (b.bad = "no" => TornFlag(b) /\ Layout(b) /\ Honest(b))

-----------------------------------------------------------------------------
(* What operations do to the elements.                                     *)

Placed(data, p, e) == [q \in DOMAIN data \cup {p} |-> IF q = p THEN e ELSE data[q]]

\* An operation that fails.
Kept(b, c) ==
  /\ c.data = b.data /\ c.cur = b.cur /\ c.size = b.size /\ c.finished = b.finished
  /\ c.stack = b.stack /\ c.bad = b.bad
  /\ b.slips \subseteq c.slips /\ c.slips \subseteq b.slips \cup {"wrapped", "forgot"}
  /\ c.err \subseteq Flags
  /\ "forgot" \in c.slips \/ b.err \subseteq c.err
  /\ \A f \in c.err \cap {"FIELD_HAS_DOT", "FIELD_INIT_DOLLAR"} : f \in b.err \/ "NOT_UTF8" \in c.err

\* An element is added, and the position moves n bytes.
Added(b, c, e, n) ==
  /\ b.finished = FALSE /\ c.finished = FALSE
  /\ c.data = Placed(b.data, b.cur, e)
  /\ c.cur = b.cur + n /\ c.size = b.size /\ c.stack = b.stack
  /\ c.err = b.err \cup CheckFieldName(e.key).err
  /\ b.slips \subseteq c.slips /\ c.slips \subseteq b.slips \cup {"wrapped"}
  /\ c.bad \in {"no", "over"}

\* The same, with a key or a value whose flags may not be there.
Put(b, c, e, n) ==
  /\ b.finished = FALSE /\ c.finished = FALSE
  /\ c.data = Placed(b.data, b.cur, e)
  /\ c.cur = b.cur + n /\ c.stack = b.stack
  /\ c.err \subseteq Flags
  /\ b.slips \subseteq c.slips /\ c.slips \subseteq b.slips \cup {"wrapped", "foreign"}
  /\ c.bad \in {"no", "over"}

LEMMA FlagFields ==
  ASSUME NEW b, IsBson(b), NEW flags
  PROVE  LET c == Flag(b, flags)
         IN  /\ IsBson(c) /\ c.data = b.data /\ c.cur = b.cur /\ c.dataSize = b.dataSize
             /\ c.size = b.size /\ c.finished = b.finished /\ c.stack = b.stack
             /\ c.bad = b.bad /\ c.slips = b.slips /\ c.err = b.err \cup flags
  BY DEF Flag, IsBson

LEMMA PlaceFields ==
  ASSUME NEW b, IsBson(b), NEW e
  PROVE  LET c == Place(b, e)
         IN  /\ IsBson(c) /\ c.cur = b.cur /\ c.dataSize = b.dataSize
             /\ c.size = b.size /\ c.finished = b.finished /\ c.stack = b.stack
             /\ c.bad = b.bad /\ c.slips = b.slips /\ c.err = b.err
             /\ c.data = Placed(b.data, b.cur, e)
<1> DEFINE data == Placed(b.data, b.cur, e)
<1>1. Place(b, e) = [b EXCEPT !.data = data]
  BY DEF Place, Placed
<1> HIDE DEF data
<1> QED
  BY <1>1 DEF IsBson, data

LEMMA KeptOK ==
  ASSUME NEW b, BuilderOK(b), NEW c, BufOK(c), Kept(b, c)
  PROVE  BuilderOK(c)
<1>1. Typed(c)
  BY DEF BuilderOK, Typed, Kept, Slips
<1>2. TornFlag(b) => TornFlag(c)
  BY DEF TornFlag, Kept
<1>3. Layout(b) => Layout(c)
  <2>1. Readable(b) => Readable(c)
    BY DEF Readable, Kept, NextOffset, Body
  <2>2. Open(b) => Open(c)
    BY DEF Open, Leads, InStack, Ahead, Kept, NextOffset, Body
  <2>3. c.slips \cap {"early", "forgot", "headless", "late", "torn"} = {} =>
          b.slips \cap {"early", "forgot", "headless", "late", "torn"} = {}
    BY DEF Kept
  <2> QED
    BY <2>1, <2>2, <2>3 DEF Layout, Kept
<1>4. Honest(b) => Honest(c)
  BY DEF Honest, Kept
<1> QED
  BY <1>1, <1>2, <1>3, <1>4 DEF BuilderOK, Kept

\* Added elements.
LEMMA AddedPut ==
  ASSUME NEW b, BuilderOK(b), NEW c, NEW e, IsElement(e), NEW n, Added(b, c, e, n)
  PROVE  Put(b, c, e, n)
<1>1. CheckFieldName(e.key).err \subseteq KeyFlags
  BY CheckFieldNameFlags DEF IsElement
<1> QED
  BY <1>1 DEF Put, Added, BuilderOK, Typed, KeyFlags, Flags

LEMMA PutTyped ==
  ASSUME NEW b, BuilderOK(b), NEW c, BufOK(c), NEW e, IsElement(e), NEW n \in Nat,
         n > 0, Put(b, c, e, n)
  PROVE  Typed(c)
<1>1. b.cur \in Nat /\ b.cur >= 4 /\ c.cur > b.cur
  BY DEF BuilderOK, BufOK, Put
<1>2. DOMAIN c.data = DOMAIN b.data \cup {b.cur}
      /\ \A p \in DOMAIN c.data : c.data[p] = IF p = b.cur THEN e ELSE b.data[p]
  BY DEF Put, Placed
<1>3. DOMAIN c.data \subseteq Nat /\ \A p \in DOMAIN c.data : IsElement(c.data[p])
  BY <1>1, <1>2 DEF BuilderOK, Typed
<1>6. \A p \in DOMAIN c.data : 4 <= p /\ p < c.cur
  BY <1>1, <1>2 DEF BuilderOK, Typed, Put
<1>4. /\ c.stack \in Seq(Nat) /\ Len(c.stack) <= StackSize
      /\ \A i \in 1..Len(c.stack) : c.stack[i] <= c.cur
  <2>1. c.stack = b.stack /\ b.stack \in Seq(Nat) /\ Len(b.stack) <= StackSize
        /\ \A i \in 1..Len(b.stack) : b.stack[i] <= b.cur /\ b.stack[i] \in Nat
    BY DEF BuilderOK, Typed, Put
  <2> QED
    BY <1>1, <2>1 DEF Put
<1> QED
  BY <1>3, <1>4, <1>6 DEF Typed, Put, BuilderOK, Slips

LEMMA AddedHonest ==
  ASSUME NEW b, BuilderOK(b), b.bad = "no", NEW c, NEW e, TextChecked(e), NEW n,
         Added(b, c, e, n), b.cur \in Nat
  PROVE  Honest(c)
<1>0. b.cur \notin DOMAIN b.data
  <2>1. Typed(b) /\ b.finished = FALSE
    BY DEF BuilderOK, Added
  <2> QED
    BY <2>1 DEF Typed
<1>1. DOMAIN c.data = DOMAIN b.data \cup {b.cur}
      /\ c.data[b.cur] = e /\ \A p \in DOMAIN b.data : c.data[p] = b.data[p]
  BY <1>0 DEF Added, Placed
<1>2. Honest(b)
  BY DEF BuilderOK
<1> QED
  BY <1>0, <1>1, <1>2 DEF Honest, Added

\* With its value, the element leads to what is written next.
LEMMA PutLayout ==
  ASSUME NEW b, BuilderOK(b), b.bad = "no", NEW c, NEW e, IsElement(e),
         e.type \notin {"OBJECT", "ARRAY"}, NEW n,
         n = 2 + Len(e.key) + e.len, Put(b, c, e, n)
  PROVE  Layout(c)
<1>1. /\ b.finished = FALSE /\ c.finished = FALSE /\ b.cur \in Nat /\ b.cur >= 4
      /\ DOMAIN b.data \subseteq Nat /\ c.cur = b.cur + n /\ c.stack = b.stack
      /\ \A i \in 1..Len(b.stack) : b.stack[i] <= b.cur /\ b.stack[i] \in Nat
      /\ Len(e.key) \in Nat /\ e.len \in Nat /\ n \in Nat
  <2>1. Len(e.key) \in Nat /\ e.len \in Nat
    BY DEF IsElement
  <2>2. /\ DOMAIN b.data \subseteq Nat /\ b.stack \in Seq(Nat)
        /\ \A i \in 1..Len(b.stack) : b.stack[i] <= b.cur
    BY DEF BuilderOK, Typed
  <2>3. b.cur \in Nat /\ b.cur >= 4
    BY DEF BuilderOK, BufOK
  <2> QED
    <3>1. n \in Nat
      BY <2>1
    <3>2. \A i \in 1..Len(b.stack) : b.stack[i] \in Nat
      BY <2>2
    <3> QED
      BY <2>1, <2>2, <2>3, <3>1, <3>2 DEF Put
<1>2. b.cur \notin DOMAIN b.data
  BY <1>1 DEF BuilderOK, Typed
<1>3. /\ DOMAIN c.data = DOMAIN b.data \cup {b.cur} /\ c.data[b.cur] = e
      /\ \A p \in DOMAIN b.data : c.data[p] = b.data[p]
  BY <1>2 DEF Put, Placed
<1>4. Ahead(b) \subseteq DOMAIN c.data /\ c.cur \in Ahead(c)
  BY <1>3 DEF Ahead
<1>5. SUFFICES ASSUME Open(b) PROVE Open(c)
  <2>1. c.slips \cap {"early", "forgot", "headless", "late", "torn"} = {} =>
          b.slips \cap {"early", "forgot", "headless", "late", "torn"} = {}
    BY DEF Put
  <2> QED
    BY <1>1, <2>1 DEF Layout, BuilderOK
<1>6. ASSUME NEW p \in DOMAIN b.data, b.data[p].type # "EOO" PROVE Leads(c, p)
  <2>1. Leads(b, p)
    BY <1>5, <1>6 DEF Open
  <2>2. /\ Body(c, p) = Body(b, p) /\ NextOffset(c, p) = NextOffset(b, p)
        /\ InStack(c, p) <=> InStack(b, p)
    BY <1>1, <1>3 DEF Body, NextOffset, InStack
  <2>3. c.data[p] = b.data[p] /\ DOMAIN b.data \subseteq DOMAIN c.data
        /\ \A q \in DOMAIN b.data : c.data[q] = b.data[q]
    BY <1>3
  <2> QED
    BY <1>4, <2>1, <2>2, <2>3 DEF Leads, Ahead
<1>7. Leads(c, b.cur)
  <2>1. NextOffset(c, b.cur) = c.cur /\ Body(c, b.cur) > b.cur
    <3>1. /\ NextOffset(c, b.cur) = b.cur + 2 + Len(e.key) + e.len
          /\ Body(c, b.cur) = b.cur + 2 + Len(e.key)
      BY <1>3 DEF NextOffset, Body
    <3> DEFINE x == b.cur  k == Len(e.key)  l == e.len
    <3>2. x \in Nat /\ k \in Nat /\ l \in Nat /\ n = 2 + k + l /\ c.cur = x + n
      BY <1>1
    <3> HIDE DEF x, k, l
    <3>3. c.cur = x + 2 + k + l /\ x + 2 + k > x
      BY <3>2
    <3> QED
      BY <3>1, <3>3 DEF x, k, l
  <2>2. ~InStack(c, b.cur)
    BY <1>1, <2>1 DEF InStack
  <2> QED
    BY <1>3, <1>4, <2>1, <2>2 DEF Leads
<1>8. 4 \in Ahead(c)
  BY <1>4, <1>5 DEF Open, Ahead
<1> QED
  BY <1>3, <1>6, <1>7, <1>8 DEF Open

LEMMA AddedOK ==
  ASSUME NEW b, BuilderOK(b), b.bad = "no", NEW c, BufOK(c), NEW e, IsElement(e),
         e.type \notin {"OBJECT", "ARRAY"}, TextChecked(e), NEW n,
         n = 2 + Len(e.key) + e.len, Added(b, c, e, n)
  PROVE  BuilderOK(c)
<1>1. n \in Nat /\ n > 0 /\ b.cur \in Nat
  BY DEF IsElement, BuilderOK, BufOK
<1>2. Put(b, c, e, n)
  BY AddedPut
<1>3. Typed(c) /\ Layout(c)
  BY <1>1, <1>2, PutTyped, PutLayout
<1>4. Honest(c)
  BY <1>1, AddedHonest
<1>5. TornFlag(c)
  BY DEF BuilderOK, TornFlag, Added
<1> QED
  BY <1>3, <1>4, <1>5 DEF BuilderOK

\* bson_ensure_space.
LEMMA SpaceKept ==
  ASSUME NEW b, BuilderOK(b), NEW n \in Nat, EnsureSpace(b, n).ok = FALSE
  PROVE  Kept(b, EnsureSpace(b, n).b)
<1> DEFINE r == EnsureSpace(b, n)  c == r.b
<1>1. BufOK(b)
  BY DEF BuilderOK
<1>2. /\ c.cur = b.cur /\ c.finished = b.finished /\ c.stack = b.stack
      /\ c.data = b.data /\ c.bad = b.bad /\ c.size = b.size
      /\ c.err = {"SIZE_OVERFLOW"}
      /\ c.slips = IF b.err = {} THEN b.slips ELSE b.slips \cup {"forgot"}
  BY <1>1, EnsureSpaceOK
<1> HIDE DEF c
<1> QED
  BY <1>2 DEF Kept, Flags, c

\* bson_append_estart: it fails and leaves flags, or puts an element in.
LEMMA EstartKept ==
  ASSUME NEW b, BuilderOK(b), NEW type, NEW name \in Seq(Nat), NEW val, NEW len, NEW d \in Nat,
         Estart(b, type, name, val, len, d).ok = FALSE
  PROVE  Kept(b, Estart(b, type, name, val, len, d).b)
<1> DEFINE r == Estart(b, type, name, val, len, d)
           n == 1 + Len(name) + 1 + d
           space == EnsureSpace(b, n)
           check == CheckFieldName(name)
           element == [type |-> type, key |-> name, val |-> val, len |-> len]
           flagged == Flag(space.b, check.err)
           started == Advance(Place(flagged, element), 2 + Len(name))
           late == Flag(b, {"ALREADY_FINISHED"})
<1>1. n \in Nat /\ BufOK(b) /\ Typed(b)
  BY DEF BuilderOK
<1>2. r = IF b.finished THEN Result(FALSE, late)
          ELSE IF ~space.ok THEN space
          ELSE IF ~check.ok THEN Result(FALSE, flagged)
          ELSE Result(TRUE, started)
  BY DEF Estart
<1>3. check.ok \in BOOLEAN /\ check.err \subseteq KeyFlags /\ (~check.ok <=> "NOT_UTF8" \in check.err)
  BY CheckFieldNameFlags
<1>4. space.ok = FALSE => Kept(b, space.b)
  BY <1>1, SpaceKept
<1>5. /\ BufOK(space.b) /\ space.ok \in BOOLEAN
      /\ space.b.cur = b.cur /\ space.b.finished = b.finished /\ space.b.stack = b.stack
      /\ space.b.data = b.data /\ space.b.bad = b.bad /\ space.b.size = b.size
      /\ space.ok => space.b.err = b.err /\ space.b.slips \in {b.slips, b.slips \cup {"wrapped"}}
  BY <1>1, EnsureSpaceOK
<1> HIDE DEF n, space, check, element, started
<1>6. /\ late.data = b.data /\ late.cur = b.cur
      /\ late.size = b.size /\ late.finished = b.finished /\ late.stack = b.stack
      /\ late.bad = b.bad /\ late.slips = b.slips /\ late.err = b.err \cup {"ALREADY_FINISHED"}
  BY <1>1, FlagFields DEF BufOK
<1> DEFINE c == space.b
<1>7. /\ flagged.data = c.data /\ flagged.cur = c.cur
      /\ flagged.size = c.size /\ flagged.finished = c.finished /\ flagged.stack = c.stack
      /\ flagged.bad = c.bad /\ flagged.slips = c.slips /\ flagged.err = c.err \cup check.err
  <2>1. IsBson(c)
    BY <1>5 DEF BufOK
  <2> HIDE DEF c
  <2> QED
    BY <2>1, FlagFields DEF c
<1> HIDE DEF late, flagged, r, c
<1>8. Kept(b, late)
  BY <1>1, <1>6 DEF Kept, Typed, Flags
<1>9. space.ok /\ ~check.ok => Kept(b, flagged)
  BY <1>1, <1>3, <1>5, <1>7 DEF Kept, Typed, Flags, KeyFlags, c
<1>10. r.ok = FALSE
  BY DEF r
<1>11. CASE b.finished
  <2>1. r.b = late
    BY <1>2, <1>11 DEF Result
  <2> QED
    BY <2>1, <1>8 DEF r
<1>12. CASE ~b.finished /\ ~space.ok
  <2>1. r = space /\ space.ok = FALSE
    BY <1>2, <1>5, <1>12
  <2> QED
    BY <2>1, <1>4 DEF r
<1>13. CASE ~b.finished /\ space.ok /\ ~check.ok
  <2>1. r.b = flagged
    BY <1>2, <1>13 DEF Result
  <2> QED
    BY <2>1, <1>9, <1>13 DEF r
<1>14. CASE ~b.finished /\ space.ok /\ check.ok
  BY <1>2, <1>10, <1>14 DEF Result
<1> QED
  BY <1>11, <1>12, <1>13, <1>14

\* The element is in, and nothing slipped if there was no sum to wrap.
Started(b, c, e, n, m) == Added(b, c, e, n) /\ (b.cur + m <= IntMax => c.slips = b.slips)

LEMMA EstartStarts ==
  ASSUME NEW b, BuilderOK(b), b.bad = "no", NEW type, NEW name \in Seq(Nat), NEW val, NEW len,
         NEW d \in Nat, Estart(b, type, name, val, len, d).ok = TRUE
  PROVE  Started(b, Estart(b, type, name, val, len, d).b,
                 [type |-> type, key |-> name, val |-> val, len |-> len],
                 2 + Len(name), 1 + Len(name) + 1 + d)
<1> DEFINE r == Estart(b, type, name, val, len, d)
           n == 1 + Len(name) + 1 + d
           space == EnsureSpace(b, n)
           check == CheckFieldName(name)
           element == [type |-> type, key |-> name, val |-> val, len |-> len]
           flagged == Flag(space.b, check.err)
           placed == Place(flagged, element)
           head == 2 + Len(name)
           started == Advance(placed, head)
           late == Flag(b, {"ALREADY_FINISHED"})
<1>1. n \in Nat /\ BufOK(b) /\ Typed(b) /\ head \in Nat
  BY DEF BuilderOK
<1>2. r = IF b.finished THEN Result(FALSE, late)
          ELSE IF ~space.ok THEN space
          ELSE IF ~check.ok THEN Result(FALSE, flagged)
          ELSE Result(TRUE, started)
  BY DEF Estart
<1>3. element.key = name
  OBVIOUS
<1>5. /\ BufOK(space.b) /\ space.ok \in BOOLEAN
      /\ space.b.cur = b.cur /\ space.b.finished = b.finished /\ space.b.stack = b.stack
      /\ space.b.data = b.data /\ space.b.bad = b.bad /\ space.b.size = b.size
      /\ space.ok => space.b.err = b.err /\ space.b.slips \in {b.slips, b.slips \cup {"wrapped"}}
      /\ b.cur + n <= IntMax /\ space.ok => space.b.slips = b.slips
  BY <1>1, EnsureSpaceOK
<1> HIDE DEF n, space, check, element, late
<1> DEFINE c == space.b
<1>7. /\ IsBson(flagged) /\ flagged.data = c.data /\ flagged.cur = c.cur
      /\ flagged.size = c.size /\ flagged.finished = c.finished /\ flagged.stack = c.stack
      /\ flagged.bad = c.bad /\ flagged.slips = c.slips /\ flagged.err = c.err \cup check.err
  <2>1. IsBson(c)
    BY <1>5 DEF BufOK
  <2> HIDE DEF c
  <2> QED
    BY <2>1, FlagFields DEF c
<1> HIDE DEF flagged, c
<1>8. /\ IsBson(placed) /\ placed.data = Placed(flagged.data, flagged.cur, element)
      /\ placed.cur = flagged.cur /\ placed.size = flagged.size
      /\ placed.finished = flagged.finished /\ placed.stack = flagged.stack
      /\ placed.bad = flagged.bad /\ placed.slips = flagged.slips /\ placed.err = flagged.err
  BY <1>7, PlaceFields
<1> HIDE DEF placed
<1>9. /\ started.data = placed.data /\ started.cur = placed.cur + head
      /\ started.size = placed.size /\ started.finished = placed.finished
      /\ started.stack = placed.stack /\ started.slips = placed.slips
      /\ started.err = placed.err
      /\ started.bad = IF placed.bad = "no" /\ placed.cur + head > placed.dataSize
                         THEN "over" ELSE placed.bad
  BY <1>8, AdvanceFields
<1> HIDE DEF started, r, head
<1>10. r.ok = TRUE
  BY DEF r
<1>11. ~b.finished /\ space.ok /\ r.b = started
  <2>1. CASE b.finished
    BY <1>2, <1>10, <2>1 DEF Result
  <2>2. CASE ~b.finished /\ ~space.ok
    BY <1>2, <1>5, <1>10, <2>2
  <2>3. CASE ~b.finished /\ space.ok /\ ~check.ok
    BY <1>2, <1>10, <2>3 DEF Result
  <2>4. CASE ~b.finished /\ space.ok /\ check.ok
    BY <1>2, <2>4 DEF Result
  <2> QED
    BY <2>1, <2>2, <2>3, <2>4
<1>12. Added(b, started, element, head)
  BY <1>1, <1>3, <1>5, <1>7, <1>8, <1>9, <1>11 DEF Added, Typed, c, check
<1>13. b.cur + n <= IntMax => started.slips = b.slips
  BY <1>5, <1>7, <1>8, <1>9, <1>11 DEF c
<1> QED
  BY <1>11, <1>12, <1>13 DEF r, element, head, n, Started

LEMMA EstartAdded ==
  ASSUME NEW b, BuilderOK(b), b.bad = "no", NEW type, NEW name \in Seq(Nat), NEW val, NEW len,
         NEW d \in Nat, Estart(b, type, name, val, len, d).ok = TRUE
  PROVE  Added(b, Estart(b, type, name, val, len, d).b,
               [type |-> type, key |-> name, val |-> val, len |-> len], 2 + Len(name))
  BY EstartStarts DEF Started

-----------------------------------------------------------------------------
(* Operations leave a builder as it should be, and open or finished.       *)

Built(b, c) == BuilderOK(c) /\ c.finished = b.finished

LEMMA KeptBuilt ==
  ASSUME NEW b, BuilderOK(b), NEW c, BufOK(c), Kept(b, c)
  PROVE  Built(b, c)
  BY KeptOK DEF Built, Kept

LEMMA AddedOn ==
  ASSUME NEW b, b.cur \in Nat, NEW c, IsBson(c), NEW e, NEW n \in Nat, Added(b, c, e, n),
         NEW m \in Nat
  PROVE  Added(b, Advance(c, m), e, n + m)
<1> DEFINE a == Advance(c, m)
<1>1. /\ a.cur = c.cur + m /\ a.size = c.size /\ a.finished = c.finished
      /\ a.slips = c.slips /\ a.data = c.data /\ a.stack = c.stack /\ a.err = c.err
      /\ a.bad \in {"over", c.bad}
  <2>1. a.bad = IF c.bad = "no" /\ c.cur + m > c.dataSize THEN "over" ELSE c.bad
    BY AdvanceFields
  <2>2. /\ a.cur = c.cur + m /\ a.size = c.size /\ a.finished = c.finished
        /\ a.slips = c.slips /\ a.data = c.data /\ a.stack = c.stack /\ a.err = c.err
    BY AdvanceFields
  <2> HIDE DEF a
  <2> QED
    BY <2>1, <2>2
<1> HIDE DEF a
<1>2. a.cur = b.cur + (n + m)
  BY <1>1 DEF Added
<1>3. Added(b, a, e, n + m)
  <2> DEFINE k == n + m
  <2>1. a.cur = b.cur + k
    BY <1>2
  <2> HIDE DEF k
  <2>2. Added(b, a, e, k)
    BY <1>1, <2>1 DEF Added
  <2> QED
    BY <2>2 DEF k
<1> QED
  BY <1>3 DEF a

LEMMA ElementIs ==
  ASSUME NEW type \in Types, NEW name \in Seq(Nat), NEW val, NEW len \in Nat
  PROVE  LET e == [type |-> type, key |-> name, val |-> val, len |-> len]
         IN  IsElement(e) /\ e.type = type /\ e.key = name /\ e.val = val /\ e.len = len
  BY DEF IsElement

LEMMA AppendValueBuilt ==
  ASSUME NEW b, BuilderOK(b), b.bad = "no", NEW type \in Types \ {"OBJECT", "ARRAY"},
         NEW name \in Seq(Nat), NEW val, NEW len \in Nat,
         type \in {"STRING", "SYMBOL"} => val \in Seq(Nat) /\ CheckString(val).ok
  PROVE  Built(b, AppendValue(b, type, name, val, len).b)
<1> DEFINE e == Estart(b, type, name, val, len, len)
           c == Advance(e.b, len)
           new == [type |-> type, key |-> name, val |-> val, len |-> len]
           head == 2 + Len(name)
<1>1. BufOK(b) /\ Len(name) \in Nat /\ b.cur \in Nat
  BY DEF BuilderOK, BufOK
<1>2. BufOK(e.b) /\ e.ok \in BOOLEAN /\ (e.ok => Room(e.b, len))
  BY <1>1, EstartOK
<1>3. AppendValue(b, type, name, val, len) = IF e.ok THEN Result(TRUE, c) ELSE e
  BY DEF AppendValue
<1>4. CASE e.ok = FALSE
  <2>1. Kept(b, e.b)
    BY <1>4, EstartKept
  <2>2. Built(b, e.b)
    BY <1>2, <2>1, KeptBuilt
  <2> QED
    BY <1>3, <1>4, <2>2
<1>5. CASE e.ok = TRUE
  <2>1. Added(b, e.b, new, head)
    BY <1>5, EstartAdded
  <2>2. BufOK(c)
    BY <1>2, <1>5, AdvanceOK
  <2>3. IsBson(e.b) /\ head \in Nat
    BY <1>1, <1>2 DEF BufOK
  <2> HIDE DEF e
  <2>4. IsElement(new) /\ new.type = type /\ new.key = name /\ new.val = val /\ new.len = len
    BY ElementIs
  <2> HIDE DEF new, head
  <2>5. Added(b, c, new, head + len)
    BY <1>1, <2>1, <2>3, AddedOn
  <2>6. TextChecked(new)
    BY <2>4 DEF TextChecked
  <2>7. head + len = 2 + Len(new.key) + new.len
    BY <2>4 DEF head
  <2> HIDE DEF c
  <2>8. BuilderOK(c)
    <3> DEFINE n == head + len
    <3>1. n = 2 + Len(new.key) + new.len /\ Added(b, c, new, n)
      BY <2>5, <2>7
    <3> HIDE DEF n
    <3> QED
      BY <2>2, <2>4, <2>6, <3>1, AddedOK
  <2>9. AppendValue(b, type, name, val, len).b = c
    BY <1>3, <1>5 DEF Result
  <2> QED
    BY <2>5, <2>8, <2>9 DEF Built, Added
<1> QED
  BY <1>2, <1>4, <1>5

LEMMA AppendFixedBuilt ==
  ASSUME NEW b, BuilderOK(b), b.bad = "no", NEW name \in Seq(Nat), NEW val,
         NEW type \in {"LONG", "DOUBLE", "DATE", "TIMESTAMP", "INT", "BOOL", "NULL", "UNDEFINED"}
  PROVE  Built(b, AppendFixed(b, type, name, val).b)
<1>1. FixedSize(type) \in Nat
  BY FixedSizeIn
<1>2. type \in Types \ {"OBJECT", "ARRAY"} /\ type \notin {"STRING", "SYMBOL"}
  BY DEF Types
<1> QED
  BY <1>1, <1>2, AppendValueBuilt DEF AppendFixed

LEMMA AppendOidBuilt ==
  ASSUME NEW b, BuilderOK(b), b.bad = "no", NEW name \in Seq(Nat), NEW oid
  PROVE  Built(b, AppendOid(b, name, oid).b)
<1>1. "OID" \in Types \ {"OBJECT", "ARRAY"}
  BY DEF Types
<1>2. Built(b, AppendValue(b, "OID", name, oid, 12).b)
  BY <1>1, AppendValueBuilt
<1> QED
  BY <1>2 DEF AppendOid

LEMMA AppendStringBaseBuilt ==
  ASSUME NEW b, BuilderOK(b), b.bad = "no", NEW type \in {"STRING", "SYMBOL", "CODE"},
         NEW name \in Seq(Nat), NEW s \in Seq(Nat)
  PROVE  Built(b, AppendStringBase(b, type, name, s).b)
<1> DEFINE check == CheckString(s)
           c == Flag(b, check.err)
           n == 4 + Len(s) + 1
<1>1. check.ok \in BOOLEAN /\ check.err \subseteq KeyFlags /\ (~check.ok <=> "NOT_UTF8" \in check.err)
  BY CheckStringFlags
<1>2. n \in Nat /\ BufOK(b) /\ Typed(b) /\ type \in Types \ {"OBJECT", "ARRAY"}
  BY DEF BuilderOK, Types
<1>3. AppendStringBase(b, type, name, s) =
        IF check.ok THEN AppendValue(b, type, name, s, n) ELSE Result(FALSE, c)
  BY DEF AppendStringBase
<1>4. CASE check.ok
  <2> HIDE DEF n
  <2>1. Built(b, AppendValue(b, type, name, s, n).b)
    BY <1>2, <1>4, AppendValueBuilt
  <2> QED
    BY <1>3, <1>4, <2>1
<1>5. CASE ~check.ok
  <2>1. BufOK(c)
    BY <1>2, FlagOK
  <2>2. /\ c.data = b.data /\ c.cur = b.cur
        /\ c.size = b.size /\ c.finished = b.finished /\ c.stack = b.stack
        /\ c.bad = b.bad /\ c.slips = b.slips /\ c.err = b.err \cup check.err
    BY <1>2, FlagFields DEF BufOK
  <2> HIDE DEF c, check
  <2>3. Kept(b, c)
    BY <1>1, <1>2, <1>5, <2>2 DEF Kept, Typed, Flags, KeyFlags
  <2>4. AppendStringBase(b, type, name, s).b = c
    BY <1>3, <1>5 DEF Result
  <2> QED
    BY <2>1, <2>3, <2>4, KeptBuilt
<1> QED
  BY <1>4, <1>5

LEMMA AppendCodeWScopeBuilt ==
  ASSUME NEW b, BuilderOK(b), b.bad = "no", NEW name \in Seq(Nat),
         NEW code, Len(code) \in Nat, NEW scope, scope.size \in Nat
  PROVE  Built(b, AppendCodeWScope(b, name, code, scope).b)
<1> DEFINE n == 8 + Len(code) + 1 + scope.size  v == <<code, scope>>
<1>1. "CODEWSCOPE" \in Types \ {"OBJECT", "ARRAY"} /\ n \in Nat
  BY DEF Types
<1>2. AppendCodeWScope(b, name, code, scope) = AppendValue(b, "CODEWSCOPE", name, v, n)
  BY DEF AppendCodeWScope
<1> HIDE DEF n, v
<1>3. Built(b, AppendValue(b, "CODEWSCOPE", name, v, n).b)
  BY <1>1, AppendValueBuilt
<1> QED
  BY <1>2, <1>3

LEMMA AppendBinaryBuilt ==
  ASSUME NEW b, BuilderOK(b), b.bad = "no", NEW old \in BOOLEAN, NEW name \in Seq(Nat),
         NEW bytes, Len(bytes) \in Nat
  PROVE  Built(b, AppendBinary(b, old, name, bytes).b)
<1> DEFINE n == (IF old THEN 9 ELSE 5) + Len(bytes)
<1>1. "BINDATA" \in Types \ {"OBJECT", "ARRAY"} /\ n \in Nat
  BY DEF Types
<1>2. AppendBinary(b, old, name, bytes) = AppendValue(b, "BINDATA", name, bytes, n)
  BY DEF AppendBinary
<1> HIDE DEF n
<1>3. Built(b, AppendValue(b, "BINDATA", name, bytes, n).b)
  BY <1>1, AppendValueBuilt
<1> QED
  BY <1>2, <1>3

\* A pattern that is not UTF-8 leaves an element without its value, and NOT_UTF8.
LEMMA AppendRegexBuilt ==
  ASSUME NEW b, BuilderOK(b), b.bad = "no", NEW name \in Seq(Nat), NEW pattern \in Seq(Nat),
         NEW opts, Len(opts) \in Nat
  PROVE  Built(b, AppendRegex(b, name, pattern, opts).b)
<1> DEFINE bytes == Len(pattern) + 1 + Len(opts) + 1
           val == <<pattern, opts>>
           e == Estart(b, "REGEX", name, val, bytes, bytes)
           new == [type |-> "REGEX", key |-> name, val |-> val, len |-> bytes]
           head == 2 + Len(name)
           check == CheckString(pattern)
           whole == Advance(e.b, bytes)
           flagged == Flag(e.b, check.err)
           torn == [flagged EXCEPT !.slips = flagged.slips \cup {"torn"}]
           r == AppendRegex(b, name, pattern, opts)
<1>1. bytes \in Nat /\ Len(name) \in Nat /\ head \in Nat /\ "REGEX" \in Types
  BY DEF Types
<1>2. BufOK(r.b)
  <2>1. BufOK(b) /\ Len(pattern) \in Nat
    BY DEF BuilderOK
  <2>2. BufOK(AppendRegex(b, name, pattern, opts).b)
    BY <1>1, <2>1, AppendRegexOK
  <2> QED
    BY <2>2
<1>3. r = IF ~e.ok THEN e ELSE IF check.ok THEN Result(TRUE, whole) ELSE Result(FALSE, torn)
  BY DEF AppendRegex
<1>4. check.ok \in BOOLEAN /\ check.err \subseteq KeyFlags /\ (~check.ok <=> "NOT_UTF8" \in check.err)
  BY CheckStringFlags
<1> HIDE DEF bytes, val, check
<1>5. BufOK(e.b) /\ e.ok \in BOOLEAN /\ b.cur \in Nat
  BY <1>1, EstartOK DEF BuilderOK, BufOK
<1>6. IsElement(new) /\ new.type = "REGEX" /\ new.key = name /\ new.len = bytes
  BY <1>1, ElementIs
<1>7. CASE e.ok = FALSE
  <2>1. Kept(b, e.b)
    BY <1>1, <1>7, EstartKept
  <2> HIDE DEF e
  <2> QED
    BY <1>3, <1>5, <1>7, <2>1, KeptBuilt DEF r
<1>8. e.ok = TRUE => Added(b, e.b, new, head)
  BY <1>1, EstartAdded
<1> DEFINE d == e.b
<1>9. IsBson(d) /\ BufOK(d)
  BY <1>5 DEF BufOK
<1> HIDE DEF new, e, head
<1>10. CASE e.ok = TRUE /\ check.ok
  <2>1. r.b = whole
    BY <1>3, <1>10 DEF Result
  <2> DEFINE n == head + bytes
  <2>2. n = 2 + Len(new.key) + new.len
    BY <1>6 DEF head
  <2>3. Added(b, whole, new, n)
    BY <1>1, <1>5, <1>8, <1>9, <1>10, AddedOn
  <2>4. TextChecked(new)
    BY <1>6 DEF TextChecked
  <2> HIDE DEF n, whole, r
  <2>5. BuilderOK(whole)
    BY <1>2, <1>6, <2>1, <2>2, <2>3, <2>4, AddedOK
  <2> QED
    BY <2>1, <2>3, <2>5 DEF Built, Added, r
<1>11. CASE e.ok = TRUE /\ ~check.ok
  <2>1. r.b = torn
    BY <1>3, <1>11 DEF Result
  <2>2. Added(b, d, new, head)
    BY <1>8, <1>11
  <2>3. Typed(d) /\ Honest(d)
    <3>1. head > 0 /\ head \in Nat
      BY <1>1 DEF head
    <3>2. TextChecked(new)
      BY <1>6 DEF TextChecked
    <3> HIDE DEF d
    <3> QED
      BY <1>5, <1>6, <1>9, <2>2, <3>1, <3>2, AddedPut, PutTyped, AddedHonest
  <2>4. /\ IsBson(flagged) /\ flagged.data = d.data /\ flagged.cur = d.cur
        /\ flagged.finished = d.finished /\ flagged.stack = d.stack
        /\ flagged.bad = d.bad /\ flagged.slips = d.slips /\ flagged.err = d.err \cup check.err
    BY <1>9, FlagFields
  <2> HIDE DEF flagged, d
  <2>5. /\ torn.data = d.data /\ torn.cur = d.cur
        /\ torn.finished = d.finished /\ torn.stack = d.stack
        /\ torn.bad = d.bad /\ torn.slips = d.slips \cup {"torn"}
        /\ torn.err = d.err \cup check.err
    BY <2>4 DEF IsBson
  <2> HIDE DEF torn, r
  <2>6. Typed(torn)
    BY <1>4, <2>3, <2>5 DEF Typed, Slips, Flags, KeyFlags
  <2>7. Honest(torn)
    BY <1>4, <1>11, <2>3, <2>5 DEF Honest
  <2>8. TornFlag(torn) /\ Layout(torn) /\ torn.finished = b.finished
    BY <1>4, <1>11, <2>2, <2>5 DEF TornFlag, Layout, Added
  <2> QED
    BY <1>2, <2>1, <2>6, <2>7, <2>8 DEF BuilderOK, Built, r
<1> QED
  BY <1>5, <1>7, <1>10, <1>11

\* A sub-object is open once its element has been started.
LEMMA PushedLayout ==
  ASSUME NEW b, BuilderOK(b), b.bad = "no", NEW c, NEW d, NEW e, IsElement(e),
         NEW n, n = 2 + Len(e.key), Added(b, d, e, n),
         c.data = d.data, c.cur = d.cur + 4, c.finished = FALSE,
         c.stack = Append(b.stack, d.cur), c.slips = d.slips
  PROVE  Layout(c)
<1>1. /\ DOMAIN b.data \subseteq Nat /\ \A p \in DOMAIN b.data : IsElement(b.data[p]) /\ p < b.cur
      /\ b.stack \in Seq(Nat)
      /\ \A i \in 1..Len(b.stack) : b.stack[i] <= b.cur
  BY DEF BuilderOK, Typed, Added
<1>2. b.cur \in Nat /\ Len(e.key) \in Nat /\ d.cur = b.cur + n
  BY DEF BuilderOK, BufOK, IsElement, Added
<1>3. n \in Nat /\ n >= 2 /\ b.cur \notin DOMAIN b.data /\ d.cur \in Nat /\ d.cur > b.cur
  BY <1>1, <1>2
<1>4. /\ DOMAIN c.data = DOMAIN b.data \cup {b.cur} /\ c.data[b.cur] = e
      /\ \A p \in DOMAIN b.data : c.data[p] = b.data[p]
  BY <1>3 DEF Added, Placed
<1>5. /\ Len(b.stack) \in Nat /\ Len(c.stack) = Len(b.stack) + 1
      /\ c.stack[Len(b.stack) + 1] = d.cur
      /\ \A i \in 1..Len(b.stack) : c.stack[i] = b.stack[i] /\ b.stack[i] \in Nat
  BY <1>1
<1>6. Ahead(b) \subseteq DOMAIN c.data /\ c.cur \in Ahead(c)
  BY <1>4 DEF Ahead
<1>7. SUFFICES ASSUME Open(b) PROVE Open(c)
  <2>1. c.slips \cap {"early", "forgot", "headless", "late", "torn"} = {} =>
          b.slips \cap {"early", "forgot", "headless", "late", "torn"} = {}
    BY DEF Added
  <2> QED
    BY <2>1 DEF Layout, BuilderOK, Added
<1>8. ASSUME NEW p \in DOMAIN b.data, b.data[p].type # "EOO" PROVE Leads(c, p)
  <2>1. Leads(b, p)
    BY <1>7, <1>8 DEF Open
  <2>2. Body(c, p) = Body(b, p) /\ NextOffset(c, p) = NextOffset(b, p)
    BY <1>4 DEF Body, NextOffset
  <2>3. InStack(b, p) => InStack(c, p)
    BY <1>5, <2>2 DEF InStack
  <2>4. ~InStack(b, p) => ~InStack(c, p)
    <3>1. SUFFICES ASSUME ~InStack(b, p) PROVE Body(b, p) # d.cur
      BY <1>5, <2>2 DEF InStack
    <3>2. NextOffset(b, p) \in Ahead(b)
      BY <2>1, <3>1 DEF Leads
    <3>3. NextOffset(b, p) <= b.cur
      BY <1>1, <1>2, <3>2 DEF Ahead
    <3> DEFINE k == Len(b.data[p].key)  l == b.data[p].len
    <3>4. NextOffset(b, p) = p + 2 + k + l /\ Body(b, p) = p + 2 + k
      BY DEF NextOffset, Body
    <3>6. k \in Nat /\ l \in Nat /\ p \in Nat
      <4>1. IsElement(b.data[p])
        BY <1>1
      <4> QED
        BY <1>1, <4>1 DEF IsElement
    <3> HIDE DEF k, l
    <3>5. Body(b, p) <= NextOffset(b, p) /\ Body(b, p) \in Nat /\ NextOffset(b, p) \in Nat
      BY <3>4, <3>6
    <3> QED
      BY <1>2, <1>3, <3>3, <3>5
  <2>5. c.data[p] = b.data[p] /\ DOMAIN b.data \subseteq DOMAIN c.data
        /\ \A q \in DOMAIN b.data : c.data[q] = b.data[q]
    BY <1>4
  <2> QED
    BY <1>6, <2>1, <2>2, <2>3, <2>4, <2>5 DEF Leads, Ahead
<1>9. Leads(c, b.cur)
  <2>1. Body(c, b.cur) = d.cur
    <3>1. Body(c, b.cur) = b.cur + 2 + Len(e.key)
      BY <1>4 DEF Body
    <3> DEFINE k == Len(e.key)  x == b.cur
    <3>2. d.cur = x + n /\ n = 2 + k /\ x \in Nat /\ k \in Nat /\ n \in Nat
      BY <1>2, <1>3
    <3> HIDE DEF k, x
    <3>3. d.cur = x + 2 + k
      BY <3>2
    <3> QED
      BY <3>1, <3>3 DEF k, x
  <2>2. InStack(c, b.cur)
    BY <1>5, <2>1 DEF InStack
  <2> QED
    BY <1>6, <2>1, <2>2 DEF Leads
<1>10. 4 \in Ahead(c)
  BY <1>6, <1>7 DEF Open, Ahead
<1> QED
  BY <1>4, <1>8, <1>9, <1>10 DEF Open

LEMMA StartSubBuilt ==
  ASSUME NEW b, BuilderOK(b), b.bad = "no", NEW type \in {"OBJECT", "ARRAY"},
         NEW name \in Seq(Nat)
  PROVE  Built(b, StartSub(b, type, name).b)
<1> DEFINE e == Estart(b, type, name, <<>>, 0, 5)
           new == [type |-> type, key |-> name, val |-> <<>>, len |-> 0]
           head == 2 + Len(name)
           deep == [e.b EXCEPT !.bad = "deep"]
           pushed == [e.b EXCEPT !.stack = Append(@, e.b.cur)]
           c == Advance(pushed, 4)
           r == StartSub(b, type, name)
<1>1. Len(name) \in Nat /\ head \in Nat /\ head > 0 /\ type \in Types
  BY DEF Types
<1>2. BufOK(r.b) /\ BufOK(e.b) /\ e.ok \in BOOLEAN
  BY <1>1, StartSubOK, EstartOK DEF BuilderOK
<1>3. r.b = IF ~e.ok THEN e.b ELSE IF Len(b.stack) = StackSize THEN deep ELSE c
  BY DEF StartSub, Result
<1>4. IsElement(new) /\ new.type = type /\ new.key = name
  BY <1>1, ElementIs
<1>5. e.ok = FALSE => Kept(b, e.b)
  BY EstartKept
<1>6. e.ok = TRUE => Added(b, e.b, new, head)
  BY EstartAdded
<1> DEFINE d == e.b
<1>7. IsBson(d) /\ d.cur \in Nat
  BY <1>2 DEF BufOK
<1>8. pushed = [d EXCEPT !.stack = Append(d.stack, d.cur)] /\ deep = [d EXCEPT !.bad = "deep"]
  OBVIOUS
<1>9. TextChecked(new)
  BY <1>4 DEF TextChecked
<1> HIDE DEF new, head, d, pushed, deep
<1>10. /\ deep.data = d.data /\ deep.cur = d.cur /\ deep.finished = d.finished
       /\ deep.stack = d.stack /\ deep.bad = "deep" /\ deep.slips = d.slips /\ deep.err = d.err
  BY <1>7, <1>8 DEF IsBson
<1>11. /\ IsBson(pushed) /\ pushed.data = d.data /\ pushed.cur = d.cur
       /\ pushed.finished = d.finished /\ pushed.bad = d.bad /\ pushed.slips = d.slips
       /\ pushed.err = d.err /\ pushed.stack = Append(d.stack, d.cur)
  BY <1>7, <1>8 DEF IsBson
<1>12. /\ c.data = d.data /\ c.cur = d.cur + 4 /\ c.finished = d.finished
       /\ c.slips = d.slips /\ c.err = d.err /\ c.stack = Append(d.stack, d.cur)
       /\ c.bad \in {"over", d.bad}
  <2>1. /\ c.data = pushed.data /\ c.cur = pushed.cur + 4 /\ c.finished = pushed.finished
        /\ c.slips = pushed.slips /\ c.err = pushed.err /\ c.stack = pushed.stack
        /\ c.bad = IF pushed.bad = "no" /\ pushed.cur + 4 > pushed.dataSize THEN "over"
                   ELSE pushed.bad
    BY <1>11, AdvanceFields
  <2> HIDE DEF c
  <2> QED
    BY <2>1, <1>11
<1> HIDE DEF c, r
<1>13. CASE e.ok = FALSE
  BY <1>2, <1>3, <1>5, <1>13, KeptBuilt DEF r
<1>14. ASSUME e.ok = TRUE PROVE Added(b, d, new, head) /\ Typed(d) /\ Honest(d)
  <2>1. Added(b, d, new, head) /\ BufOK(d)
    BY <1>2, <1>6, <1>14 DEF d
  <2>2. b.cur \in Nat
    BY DEF BuilderOK, BufOK
  <2> QED
    BY <1>1, <1>4, <1>9, <2>1, <2>2, AddedPut, PutTyped, AddedHonest
<1>15. CASE e.ok = TRUE /\ Len(b.stack) = StackSize
  <2>1. r.b = deep
    BY <1>3, <1>15
  <2>2. Typed(deep) /\ deep.finished = b.finished
    BY <1>10, <1>14, <1>15 DEF Typed, Added
  <2> QED
    BY <1>2, <1>10, <2>1, <2>2 DEF BuilderOK, Built, r
<1>16. CASE e.ok = TRUE /\ Len(b.stack) # StackSize
  <2>1. r.b = c
    BY <1>3, <1>16
  <2>2. Added(b, d, new, head) /\ Typed(d) /\ Honest(d)
    BY <1>14, <1>16
  <2>3. d.stack = b.stack /\ d.finished = FALSE /\ b.finished = FALSE /\ d.bad \in {"no", "over"}
    BY <2>2 DEF Added
  <2>4. Layout(c)
    <3>1. head = 2 + Len(new.key)
      BY <1>4 DEF head
    <3> QED
      BY <1>4, <1>12, <2>2, <2>3, <3>1, PushedLayout
  <2>5. Typed(c)
    <3>1. d.stack \in Seq(Nat) /\ Len(d.stack) <= StackSize /\ Len(d.stack) # StackSize
          /\ \A i \in 1..Len(d.stack) : d.stack[i] <= d.cur
      BY <1>16, <2>2, <2>3 DEF Typed
    <3>2. /\ c.stack \in Seq(Nat) /\ Len(c.stack) <= StackSize
          /\ \A i \in 1..Len(c.stack) : c.stack[i] <= c.cur
      <4>1. c.stack \in Seq(Nat) /\ Len(c.stack) = Len(d.stack) + 1
        BY <1>7, <1>12, <3>1
      <4>2. \A i \in 1..Len(c.stack) : c.stack[i] = IF i <= Len(d.stack) THEN d.stack[i] ELSE d.cur
        BY <1>7, <1>12, <3>1
      <4>3. \A i \in 1..Len(d.stack) : d.stack[i] \in Nat
        BY <3>1
      <4>4. \A i \in 1..Len(c.stack) : c.stack[i] <= c.cur
        BY <1>7, <1>12, <3>1, <4>1, <4>2, <4>3
      <4>5. Len(c.stack) <= StackSize
        BY <3>1, <4>1, BuilderAssumption
      <4> QED
        BY <4>1, <4>4, <4>5
    <3>3. \A p \in DOMAIN c.data : 4 <= p /\ p < c.cur
      BY <1>7, <1>12, <2>2, <2>3 DEF Typed
    <3> QED
      BY <1>12, <2>2, <2>3, <3>2, <3>3 DEF Typed
  <2>6. TornFlag(c)
    BY <1>12, <2>2 DEF TornFlag, Added, BuilderOK
  <2>7. Honest(c)
    BY <1>12, <2>2 DEF Honest
  <2> QED
    BY <1>2, <1>12, <2>1, <2>3, <2>4, <2>5, <2>6, <2>7 DEF BuilderOK, Built, r
<1> QED
  BY <1>2, <1>13, <1>15, <1>16

-----------------------------------------------------------------------------
(* The zero byte that ends an object.                                      *)

Zero == [type |-> "EOO", key |-> <<>>, val |-> <<>>, len |-> 0]

Zeroed(b, z) ==
  /\ z.data = Placed(b.data, b.cur, Zero)
  /\ z.cur = b.cur + 1 /\ z.size = b.size /\ z.finished = b.finished
  /\ z.stack = b.stack /\ z.err = b.err
  /\ b.slips \subseteq z.slips /\ z.slips \subseteq b.slips \cup {"wrapped"}
  /\ IF b.bad = "no" THEN z.bad \in {"no", "over"} ELSE z.bad = b.bad

LEMMA EmptyKey == CheckFieldName(<<>>).err = {} /\ IsElement(Zero) /\ TextChecked(Zero)
<1> DEFINE s == <<>>
<1>1. Len(s) = 0 /\ Len(s) \in Nat
  OBVIOUS
<1>2. CheckFieldName(s).err = {}
  <2> HIDE DEF s
  <2>1. 1 \in 1..(Len(s) + 1)
    BY <1>1
  <2>2. ScanRule(s, TRUE, 1)
    BY <1>1, <2>1, ScanAt
  <2>3. Scan(s, TRUE)[1].err = {}
    <3>1. 1 > Len(s)
      BY <1>1
    <3> QED
      BY <2>2, <3>1, Zenon DEF ScanRule
  <2>4. ~Dollared(s)
    BY <1>1 DEF Dollared
  <2> QED
    BY <1>1, <2>3, <2>4, CheckFieldNameIs
<1>3. IsElement(Zero)
  BY DEF IsElement, Zero, Types
<1>4. TextChecked(Zero)
  BY DEF TextChecked, Zero
<1> QED
  BY <1>2, <1>3, <1>4

\* As bson_append_finish_object and bson_finish begin.
LEMMA ZeroBegins ==
  ASSUME NEW b, BuilderOK(b)
  PROVE  LET space == EnsureSpace(b, 1)
             z == AppendZero(space.b)
         IN  /\ space.ok \in BOOLEAN /\ BufOK(space.b)
             /\ space.ok = FALSE => Kept(b, space.b)
             /\ space.ok = TRUE => Zeroed(b, z) /\ BufOK(z)
<1> DEFINE space == EnsureSpace(b, 1)
           c == space.b
           placed == Place(c, Zero)
           z == Advance(placed, 1)
<1>1. BufOK(b)
  BY DEF BuilderOK
<1>2. /\ BufOK(c) /\ space.ok \in BOOLEAN /\ (space.ok => Room(c, 1))
      /\ c.cur = b.cur /\ c.finished = b.finished /\ c.stack = b.stack
      /\ c.data = b.data /\ c.bad = b.bad /\ c.size = b.size
      /\ space.ok => c.err = b.err /\ c.slips \in {b.slips, b.slips \cup {"wrapped"}}
  BY <1>1, EnsureSpaceOK
<1>3. AppendZero(space.b) = z
  BY DEF AppendZero, Zero
<1>4. space.ok = FALSE => Kept(b, c)
  BY SpaceKept
<1>5. space.ok = TRUE => BufOK(z)
  BY <1>2, <1>3, AppendZeroOK
<1> HIDE DEF space
<1>6. /\ IsBson(placed) /\ placed.data = Placed(c.data, c.cur, Zero)
      /\ placed.cur = c.cur /\ placed.size = c.size /\ placed.finished = c.finished
      /\ placed.stack = c.stack /\ placed.bad = c.bad /\ placed.slips = c.slips
      /\ placed.err = c.err
  <2> DEFINE d == c
  <2>1. IsBson(d)
    BY <1>2 DEF BufOK
  <2> HIDE DEF d
  <2> QED
    BY <2>1, PlaceFields DEF d
<1> HIDE DEF placed, c
<1>7. /\ z.data = placed.data /\ z.cur = placed.cur + 1
      /\ z.size = placed.size /\ z.finished = placed.finished
      /\ z.stack = placed.stack /\ z.slips = placed.slips /\ z.err = placed.err
      /\ z.bad = IF placed.bad = "no" /\ placed.cur + 1 > placed.dataSize
                   THEN "over" ELSE placed.bad
  BY <1>6, AdvanceFields
<1> HIDE DEF z
<1>8. space.ok = TRUE => Zeroed(b, z)
  BY <1>2, <1>6, <1>7 DEF Zeroed
<1> QED
  BY <1>2, <1>3, <1>4, <1>5, <1>8 DEF space, c

LEMMA ZeroedData ==
  ASSUME NEW b, BuilderOK(b), b.finished = FALSE \/ "foreign" \notin b.slips,
         NEW z, Zeroed(b, z)
  PROVE  /\ b.cur \in Nat /\ b.cur \notin DOMAIN b.data
         /\ DOMAIN z.data = DOMAIN b.data \cup {b.cur} /\ z.data[b.cur] = Zero
         /\ \A p \in DOMAIN b.data : z.data[p] = b.data[p]
<1>1. Typed(b) /\ b.cur \in Nat
  BY DEF BuilderOK, BufOK
<1>2. b.cur \notin DOMAIN b.data
  BY <1>1 DEF Typed
<1> QED
  BY <1>1, <1>2 DEF Zeroed, Placed

LEMMA ZeroedTyped ==
  ASSUME NEW b, BuilderOK(b), NEW z, Zeroed(b, z)
  PROVE  Typed(z)
<1>1. Typed(b) /\ b.cur \in Nat /\ b.cur >= 4 /\ z.cur = b.cur + 1
  BY DEF BuilderOK, BufOK, Zeroed
<1>2. DOMAIN z.data = DOMAIN b.data \cup {b.cur}
      /\ \A p \in DOMAIN z.data : z.data[p] = IF p = b.cur THEN Zero ELSE b.data[p]
  BY DEF Zeroed, Placed
<1>3. DOMAIN z.data \subseteq Nat /\ \A p \in DOMAIN z.data : IsElement(z.data[p])
  BY <1>1, <1>2, EmptyKey DEF Typed
<1>4. z.finished = FALSE \/ "foreign" \notin z.slips =>
        \A p \in DOMAIN z.data : 4 <= p /\ p < z.cur
  BY <1>1, <1>2 DEF Typed, Zeroed
<1>5. /\ z.stack \in Seq(Nat) /\ Len(z.stack) <= StackSize
      /\ \A i \in 1..Len(z.stack) : z.stack[i] <= z.cur
  <2>1. z.stack = b.stack /\ b.stack \in Seq(Nat) /\ Len(b.stack) <= StackSize
        /\ \A i \in 1..Len(b.stack) : b.stack[i] <= b.cur
    BY <1>1 DEF Typed, Zeroed
  <2>2. \A i \in 1..Len(b.stack) : b.stack[i] \in Nat
    BY <2>1
  <2>3. ASSUME NEW i \in 1..Len(b.stack) PROVE b.stack[i] <= z.cur
    <3> DEFINE x == b.stack[i]
    <3>1. x \in Nat /\ x <= b.cur
      BY <2>1, <2>2
    <3> HIDE DEF x
    <3>2. x <= z.cur
      BY <1>1, <3>1
    <3> QED
      BY <3>2 DEF x
  <2> QED
    BY <2>1, <2>3
<1> QED
  BY <1>1, <1>3, <1>4, <1>5 DEF Typed, Zeroed, Slips

LEMMA ZeroedHonest ==
  ASSUME NEW b, BuilderOK(b), b.bad = "no", NEW z, Zeroed(b, z)
  PROVE  Honest(z)
<1>1. SUFFICES ASSUME z.slips \cap {"foreign", "forgot"} = {} PROVE Honest(z)
  BY DEF Honest
<1>2. b.slips \cap {"foreign", "forgot"} = {}
  BY <1>1 DEF Zeroed
<1>3. /\ DOMAIN z.data = DOMAIN b.data \cup {b.cur} /\ z.data[b.cur] = Zero
      /\ \A p \in DOMAIN b.data : z.data[p] = b.data[p]
  BY <1>2, ZeroedData
<1>4. Honest(b) /\ z.err = b.err
  BY DEF BuilderOK, Zeroed
<1>5. CheckFieldName(Zero.key).err = {} /\ TextChecked(Zero)
  BY EmptyKey DEF Zero
<1> QED
  BY <1>2, <1>3, <1>4, <1>5 DEF Honest

\* bson_append_finish_object writes the length of what was open.
Filled(z, start, c) ==
  /\ DOMAIN c.data = DOMAIN z.data
  /\ \A p \in DOMAIN z.data :
       c.data[p] = IF z.data[p].type # "EOO" /\ Body(z, p) = start
                     THEN [z.data[p] EXCEPT !.len = z.cur - start] ELSE z.data[p]
  /\ c.cur = z.cur /\ c.finished = z.finished /\ c.slips = z.slips

LEMMA ClosedLayout ==
  ASSUME NEW b, BuilderOK(b), b.bad = "no", NEW z, Zeroed(b, z), NEW n, n = Len(b.stack) - 1,
         b.stack # <<>>, NEW start, start = b.stack[Len(b.stack)],
         NEW c, Filled(z, start, c), c.stack = SubSeq(b.stack, 1, n)
  PROVE  Layout(c)
<1>0. /\ DOMAIN c.data = DOMAIN z.data
      /\ \A p \in DOMAIN z.data :
           c.data[p] = IF z.data[p].type # "EOO" /\ Body(z, p) = start
                         THEN [z.data[p] EXCEPT !.len = z.cur - start] ELSE z.data[p]
      /\ c.cur = z.cur /\ c.finished = z.finished /\ c.slips = z.slips
  BY DEF Filled
<1>1. SUFFICES ASSUME c.slips \cap {"early", "forgot", "headless", "late", "torn"} = {}
               PROVE  Layout(c)
  BY DEF Layout
<1>2. b.finished = FALSE /\ Open(b) /\ c.finished = FALSE /\ Typed(b)
  <2>1. b.slips \cap {"early", "forgot", "headless", "late", "torn"} = {}
    BY <1>0, <1>1 DEF Zeroed
  <2> QED
    BY <1>0, <2>1 DEF BuilderOK, Layout, Zeroed, Typed
<1>3. /\ b.cur \in Nat /\ b.cur \notin DOMAIN b.data
      /\ DOMAIN z.data = DOMAIN b.data \cup {b.cur} /\ z.data[b.cur] = Zero
      /\ \A p \in DOMAIN b.data : z.data[p] = b.data[p]
  BY <1>2, ZeroedData
<1>4. z.cur = b.cur + 1 /\ Zero.type = "EOO"
  BY DEF Zeroed, Zero
<1>5. c.data[b.cur] = Zero
  BY <1>0, <1>3, <1>4
<1>6. ASSUME NEW p \in DOMAIN b.data
      PROVE  /\ c.data[p].type = b.data[p].type /\ c.data[p].key = b.data[p].key
             /\ c.data[p].len = IF b.data[p].type # "EOO" /\ Body(b, p) = start
                                  THEN z.cur - start ELSE b.data[p].len
  <2>1. IsElement(b.data[p])
    BY <1>2 DEF Typed
  <2>2. z.data[p] = b.data[p] /\ Body(z, p) = Body(b, p) /\ p \in DOMAIN z.data
    BY <1>3 DEF Body
  <2>3. c.data[p] = IF b.data[p].type # "EOO" /\ Body(b, p) = start
                      THEN [b.data[p] EXCEPT !.len = z.cur - start] ELSE b.data[p]
    BY <1>0, <2>2
  <2> QED
    BY <2>1, <2>3 DEF IsElement
<1>7. Ahead(b) = DOMAIN c.data /\ c.cur \in Ahead(c) /\ DOMAIN c.data \subseteq Ahead(c)
  BY <1>0, <1>3 DEF Ahead
<1>8. /\ Len(b.stack) \in Nat \ {0} /\ n \in Nat /\ n + 1 = Len(b.stack)
      /\ Len(c.stack) = n /\ \A i \in 1..n : c.stack[i] = b.stack[i]
      /\ start \in Nat /\ start <= b.cur
  <2>1. b.stack \in Seq(Nat) /\ \A i \in 1..Len(b.stack) : b.stack[i] <= b.cur
    BY <1>2 DEF Typed
  <2>2. Len(b.stack) \in Nat /\ Len(b.stack) # 0
    BY <2>1
  <2>3. n \in Nat /\ n + 1 = Len(b.stack) /\ n <= Len(b.stack)
    BY <2>2
  <2>4. Len(c.stack) = n /\ \A i \in 1..n : c.stack[i] = b.stack[i]
    BY <2>1, <2>3
  <2>5. Len(b.stack) \in 1..Len(b.stack)
    BY <2>2
  <2>6. start \in Nat /\ start <= b.cur
    BY <2>1, <2>5
  <2> QED
    BY <2>2, <2>3, <2>4, <2>6
<1>9. ASSUME NEW p \in DOMAIN b.data, b.data[p].type # "EOO" PROVE Leads(c, p)
  <2>1. Leads(b, p) /\ p \in DOMAIN c.data
    BY <1>0, <1>2, <1>3, <1>9 DEF Open
  <2>2. Body(c, p) = Body(b, p)
    BY <1>6 DEF Body
  <2>3. InStack(c, p) => InStack(b, p)
    BY <1>8, <2>2 DEF InStack
  <2>4. InStack(b, p) /\ Body(b, p) # start => InStack(c, p)
    <3>1. SUFFICES ASSUME NEW i \in 1..Len(b.stack), b.stack[i] = Body(b, p), Body(b, p) # start
                   PROVE  InStack(c, p)
      BY DEF InStack
    <3>2. i # Len(b.stack)
      BY <3>1
    <3>3. i \in 1..n
      BY <1>8, <3>2
    <3> QED
      BY <1>8, <2>2, <3>1, <3>3 DEF InStack
  <2>5. CASE InStack(c, p)
    BY <1>7, <2>1, <2>2, <2>3, <2>5 DEF Leads
  <2>6. CASE ~InStack(c, p) /\ InStack(b, p)
    <3>1. Body(b, p) = start /\ Body(b, p) + 4 \in DOMAIN c.data
      BY <1>7, <2>1, <2>4, <2>6 DEF Leads
    <3>2. c.data[p].len = z.cur - start
      BY <1>6, <1>9, <3>1
    <3>3. NextOffset(c, p) = Body(c, p) + c.data[p].len
      BY DEF NextOffset, Body
    <3>4. NextOffset(c, p) = c.cur /\ NextOffset(c, p) - 1 = b.cur
      BY <1>0, <1>3, <1>4, <1>8, <2>2, <3>1, <3>2, <3>3
    <3> QED
      BY <1>0, <1>3, <1>4, <1>5, <1>7, <2>2, <2>6, <3>1, <3>4 DEF Leads
  <2>7. CASE ~InStack(b, p)
    <3>1. Body(b, p) # start
      BY <1>8, <2>7 DEF InStack
    <3>2. c.data[p].len = b.data[p].len
      BY <1>6, <3>1
    <3>3. NextOffset(c, p) = NextOffset(b, p)
      BY <1>6, <3>2 DEF NextOffset
    <3>4. \A q \in DOMAIN b.data : q \in DOMAIN c.data /\ c.data[q].type = b.data[q].type
      BY <1>0, <1>3, <1>6
    <3> QED
      BY <1>6, <1>7, <2>1, <2>2, <2>3, <2>7, <3>3, <3>4 DEF Leads
  <2> QED
    BY <2>5, <2>6, <2>7
<1>10. \A p \in DOMAIN c.data : c.data[p].type # "EOO" => Leads(c, p)
  BY <1>0, <1>3, <1>4, <1>5, <1>6, <1>9
<1>11. 4 \in Ahead(c)
  BY <1>2, <1>7 DEF Open
<1> QED
  BY <1>2, <1>10, <1>11 DEF Open, Layout

LEMMA FinishObjectBuilt ==
  ASSUME NEW b, BuilderOK(b), b.bad = "no"
  PROVE  Built(b, FinishObject(b).b)
<1> DEFINE space == EnsureSpace(b, 1)
           z == AppendZero(space.b)
           start == b.stack[Len(b.stack)]
           patched == [p \in DOMAIN z.data |->
                         IF z.data[p].type # "EOO" /\ Body(z, p) = start
                           THEN [z.data[p] EXCEPT !.len = z.cur - start] ELSE z.data[p]]
           under == [z EXCEPT !.bad = "under"]
           n == Len(b.stack) - 1
           filled == [z EXCEPT !.data = patched]
           closed == [filled EXCEPT !.stack = SubSeq(z.stack, 1, Len(z.stack) - 1)]
           r == FinishObject(b)
<1>1. /\ space.ok \in BOOLEAN /\ BufOK(space.b)
      /\ space.ok = FALSE => Kept(b, space.b)
      /\ space.ok = TRUE => Zeroed(b, z) /\ BufOK(z)
  BY ZeroBegins
<1>2. BufOK(r.b)
  BY FinishObjectOK DEF BuilderOK
<1>3. r = IF ~space.ok THEN space ELSE IF b.stack = <<>> THEN Result(TRUE, under)
          ELSE Result(TRUE, closed)
  <2>1. closed = [z EXCEPT !.data = patched, !.stack = SubSeq(@, 1, Len(@) - 1)]
    OBVIOUS
  <2> QED
    BY <2>1 DEF FinishObject
<1>4. r.b = IF ~space.ok THEN space.b ELSE IF b.stack = <<>> THEN under ELSE closed
  BY <1>3 DEF Result
<1>5. /\ DOMAIN patched = DOMAIN z.data
      /\ \A p \in DOMAIN z.data :
           patched[p] = IF z.data[p].type # "EOO" /\ Body(z, p) = start
                          THEN [z.data[p] EXCEPT !.len = z.cur - start] ELSE z.data[p]
  OBVIOUS
<1> HIDE DEF space, z, patched, start
<1>6. CASE space.ok = FALSE
  BY <1>1, <1>4, <1>6, KeptBuilt
<1>7. ASSUME space.ok = TRUE PROVE IsBson(z) /\ Zeroed(b, z) /\ Typed(z) /\ Honest(z)
  BY <1>1, <1>7, ZeroedTyped, ZeroedHonest DEF BufOK
<1>8. CASE space.ok = TRUE /\ b.stack = <<>>
  <2>1. /\ under.data = z.data /\ under.cur = z.cur /\ under.finished = z.finished
        /\ under.stack = z.stack /\ under.bad = "under" /\ under.slips = z.slips
        /\ under.err = z.err
    BY <1>7, <1>8 DEF IsBson
  <2>2. r.b = under
    BY <1>4, <1>8
  <2> HIDE DEF under
  <2>3. Typed(under) /\ under.finished = b.finished
    BY <1>7, <1>8, <2>1 DEF Typed, Zeroed
  <2> QED
    BY <1>2, <2>1, <2>2, <2>3 DEF BuilderOK, Built
<1>9. CASE space.ok = TRUE /\ b.stack # <<>>
  <2>1. /\ IsBson(filled) /\ filled.data = patched /\ filled.cur = z.cur
        /\ filled.finished = z.finished /\ filled.stack = z.stack /\ filled.bad = z.bad
        /\ filled.slips = z.slips /\ filled.err = z.err
    <3>1. IsBson(z)
      BY <1>7, <1>9
    <3> QED
      BY <3>1 DEF IsBson
  <2> HIDE DEF filled
  <2>2. /\ closed.data = patched /\ closed.cur = z.cur /\ closed.finished = z.finished
        /\ closed.stack = SubSeq(z.stack, 1, Len(z.stack) - 1) /\ closed.bad = z.bad
        /\ closed.slips = z.slips /\ closed.err = z.err
    BY <2>1 DEF IsBson
  <2>3. r.b = closed
    BY <1>4, <1>9
  <2> HIDE DEF closed, r
  <2>4. z.stack = b.stack /\ closed.stack = SubSeq(b.stack, 1, n)
    BY <1>7, <1>9, <2>2 DEF Zeroed
  <2>5. Layout(closed)
    <3>1. n = Len(b.stack) - 1
      OBVIOUS
    <3>2. start = b.stack[Len(b.stack)]
      BY DEF start
    <3>3. /\ DOMAIN closed.data = DOMAIN z.data
          /\ \A p \in DOMAIN z.data :
               closed.data[p] = IF z.data[p].type # "EOO" /\ Body(z, p) = start
                                  THEN [z.data[p] EXCEPT !.len = z.cur - start]
                                  ELSE z.data[p]
      BY <1>5, <2>2
    <3>4. Zeroed(b, z) /\ b.stack # <<>>
      BY <1>7, <1>9
    <3>5. closed.cur = z.cur /\ closed.finished = z.finished /\ closed.slips = z.slips
      BY <2>2
    <3>6. Filled(z, start, closed)
      BY <3>3, <3>5 DEF Filled
    <3> HIDE DEF n
    <3> QED
      BY <2>4, <3>1, <3>2, <3>4, <3>6, ClosedLayout
  <2>6. /\ Len(b.stack) \in Nat \ {0} /\ b.stack \in Seq(Nat)
        /\ n \in Nat /\ n <= Len(b.stack) /\ b.cur \in Nat /\ z.cur = b.cur + 1
        /\ start \in Nat /\ start <= b.cur /\ Len(b.stack) <= StackSize
        /\ \A i \in 1..Len(b.stack) : b.stack[i] <= z.cur
    <3>1. Typed(b) /\ b.cur \in Nat
      BY DEF BuilderOK, BufOK
    <3>2. b.stack \in Seq(Nat) /\ Len(b.stack) \in Nat \ {0} /\ Len(b.stack) <= StackSize
      BY <1>9, <3>1 DEF Typed
    <3>3. n \in Nat /\ n <= Len(b.stack) /\ Len(b.stack) \in 1..Len(b.stack)
      BY <3>2
    <3>4. start \in Nat /\ start <= b.cur
      BY <3>1, <3>2, <3>3 DEF Typed, start
    <3>5. z.cur = b.cur + 1 /\ \A i \in 1..Len(b.stack) : b.stack[i] <= z.cur
      BY <1>7, <1>9 DEF Zeroed, Typed
    <3> QED
      BY <3>1, <3>2, <3>3, <3>4, <3>5
  <2>7. ASSUME NEW p \in DOMAIN z.data
        PROVE  IsElement(patched[p]) /\ patched[p].key = z.data[p].key
               /\ patched[p].type = z.data[p].type /\ patched[p].val = z.data[p].val
    <3>1. IsElement(z.data[p])
      BY <1>7, <1>9 DEF Typed
    <3> DEFINE len == z.cur - start
    <3>2. len \in Nat
      BY <2>6
    <3>3. patched[p] \in {z.data[p], [z.data[p] EXCEPT !.len = len]}
      BY <1>5
    <3> HIDE DEF len
    <3> QED
      BY <3>1, <3>2, <3>3 DEF IsElement
  <2>8. Typed(closed)
    <3>1. /\ closed.stack \in Seq(Nat) /\ Len(closed.stack) = n
          /\ \A i \in 1..n : closed.stack[i] = b.stack[i]
      <4> HIDE DEF n
      <4> QED
        BY <2>4, <2>6
    <3>2. Len(closed.stack) <= StackSize
      BY <2>6, <3>1, BuilderAssumption
    <3>3. \A i \in 1..Len(closed.stack) : closed.stack[i] <= closed.cur
      <4> HIDE DEF n
      <4>1. 1..Len(closed.stack) \subseteq 1..Len(b.stack)
        BY <2>6, <3>1
      <4> QED
        BY <2>2, <2>6, <3>1, <4>1
    <3>4. DOMAIN closed.data = DOMAIN z.data
      BY <1>5, <2>2
    <3>5. \A p \in DOMAIN closed.data : IsElement(closed.data[p])
      BY <2>2, <2>7, <3>4
    <3> QED
      BY <1>7, <1>9, <2>2, <3>1, <3>2, <3>3, <3>4, <3>5 DEF Typed
  <2>9. Honest(closed)
    <3>1. DOMAIN closed.data = DOMAIN z.data
      BY <1>5, <2>2
    <3>2. \A p \in DOMAIN z.data : /\ closed.data[p].key = z.data[p].key
                                   /\ TextChecked(z.data[p]) => TextChecked(closed.data[p])
      BY <2>2, <2>7 DEF TextChecked
    <3> QED
      BY <1>7, <1>9, <2>2, <3>1, <3>2 DEF Honest
  <2>10. TornFlag(closed) /\ closed.finished = b.finished
    <3>1. /\ closed.err = b.err /\ closed.finished = b.finished
          /\ b.slips \subseteq closed.slips /\ closed.slips \subseteq b.slips \cup {"wrapped"}
      BY <1>7, <1>9, <2>2 DEF Zeroed
    <3>2. TornFlag(b)
      BY DEF BuilderOK
    <3> QED
      BY <3>1, <3>2 DEF TornFlag
  <2> QED
    BY <1>2, <2>3, <2>5, <2>8, <2>9, <2>10 DEF BuilderOK, Built, r
<1> QED
  BY <1>1, <1>6, <1>8, <1>9

\* bson_finish: a document whose objects are closed is whole.
LEMMA FinishedLayout ==
  ASSUME NEW b, BuilderOK(b), b.bad = "no", b.finished = FALSE, NEW z, Zeroed(b, z),
         NEW c, c.data = z.data, c.size = z.cur, c.finished = TRUE, c.stack = b.stack,
         c.slips = IF b.stack = <<>> THEN z.slips ELSE z.slips \cup {"early"}
  PROVE  Layout(c)
<1>1. SUFFICES ASSUME c.slips \cap {"early", "forgot", "headless", "late", "torn"} = {}
               PROVE  Readable(c) /\ c.stack = <<>>
  BY DEF Layout
<1>2. Open(b) /\ Typed(b) /\ b.stack = <<>>
  <2>1. b.slips \cap {"early", "forgot", "headless", "late", "torn"} = {} /\ b.stack = <<>>
    BY <1>1 DEF Zeroed
  <2> QED
    BY <2>1 DEF BuilderOK, Layout
<1>3. /\ b.cur \in Nat /\ b.cur \notin DOMAIN b.data
      /\ DOMAIN z.data = DOMAIN b.data \cup {b.cur} /\ z.data[b.cur] = Zero
      /\ \A p \in DOMAIN b.data : z.data[p] = b.data[p]
  BY <1>2, ZeroedData
<1>4. z.cur = b.cur + 1 /\ Zero.type = "EOO"
  BY DEF Zeroed, Zero
<1> DEFINE offsets == {p \in DOMAIN c.data : p < c.size}
<1>5. offsets = Ahead(b) /\ offsets = DOMAIN c.data
  BY <1>2, <1>3, <1>4 DEF Ahead, Typed
<1>6. ASSUME NEW p \in offsets, c.data[p].type # "EOO"
      PROVE  /\ NextOffset(c, p) \in offsets
             /\ c.data[p].type \in {"OBJECT", "ARRAY"} =>
                  /\ Body(c, p) + 4 \in offsets
                  /\ NextOffset(c, p) - 1 \in offsets
                  /\ c.data[NextOffset(c, p) - 1].type = "EOO"
  <2>1. p \in DOMAIN b.data /\ c.data[p] = b.data[p]
    BY <1>3, <1>4, <1>5, <1>6
  <2>2. Leads(b, p) /\ ~InStack(b, p)
    BY <1>2, <1>6, <2>1 DEF Open, InStack
  <2>3. NextOffset(c, p) = NextOffset(b, p) /\ Body(c, p) = Body(b, p)
    BY <2>1 DEF NextOffset, Body
  <2>4. \A q \in DOMAIN b.data : q \in offsets /\ c.data[q] = b.data[q]
    BY <1>3, <1>5
  <2> QED
    BY <1>5, <2>1, <2>2, <2>3, <2>4 DEF Leads
<1>7. c.size - 1 \in offsets /\ c.data[c.size - 1].type = "EOO"
  <2>1. c.size - 1 = b.cur
    BY <1>3, <1>4
  <2> QED
    BY <1>3, <1>4, <1>5, <2>1
<1>8. 4 \in offsets
  BY <1>2, <1>5 DEF Open
<1> HIDE DEF offsets
<1>9. Readable(c)
  BY <1>6, <1>7, <1>8 DEF Readable, offsets
<1> QED
  BY <1>2, <1>9

LEMMA FinishBuilt ==
  ASSUME NEW b, BuilderOK(b)
  PROVE  LET c == Finish(b).b
         IN  /\ BuilderOK(c)
             /\ b.finished = FALSE /\ c.finished => "NOT_UTF8" \notin c.err
             /\ b.finished => c = b
<1> DEFINE space == EnsureSpace(b, 1)
           z == AppendZero(space.b)
           slips == IF b.stack = <<>> THEN z.slips ELSE z.slips \cup {"early"}
           sized == [z EXCEPT !.size = z.cur]
           closed == [sized EXCEPT !.finished = TRUE]
           whole == [closed EXCEPT !.slips = slips]
           c == Finish(b).b
<1>1. /\ space.ok \in BOOLEAN /\ BufOK(space.b)
      /\ space.ok = FALSE => Kept(b, space.b)
      /\ space.ok = TRUE => Zeroed(b, z) /\ BufOK(z)
  BY ZeroBegins
<1>2. BufOK(c) /\ b.finished \in BOOLEAN
  BY FinishOK DEF BuilderOK, Typed
<1>3. whole = [z EXCEPT !.size = z.cur, !.finished = TRUE,
                        !.slips = IF b.stack = <<>> THEN @ ELSE @ \cup {"early"}]
  OBVIOUS
<1>4. Finish(b) = IF "NOT_UTF8" \in b.err THEN Result(FALSE, b)
                  ELSE IF b.finished THEN Result(TRUE, b)
                  ELSE IF ~space.ok THEN space ELSE Result(TRUE, whole)
  BY <1>3 DEF Finish
<1>5. c = IF "NOT_UTF8" \in b.err \/ b.finished THEN b
          ELSE IF ~space.ok THEN space.b ELSE whole
  BY <1>4 DEF Result
<1> HIDE DEF space, z, slips, c
<1>6. CASE "NOT_UTF8" \in b.err \/ b.finished
  BY <1>2, <1>5, <1>6 DEF c
<1>7. CASE ~("NOT_UTF8" \in b.err \/ b.finished) /\ space.ok = FALSE
  <2>1. c = space.b
    BY <1>5, <1>7
  <2>2. Built(b, space.b)
    BY <1>1, <1>7, KeptBuilt
  <2> QED
    BY <1>2, <1>7, <2>1, <2>2 DEF Built, c
<1>8. CASE ~("NOT_UTF8" \in b.err \/ b.finished) /\ space.ok = TRUE
  <2>1. c = whole /\ Zeroed(b, z) /\ BufOK(z) /\ b.finished = FALSE
    BY <1>1, <1>2, <1>5, <1>8
  <2>2. Typed(z) /\ (b.bad = "no" => Honest(z))
    BY <2>1, ZeroedTyped, ZeroedHonest
  <2>3. /\ IsBson(sized) /\ sized.size = z.cur /\ sized.cur = z.cur /\ sized.data = z.data
        /\ sized.stack = z.stack /\ sized.err = z.err /\ sized.bad = z.bad
        /\ sized.slips = z.slips
    BY <2>1 DEF BufOK, IsBson
  <2> HIDE DEF sized
  <2>4. /\ IsBson(closed) /\ closed.size = z.cur /\ closed.cur = z.cur /\ closed.data = z.data
        /\ closed.stack = z.stack /\ closed.err = z.err /\ closed.bad = z.bad
        /\ closed.slips = z.slips /\ closed.finished = TRUE
    BY <2>3, FinishedField
  <2> HIDE DEF closed
  <2>5. /\ whole.size = z.cur /\ whole.cur = z.cur /\ whole.data = z.data
        /\ whole.stack = z.stack /\ whole.err = z.err /\ whole.bad = z.bad
        /\ whole.slips = slips /\ whole.finished = TRUE
    BY <2>4 DEF IsBson
  <2> HIDE DEF whole
  <2>6. slips \in {z.slips, z.slips \cup {"early"}} /\ z.err = b.err /\ z.stack = b.stack
    BY <2>1 DEF slips, Zeroed
  <2>7. Typed(whole)
    BY <2>1, <2>2, <2>5, <2>6 DEF Typed, Zeroed, Slips
  <2> SUFFICES ASSUME b.bad = "no" PROVE TornFlag(whole) /\ Layout(whole) /\ Honest(whole)
    <3>1. whole.bad = "no" => b.bad = "no"
      BY <2>1, <2>5 DEF Zeroed
    <3>2. "NOT_UTF8" \notin whole.err
      BY <1>8, <2>5, <2>6
    <3> QED
      BY <1>2, <2>1, <2>7, <3>1, <3>2 DEF BuilderOK, c
  <2>8. Honest(whole)
    BY <2>2, <2>5, <2>6 DEF Honest
  <2>9. Layout(whole)
    BY <2>1, <2>5, <2>6, FinishedLayout DEF slips
  <2>10. TornFlag(whole)
    <3>1. z.slips \subseteq b.slips \cup {"wrapped"} /\ b.slips \subseteq z.slips
      BY <2>1 DEF Zeroed
    <3> QED
      BY <1>8, <2>5, <2>6, <3>1 DEF TornFlag, BuilderOK
  <2> QED
    BY <2>8, <2>9, <2>10
<1> QED
  BY <1>1, <1>6, <1>7, <1>8

\* The copy of a document can be read if it can.
LEMMA CopyBsonBuilt ==
  ASSUME NEW b, BuilderOK(b), b.bad = "no", b.finished
  PROVE  BuilderOK(CopyBson(b)) /\ CopyBson(b).finished = TRUE
<1> DEFINE new == InitBson(b.size)
           copied == {p \in DOMAIN b.data : p < b.size}
           bytes == [p \in copied |-> b.data[p]]
           c1 == [new EXCEPT !.data = bytes]
           c2 == [c1 EXCEPT !.size = b.size]
           c3 == [c2 EXCEPT !.finished = TRUE]
           c4 == [c3 EXCEPT !.slips = b.slips \cup {"foreign"}]
<1>1. CopyBson(b) = c4
  BY DEF CopyBson
<1>2. BufOK(CopyBson(b))
  BY CopyBsonOK DEF BuilderOK
<1>3. /\ IsBson(new) /\ new.err = {} /\ new.bad = "no" /\ new.cur = 4
      /\ new.stack = <<>>
  BY DEF InitBson, IsBson
<1>4. /\ DOMAIN bytes = copied /\ \A p \in copied : bytes[p] = b.data[p]
  OBVIOUS
<1> HIDE DEF new, bytes
<1>5. /\ IsBson(c1) /\ c1.err = {} /\ c1.bad = "no" /\ c1.cur = 4
      /\ c1.stack = <<>> /\ c1.data = bytes
  BY <1>3 DEF IsBson
<1> HIDE DEF c1
<1>6. /\ IsBson(c2) /\ c2.err = {} /\ c2.bad = "no" /\ c2.cur = 4
      /\ c2.stack = <<>> /\ c2.data = bytes /\ c2.size = b.size
  BY <1>5 DEF IsBson
<1> HIDE DEF c2
<1>7. /\ IsBson(c3) /\ c3.err = {} /\ c3.bad = "no" /\ c3.cur = 4
      /\ c3.stack = <<>> /\ c3.data = bytes /\ c3.size = b.size /\ c3.finished = TRUE
  BY <1>6, FinishedField
<1> HIDE DEF c3
<1>8. /\ c4.err = {} /\ c4.bad = "no" /\ c4.cur = 4
      /\ c4.stack = <<>> /\ c4.data = bytes /\ c4.size = b.size /\ c4.finished = TRUE
      /\ c4.slips = b.slips \cup {"foreign"}
  BY <1>7 DEF IsBson
<1> HIDE DEF c4
<1>9. Typed(b) /\ TornFlag(b) /\ Layout(b)
  BY DEF BuilderOK
<1>10. Typed(c4)
  <2>1. c4.stack \in Seq(Nat) /\ Len(c4.stack) <= StackSize
        /\ \A i \in 1..Len(c4.stack) : c4.stack[i] <= c4.cur
    BY <1>8, BuilderAssumption
  <2>2. DOMAIN c4.data \subseteq Nat /\ \A p \in DOMAIN c4.data : IsElement(c4.data[p])
    BY <1>4, <1>8, <1>9 DEF Typed
  <2>3. c4.finished = TRUE /\ "foreign" \in c4.slips /\ c4.slips \subseteq Slips
        /\ c4.err \subseteq Flags
    BY <1>8, <1>9 DEF Typed, Slips
  <2> QED
    BY <1>8, <2>1, <2>2, <2>3 DEF Typed
<1>11. TornFlag(c4) /\ Honest(c4)
  BY <1>8, <1>9 DEF TornFlag, Honest
<1>12. Layout(c4)
  <2>1. SUFFICES ASSUME Readable(b) PROVE Readable(c4)
    BY <1>8, <1>9 DEF Layout
  <2>2. copied = {p \in DOMAIN c4.data : p < c4.size}
    BY <1>4, <1>8
  <2>3. \A p \in copied : /\ c4.data[p] = b.data[p] /\ NextOffset(c4, p) = NextOffset(b, p)
                          /\ Body(c4, p) = Body(b, p)
    BY <1>4, <1>8 DEF NextOffset, Body
  <2>4. /\ 4 \in copied /\ b.size - 1 \in copied /\ b.data[b.size - 1].type = "EOO"
        /\ \A p \in copied : b.data[p].type # "EOO" =>
             /\ NextOffset(b, p) \in copied
             /\ b.data[p].type \in {"OBJECT", "ARRAY"} =>
                  /\ Body(b, p) + 4 \in copied
                  /\ NextOffset(b, p) - 1 \in copied
                  /\ b.data[NextOffset(b, p) - 1].type = "EOO"
    BY <2>1 DEF Readable
  <2> HIDE DEF copied
  <2> QED
    BY <1>8, <2>2, <2>3, <2>4 DEF Readable
<1> QED
  BY <1>1, <1>2, <1>8, <1>10, <1>11, <1>12 DEF BuilderOK

-----------------------------------------------------------------------------
(* New objects, and the one whose bytes a C program puts into others.      *)

LEMMA NewBuilt ==
  BuilderOK(NewBson) /\ NewBson.bad = "no" /\ NewBson.finished = FALSE
<1> DEFINE b == NewBson
<1>1. /\ BufOK(b) /\ b.bad = "no"
  BY InitBsonOK, BuilderAssumption DEF NewBson
<1>2. /\ b.data = NoElements /\ b.cur = 4 /\ b.size = 0 /\ b.finished = FALSE
      /\ b.stack = <<>> /\ b.err = {} /\ b.slips = {} /\ b.dataSize = InitialSize
  BY DEF NewBson, InitBson
<1>3. DOMAIN NoElements = {}
  BY DEF NoElements
<1> HIDE DEF b
<1>4. Typed(b)
  <2>1. /\ b.stack \in Seq(Nat) /\ Len(b.stack) <= StackSize
        /\ \A i \in 1..Len(b.stack) : b.stack[i] <= b.cur
    BY <1>2, BuilderAssumption
  <2>2. DOMAIN b.data = {}
    BY <1>2, <1>3
  <2> QED
    BY <1>1, <1>2, <2>1, <2>2 DEF Typed
<1>5. TornFlag(b) /\ Honest(b) /\ Layout(b)
  BY <1>2, <1>3 DEF TornFlag, Honest, Layout, Open, Ahead
<1> QED
  BY <1>1, <1>2, <1>4, <1>5 DEF BuilderOK, b

\* There is always room where half of the ints would do.
LEMMA SpaceFits ==
  ASSUME NEW b, BufOK(b), b.bad = "no", NEW n \in Nat, b.cur + 2 * n <= IntMax
  PROVE  EnsureSpace(b, n).ok = TRUE
<1>1. IntMax \in Nat /\ b.cur \in Nat /\ b.dataSize \in Nat /\ b.dataSize <= IntMax /\ b.cur >= 4
  BY BuilderAssumption DEF BufOK
<1> DEFINE m == b.dataSize + n
           sum == WrapInt(m)
           newSize == FitInt((3 * sum) \div 2)
           kept == IF b.cur + n > IntMax THEN [b EXCEPT !.slips = @ \cup {"wrapped"}] ELSE b
<1>2. m \in Nat /\ b.cur + n <= IntMax
  BY <1>1
<1>3. Grown(b, n) = IF newSize >= b.dataSize THEN newSize
                    ELSE IF sum < IntMax THEN IntMax ELSE -1
  BY DEF Grown
<1>4. sum \in Int /\ (sum = m \/ (m > IntMax /\ sum = m - 2 * (IntMax + 1)))
  BY <1>1, <1>2 DEF WrapInt
<1>5. newSize \in Int
  <2>1. (3 * sum) \div 2 \in Int
    BY <1>4
  <2> QED
    BY <1>1, <2>1 DEF FitInt
<1>6. sum >= IntMax => b.cur + n <= b.dataSize
  BY <1>1, <1>2, <1>4
<1>7. b.cur + n <= b.dataSize => WrapInt(b.cur + n) <= b.dataSize
  BY <1>1, <1>2 DEF WrapInt
<1>8. WrapInt(b.cur + n) <= b.dataSize \/ Grown(b, n) # -1
  <2> HIDE DEF sum, newSize, m
  <2>1. CASE sum >= IntMax
    BY <1>6, <1>7, <2>1
  <2>2. CASE ~(sum >= IntMax)
    BY <1>1, <1>3, <1>4, <1>5, <2>2
  <2> QED
    BY <2>1, <2>2
<1>9. EnsureSpace(b, n) =
        IF WrapInt(b.cur + n) <= b.dataSize THEN Result(TRUE, kept)
        ELSE IF Grown(b, n) # -1 THEN Result(TRUE, [kept EXCEPT !.dataSize = Grown(b, n)])
        ELSE Result(FALSE, [b EXCEPT !.err = {"SIZE_OVERFLOW"},
                              !.slips = IF b.err = {} THEN @ ELSE @ \cup {"forgot"}])
  BY DEF EnsureSpace
<1> HIDE DEF kept
<1> QED
  BY <1>8, <1>9 DEF Result

LEMMA DottedKey == CheckFieldName(<<97, Dot>>).ok
<1> DEFINE s == <<97, Dot>>
<1>1. Len(s) = 2 /\ s[1] = 97 /\ s[2] = 46 /\ s \in Seq(Nat)
  BY DEF Dot
<1> HIDE DEF s
<1>2. TrailingBytesForUTF8(97) = 0 /\ TrailingBytesForUTF8(46) = 0
  BY DEF TrailingBytesForUTF8
<1>3. CharEnd(s, 1) = 1 /\ CharEnd(s, 2) = 2
  BY <1>1, <1>2 DEF CharEnd
<1>4. ASSUME NEW p \in 1..2 PROVE Sound(s, p)
  <2> DEFINE c == SubSeq(s, p, p)
  <2>1. Len(c) = 1 /\ c[1] \in {97, 46}
    BY <1>1
  <2> HIDE DEF c
  <2>2. IsLegalUTF8(c)
    BY <2>1 DEF IsLegalUTF8
  <2>3. CharEnd(s, p) = p
    BY <1>3
  <2> QED
    BY <1>1, <2>2, <2>3 DEF Sound, c
<1>5. ScanRule(s, TRUE, 1) /\ ScanRule(s, TRUE, 2) /\ ScanRule(s, TRUE, 3)
  <2>1. 1 \in 1..(Len(s) + 1) /\ 2 \in 1..(Len(s) + 1) /\ 3 \in 1..(Len(s) + 1)
    BY <1>1
  <2>2. Len(s) \in Nat
    BY <1>1
  <2> QED
    BY <2>1, <2>2, ScanAt, Zenon
<1> DEFINE f == Scan(s, TRUE)
<1>6. f[3].ok
  <2>1. 3 > Len(s)
    BY <1>1
  <2> QED
    BY <1>5, <2>1, Zenon DEF ScanRule
<1>7. f[2].ok
  <2>1. 2 \in 1..Len(s) /\ CharEnd(s, 2) + 1 = 3
    BY <1>1, <1>3
  <2>3. Sound(s, 2)
    BY <1>4
  <2>2. f[2].ok = f[CharEnd(s, 2) + 1].ok
    BY <1>5, <2>1, <2>3, Zenon DEF ScanRule
  <2> QED
    BY <1>6, <2>1, <2>2
<1>8. f[1].ok
  <2>1. 1 \in 1..Len(s) /\ CharEnd(s, 1) + 1 = 2
    BY <1>1, <1>3
  <2>3. Sound(s, 1)
    BY <1>4
  <2>2. f[1].ok = f[CharEnd(s, 1) + 1].ok
    BY <1>5, <2>1, <2>3, Zenon DEF ScanRule
  <2> QED
    BY <1>7, <2>1, <2>2
<1>9. Len(s) \in Nat
  BY <1>1
<1>10. CheckFieldName(s).ok = f[1].ok
  BY <1>9, CheckFieldNameIs
<1> QED
  BY <1>8, <1>10 DEF s

LEMMA EstartFits ==
  ASSUME NEW b, BufOK(b), b.bad = "no", b.finished = FALSE, NEW type, NEW name \in Seq(Nat),
         NEW val, NEW len, NEW d \in Nat, CheckFieldName(name).ok,
         b.cur + 2 * (1 + Len(name) + 1 + d) <= IntMax
  PROVE  Estart(b, type, name, val, len, d).ok = TRUE
<1> DEFINE n == 1 + Len(name) + 1 + d
           space == EnsureSpace(b, n)
           check == CheckFieldName(name)
           element == [type |-> type, key |-> name, val |-> val, len |-> len]
           flagged == Flag(space.b, check.err)
           started == Advance(Place(flagged, element), 2 + Len(name))
<1>1. n \in Nat /\ b.cur + 2 * n <= IntMax
  OBVIOUS
<1>2. Estart(b, type, name, val, len, d) =
        IF b.finished THEN Result(FALSE, Flag(b, {"ALREADY_FINISHED"}))
        ELSE IF ~space.ok THEN space
        ELSE IF ~check.ok THEN Result(FALSE, flagged)
        ELSE Result(TRUE, started)
  BY DEF Estart
<1>3. space.ok = TRUE
  <2> HIDE DEF n
  <2> QED
    BY <1>1, SpaceFits
<1> HIDE DEF space, check, started, flagged
<1>4. check.ok
  BY DEF check
<1> QED
  BY <1>2, <1>3, <1>4 DEF Result

\* What bson_finish adds to an open object.
LEMMA FinishAdds ==
  ASSUME NEW b, BuilderOK(b), b.bad = "no", b.finished = FALSE, "NOT_UTF8" \notin b.err,
         EnsureSpace(b, 1).ok = TRUE, b.stack = <<>>
  PROVE  LET c == Finish(b).b
         IN  /\ c.data = Placed(b.data, b.cur, Zero) /\ c.size = b.cur + 1
             /\ c.slips \subseteq b.slips \cup {"wrapped"}
<1> DEFINE space == EnsureSpace(b, 1)
           z == AppendZero(space.b)
           sized == [z EXCEPT !.size = z.cur]
           closed == [sized EXCEPT !.finished = TRUE]
           whole == [closed EXCEPT !.slips = z.slips]
<1>1. Zeroed(b, z) /\ IsBson(z)
  BY ZeroBegins DEF BufOK
<1>2. Finish(b).b = whole
  <2>1. whole = [z EXCEPT !.size = z.cur, !.finished = TRUE,
                          !.slips = IF b.stack = <<>> THEN @ ELSE @ \cup {"early"}]
    OBVIOUS
  <2>2. Finish(b) = IF "NOT_UTF8" \in b.err THEN Result(FALSE, b)
                    ELSE IF b.finished THEN Result(TRUE, b)
                    ELSE IF ~space.ok THEN space ELSE Result(TRUE, whole)
    BY <2>1 DEF Finish
  <2> QED
    BY <2>2 DEF Result
<1> HIDE DEF z
<1>3. IsBson(sized) /\ sized.size = z.cur /\ sized.data = z.data
  BY <1>1 DEF IsBson
<1> HIDE DEF sized
<1>4. IsBson(closed) /\ closed.size = z.cur /\ closed.data = z.data
  BY <1>3, FinishedField
<1> HIDE DEF closed
<1>5. whole.size = z.cur /\ whole.data = z.data /\ whole.slips = z.slips
  BY <1>4 DEF IsBson
<1> HIDE DEF whole
<1> QED
  BY <1>1, <1>2, <1>5 DEF Zeroed

\* A finished object with one number in it: a document of 13 bytes.
One == AppendFixed(NewBson, "INT", <<97, Dot>>, 1).b
OneNumber == [type |-> "INT", key |-> <<97, Dot>>, val |-> 1, len |-> 4]

LEMMA OneIs ==
  /\ BuilderOK(One) /\ One.bad = "no" /\ One.finished = FALSE
  /\ One.data = Placed(NoElements, 4, OneNumber) /\ One.cur = 12
  /\ One.stack = <<>> /\ One.slips = {} /\ "NOT_UTF8" \notin One.err
<1> DEFINE b == NewBson
           name == <<97, Dot>>
           e == Estart(b, "INT", name, 1, 4, 4)
           c == Advance(e.b, 4)
           new == [type |-> "INT", key |-> name, val |-> 1, len |-> 4]
<1>1. BuilderOK(b) /\ BufOK(b) /\ b.bad = "no" /\ b.finished = FALSE
  BY NewBuilt DEF BuilderOK
<1>2. b.cur = 4 /\ b.data = NoElements /\ b.stack = <<>> /\ b.slips = {} /\ b.err = {}
  BY DEF NewBson, InitBson
<1>3. name \in Seq(Nat) /\ Len(name) = 2 /\ CheckFieldName(name).ok
  BY DottedKey DEF Dot
<1>4. One = AppendValue(b, "INT", name, 1, 4).b
  BY DEF One, AppendFixed, FixedSize
<1>5. AppendValue(b, "INT", name, 1, 4) = IF e.ok THEN Result(TRUE, c) ELSE e
  BY DEF AppendValue
<1>6. new = OneNumber /\ new.key = name
  BY DEF OneNumber
<1>7. CheckFieldName(name).err \subseteq KeyFlags \ {"NOT_UTF8"}
  BY <1>3, CheckFieldNameFlags
<1> HIDE DEF b, name, new
<1>8. IntMax \in Nat /\ IntMax >= 127
  BY BuilderAssumption
<1>9. e.ok = TRUE
  <2>1. b.cur + 2 * (1 + Len(name) + 1 + 4) <= IntMax
    BY <1>2, <1>3, <1>8
  <2> QED
    BY <1>1, <1>3, <2>1, EstartFits
<1>10. Added(b, e.b, new, 2 + Len(name)) /\ e.b.slips = b.slips
  <2>1. b.cur + (1 + Len(name) + 1 + 4) <= IntMax
    BY <1>2, <1>3, <1>8
  <2> QED
    <3>1. name \in Seq(Nat) /\ 4 \in Nat
      BY <1>3
    <3> DEFINE m == 1 + Len(name) + 1 + 4
    <3>2. Started(b, e.b, new, 2 + Len(name), m)
      BY <1>1, <1>9, <3>1, EstartStarts, Zenon DEF new
    <3>3. b.cur + m <= IntMax
      BY <2>1
    <3> HIDE DEF m
    <3> QED
      BY <3>2, <3>3 DEF Started
<1>11. BufOK(e.b) /\ IsBson(e.b)
  <2>1. Len(name) \in Nat
    BY <1>3
  <2>2. BufOK(e.b)
    BY <1>1, <2>1, EstartOK
  <2> QED
    BY <2>2 DEF BufOK
<1> HIDE DEF e
<1>12. One = c
  BY <1>4, <1>5, <1>9 DEF Result
<1>13. Added(b, c, new, 8)
  <2>1. Added(b, e.b, new, 4)
    BY <1>3, <1>10
  <2>2. Added(b, c, new, 4 + 4)
    BY <1>2, <1>11, <2>1, AddedOn
  <2> QED
    BY <2>2
<1>14. c.slips = {}
  BY <1>2, <1>10, <1>11, AdvanceFields
<1>15. BuilderOK(One)
  BY <1>1, <1>3, AppendFixedBuilt DEF One, Built, b, name
<1>16. c.bad = "no"
  <2>1. BufOK(c) /\ c.bad \in {"no", "over"}
    BY <1>12, <1>13, <1>15 DEF BuilderOK, Added
  <2> QED
    BY <1>14, <2>1 DEF BufOK, Slipped
<1> QED
  BY <1>2, <1>6, <1>7, <1>12, <1>13, <1>14, <1>15, <1>16 DEF Added

Whole == Finish(One).b

LEMMA WholeIs ==
  /\ BufOK(Whole) /\ Whole.size = 13 /\ Whole.slips \subseteq {"wrapped"}
  /\ DOMAIN Whole.data = {4, 12}
  /\ Whole.data[4] = OneNumber /\ Whole.data[12] = Zero
<1>1. /\ BuilderOK(One) /\ One.bad = "no" /\ One.finished = FALSE
      /\ One.data = Placed(NoElements, 4, OneNumber) /\ One.cur = 12
      /\ One.stack = <<>> /\ One.slips = {} /\ "NOT_UTF8" \notin One.err
  BY OneIs
<1>2. EnsureSpace(One, 1).ok = TRUE
  <2>1. One.cur + 2 * 1 <= IntMax /\ BufOK(One)
    BY <1>1, BuilderAssumption DEF BuilderOK
  <2> QED
    BY <1>1, <2>1, SpaceFits
<1>3. /\ Whole.data = Placed(One.data, One.cur, Zero) /\ Whole.size = One.cur + 1
      /\ Whole.slips \subseteq One.slips \cup {"wrapped"}
  BY <1>1, <1>2, FinishAdds DEF Whole
<1>4. BufOK(Whole)
  BY <1>1, FinishOK DEF Whole, BuilderOK
<1>5. DOMAIN One.data = {4} /\ One.data[4] = OneNumber
  BY <1>1 DEF Placed, NoElements
<1>6. DOMAIN Whole.data = {4, 12} /\ Whole.data[4] = OneNumber /\ Whole.data[12] = Zero
  <2>1. Whole.data = Placed(One.data, 12, Zero)
    BY <1>1, <1>3
  <2> QED
    BY <1>5, <2>1 DEF Placed
<1> QED
  BY <1>1, <1>3, <1>4, <1>6

OneWhole(a) ==
  /\ a.size = 13 /\ a.slips \subseteq {"wrapped"}
  /\ DOMAIN a.data = {4, 12} /\ a.data[4] = OneNumber /\ a.data[12] = Zero

LEMMA OneSizes ==
  ASSUME NEW a, OneWhole(a)
  PROVE  NextOffset(a, 4) = 12 /\ IsElement(OneNumber) /\ OneNumber.type = "INT"
         /\ OneNumber.len = 4 /\ Len(OneNumber.key) = 2 /\ OneNumber.val = 1
<1>1. IsElement(OneNumber)
  BY DEF IsElement, OneNumber, Types, Dot
<1>2. OneNumber.type = "INT" /\ OneNumber.len = 4 /\ Len(OneNumber.key) = 2 /\ OneNumber.val = 1
  BY DEF OneNumber
<1>3. NextOffset(a, 4) = 12
  <2>1. NextOffset(a, 4) = 4 + 2 + Len(OneNumber.key) + OneNumber.len
    BY DEF OneWhole, NextOffset
  <2> QED
    BY <1>2, <2>1
<1> QED
  BY <1>1, <1>2, <1>3

\* Bytes moved in where the position has passed.
Came(b, m, n, a) ==
  /\ IsBson(m) /\ m.cur = b.cur + n /\ m.size = b.size /\ m.finished = b.finished
  /\ m.stack = b.stack /\ m.err = b.err /\ m.slips = b.slips \cup {"foreign"} \cup a.slips
  /\ m.bad \in {"over", b.bad}

LEMMA MovedPast ==
  ASSUME NEW b, IsBson(b), NEW n, NEW a, NEW first, NEW last, NEW to
  PROVE  Came(b, Moved(Advance(b, n), a, first, last, to), n, a)
<1> DEFINE c == Advance(b, n)
           m == Moved(c, a, first, last, to)
<1>1. /\ IsBson(c) /\ c.cur = b.cur + n /\ c.size = b.size /\ c.finished = b.finished
      /\ c.slips = b.slips /\ c.stack = b.stack /\ c.err = b.err
  BY AdvanceFields
<1>2. c.bad = IF b.bad = "no" /\ b.cur + n > b.dataSize THEN "over" ELSE b.bad
  BY AdvanceFields
<1> HIDE DEF c
<1>3. /\ IsBson(m) /\ m.cur = c.cur /\ m.size = c.size
      /\ m.finished = c.finished /\ m.bad = c.bad /\ m.stack = c.stack /\ m.err = c.err
      /\ m.slips = c.slips \cup {"foreign"} \cup a.slips
  BY <1>1, MovedFields
<1> HIDE DEF m
<1>4. Came(b, m, n, a)
  BY <1>1, <1>2, <1>3 DEF Came
<1> QED
  BY <1>4 DEF m, c

\* The elements that were there lead where they led.
LEMMA LeadsOn ==
  ASSUME NEW b, Open(b), NEW c, c.stack = b.stack, Ahead(b) \subseteq DOMAIN c.data,
         \A p \in DOMAIN b.data : c.data[p] = b.data[p],
         NEW p \in DOMAIN b.data, b.data[p].type # "EOO"
  PROVE  Leads(c, p)
<1>1. Leads(b, p)
  BY DEF Open
<1>2. /\ Body(c, p) = Body(b, p) /\ NextOffset(c, p) = NextOffset(b, p)
      /\ InStack(c, p) <=> InStack(b, p)
  BY DEF Body, NextOffset, InStack
<1>3. DOMAIN b.data \subseteq DOMAIN c.data
  BY DEF Ahead
<1> QED
  BY <1>1, <1>2, <1>3 DEF Leads, Ahead

\* An element with a document in it.
Embedded(b, m, x, e) ==
  /\ x = b.cur + 2 + Len(e.key) /\ m.cur = x + 13
  /\ m.finished = FALSE /\ m.stack = b.stack
  /\ DOMAIN m.data = DOMAIN b.data \cup {b.cur, x + 4, x + 12}
  /\ m.data[b.cur] = e /\ m.data[x + 4] = OneNumber /\ m.data[x + 12] = Zero
  /\ \A p \in DOMAIN b.data : m.data[p] = b.data[p]

LEMMA EmbeddedPlaces ==
  ASSUME NEW b, BuilderOK(b), b.finished = FALSE, NEW e, IsElement(e),
         NEW m, NEW x, x = b.cur + 2 + Len(e.key)
  PROVE  /\ b.cur \in Nat /\ b.cur >= 4 /\ x \in Nat /\ x > b.cur
         /\ DOMAIN b.data \subseteq Nat
         /\ \A p \in DOMAIN b.data : 4 <= p /\ p < b.cur
<1>1. b.cur \in Nat /\ b.cur >= 4 /\ Len(e.key) \in Nat
  BY DEF BuilderOK, BufOK, IsElement
<1>2. DOMAIN b.data \subseteq Nat /\ \A p \in DOMAIN b.data : 4 <= p /\ p < b.cur
  BY DEF BuilderOK, Typed
<1> QED
  BY <1>1, <1>2

LEMMA EmbeddedTyped ==
  ASSUME NEW b, BuilderOK(b), b.finished = FALSE, NEW e, IsElement(e),
         NEW m, NEW x, Embedded(b, m, x, e), m.err \subseteq Flags, m.slips \subseteq Slips,
         m.bad \in {"no", "over"}
  PROVE  Typed(m)
<1>1. /\ b.cur \in Nat /\ b.cur >= 4 /\ x \in Nat /\ x > b.cur
      /\ DOMAIN b.data \subseteq Nat
      /\ \A p \in DOMAIN b.data : 4 <= p /\ p < b.cur
  BY EmbeddedPlaces DEF Embedded
<1>2. /\ m.cur = x + 13
      /\ DOMAIN m.data = DOMAIN b.data \cup {b.cur, x + 4, x + 12}
      /\ m.data[b.cur] = e /\ m.data[x + 4] = OneNumber /\ m.data[x + 12] = Zero
      /\ \A p \in DOMAIN b.data : m.data[p] = b.data[p]
  BY DEF Embedded
<1>3. DOMAIN m.data \subseteq Nat /\ \A p \in DOMAIN m.data : 4 <= p /\ p < m.cur
  BY <1>1, <1>2
<1>4. \A p \in DOMAIN m.data : IsElement(m.data[p])
  <2>1. IsElement(OneNumber) /\ IsElement(Zero)
    BY EmptyKey DEF IsElement, OneNumber, Types, Dot
  <2>2. \A p \in DOMAIN b.data : IsElement(b.data[p])
    BY DEF BuilderOK, Typed
  <2> QED
    BY <1>2, <2>1, <2>2
<1>5. m.cur \in Nat /\ m.cur > b.cur
  BY <1>1, <1>2
<1>6. /\ m.stack \in Seq(Nat) /\ Len(m.stack) <= StackSize
      /\ \A i \in 1..Len(m.stack) : m.stack[i] <= m.cur
  <2>1. m.stack = b.stack
    BY DEF Embedded
  <2>2. /\ b.stack \in Seq(Nat) /\ Len(b.stack) <= StackSize
        /\ \A i \in 1..Len(b.stack) : b.stack[i] <= b.cur
    BY DEF BuilderOK, Typed
  <2>3. \A i \in 1..Len(b.stack) : b.stack[i] \in Nat
    BY <2>2
  <2>4. \A i \in 1..Len(b.stack) : b.stack[i] <= m.cur
    BY <1>1, <1>5, <2>2, <2>3
  <2> QED
    BY <2>1, <2>2, <2>4
<1> QED
  BY <1>3, <1>4, <1>6 DEF Typed, Embedded

LEMMA EmbeddedOpen ==
  ASSUME NEW b, BuilderOK(b), b.finished = FALSE, Open(b), NEW e, IsElement(e),
         e.len = 13, NEW m, NEW x, Embedded(b, m, x, e)
  PROVE  Open(m)
<1>1. /\ b.cur \in Nat /\ b.cur >= 4 /\ x \in Nat /\ x > b.cur
      /\ DOMAIN b.data \subseteq Nat
      /\ \A p \in DOMAIN b.data : 4 <= p /\ p < b.cur
  BY EmbeddedPlaces DEF Embedded
<1>2. /\ m.cur = x + 13 /\ x = b.cur + 2 + Len(e.key) /\ m.stack = b.stack
      /\ DOMAIN m.data = DOMAIN b.data \cup {b.cur, x + 4, x + 12}
      /\ m.data[b.cur] = e /\ m.data[x + 4] = OneNumber /\ m.data[x + 12] = Zero
      /\ \A p \in DOMAIN b.data : m.data[p] = b.data[p]
  BY DEF Embedded
<1>3. Ahead(b) \subseteq DOMAIN m.data
  BY <1>2 DEF Ahead
<1>4. \A p \in DOMAIN b.data : b.data[p].type # "EOO" => Leads(m, p)
  BY <1>2, <1>3, LeadsOn
<1>5. \A i \in 1..Len(m.stack) : m.stack[i] <= b.cur /\ m.stack[i] \in Nat
  <2>1. b.stack \in Seq(Nat) /\ \A i \in 1..Len(b.stack) : b.stack[i] <= b.cur
    BY DEF BuilderOK, Typed
  <2>2. \A i \in 1..Len(b.stack) : b.stack[i] \in Nat
    BY <2>1
  <2> QED
    BY <1>2, <2>1, <2>2
<1>6. Leads(m, b.cur)
  <2>1. Body(m, b.cur) = x /\ NextOffset(m, b.cur) = x + 13
    BY <1>2 DEF Body, NextOffset
  <2>2. ~InStack(m, b.cur)
    BY <1>1, <1>5, <2>1 DEF InStack
  <2>3. NextOffset(m, b.cur) - 1 = x + 12
    BY <1>1, <2>1
  <2> QED
    BY <1>2, <2>1, <2>2, <2>3 DEF Leads, Ahead, Zero
<1>7. Leads(m, x + 4)
  <2>1. Len(OneNumber.key) = 2 /\ OneNumber.len = 4 /\ OneNumber.type = "INT"
    BY DEF OneNumber
  <2>2. Body(m, x + 4) = x + 8 /\ NextOffset(m, x + 4) = x + 12
    BY <1>1, <1>2, <2>1 DEF Body, NextOffset
  <2>3. ~InStack(m, x + 4)
    BY <1>1, <1>5, <2>2 DEF InStack
  <2> QED
    BY <1>2, <2>1, <2>2, <2>3 DEF Leads, Ahead
<1>8. 4 \in Ahead(m)
  BY <1>3 DEF Open, Ahead
<1> QED
  BY <1>2, <1>4, <1>6, <1>7, <1>8 DEF Open, Zero

LEMMA AppendBsonBuilt ==
  ASSUME NEW b, BuilderOK(b), b.bad = "no", NEW name \in Seq(Nat), NEW a, OneWhole(a)
  PROVE  Built(b, AppendBson(b, name, a).b)
<1> DEFINE e == Estart(b, "OBJECT", name, <<>>, 13, 13)
           new == [type |-> "OBJECT", key |-> name, val |-> <<>>, len |-> 13]
           x == e.b.cur
           m == Moved(Advance(e.b, 13), a, 0, 13, x)
           r == AppendBson(b, name, a)
<1>1. BufOK(b) /\ Len(name) \in Nat /\ a.size = 13 /\ a.size \in Nat
  BY DEF BuilderOK, OneWhole
<1>2. BufOK(r.b)
  BY <1>1, AppendBsonOK
<1>3. BufOK(e.b) /\ e.ok \in BOOLEAN
  BY <1>1, EstartOK
<1>4. r.b = IF ~e.ok THEN e.b ELSE m
  <2>1. r = IF ~e.ok THEN e ELSE Result(TRUE, m)
    BY <1>1 DEF AppendBson
  <2> QED
    BY <2>1 DEF Result
<1>5. e.ok = FALSE => Kept(b, e.b)
  BY EstartKept
<1>6. e.ok = TRUE => Added(b, e.b, new, 2 + Len(name))
  BY EstartAdded
<1>7. IsElement(new) /\ new.key = name /\ new.len = 13 /\ new.type = "OBJECT"
  <2>1. "OBJECT" \in Types
    BY DEF Types
  <2> QED
    BY <2>1, ElementIs
<1> HIDE DEF new
<1>8. Came(e.b, m, 13, a)
  <2> DEFINE d == e.b
  <2>1. IsBson(d)
    BY <1>3 DEF BufOK
  <2> HIDE DEF d
  <2>2. \A to : Came(d, Moved(Advance(d, 13), a, 0, 13, to), 13, a)
    BY <2>1, MovedPast
  <2> QED
    BY <2>2 DEF d
<1>9. m.data = [p \in DOMAIN e.b.data \cup {x + 4, x + 12} |->
                  IF p \in {x + 4, x + 12} THEN a.data[p - x + 0] ELSE e.b.data[p]]
  <2> DEFINE d == e.b  c == Advance(d, 13)
  <2>1. IsBson(c) /\ c.data = d.data
    BY <1>3, AdvanceFields DEF BufOK
  <2>2. MovedTo(a, 0, 13, x) = {x + 4, x + 12}
    <3>1. x \in Nat
      BY <1>3 DEF BufOK
    <3>2. {p \in DOMAIN a.data : 0 <= p /\ p < 13} = {4, 12}
      BY DEF OneWhole
    <3> HIDE DEF x
    <3>3. MovedTo(a, 0, 13, x) = {x + p - 0 : p \in {4, 12}}
      BY <3>2, Zenon DEF MovedTo
    <3>4. x + 4 - 0 = x + 4 /\ x + 12 - 0 = x + 12
      BY <3>1
    <3> QED
      BY <3>3, <3>4
  <2>3. Moved(c, a, 0, 13, x).data = MovedElements(c.data, a, 0, 13, x)
    <3> HIDE DEF c, d, x
    <3> QED
      BY <2>1, MovedData
  <2> HIDE DEF c, d, x
  <2>4. MovedElements(c.data, a, 0, 13, x) =
          [p \in DOMAIN d.data \cup {x + 4, x + 12} |->
             IF p \in {x + 4, x + 12} THEN a.data[p - x + 0] ELSE d.data[p]]
    BY <2>1, <2>2, Zenon DEF MovedElements
  <2> QED
    BY <2>3, <2>4 DEF c, d, x
<1> HIDE DEF e, m, r
<1>10. CASE e.ok = FALSE
  BY <1>3, <1>4, <1>5, <1>10, KeptBuilt DEF r
<1>11. CASE e.ok = TRUE
  <2>1. Added(b, e.b, new, 2 + Len(name))
    BY <1>6, <1>11
  <2>2. /\ b.finished = FALSE /\ e.b.finished = FALSE
        /\ e.b.data = Placed(b.data, b.cur, new)
        /\ x = b.cur + (2 + Len(name)) /\ e.b.stack = b.stack
        /\ b.slips \subseteq e.b.slips /\ e.b.slips \subseteq b.slips \cup {"wrapped"}
        /\ e.b.bad \in {"no", "over"} /\ b.err \subseteq e.b.err /\ e.b.err \subseteq Flags
    <3>1. Put(b, e.b, new, 2 + Len(name))
      BY <1>7, <2>1, AddedPut
    <3> QED
      BY <2>1, <3>1 DEF Added, Put
  <2>3. b.cur \in Nat /\ b.cur \notin DOMAIN b.data /\ \A p \in DOMAIN b.data : p < b.cur
        /\ DOMAIN b.data \subseteq Nat
    BY <2>2 DEF BuilderOK, Typed, BufOK
  <2>4. x = b.cur + 2 + Len(new.key) /\ x \in Nat /\ x > b.cur
    BY <1>1, <1>7, <2>2, <2>3
  <2> HIDE DEF x
  <2>5. DOMAIN e.b.data = DOMAIN b.data \cup {b.cur} /\ e.b.data[b.cur] = new
        /\ \A p \in DOMAIN b.data : e.b.data[p] = b.data[p]
    BY <2>2, <2>3 DEF Placed
  <2>6. /\ DOMAIN m.data = DOMAIN b.data \cup {b.cur, x + 4, x + 12}
        /\ m.data[b.cur] = new /\ m.data[x + 4] = OneNumber /\ m.data[x + 12] = Zero
        /\ \A p \in DOMAIN b.data : m.data[p] = b.data[p]
    <3>1. DOMAIN m.data = DOMAIN b.data \cup {b.cur, x + 4, x + 12}
      BY <1>9, <2>5
    <3>2. b.cur \notin {x + 4, x + 12} /\ \A p \in DOMAIN b.data : p \notin {x + 4, x + 12}
      BY <2>3, <2>4
    <3>3. m.data[b.cur] = new /\ \A p \in DOMAIN b.data : m.data[p] = b.data[p]
      BY <1>9, <2>5, <3>2
    <3>4. (x + 4) - x + 0 = 4 /\ (x + 12) - x + 0 = 12
      BY <2>4
    <3>5. m.data[x + 4] = a.data[4] /\ m.data[x + 12] = a.data[12]
      BY <1>9, <3>4
    <3> QED
      BY <3>1, <3>3, <3>5 DEF OneWhole
  <2>7. m.cur = x + 13 /\ m.finished = FALSE /\ m.stack = b.stack /\ m.err = e.b.err
        /\ m.slips = e.b.slips \cup {"foreign"} \cup a.slips /\ m.bad \in {"no", "over"}
    BY <1>8, <2>2 DEF Came, x
  <2>8. Embedded(b, m, x, new)
    BY <2>4, <2>6, <2>7 DEF Embedded
  <2>9. m.slips \subseteq Slips /\ m.err \subseteq Flags
    BY <2>2, <2>7 DEF OneWhole, BuilderOK, Typed, Slips
  <2>10. Typed(m)
    BY <1>7, <2>2, <2>7, <2>8, <2>9, EmbeddedTyped
  <2>11. Layout(m)
    <3>1. m.slips \cap {"early", "forgot", "headless", "late", "torn"} = {} =>
            b.slips \cap {"early", "forgot", "headless", "late", "torn"} = {}
      BY <2>2, <2>7
    <3>2. Open(b) => Open(m)
      BY <1>7, <2>2, <2>8, EmbeddedOpen
    <3> QED
      BY <2>2, <2>7, <3>1, <3>2 DEF Layout, BuilderOK
  <2>12. TornFlag(m) /\ Honest(m)
    <3>1. TornFlag(b)
      BY DEF BuilderOK
    <3>2. "torn" \in m.slips => "torn" \in b.slips
      BY <2>2, <2>7 DEF OneWhole
    <3>3. b.slips \subseteq m.slips /\ b.err \subseteq m.err
      BY <2>2, <2>7
    <3> QED
      BY <2>7, <3>1, <3>2, <3>3 DEF TornFlag, Honest
  <2>13. r.b = m
    BY <1>4, <1>11
  <2> QED
    BY <1>2, <2>2, <2>7, <2>10, <2>11, <2>12, <2>13 DEF BuilderOK, Built, r
<1> QED
  BY <1>3, <1>10, <1>11

\* An element that came in from another object, with its value.
LEMMA PutForeign ==
  ASSUME NEW b, BuilderOK(b), b.bad = "no", NEW c, BufOK(c), NEW e, IsElement(e),
         e.type \notin {"OBJECT", "ARRAY"}, NEW n, n = 2 + Len(e.key) + e.len,
         Put(b, c, e, n), "foreign" \in c.slips, b.err \subseteq c.err
  PROVE  BuilderOK(c)
<1>1. n \in Nat /\ n > 0
  BY DEF IsElement
<1>2. Typed(c) /\ Layout(c)
  BY <1>1, PutTyped, PutLayout
<1>3. TornFlag(c) /\ Honest(c)
  BY DEF BuilderOK, TornFlag, Honest, Put
<1> QED
  BY <1>2, <1>3 DEF BuilderOK

LEMMA AppendElementAsIsBuilt ==
  ASSUME NEW b, BuilderOK(b), b.bad = "no", NEW a, OneWhole(a)
  PROVE  Built(b, AppendElementAsIs(b, a, 4).b)
<1> DEFINE space == EnsureSpace(b, 8)
           d == space.b
           m == Moved(Advance(d, 8), a, 4, 12, d.cur)
           late == [m EXCEPT !.slips = m.slips \cup {"late"}]
           r == AppendElementAsIs(b, a, 4)
<1>1. NextOffset(a, 4) = 12 /\ IsElement(OneNumber) /\ OneNumber.type = "INT"
      /\ OneNumber.len = 4 /\ Len(OneNumber.key) = 2
  BY OneSizes
<1>2. BufOK(b) /\ NextOffset(a, 4) - 4 = 8 /\ 4 + 8 = 12 /\ b.cur \in Nat
      /\ b.finished \in BOOLEAN
  BY <1>1 DEF BuilderOK, BufOK, Typed
<1>3. BufOK(r.b)
  <2>1. NextOffset(a, 4) - 4 \in Nat
    BY <1>2
  <2> QED
    BY <1>2, <2>1, AppendElementAsIsOK
<1>4. /\ BufOK(d) /\ space.ok \in BOOLEAN
      /\ d.cur = b.cur /\ d.finished = b.finished /\ d.stack = b.stack
      /\ d.data = b.data /\ d.bad = b.bad /\ d.size = b.size
      /\ space.ok => d.err = b.err /\ d.slips \in {b.slips, b.slips \cup {"wrapped"}}
  BY <1>2, EnsureSpaceOK
<1>5. space.ok = FALSE => Kept(b, d)
  BY SpaceKept
<1>6. r.b = IF ~space.ok THEN d ELSE IF b.finished THEN late ELSE m
  <2>1. r = IF ~space.ok THEN space ELSE Result(TRUE, IF b.finished THEN late ELSE m)
    BY <1>2 DEF AppendElementAsIs
  <2> QED
    BY <2>1 DEF Result
<1> HIDE DEF space, d, r
<1>7. IsBson(d) /\ BufOK(d)
  BY <1>4 DEF BufOK
<1>8. Came(d, m, 8, a)
  BY <1>7, MovedPast
<1>9. m.data = Placed(b.data, b.cur, OneNumber)
  <2> DEFINE c == Advance(d, 8)  x == b.cur
  <2>1. IsBson(c) /\ c.data = b.data /\ d.cur = x
    BY <1>4, <1>7, AdvanceFields
  <2> HIDE DEF c, x
  <2>2. m.data = MovedElements(b.data, a, 4, 12, x)
    BY <2>1, MovedData DEF c
  <2>3. x + 4 - 4 = x /\ x - x + 4 = 4
    BY <1>2 DEF x
  <2>4. MovedTo(a, 4, 12, x) = {x}
    <3>1. {p \in DOMAIN a.data : 4 <= p /\ p < 12} = {4}
      BY DEF OneWhole
    <3>2. MovedTo(a, 4, 12, x) = {x + p - 4 : p \in {4}}
      BY <3>1, Zenon DEF MovedTo
    <3> QED
      BY <2>3, <3>2
  <2>5. MovedElements(b.data, a, 4, 12, x) =
          [p \in DOMAIN b.data \cup {x} |-> IF p \in {x} THEN a.data[p - x + 4] ELSE b.data[p]]
    BY <2>4, Zenon DEF MovedElements
  <2>6. MovedElements(b.data, a, 4, 12, x) = Placed(b.data, x, OneNumber)
    BY <2>3, <2>5 DEF Placed, OneWhole
  <2> QED
    BY <2>2, <2>6 DEF x
<1> HIDE DEF m
<1>10. /\ IsBson(m) /\ m.cur = b.cur + 8 /\ m.finished = b.finished /\ m.stack = b.stack
       /\ m.err = d.err /\ m.slips = d.slips \cup {"foreign"} \cup a.slips
       /\ m.bad \in {"over", "no"}
  BY <1>4, <1>8 DEF Came
<1>11. CASE space.ok = FALSE
  BY <1>4, <1>5, <1>6, <1>11, KeptBuilt DEF r
<1>12. ASSUME space.ok = TRUE
       PROVE  /\ m.err = b.err /\ b.slips \subseteq m.slips
              /\ m.slips \subseteq b.slips \cup {"wrapped", "foreign"} /\ "foreign" \in m.slips
  BY <1>4, <1>10, <1>12 DEF OneWhole
<1>13. CASE space.ok = TRUE /\ ~b.finished
  <2>1. r.b = m
    BY <1>6, <1>13
  <2>2. m.err \subseteq Flags
    BY <1>12, <1>13 DEF BuilderOK, Typed
  <2>3. Put(b, m, OneNumber, 8)
    BY <1>2, <1>9, <1>10, <1>12, <1>13, <2>2 DEF Put
  <2>4. 8 = 2 + Len(OneNumber.key) + OneNumber.len
    BY <1>1
  <2>5. BufOK(m) /\ b.err \subseteq m.err /\ "foreign" \in m.slips
    BY <1>3, <1>12, <1>13, <2>1
  <2>6. BuilderOK(m)
    BY <1>1, <2>3, <2>4, <2>5, PutForeign
  <2> QED
    BY <1>10, <2>1, <2>6 DEF Built, r
<1>14. CASE space.ok = TRUE /\ b.finished
  <2>1. r.b = late
    BY <1>6, <1>14
  <2>2. /\ late.data = m.data /\ late.cur = m.cur /\ late.finished = m.finished
        /\ late.stack = m.stack /\ late.err = m.err /\ late.bad = m.bad
        /\ late.slips = m.slips \cup {"late"}
    BY <1>10 DEF IsBson
  <2> HIDE DEF late
  <2>3. DOMAIN late.data \subseteq Nat /\ \A p \in DOMAIN late.data : IsElement(late.data[p])
    BY <1>1, <1>2, <1>9, <2>2 DEF BuilderOK, Typed, Placed
  <2>4. /\ late.stack \in Seq(Nat) /\ Len(late.stack) <= StackSize
        /\ \A i \in 1..Len(late.stack) : late.stack[i] <= late.cur
    <3>1. b.stack \in Seq(Nat) /\ Len(b.stack) <= StackSize
          /\ \A i \in 1..Len(b.stack) : b.stack[i] <= b.cur
      BY DEF BuilderOK, Typed
    <3>2. \A i \in 1..Len(b.stack) : b.stack[i] \in Nat
      BY <3>1
    <3>3. late.stack = b.stack /\ late.cur = b.cur + 8
      BY <1>10, <2>2
    <3> QED
      BY <1>2, <3>1, <3>2, <3>3
  <2>5. late.finished = TRUE /\ "foreign" \in late.slips /\ late.slips \subseteq Slips
        /\ late.err \subseteq Flags /\ late.bad \in {"no", "over"}
    BY <1>2, <1>10, <1>12, <1>14, <2>2 DEF BuilderOK, Typed, Slips
  <2>6. Typed(late)
    BY <2>3, <2>4, <2>5 DEF Typed
  <2>7. TornFlag(late) /\ Layout(late) /\ Honest(late)
    <3>1. TornFlag(b)
      BY DEF BuilderOK
    <3>2. "torn" \in b.slips => "forgot" \in b.slips
      BY <1>14, <3>1 DEF TornFlag
    <3> QED
      BY <1>12, <1>14, <2>2, <3>2 DEF TornFlag, Layout, Honest
  <2> QED
    BY <1>2, <1>3, <1>14, <2>1, <2>5, <2>6, <2>7 DEF BuilderOK, Built, r
<1> QED
  BY <1>4, <1>11, <1>13, <1>14

\* Without the start of its element, the value is all that is written.
LEMMA HeadlessOK ==
  ASSUME NEW b, BuilderOK(b), b.bad = "no", NEW d, Kept(b, d), NEW c, BufOK(c),
         NEW n \in Nat, DOMAIN c.data = DOMAIN b.data,
         \A p \in DOMAIN b.data : c.data[p] = b.data[p], c.cur = b.cur + n, c.finished = b.finished,
         c.stack = b.stack, c.err = d.err, d.slips \subseteq c.slips,
         c.slips \subseteq d.slips \cup {"wrapped", "foreign", "headless"},
         {"foreign", "headless"} \subseteq c.slips, c.bad \in {"no", "over"}
  PROVE  BuilderOK(c)
<1>1. Typed(b) /\ TornFlag(b) /\ b.cur \in Nat
  BY DEF BuilderOK, BufOK
<1>2. DOMAIN c.data \subseteq Nat /\ \A p \in DOMAIN c.data : IsElement(c.data[p])
  BY <1>1 DEF Typed
<1>3. c.finished = FALSE => \A p \in DOMAIN c.data : 4 <= p /\ p < c.cur
  BY <1>1 DEF Typed
<1>4. /\ c.stack \in Seq(Nat) /\ Len(c.stack) <= StackSize
      /\ \A i \in 1..Len(c.stack) : c.stack[i] <= c.cur
  <2>1. b.stack \in Seq(Nat) /\ Len(b.stack) <= StackSize
        /\ \A i \in 1..Len(b.stack) : b.stack[i] <= b.cur
    BY <1>1 DEF Typed
  <2>2. \A i \in 1..Len(b.stack) : b.stack[i] \in Nat
    BY <2>1
  <2> QED
    BY <1>1, <2>1, <2>2
<1>5. c.err \subseteq Flags /\ c.slips \subseteq Slips /\ c.finished \in BOOLEAN
  BY <1>1 DEF Kept, Typed, Slips
<1>6. Typed(c)
  BY <1>2, <1>3, <1>4, <1>5 DEF Typed
<1>7. TornFlag(c) /\ Layout(c) /\ Honest(c)
  BY <1>1 DEF TornFlag, Layout, Honest, Kept
<1> QED
  BY <1>6, <1>7 DEF BuilderOK

LEMMA AppendElementBuilt ==
  ASSUME NEW b, BuilderOK(b), b.bad = "no", NEW name \in Seq(Nat), NEW a, OneWhole(a)
  PROVE  Built(b, AppendElement(b, name, a, 4).b)
<1> DEFINE e == Estart(b, "INT", name, 1, 4, 4)
           new == [type |-> "INT", key |-> name, val |-> 1, len |-> 4]
           head == 2 + Len(name)
           d == e.b
           m == Moved(Advance(d, 4), a, 8, 12, d.cur)
           headless == [m EXCEPT !.slips = m.slips \cup {"headless"}]
           r == AppendElement(b, name, a, 4)
<1>1. NextOffset(a, 4) = 12 /\ a.data[4] = OneNumber
  BY OneSizes DEF OneWhole
<1>2. BufOK(b) /\ b.cur \in Nat /\ b.finished \in BOOLEAN /\ Len(name) \in Nat
      /\ head \in Nat
  BY DEF BuilderOK, BufOK, Typed
<1>3. BufOK(r.b)
  <2>1. a.data[4].len \in Nat
    BY <1>1 DEF OneNumber
  <2> QED
    BY <1>2, <2>1, AppendElementOK
<1>4. r.b = IF e.ok THEN m ELSE headless
  <2> DEFINE old == a.data[4]
  <2>1. old.type = "INT" /\ old.val = 1 /\ old.len = 4
    BY <1>1 DEF OneNumber
  <2>2. Estart(b, old.type, name, old.val, old.len, old.len) = e
    BY <2>1
  <2>3. NextOffset(a, 4) - old.len = 8 /\ 8 + old.len = 12
    BY <1>1, <2>1
  <2>4. Moved(Advance(d, old.len), a, NextOffset(a, 4) - old.len,
              NextOffset(a, 4) - old.len + old.len, d.cur) = m
    BY <2>1, <2>3
  <2>5. r = LET s == Estart(b, old.type, name, old.val, old.len, old.len)
                all == Moved(Advance(s.b, old.len), a, NextOffset(a, 4) - old.len,
                             NextOffset(a, 4) - old.len + old.len, s.b.cur)
            IN  Result(TRUE, IF s.ok THEN all ELSE [all EXCEPT !.slips = @ \cup {"headless"}])
    BY Zenon DEF AppendElement
  <2>6. r = Result(TRUE, IF e.ok THEN m ELSE headless)
    <3> HIDE DEF e, old
    <3> QED
      BY <2>2, <2>4, <2>5
  <2> HIDE DEF m, headless, e, r
  <2> QED
    BY <2>6 DEF Result
<1>5. BufOK(d) /\ e.ok \in BOOLEAN
  BY <1>2, EstartOK
<1>6. e.ok = FALSE => Kept(b, d)
  BY EstartKept
<1>7. e.ok = TRUE => Added(b, d, new, head)
  BY EstartAdded
<1>8. IsElement(new) /\ new.key = name /\ new.len = 4 /\ new.type = "INT"
  <2>1. "INT" \in Types
    BY DEF Types
  <2> QED
    BY <2>1, ElementIs
<1> HIDE DEF new, e, r, d
<1>9. IsBson(d)
  BY <1>5 DEF BufOK
<1>10. Came(d, m, 4, a)
  BY <1>9, MovedPast
<1>11. m.data = [p \in DOMAIN d.data |-> d.data[p]]
  <2> DEFINE c == Advance(d, 4)  x == d.cur
  <2>1. IsBson(c) /\ c.data = d.data
    BY <1>9, AdvanceFields
  <2> HIDE DEF c, x
  <2>2. m.data = MovedElements(d.data, a, 8, 12, x)
    BY <2>1, MovedData DEF c, x
  <2>3. MovedTo(a, 8, 12, x) = {}
    <3>1. {p \in DOMAIN a.data : 8 <= p /\ p < 12} = {}
      BY DEF OneWhole
    <3>2. MovedTo(a, 8, 12, x) = {x + p - 8 : p \in {}}
      BY <3>1, Zenon DEF MovedTo
    <3> QED
      BY <3>2
  <2>4. MovedElements(d.data, a, 8, 12, x) =
          [p \in DOMAIN d.data \cup {} |-> IF p \in {} THEN a.data[p - x + 8] ELSE d.data[p]]
    BY <2>3, Zenon DEF MovedElements
  <2>5. DOMAIN d.data \cup {} = DOMAIN d.data
    OBVIOUS
  <2> QED
    BY <2>2, <2>4, <2>5
<1> HIDE DEF m
<1>12. /\ IsBson(m) /\ m.cur = d.cur + 4 /\ m.finished = d.finished /\ m.stack = d.stack
       /\ m.err = d.err /\ m.slips = d.slips \cup {"foreign"} \cup a.slips
       /\ m.bad \in {"over", d.bad}
  BY <1>10 DEF Came
<1>13. CASE e.ok = TRUE
  <2>1. Added(b, d, new, head) /\ r.b = m
    BY <1>4, <1>7, <1>13
  <2>2. Put(b, d, new, head) /\ b.err \subseteq d.err
    BY <1>8, <2>1, AddedPut DEF Added
  <2>3. m.data = Placed(b.data, b.cur, new)
    BY <1>11, <2>2 DEF Put, Placed
  <2> DEFINE n == head + 4
  <2>4. m.cur = b.cur + n /\ n = 2 + Len(new.key) + new.len
    <3>1. n = 2 + Len(new.key) + new.len
      BY <1>8
    <3>2. d.cur = b.cur + head /\ m.cur = d.cur + 4
      BY <1>12, <2>2 DEF Put
    <3> DEFINE x == b.cur
    <3>3. x \in Nat /\ d.cur = x + head
      BY <1>2, <3>2
    <3> HIDE DEF x, head
    <3>4. m.cur = x + (head + 4)
      BY <1>2, <3>2, <3>3
    <3> QED
      BY <3>1, <3>4 DEF x
  <2> HIDE DEF n
  <2>5. Put(b, m, new, n)
    BY <1>12, <2>2, <2>3, <2>4 DEF Put, OneWhole
  <2>6. BufOK(m) /\ "foreign" \in m.slips /\ b.err \subseteq m.err
    BY <1>3, <1>12, <2>1, <2>2
  <2>7. BuilderOK(m)
    BY <1>8, <2>4, <2>5, <2>6, PutForeign
  <2> QED
    BY <2>1, <2>5, <2>7 DEF Built, Put, r
<1>14. CASE e.ok = FALSE
  <2>1. Kept(b, d) /\ r.b = headless
    BY <1>4, <1>6, <1>14
  <2>2. /\ headless.data = m.data /\ headless.cur = m.cur /\ headless.finished = m.finished
        /\ headless.stack = m.stack /\ headless.err = m.err /\ headless.bad = m.bad
        /\ headless.slips = m.slips \cup {"headless"}
    BY <1>12 DEF IsBson
  <2> HIDE DEF headless
  <2>3. d.data = b.data /\ d.cur = b.cur /\ d.finished = b.finished /\ d.stack = b.stack
        /\ d.bad = b.bad
    BY <2>1 DEF Kept
  <2>4. headless.data = [p \in DOMAIN b.data |-> b.data[p]]
    BY <1>11, <2>2, <2>3
  <2>5. BuilderOK(headless)
    <3>1. DOMAIN headless.data = DOMAIN b.data
          /\ \A p \in DOMAIN b.data : headless.data[p] = b.data[p]
      BY <2>4
    <3>2. headless.cur = b.cur + 4 /\ headless.bad \in {"no", "over"}
          /\ headless.finished = b.finished /\ headless.stack = b.stack
          /\ headless.err = d.err
      BY <1>12, <2>2, <2>3
    <3>3. /\ d.slips \subseteq headless.slips
          /\ headless.slips \subseteq d.slips \cup {"wrapped", "foreign", "headless"}
          /\ {"foreign", "headless"} \subseteq headless.slips
      BY <1>12, <2>2 DEF OneWhole
    <3>4. BufOK(headless)
      BY <1>3, <2>1
    <3>5. 4 \in Nat
      OBVIOUS
    <3> QED
      BY <2>1, <3>1, <3>2, <3>3, <3>4, <3>5, HeadlessOK
  <2> QED
    BY <1>12, <2>1, <2>2, <2>3, <2>5 DEF Built, r
<1> QED
  BY <1>5, <1>13, <1>14

-----------------------------------------------------------------------------
(* What is in what. While an object is open it goes on to the end.         *)

IsSub(b, p) == b.data[p].type \in {"OBJECT", "ARRAY"}

Encloses(b, p, q) ==
  IsSub(b, p) /\ q > p /\ (InStack(b, p) \/ q < NextOffset(b, p) - 1)

\* The elements of the sub-object at p itself.
Kids(b, p) ==
  {q \in DOMAIN b.data : /\ Encloses(b, p, q) /\ b.data[q].type # "EOO"
                         /\ \A r \in DOMAIN b.data : Encloses(b, p, r) => ~Encloses(b, r, q)}

\* Keys are not overlapped, objects that are closed lie behind, and those that are
\* open lie in each other.
Nested(b) ==
  /\ \A p \in DOMAIN b.data : \A q \in Ahead(b) :
       p < q /\ b.data[p].type # "EOO" => Body(b, p) <= q
  /\ \A p \in DOMAIN b.data : IsSub(b, p) => InStack(b, p) \/ NextOffset(b, p) <= b.cur
  /\ \A i \in 1..Len(b.stack) : \E p \in DOMAIN b.data : IsSub(b, p) /\ b.stack[i] = Body(b, p)
  /\ \A i, j \in 1..Len(b.stack) : i < j => b.stack[i] < b.stack[j]

\* The object at p is the last one opened.
Innermost(b, p) == b.stack # <<>> /\ IsSub(b, p) /\ b.stack[Len(b.stack)] = Body(b, p)

\* An element came in, as one of the innermost object.
Gains(b, c, type, name) ==
  /\ b.cur \notin DOMAIN b.data /\ DOMAIN c.data = DOMAIN b.data \cup {b.cur}
  /\ \A p \in DOMAIN b.data :
       /\ c.data[p] = b.data[p]
       /\ Kids(c, p) = IF Innermost(b, p) THEN Kids(b, p) \cup {b.cur} ELSE Kids(b, p)
  /\ c.data[b.cur].type = type /\ c.data[b.cur].key = name /\ Kids(c, b.cur) = {}
  /\ Body(c, b.cur) > b.cur
  /\ Nested(c)

\* Nothing but a zero byte came in.
Keeps(b, c) ==
  /\ b.cur \notin DOMAIN b.data /\ DOMAIN c.data = DOMAIN b.data \cup {b.cur}
  /\ c.data[b.cur].type = "EOO"
  /\ \A p \in DOMAIN b.data :
       /\ c.data[p].type = b.data[p].type /\ c.data[p].key = b.data[p].key
       /\ Kids(c, p) = Kids(b, p)

\* Nothing was left out for want of room or because of a text that is none.
Clean(b) == b.bad = "no" /\ b.err \cap {"NOT_UTF8", "SIZE_OVERFLOW"} = {}

\* The facts of a builder these proofs need.
LEMMA Lying ==
  ASSUME NEW b, BuilderOK(b), b.finished = FALSE
  PROVE  /\ b.cur \in Nat /\ b.stack \in Seq(Nat) /\ DOMAIN b.data \subseteq Nat
         /\ \A p \in DOMAIN b.data : /\ p < b.cur /\ IsElement(b.data[p])
                                     /\ Len(b.data[p].key) \in Nat /\ b.data[p].len \in Nat
                                     /\ Body(b, p) \in Nat /\ Body(b, p) > p
                                     /\ NextOffset(b, p) \in Nat
         /\ \A i \in 1..Len(b.stack) : b.stack[i] \in Nat /\ b.stack[i] <= b.cur
         /\ b.cur \notin DOMAIN b.data
<1>1. b.cur \in Nat /\ Typed(b)
  BY DEF BuilderOK, BufOK
<1>2. /\ b.stack \in Seq(Nat) /\ DOMAIN b.data \subseteq Nat
      /\ \A p \in DOMAIN b.data : p < b.cur /\ IsElement(b.data[p])
      /\ \A i \in 1..Len(b.stack) : b.stack[i] <= b.cur
  BY <1>1 DEF Typed
<1>3. \A i \in 1..Len(b.stack) : b.stack[i] \in Nat
  BY <1>2
<1>4. ASSUME NEW p \in DOMAIN b.data
      PROVE  /\ Len(b.data[p].key) \in Nat /\ b.data[p].len \in Nat
             /\ Body(b, p) \in Nat /\ Body(b, p) > p /\ NextOffset(b, p) \in Nat
  <2> DEFINE key == b.data[p].key  k == Len(key)  l == b.data[p].len
  <2>1. key \in Seq(Nat) /\ l \in Nat /\ p \in Nat
    BY <1>2 DEF IsElement
  <2>2. Body(b, p) = p + 2 + k /\ NextOffset(b, p) = p + 2 + k + l
    BY DEF Body, NextOffset
  <2> HIDE DEF key, l
  <2>3. k \in Nat
    BY <2>1
  <2> HIDE DEF k
  <2>4. Body(b, p) \in Nat /\ Body(b, p) > p /\ NextOffset(b, p) \in Nat
    BY <2>1, <2>2, <2>3
  <2> QED
    BY <2>1, <2>3, <2>4 DEF k, key, l
<1>5. b.cur \notin DOMAIN b.data
  BY <1>1, <1>2
<1> QED
  BY <1>1, <1>2, <1>3, <1>4, <1>5

\* Of two open objects the one that lies behind was opened later.
LEMMA Behindmost ==
  ASSUME NEW b, BuilderOK(b), b.finished = FALSE, Nested(b),
         NEW p \in DOMAIN b.data, IsSub(b, p), NEW q \in DOMAIN b.data, IsSub(b, q)
  PROVE  /\ p < q <=> Body(b, p) < Body(b, q)
         /\ Body(b, p) = Body(b, q) => p = q
<1>1. \A r, s \in DOMAIN b.data : r < s /\ b.data[r].type # "EOO" => Body(b, r) <= s
  BY DEF Nested, Ahead
<1>2. /\ p \in Nat /\ q \in Nat /\ Body(b, p) \in Nat /\ Body(b, q) \in Nat
      /\ Body(b, p) > p /\ Body(b, q) > q
  BY Lying
<1>3. b.data[p].type # "EOO" /\ b.data[q].type # "EOO"
  BY DEF IsSub
<1>4. p < q => Body(b, p) < Body(b, q)
  BY <1>1, <1>2, <1>3
<1>5. q < p => Body(b, q) < Body(b, p)
  BY <1>1, <1>2, <1>3
<1> QED
  BY <1>2, <1>4, <1>5

\* The innermost object is the open one behind which there is no other.
LEMMA InnermostIs ==
  ASSUME NEW b, BuilderOK(b), b.finished = FALSE, Nested(b),
         NEW p \in DOMAIN b.data, IsSub(b, p), InStack(b, p)
  PROVE  Innermost(b, p) <=>
           \A r \in DOMAIN b.data : IsSub(b, r) /\ InStack(b, r) => ~(r > p)
<1> DEFINE n == Len(b.stack)
<1>1. b.stack \in Seq(Nat) /\ \A i \in 1..n : b.stack[i] \in Nat
  BY Lying
<1>2. PICK k \in 1..n : b.stack[k] = Body(b, p)
  BY DEF InStack
<1>3. n \in Nat /\ n >= 1 /\ b.stack # <<>> /\ n \in 1..n /\ k \in Nat /\ k <= n
  BY <1>1, <1>2
<1>4. /\ \A i, j \in 1..n : i < j => b.stack[i] < b.stack[j]
      /\ \A i \in 1..n : \E q \in DOMAIN b.data : IsSub(b, q) /\ b.stack[i] = Body(b, q)
  BY DEF Nested
<1>5. PICK q \in DOMAIN b.data : IsSub(b, q) /\ b.stack[n] = Body(b, q)
  BY <1>3, <1>4
<1>6. InStack(b, q)
  BY <1>3, <1>5 DEF InStack
<1> HIDE DEF n
<1>7. p \in Nat /\ q \in Nat /\ \A r \in DOMAIN b.data : r \in Nat
  BY Lying
<1>8. ASSUME Innermost(b, p), NEW r \in DOMAIN b.data, IsSub(b, r), InStack(b, r)
      PROVE  ~(r > p)
  <2>1. PICK i \in 1..n : b.stack[i] = Body(b, r)
    BY <1>8 DEF InStack, n
  <2>2. b.stack[n] = Body(b, p)
    BY <1>8 DEF Innermost, n
  <2>3. b.stack[i] <= b.stack[n]
    BY <1>1, <1>3, <1>4, <2>1
  <2>4. ~(Body(b, p) < Body(b, r))
    BY <1>1, <1>3, <2>1, <2>2, <2>3
  <2>5. ~(p < r)
    BY <1>8, <2>4, Behindmost
  <2> QED
    BY <1>7, <2>5
<1>9. ASSUME \A r \in DOMAIN b.data : IsSub(b, r) /\ InStack(b, r) => ~(r > p)
      PROVE  Innermost(b, p)
  <2>1. ~(q > p)
    BY <1>5, <1>6, <1>9
  <2>2. ~(p < q)
    BY <1>7, <2>1
  <2>3. ~(Body(b, p) < Body(b, q))
    BY <1>5, <2>2, Behindmost
  <2>4. ~(k < n)
    BY <1>2, <1>3, <1>4, <1>5, <2>3 DEF n
  <2>5. k = n
    BY <1>3, <2>4
  <2> QED
    BY <1>2, <1>3, <2>5 DEF Innermost, n
<1> QED
  BY <1>8, <1>9

\* A new element belongs to the innermost object alone.
LEMMA GainsIs ==
  ASSUME NEW b, BuilderOK(b), b.finished = FALSE, Nested(b),
         NEW e, IsElement(e), e.type # "EOO", NEW c,
         c.data = Placed(b.data, b.cur, e),
         c.cur \in Nat, c.cur >= b.cur + 2 + Len(e.key) + e.len,
         \/ e.type \notin {"OBJECT", "ARRAY"} /\ c.stack = b.stack
         \/ e.type \in {"OBJECT", "ARRAY"} /\ c.stack = Append(b.stack, b.cur + 2 + Len(e.key))
  PROVE  Gains(b, c, e.type, e.key)
<1> DEFINE x == b.cur
           body == b.cur + 2 + Len(e.key)
           n == Len(b.stack)
<1>1. /\ x \in Nat /\ b.stack \in Seq(Nat) /\ DOMAIN b.data \subseteq Nat
      /\ \A p \in DOMAIN b.data : /\ p < x /\ Body(b, p) \in Nat /\ Body(b, p) > p
                                  /\ NextOffset(b, p) \in Nat
      /\ \A i \in 1..n : b.stack[i] \in Nat /\ b.stack[i] <= x
      /\ x \notin DOMAIN b.data
  BY Lying
<1>2. /\ DOMAIN c.data = DOMAIN b.data \cup {x} /\ c.data[x] = e
      /\ \A p \in DOMAIN b.data : c.data[p] = b.data[p]
  BY <1>1 DEF Placed
<1>3. \A p \in DOMAIN b.data : /\ Body(c, p) = Body(b, p) /\ NextOffset(c, p) = NextOffset(b, p)
                               /\ IsSub(c, p) <=> IsSub(b, p)
  BY <1>2 DEF Body, NextOffset, IsSub
<1>4. /\ body \in Nat /\ body > x /\ Body(c, x) = body /\ body <= c.cur
      /\ NextOffset(c, x) <= c.cur
  <2> DEFINE k == Len(e.key)  l == e.len
  <2>1. k \in Nat /\ l \in Nat /\ body = x + 2 + k /\ c.cur >= x + 2 + k + l
    BY DEF IsElement
  <2>2. Body(c, x) = x + 2 + k /\ NextOffset(c, x) = x + 2 + k + l
    BY <1>2 DEF Body, NextOffset
  <2> HIDE DEF k, l, body, x
  <2> QED
    BY <1>1, <2>1, <2>2
<1>5. \A p \in DOMAIN b.data : b.data[p].type # "EOO" => Body(b, p) <= x
  BY <1>1 DEF Nested, Ahead
<1>6. /\ c.stack \in Seq(Nat) /\ Len(c.stack) \in {n, n + 1} /\ n \in Nat
      /\ \A i \in 1..n : c.stack[i] = b.stack[i]
      /\ Len(c.stack) = n + 1 => c.stack[n + 1] = body
      /\ IsSub(c, x) <=> Len(c.stack) = n + 1
  <2>1. n \in Nat
    BY <1>1
  <2>2. CASE e.type \notin {"OBJECT", "ARRAY"} /\ c.stack = b.stack
    BY <1>1, <1>2, <2>1, <2>2 DEF IsSub
  <2>3. CASE e.type \in {"OBJECT", "ARRAY"} /\ c.stack = Append(b.stack, body)
    <3> HIDE DEF body
    <3> QED
      BY <1>1, <1>2, <1>4, <2>1, <2>3 DEF IsSub
  <2> QED
    BY <2>2, <2>3
<1> HIDE DEF body, x, n
<1>7. ASSUME NEW p \in DOMAIN b.data, IsSub(b, p)
      PROVE  InStack(c, p) <=> InStack(b, p)
  <2>1. Body(b, p) \in Nat /\ Body(b, p) < body /\ Body(c, p) = Body(b, p)
    <3>1. b.data[p].type # "EOO"
      BY <1>7 DEF IsSub
    <3> QED
      BY <1>1, <1>3, <1>4, <1>5, <3>1
  <2>2. InStack(b, p) => InStack(c, p)
    <3>1. SUFFICES ASSUME NEW i \in 1..n, b.stack[i] = Body(b, p) PROVE InStack(c, p)
      BY DEF InStack, n
    <3>2. i \in 1..Len(c.stack) /\ c.stack[i] = Body(c, p)
      BY <1>6, <2>1, <3>1
    <3> QED
      BY <3>2 DEF InStack
  <2>3. InStack(c, p) => InStack(b, p)
    <3>1. SUFFICES ASSUME NEW i \in 1..Len(c.stack), c.stack[i] = Body(b, p)
                   PROVE  InStack(b, p)
      BY <2>1 DEF InStack
    <3>2. i # n + 1
      BY <1>4, <1>6, <2>1, <3>1
    <3>3. i \in 1..n
      BY <1>6, <3>2
    <3> QED
      BY <1>6, <3>1, <3>3 DEF InStack, n
  <2> QED
    BY <2>2, <2>3
<1>8. \A p, q \in DOMAIN b.data : Encloses(c, p, q) <=> Encloses(b, p, q)
  BY <1>3, <1>7 DEF Encloses
<1>9. ASSUME NEW p \in DOMAIN b.data
      PROVE  Encloses(c, p, x) <=> IsSub(b, p) /\ InStack(b, p)
  <2>1. p < x /\ NextOffset(b, p) \in Nat
    BY <1>1
  <2>2. IsSub(b, p) => InStack(b, p) \/ NextOffset(b, p) <= x
    BY DEF Nested, x
  <2>3. IsSub(b, p) /\ ~InStack(b, p) => ~(x < NextOffset(b, p) - 1)
    BY <1>1, <2>1, <2>2
  <2>4. x > p
    BY <1>1, <2>1
  <2> QED
    BY <1>3, <1>7, <2>3, <2>4 DEF Encloses
<1>10. \A q \in DOMAIN c.data : ~Encloses(c, x, q)
  BY <1>1, <1>2 DEF Encloses
<1>11. Kids(c, x) = {}
  BY <1>10 DEF Kids
<1>12. ASSUME NEW p \in DOMAIN b.data
       PROVE  Kids(c, p) = IF Innermost(b, p) THEN Kids(b, p) \cup {x} ELSE Kids(b, p)
  <2>1. ASSUME NEW q \in DOMAIN b.data PROVE q \in Kids(c, p) <=> q \in Kids(b, p)
    BY <1>2, <1>8, <1>10 DEF Kids
  <2>2. x \in Kids(c, p) <=> Innermost(b, p)
    <3>1. x \in Kids(c, p) <=>
            /\ IsSub(b, p) /\ InStack(b, p)
            /\ \A r \in DOMAIN b.data : Encloses(c, p, r) => ~(IsSub(b, r) /\ InStack(b, r))
      BY <1>2, <1>9, <1>10 DEF Kids
    <3>2. CASE IsSub(b, p) /\ InStack(b, p)
      <4>1. \A r \in DOMAIN b.data : Encloses(c, p, r) <=> r > p
        BY <1>3, <1>7, <3>2 DEF Encloses
      <4> QED
        BY <3>1, <3>2, <4>1, InnermostIs
    <3>3. CASE ~(IsSub(b, p) /\ InStack(b, p))
      <4>1. ~Innermost(b, p)
        <5>1. b.stack # <<>> => n \in 1..n
          BY <1>1, <1>6 DEF n
        <5> QED
          BY <3>3, <5>1 DEF Innermost, InStack, n
      <4> QED
        BY <3>1, <3>3, <4>1
    <3> QED
      BY <3>2, <3>3
  <2>3. Kids(c, p) \subseteq DOMAIN b.data \cup {x} /\ Kids(b, p) \subseteq DOMAIN b.data
    BY <1>2 DEF Kids
  <2>4. CASE Innermost(b, p)
    <3>1. Kids(c, p) = Kids(b, p) \cup {x}
      BY <2>1, <2>2, <2>3, <2>4
    <3> QED
      BY <2>4, <3>1
  <2>5. CASE ~Innermost(b, p)
    <3>1. Kids(c, p) = Kids(b, p)
      BY <2>1, <2>2, <2>3, <2>5
    <3> QED
      BY <2>5, <3>1
  <2> QED
    BY <2>4, <2>5
<1>13. Nested(c)
  <2>1. ASSUME NEW p \in DOMAIN c.data, NEW q \in Ahead(c), p < q, c.data[p].type # "EOO"
        PROVE  Body(c, p) <= q
    <3>1. q \in DOMAIN b.data \/ q = x \/ q = c.cur
      BY <1>2 DEF Ahead
    <3>2. CASE p = x
      <4>1. q = c.cur
        BY <1>1, <2>1, <3>1, <3>2
      <4> QED
        BY <1>4, <3>2, <4>1
    <3>3. CASE p \in DOMAIN b.data
      <4>1. Body(c, p) = Body(b, p) /\ b.data[p].type # "EOO" /\ Body(b, p) \in Nat
        BY <1>1, <1>2, <1>3, <2>1, <3>3
      <4>2. CASE q = c.cur
        BY <1>1, <1>4, <1>5, <3>3, <4>1, <4>2
      <4>3. CASE q \in DOMAIN b.data \/ q = x
        BY <2>1, <3>3, <4>1, <4>3 DEF Nested, Ahead, x
      <4> QED
        BY <3>1, <4>2, <4>3
    <3> QED
      BY <1>2, <3>2, <3>3
  <2>2. ASSUME NEW p \in DOMAIN c.data, IsSub(c, p)
        PROVE  InStack(c, p) \/ NextOffset(c, p) <= c.cur
    <3>1. CASE p = x
      BY <1>4, <3>1
    <3>2. CASE p \in DOMAIN b.data
      <4>1. IsSub(b, p) /\ NextOffset(c, p) = NextOffset(b, p) /\ NextOffset(b, p) \in Nat
        BY <1>1, <1>3, <2>2, <3>2
      <4>2. InStack(b, p) \/ NextOffset(b, p) <= x
        BY <3>2, <4>1 DEF Nested, x
      <4> QED
        BY <1>1, <1>4, <1>7, <3>2, <4>1, <4>2
    <3> QED
      BY <1>2, <3>1, <3>2
  <2>3. ASSUME NEW i \in 1..Len(c.stack)
        PROVE  \E p \in DOMAIN c.data : IsSub(c, p) /\ c.stack[i] = Body(c, p)
    <3>1. CASE i \in 1..n
      <4>1. PICK p \in DOMAIN b.data : IsSub(b, p) /\ b.stack[i] = Body(b, p)
        BY <3>1 DEF Nested, n
      <4> QED
        BY <1>2, <1>3, <1>6, <3>1, <4>1
    <3>2. CASE i \notin 1..n
      <4>1. i = n + 1 /\ Len(c.stack) = n + 1
        BY <1>6, <3>2
      <4> QED
        BY <1>2, <1>4, <1>6, <4>1
    <3> QED
      BY <3>1, <3>2
  <2>4. ASSUME NEW i \in 1..Len(c.stack), NEW j \in 1..Len(c.stack), i < j
        PROVE  c.stack[i] < c.stack[j]
    <3>1. i \in 1..n
      BY <1>6, <2>4
    <3>2. CASE j \in 1..n
      BY <1>6, <2>4, <3>1, <3>2 DEF Nested, n
    <3>3. CASE j \notin 1..n
      <4>1. j = n + 1 /\ Len(c.stack) = n + 1
        BY <1>6, <3>3
      <4>2. c.stack[i] = b.stack[i] /\ b.stack[i] \in Nat /\ b.stack[i] <= x
        BY <1>1, <1>6, <3>1 DEF n
      <4> QED
        BY <1>1, <1>4, <1>6, <4>1, <4>2
    <3> QED
      BY <3>2, <3>3
  <2> QED
    BY <2>1, <2>2, <2>3, <2>4 DEF Nested
<1> QED
  BY <1>1, <1>2, <1>4, <1>11, <1>12, <1>13 DEF Gains, x

\* The innermost object is closed, and keeps its elements.
LEMMA ClosesIs ==
  ASSUME NEW b, BuilderOK(b), b.finished = FALSE, Nested(b), NEW z, Zeroed(b, z),
         b.stack # <<>>, NEW c, Filled(z, b.stack[Len(b.stack)], c),
         c.stack = SubSeq(b.stack, 1, Len(b.stack) - 1)
  PROVE  /\ Keeps(b, c) /\ Nested(c)
         /\ Len(b.stack) - 1 \in Nat /\ Len(c.stack) = Len(b.stack) - 1
         /\ \A i \in 1..(Len(b.stack) - 1) : c.stack[i] = b.stack[i]
<1> DEFINE x == b.cur
           n == Len(b.stack) - 1
           start == b.stack[Len(b.stack)]
<1>1. /\ x \in Nat /\ b.stack \in Seq(Nat) /\ DOMAIN b.data \subseteq Nat
      /\ \A p \in DOMAIN b.data : /\ p < x /\ Body(b, p) \in Nat /\ Body(b, p) > p
                                  /\ NextOffset(b, p) \in Nat /\ IsElement(b.data[p])
      /\ \A i \in 1..Len(b.stack) : b.stack[i] \in Nat /\ b.stack[i] <= x
      /\ x \notin DOMAIN b.data
  BY Lying
<1>2. /\ Len(b.stack) \in Nat /\ Len(b.stack) = n + 1 /\ n \in Nat /\ start \in Nat
      /\ start <= x /\ n + 1 \in 1..Len(b.stack) /\ start = b.stack[n + 1]
  <2>1. Len(b.stack) \in Nat /\ Len(b.stack) # 0
    BY <1>1
  <2>2. Len(b.stack) = n + 1 /\ n \in Nat /\ Len(b.stack) \in 1..Len(b.stack)
    BY <2>1
  <2> QED
    BY <1>1, <2>1, <2>2
<1>3. c.stack \in Seq(Nat) /\ Len(c.stack) = n /\ \A i \in 1..n : c.stack[i] = b.stack[i]
  <2>1. c.stack = SubSeq(b.stack, 1, n)
    OBVIOUS
  <2> HIDE DEF n
  <2> QED
    BY <1>1, <1>2, <2>1
<1> HIDE DEF n
<1>4. /\ DOMAIN c.data = DOMAIN b.data \cup {x} /\ c.data[x] = Zero
      /\ \A p \in DOMAIN b.data :
           c.data[p] = IF b.data[p].type # "EOO" /\ Body(b, p) = start
                         THEN [b.data[p] EXCEPT !.len = z.cur - start] ELSE b.data[p]
      /\ c.cur = x + 1 /\ z.cur = x + 1
  <2>1. /\ DOMAIN z.data = DOMAIN b.data \cup {x} /\ z.data[x] = Zero
        /\ \A p \in DOMAIN b.data : z.data[p] = b.data[p]
    BY ZeroedData
  <2>2. z.cur = x + 1 /\ Zero.type = "EOO"
    BY DEF Zeroed, Zero
  <2>3. \A p \in DOMAIN b.data : Body(z, p) = Body(b, p)
    BY <2>1 DEF Body
  <2> QED
    BY <2>1, <2>2, <2>3 DEF Filled
<1> HIDE DEF start
<1>5. PICK top \in DOMAIN b.data : IsSub(b, top) /\ Body(b, top) = start
  BY <1>2 DEF Nested
<1>6. \A p \in DOMAIN b.data : b.data[p].type # "EOO" /\ Body(b, p) = start => p = top
  <2>1. \A p, q \in DOMAIN b.data : p < q /\ b.data[p].type # "EOO" => Body(b, p) <= q
    BY DEF Nested, Ahead
  <2>2. b.data[top].type # "EOO"
    BY <1>5 DEF IsSub
  <2>3. SUFFICES ASSUME NEW p \in DOMAIN b.data, b.data[p].type # "EOO", Body(b, p) = start
                 PROVE  ~(p < top) /\ ~(top < p)
    BY <1>1, <1>5
  <2>4. p < top => Body(b, p) < Body(b, top)
    BY <1>1, <2>1, <2>3
  <2>5. top < p => Body(b, top) < Body(b, p)
    BY <1>1, <2>1, <2>2
  <2> QED
    BY <1>2, <1>5, <2>3, <2>4, <2>5
<1>7. \A p \in DOMAIN b.data : p # top => c.data[p] = b.data[p]
  BY <1>4, <1>6
<1>8. /\ c.data[top].type = b.data[top].type /\ c.data[top].key = b.data[top].key
      /\ c.data[top].len = z.cur - start
  <2> DEFINE len == z.cur - start
  <2>1. c.data[top] = [b.data[top] EXCEPT !.len = len]
    <3>1. b.data[top].type # "EOO" /\ Body(b, top) = start
      BY <1>5 DEF IsSub
    <3>2. c.data[top] = [b.data[top] EXCEPT !.len = z.cur - start]
      BY <1>4, <3>1
    <3> QED
      BY <3>2
  <2>2. IsElement(b.data[top])
    BY <1>1
  <2> HIDE DEF len
  <2>3. /\ c.data[top].type = b.data[top].type /\ c.data[top].key = b.data[top].key
        /\ c.data[top].len = len
    BY <2>1, <2>2 DEF IsElement
  <2> QED
    BY <2>3 DEF len
<1>9. ASSUME NEW p \in DOMAIN b.data
      PROVE  /\ c.data[p].type = b.data[p].type /\ c.data[p].key = b.data[p].key
             /\ Body(c, p) = Body(b, p) /\ (IsSub(c, p) <=> IsSub(b, p))
             /\ p # top => NextOffset(c, p) = NextOffset(b, p)
  <2>1. c.data[p].type = b.data[p].type /\ c.data[p].key = b.data[p].key
    BY <1>7, <1>8
  <2> QED
    BY <1>7, <2>1 DEF Body, NextOffset, IsSub
<1>10. NextOffset(c, top) = x + 1
  <2> DEFINE k == Len(c.data[top].key)
             m == z.cur
  <2>1. NextOffset(c, top) = top + 2 + k + (m - start) /\ start = top + 2 + k
    BY <1>5, <1>8, <1>9 DEF NextOffset, Body
  <2>2. top \in Nat /\ k \in Nat /\ start \in Nat
    BY <1>1, <1>2, <1>8 DEF IsElement
  <2>3. m = x + 1 /\ x \in Nat
    BY <1>1, <1>4
  <2> HIDE DEF k, m, x
  <2> QED
    BY <2>1, <2>2, <2>3
<1> HIDE DEF x
<1>11. ASSUME NEW p \in DOMAIN b.data, IsSub(b, p)
       PROVE  InStack(c, p) <=> InStack(b, p) /\ p # top
  <2>1. Body(c, p) = Body(b, p) /\ b.data[p].type # "EOO"
    BY <1>9, <1>11 DEF IsSub
  <2>2. InStack(c, p) => InStack(b, p) /\ p # top
    <3>1. SUFFICES ASSUME NEW i \in 1..n, b.stack[i] = Body(b, p)
                   PROVE  InStack(b, p) /\ p # top
      BY <1>3, <2>1 DEF InStack
    <3>2. i \in 1..Len(b.stack) /\ i < n + 1
      BY <1>2
    <3>3. b.stack[i] < start
      BY <1>2, <3>2 DEF Nested
    <3>4. b.stack[i] # start
      BY <1>1, <1>2, <3>2, <3>3
    <3> QED
      BY <1>5, <3>1, <3>2, <3>4 DEF InStack
  <2>3. InStack(b, p) /\ p # top => InStack(c, p)
    <3>1. SUFFICES ASSUME NEW i \in 1..Len(b.stack), b.stack[i] = Body(b, p), p # top
                   PROVE  InStack(c, p)
      BY DEF InStack
    <3>2. i # n + 1
      BY <1>2, <1>6, <2>1, <3>1
    <3>3. i \in 1..n
      BY <1>2, <3>2
    <3> QED
      BY <1>3, <2>1, <3>1, <3>3 DEF InStack
  <2> QED
    BY <2>2, <2>3
<1>12. InStack(b, top)
  BY <1>2, <1>5 DEF InStack
<1>13. ASSUME NEW p \in DOMAIN b.data, NEW q \in DOMAIN b.data
       PROVE  Encloses(c, p, q) <=> Encloses(b, p, q)
  <2>1. CASE p = top
    <3>1. q < NextOffset(c, top) - 1
      BY <1>1, <1>10
    <3> QED
      BY <1>9, <1>12, <2>1, <3>1 DEF Encloses
  <2>2. CASE p # top
    BY <1>9, <1>11, <2>2 DEF Encloses
  <2> QED
    BY <2>1, <2>2
<1>14. c.data[x].type = "EOO" /\ ~IsSub(c, x)
  BY <1>4 DEF Zero, IsSub
<1>15. ASSUME NEW p \in DOMAIN b.data PROVE Kids(c, p) = Kids(b, p)
  <2>1. \A q \in DOMAIN c.data : ~Encloses(c, x, q)
    BY <1>14 DEF Encloses
  <2>2. \A q \in DOMAIN b.data : q \in Kids(c, p) <=> q \in Kids(b, p)
    BY <1>4, <1>9, <1>13, <2>1 DEF Kids
  <2>3. /\ Kids(c, p) \subseteq DOMAIN b.data \cup {x} /\ x \notin Kids(c, p)
        /\ Kids(b, p) \subseteq DOMAIN b.data
    BY <1>4, <1>14 DEF Kids
  <2> QED
    BY <2>2, <2>3
<1>16. Nested(c)
  <2>1. ASSUME NEW p \in DOMAIN c.data, NEW q \in Ahead(c), p < q, c.data[p].type # "EOO"
        PROVE  Body(c, p) <= q
    <3>1. p \in DOMAIN b.data /\ b.data[p].type # "EOO"
      BY <1>4, <1>9, <1>14, <2>1
    <3>2. \A r \in Ahead(b) : p < r => Body(b, p) <= r
      BY <3>1 DEF Nested
    <3>3. q \in Ahead(b) \/ q = x + 1
      BY <1>4 DEF Ahead, x
    <3>4. Body(b, p) <= x /\ Body(b, p) \in Nat
      BY <1>1, <3>1, <3>2 DEF Ahead, x
    <3> QED
      BY <1>1, <1>9, <2>1, <3>1, <3>2, <3>3, <3>4
  <2>2. ASSUME NEW p \in DOMAIN c.data, IsSub(c, p)
        PROVE  InStack(c, p) \/ NextOffset(c, p) <= c.cur
    <3>1. p \in DOMAIN b.data /\ IsSub(b, p)
      BY <1>4, <1>9, <1>14, <2>2
    <3>2. CASE p = top
      BY <1>1, <1>4, <1>10, <3>2
    <3>3. CASE p # top
      <4>1. InStack(b, p) \/ NextOffset(b, p) <= x
        BY <3>1 DEF Nested, x
      <4> QED
        BY <1>1, <1>4, <1>9, <1>11, <3>1, <3>3, <4>1
    <3> QED
      BY <3>2, <3>3
  <2>3. ASSUME NEW i \in 1..Len(c.stack)
        PROVE  \E p \in DOMAIN c.data : IsSub(c, p) /\ c.stack[i] = Body(c, p)
    <3>1. i \in 1..n /\ i \in 1..Len(b.stack)
      BY <1>2, <1>3
    <3>2. PICK p \in DOMAIN b.data : IsSub(b, p) /\ b.stack[i] = Body(b, p)
      BY <3>1 DEF Nested
    <3> QED
      BY <1>3, <1>4, <1>9, <3>1, <3>2
  <2>4. \A i, j \in 1..Len(c.stack) : i < j => c.stack[i] < c.stack[j]
    <3>1. \A i \in 1..n : i \in 1..Len(b.stack)
      BY <1>2
    <3> QED
      BY <1>3, <3>1 DEF Nested
  <2> QED
    BY <2>1, <2>2, <2>3, <2>4 DEF Nested
<1>17. Keeps(b, c)
  BY <1>1, <1>4, <1>9, <1>14, <1>15 DEF Keeps, x
<1> QED
  BY <1>2, <1>3, <1>16, <1>17 DEF n

\* A document is finished.
LEMMA EndsIs ==
  ASSUME NEW b, BuilderOK(b), b.finished = FALSE, NEW z, Zeroed(b, z), NEW c,
         c.data = z.data, c.stack = b.stack, b.stack = <<>>
  PROVE  Keeps(b, c)
<1>1. /\ b.cur \in Nat /\ b.cur \notin DOMAIN b.data
      /\ DOMAIN c.data = DOMAIN b.data \cup {b.cur} /\ c.data[b.cur] = Zero
      /\ \A p \in DOMAIN b.data : c.data[p] = b.data[p]
  <2>1. /\ b.cur \in Nat /\ b.cur \notin DOMAIN b.data
        /\ DOMAIN z.data = DOMAIN b.data \cup {b.cur} /\ z.data[b.cur] = Zero
        /\ \A p \in DOMAIN b.data : z.data[p] = b.data[p]
    BY ZeroedData
  <2> QED
    BY <2>1
<1>2. Zero.type = "EOO"
  BY DEF Zero
<1>3. \A p, q \in DOMAIN b.data : Encloses(c, p, q) <=> Encloses(b, p, q)
  BY <1>1 DEF Encloses, IsSub, InStack, NextOffset, Body
<1>4. \A q \in DOMAIN c.data : ~Encloses(c, b.cur, q)
  BY <1>1, <1>2 DEF Encloses, IsSub
<1>5. ASSUME NEW p \in DOMAIN b.data PROVE Kids(c, p) = Kids(b, p)
  <2>1. \A q \in DOMAIN b.data : q \in Kids(c, p) <=> q \in Kids(b, p)
    BY <1>1, <1>3, <1>4 DEF Kids
  <2>2. /\ Kids(c, p) \subseteq DOMAIN b.data \cup {b.cur} /\ b.cur \notin Kids(c, p)
        /\ Kids(b, p) \subseteq DOMAIN b.data
    BY <1>1, <1>2 DEF Kids
  <2> QED
    BY <2>1, <2>2
<1> QED
  BY <1>1, <1>2, <1>5 DEF Keeps

-----------------------------------------------------------------------------
(* What a document in which nothing was left out has got from an operation. *)

LEMMA SpaceDirty ==
  ASSUME NEW b, BuilderOK(b), NEW n \in Nat, EnsureSpace(b, n).ok = FALSE
  PROVE  ~Clean(EnsureSpace(b, n).b)
<1> DEFINE r == EnsureSpace(b, n)  c == r.b
<1>1. BufOK(b)
  BY DEF BuilderOK
<1>2. c.err = {"SIZE_OVERFLOW"}
  BY <1>1, EnsureSpaceOK
<1> HIDE DEF c
<1> QED
  BY <1>2 DEF Clean, c

LEMMA EstartDirty ==
  ASSUME NEW b, BuilderOK(b), b.finished = FALSE, NEW type, NEW name \in Seq(Nat), NEW val,
         NEW len, NEW d \in Nat, Estart(b, type, name, val, len, d).ok = FALSE
  PROVE  ~Clean(Estart(b, type, name, val, len, d).b)
<1> DEFINE r == Estart(b, type, name, val, len, d)
           n == 1 + Len(name) + 1 + d
           space == EnsureSpace(b, n)
           check == CheckFieldName(name)
           element == [type |-> type, key |-> name, val |-> val, len |-> len]
           flagged == Flag(space.b, check.err)
           started == Advance(Place(flagged, element), 2 + Len(name))
<1>1. n \in Nat /\ BufOK(b)
  BY DEF BuilderOK
<1>2. r = IF ~space.ok THEN space ELSE IF ~check.ok THEN Result(FALSE, flagged)
          ELSE Result(TRUE, started)
  BY DEF Estart
<1>3. check.ok \in BOOLEAN /\ (~check.ok <=> "NOT_UTF8" \in check.err)
  BY CheckFieldNameFlags
<1>4. /\ BufOK(space.b) /\ space.ok \in BOOLEAN
      /\ ~space.ok => space.b.err = {"SIZE_OVERFLOW"}
  BY <1>1, EnsureSpaceOK
<1> HIDE DEF n, space, check, element, started
<1>5. flagged.err = space.b.err \cup check.err
  <2> DEFINE c == space.b
  <2>1. IsBson(c)
    BY <1>4 DEF BufOK
  <2> HIDE DEF c
  <2> QED
    BY <2>1, FlagFields DEF c
<1> HIDE DEF flagged
<1>6. r.ok = FALSE
  BY DEF r
<1> HIDE DEF r
<1>7. CASE ~space.ok
  BY <1>2, <1>4, <1>7 DEF Clean, r
<1>8. CASE space.ok /\ ~check.ok
  <2>1. r.b = flagged
    BY <1>2, <1>8 DEF Result
  <2> QED
    BY <1>3, <1>5, <1>8, <2>1 DEF Clean, r
<1>9. CASE space.ok /\ check.ok
  BY <1>2, <1>6, <1>9 DEF Result
<1> QED
  BY <1>7, <1>8, <1>9

\* A value came in, with the key it was to have.
GainsValue(b, c, name) ==
  Clean(c) =>
    /\ Clean(b) /\ c.stack = b.stack
    /\ Nested(b) => \E type \in Types \ {"OBJECT", "ARRAY"} : Gains(b, c, type, name)

LEMMA AppendValueGains ==
  ASSUME NEW b, BuilderOK(b), b.bad = "no", b.finished = FALSE,
         NEW type \in Types \ {"OBJECT", "ARRAY", "EOO"}, NEW name \in Seq(Nat), NEW val,
         NEW len \in Nat
  PROVE  GainsValue(b, AppendValue(b, type, name, val, len).b, name)
<1> DEFINE e == Estart(b, type, name, val, len, len)
           c == Advance(e.b, len)
           new == [type |-> type, key |-> name, val |-> val, len |-> len]
           head == 2 + Len(name)
<1>1. BufOK(b) /\ Len(name) \in Nat /\ b.cur \in Nat
  BY DEF BuilderOK, BufOK
<1>2. BufOK(e.b) /\ e.ok \in BOOLEAN
  BY <1>1, EstartOK
<1>3. AppendValue(b, type, name, val, len) = IF e.ok THEN Result(TRUE, c) ELSE e
  BY DEF AppendValue
<1>4. CASE e.ok = FALSE
  <2>1. ~Clean(e.b)
    BY <1>4, EstartDirty
  <2> QED
    BY <1>3, <1>4, <2>1 DEF GainsValue
<1>5. CASE e.ok = TRUE
  <2>1. Added(b, e.b, new, head)
    BY <1>5, EstartAdded
  <2>2. IsBson(e.b) /\ head \in Nat
    BY <1>1, <1>2 DEF BufOK
  <2> HIDE DEF e
  <2>3. IsElement(new) /\ new.type = type /\ new.key = name /\ new.len = len
    BY ElementIs
  <2> HIDE DEF new, head
  <2>4. Added(b, c, new, head + len)
    BY <1>1, <2>1, <2>2, AddedOn
  <2> HIDE DEF c
  <2>5. c.stack = b.stack /\ (Clean(c) => Clean(b))
    BY <2>4 DEF Added, Clean
  <2>6. c.data = Placed(b.data, b.cur, new) /\ c.cur = b.cur + (head + len)
    BY <2>4 DEF Added
  <2>7. c.cur \in Nat /\ c.cur >= b.cur + 2 + Len(new.key) + new.len
    BY <1>1, <2>3, <2>6 DEF head
  <2>8. Nested(b) => Gains(b, c, new.type, new.key)
    BY <2>3, <2>5, <2>6, <2>7, GainsIs
  <2>9. AppendValue(b, type, name, val, len).b = c
    BY <1>3, <1>5 DEF Result
  <2> QED
    BY <2>3, <2>5, <2>8, <2>9 DEF GainsValue
<1> QED
  BY <1>2, <1>4, <1>5

LEMMA AppendFixedGains ==
  ASSUME NEW b, BuilderOK(b), b.bad = "no", b.finished = FALSE, NEW name \in Seq(Nat), NEW val,
         NEW type \in {"LONG", "DOUBLE", "DATE", "TIMESTAMP", "INT", "BOOL", "NULL", "UNDEFINED"}
  PROVE  GainsValue(b, AppendFixed(b, type, name, val).b, name)
<1>1. FixedSize(type) \in Nat
  BY FixedSizeIn
<1>2. type \in Types \ {"OBJECT", "ARRAY", "EOO"}
  BY DEF Types
<1> QED
  BY <1>1, <1>2, AppendValueGains DEF AppendFixed

LEMMA AppendOidGains ==
  ASSUME NEW b, BuilderOK(b), b.bad = "no", b.finished = FALSE, NEW name \in Seq(Nat), NEW oid
  PROVE  GainsValue(b, AppendOid(b, name, oid).b, name)
<1>1. "OID" \in Types \ {"OBJECT", "ARRAY", "EOO"}
  BY DEF Types
<1> QED
  BY <1>1, AppendValueGains DEF AppendOid

LEMMA AppendStringBaseGains ==
  ASSUME NEW b, BuilderOK(b), b.bad = "no", b.finished = FALSE, NEW name \in Seq(Nat),
         NEW s \in Seq(Nat), NEW type \in {"STRING", "SYMBOL"}
  PROVE  GainsValue(b, AppendStringBase(b, type, name, s).b, name)
<1> DEFINE check == CheckString(s)
           late == Flag(b, check.err)
           len == 4 + Len(s) + 1
<1>1. AppendStringBase(b, type, name, s) =
        IF check.ok THEN AppendValue(b, type, name, s, len) ELSE Result(FALSE, late)
  BY DEF AppendStringBase
<1>2. check.ok \in BOOLEAN /\ (~check.ok => "NOT_UTF8" \in check.err)
  BY CheckStringFlags
<1>3. type \in Types \ {"OBJECT", "ARRAY", "EOO"} /\ len \in Nat
  BY DEF Types
<1>4. late.err = b.err \cup check.err
  BY FlagFields DEF BuilderOK, BufOK
<1> HIDE DEF check, late, len
<1>5. CASE check.ok
  <2>1. AppendStringBase(b, type, name, s) = AppendValue(b, type, name, s, len)
    BY <1>1, <1>5
  <2> QED
    BY <1>3, <2>1, AppendValueGains
<1>6. CASE ~check.ok
  <2>1. AppendStringBase(b, type, name, s).b = late
    BY <1>1, <1>6 DEF Result
  <2> QED
    BY <1>2, <1>4, <1>6, <2>1 DEF GainsValue, Clean
<1> QED
  BY <1>5, <1>6

LEMMA StartSubGains ==
  ASSUME NEW b, BuilderOK(b), b.bad = "no", b.finished = FALSE, NEW type \in {"OBJECT", "ARRAY"},
         NEW name \in Seq(Nat)
  PROVE  LET c == StartSub(b, type, name).b
         IN  Clean(c) => /\ Clean(b)
                         /\ Nested(b) => /\ Gains(b, c, type, name)
                                         /\ c.stack = Append(b.stack, Body(c, b.cur))
<1> DEFINE e == Estart(b, type, name, <<>>, 0, 5)
           new == [type |-> type, key |-> name, val |-> <<>>, len |-> 0]
           head == 2 + Len(name)
           deep == [e.b EXCEPT !.bad = "deep"]
           pushed == [e.b EXCEPT !.stack = Append(@, e.b.cur)]
           c == Advance(pushed, 4)
           r == StartSub(b, type, name)
<1>1. Len(name) \in Nat /\ head \in Nat /\ type \in Types /\ b.cur \in Nat
  BY DEF Types, BuilderOK, BufOK
<1>2. BufOK(e.b) /\ e.ok \in BOOLEAN
  BY <1>1, EstartOK DEF BuilderOK
<1>3. r.b = IF ~e.ok THEN e.b ELSE IF Len(b.stack) = StackSize THEN deep ELSE c
  BY DEF StartSub, Result
<1>4. IsElement(new) /\ new.type = type /\ new.key = name /\ new.len = 0
  BY <1>1, ElementIs
<1>5. e.ok = FALSE => ~Clean(e.b)
  BY EstartDirty
<1>6. e.ok = TRUE => Added(b, e.b, new, head)
  BY EstartAdded
<1> DEFINE d == e.b
<1>7. IsBson(d)
  BY <1>2 DEF BufOK
<1>8. pushed = [d EXCEPT !.stack = Append(d.stack, d.cur)] /\ deep = [d EXCEPT !.bad = "deep"]
  OBVIOUS
<1> HIDE DEF new, head, d, pushed, deep
<1>9. deep.bad = "deep"
  BY <1>7, <1>8 DEF IsBson
<1>10. /\ IsBson(pushed) /\ pushed.data = d.data /\ pushed.cur = d.cur
       /\ pushed.err = d.err /\ pushed.stack = Append(d.stack, d.cur)
  BY <1>7, <1>8 DEF IsBson
<1>11. /\ c.data = d.data /\ c.cur = d.cur + 4 /\ c.err = d.err
       /\ c.stack = Append(d.stack, d.cur)
  BY <1>10, AdvanceFields
<1> HIDE DEF c, r
<1>12. CASE e.ok = FALSE
  BY <1>3, <1>5, <1>12 DEF r
<1>13. CASE e.ok = TRUE /\ Len(b.stack) = StackSize
  BY <1>3, <1>9, <1>13 DEF Clean, r
<1>14. CASE e.ok = TRUE /\ Len(b.stack) # StackSize
  <2>1. r.b = c /\ Added(b, d, new, head)
    BY <1>3, <1>6, <1>14 DEF d
  <2>2. d.cur = b.cur + head
    BY <2>1 DEF Added
  <2>3. d.stack = b.stack
    BY <2>1 DEF Added
  <2>4. c.err = b.err \cup CheckFieldName(new.key).err
    BY <1>11, <2>1 DEF Added
  <2>5. Clean(c) => Clean(b)
    BY <2>4 DEF Clean
  <2>6. c.data = Placed(b.data, b.cur, new)
    BY <1>11, <2>1 DEF Added
  <2> DEFINE body == b.cur + 2 + Len(new.key)
  <2>7. body = d.cur /\ c.cur \in Nat /\ c.cur >= body + new.len
    <3> DEFINE k == Len(name)  x == b.cur
    <3>1. body = x + 2 + k /\ head = 2 + k /\ d.cur = x + head /\ k \in Nat /\ x \in Nat
      BY <1>1, <1>4, <2>2 DEF head
    <3> HIDE DEF k, x, body
    <3>2. body \in Nat /\ body = d.cur
      BY <3>1
    <3> HIDE DEF body
    <3> QED
      BY <1>4, <1>11, <3>2
  <2>8. c.stack = Append(b.stack, body)
    BY <1>11, <2>3, <2>7
  <2>9. new.type \in {"OBJECT", "ARRAY"} /\ new.type # "EOO"
    BY <1>4
  <2>10. Nested(b) => Gains(b, c, new.type, new.key)
    BY <1>4, <2>6, <2>7, <2>8, <2>9, GainsIs
  <2>11. Body(c, b.cur) = body
    BY <2>6 DEF Body, Placed
  <2> HIDE DEF body
  <2> QED
    BY <1>4, <2>1, <2>5, <2>8, <2>10, <2>11 DEF r
<1> QED
  BY <1>2, <1>12, <1>13, <1>14

LEMMA FinishObjectKeeps ==
  ASSUME NEW b, BuilderOK(b), b.bad = "no", b.finished = FALSE
  PROVE  LET c == FinishObject(b).b
             n == Len(b.stack) - 1
         IN  Clean(c) => /\ Clean(b) /\ b.stack # <<>>
                         /\ Nested(b) => /\ Keeps(b, c) /\ Nested(c)
                                         /\ n \in Nat /\ Len(c.stack) = n
                                         /\ \A i \in 1..n : c.stack[i] = b.stack[i]
<1> DEFINE space == EnsureSpace(b, 1)
           z == AppendZero(space.b)
           start == b.stack[Len(b.stack)]
           patched == [p \in DOMAIN z.data |->
                         IF z.data[p].type # "EOO" /\ Body(z, p) = start
                           THEN [z.data[p] EXCEPT !.len = z.cur - start] ELSE z.data[p]]
           under == [z EXCEPT !.bad = "under"]
           n == Len(b.stack) - 1
           filled == [z EXCEPT !.data = patched]
           closed == [filled EXCEPT !.stack = SubSeq(z.stack, 1, Len(z.stack) - 1)]
           r == FinishObject(b)
<1>1. /\ space.ok \in BOOLEAN
      /\ space.ok = TRUE => Zeroed(b, z) /\ IsBson(z)
  BY ZeroBegins DEF BufOK
<1>2. space.ok = FALSE => ~Clean(space.b)
  <2>1. 1 \in Nat
    OBVIOUS
  <2> QED
    BY <2>1, SpaceDirty
<1>3. r = IF ~space.ok THEN space ELSE IF b.stack = <<>> THEN Result(TRUE, under)
          ELSE Result(TRUE, closed)
  <2>1. closed = [z EXCEPT !.data = patched, !.stack = SubSeq(@, 1, Len(@) - 1)]
    OBVIOUS
  <2> QED
    BY <2>1 DEF FinishObject
<1>4. r.b = IF ~space.ok THEN space.b ELSE IF b.stack = <<>> THEN under ELSE closed
  BY <1>3 DEF Result
<1>5. /\ DOMAIN patched = DOMAIN z.data
      /\ \A p \in DOMAIN z.data :
           patched[p] = IF z.data[p].type # "EOO" /\ Body(z, p) = start
                          THEN [z.data[p] EXCEPT !.len = z.cur - start] ELSE z.data[p]
  OBVIOUS
<1> HIDE DEF space, z, patched, start
<1>6. CASE space.ok = FALSE
  BY <1>2, <1>4, <1>6
<1>7. CASE space.ok = TRUE /\ b.stack = <<>>
  <2>1. under.bad = "under"
    BY <1>1, <1>7 DEF IsBson
  <2> QED
    BY <1>4, <1>7, <2>1 DEF Clean
<1>8. CASE space.ok = TRUE /\ b.stack # <<>>
  <2>1. Zeroed(b, z) /\ IsBson(z)
    BY <1>1, <1>8
  <2>2. /\ IsBson(filled) /\ filled.data = patched /\ filled.cur = z.cur
        /\ filled.finished = z.finished /\ filled.slips = z.slips /\ filled.err = z.err
    BY <2>1 DEF IsBson
  <2> HIDE DEF filled
  <2>3. /\ closed.data = patched /\ closed.cur = z.cur /\ closed.finished = z.finished
        /\ closed.stack = SubSeq(z.stack, 1, Len(z.stack) - 1)
        /\ closed.slips = z.slips /\ closed.err = z.err
    BY <2>2 DEF IsBson
  <2>4. r.b = closed
    BY <1>4, <1>8
  <2> HIDE DEF closed, r
  <2>5. closed.stack = SubSeq(b.stack, 1, n)
    BY <2>1, <2>3 DEF Zeroed
  <2>6. Filled(z, start, closed)
    BY <1>5, <2>3 DEF Filled
  <2>7. n = Len(b.stack) - 1 /\ start = b.stack[Len(b.stack)]
    BY DEF start
  <2>8. Clean(closed) => Clean(b)
    BY <2>1, <2>3 DEF Clean, Zeroed
  <2>9. ASSUME Nested(b)
        PROVE  /\ Keeps(b, closed) /\ Nested(closed)
               /\ n \in Nat /\ Len(closed.stack) = n /\ \A i \in 1..n : closed.stack[i] = b.stack[i]
    <3>1. b.stack # <<>>
      BY <1>8
    <3>2. Zeroed(b, z)
      BY <2>1
    <3>3. Filled(z, b.stack[Len(b.stack)], closed)
      BY <2>6 DEF start
    <3>4. closed.stack = SubSeq(b.stack, 1, Len(b.stack) - 1)
      BY <2>5
    <3> QED
      BY <2>9, <3>1, <3>2, <3>3, <3>4, ClosesIs
  <2> QED
    BY <1>8, <2>4, <2>8, <2>9 DEF r, n
<1> QED
  BY <1>1, <1>6, <1>7, <1>8

LEMMA FinishKeeps ==
  ASSUME NEW b, BuilderOK(b), b.bad = "no", b.finished = FALSE
  PROVE  LET c == Finish(b).b
         IN  Finish(b).ok /\ Clean(c) /\ "early" \notin c.slips =>
               Clean(b) /\ b.stack = <<>> /\ c.stack = <<>> /\ Keeps(b, c)
<1> DEFINE space == EnsureSpace(b, 1)
           z == AppendZero(space.b)
           slips == IF b.stack = <<>> THEN z.slips ELSE z.slips \cup {"early"}
           sized == [z EXCEPT !.size = z.cur]
           closed == [sized EXCEPT !.finished = TRUE]
           whole == [closed EXCEPT !.slips = slips]
           r == Finish(b)
<1>1. /\ space.ok \in BOOLEAN
      /\ space.ok = TRUE => Zeroed(b, z) /\ IsBson(z)
  BY ZeroBegins DEF BufOK
<1>2. space.ok = FALSE => ~Clean(space.b)
  <2>1. 1 \in Nat
    OBVIOUS
  <2> QED
    BY <2>1, SpaceDirty
<1>3. whole = [z EXCEPT !.size = z.cur, !.finished = TRUE,
                        !.slips = IF b.stack = <<>> THEN @ ELSE @ \cup {"early"}]
  OBVIOUS
<1>4. Finish(b) = IF "NOT_UTF8" \in b.err THEN Result(FALSE, b)
                  ELSE IF b.finished THEN Result(TRUE, b)
                  ELSE IF ~space.ok THEN space ELSE Result(TRUE, whole)
  BY <1>3 DEF Finish
<1> HIDE DEF space, z, slips
<1>5. SUFFICES ASSUME r.ok, Clean(r.b), "early" \notin r.b.slips
               PROVE  Clean(b) /\ b.stack = <<>> /\ r.b.stack = <<>> /\ Keeps(b, r.b)
  OBVIOUS
<1>6. space.ok = TRUE /\ r.b = whole
  <2>1. "NOT_UTF8" \notin b.err
    BY <1>4, <1>5 DEF Result
  <2>2. r = IF ~space.ok THEN space ELSE Result(TRUE, whole)
    BY <1>4, <2>1
  <2>3. space.ok = TRUE
    BY <1>1, <1>2, <1>5, <2>2
  <2> QED
    BY <2>2, <2>3 DEF Result
<1>7. Zeroed(b, z) /\ IsBson(z)
  BY <1>1, <1>6
<1>8. /\ IsBson(sized) /\ sized.data = z.data /\ sized.stack = z.stack /\ sized.err = z.err
  BY <1>7 DEF IsBson
<1> HIDE DEF sized
<1>9. /\ IsBson(closed) /\ closed.data = z.data /\ closed.stack = z.stack /\ closed.err = z.err
  BY <1>8, FinishedField
<1> HIDE DEF closed
<1>10. /\ whole.data = z.data /\ whole.stack = z.stack /\ whole.err = z.err
       /\ whole.slips = slips
  BY <1>9 DEF IsBson
<1> HIDE DEF whole, r
<1>11. b.stack = <<>>
  BY <1>5, <1>6, <1>10 DEF slips
<1>12. whole.stack = b.stack /\ Clean(b)
  BY <1>5, <1>6, <1>7, <1>10 DEF Zeroed, Clean
<1> QED
  BY <1>6, <1>7, <1>10, <1>11, <1>12, EndsIs
=============================================================================
