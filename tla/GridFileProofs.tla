--------------------------- MODULE GridFileProofs ----------------------------
(*****************************************************************************)
(* What becomes of the chunks and the document of a file and of those who    *)
(* read it, for any number of files, readers and removers, any chunk size,   *)
(* any replies of the server and any number of failures: every property of   *)
(* GridFile, and that it implements FileStore.                               *)
(*****************************************************************************)
EXTENDS GridFile, FiniteSetTheorems, TLAPS

-----------------------------------------------------------------------------
(*****************************************************************************)
(* How ChunksOf (gridfs_store_buffer) and Split (gridfile_write_buffer) cut  *)
(* the bytes they are given: nothing is lost, doubled or moved, every chunk  *)
(* but the last is full and none is longer than ChunkSize.  And what a       *)
(* reader of all chunks finds: their numbers in order, one after the other.  *)
(*****************************************************************************)

\* Division by ChunkSize with a remainder.
LEMMA DivMod ==
  ASSUME NEW a \in Nat
  PROVE  /\ a \div ChunkSize \in Nat /\ a % ChunkSize \in 0..(ChunkSize - 1)
         /\ a = (a \div ChunkSize) * ChunkSize + (a % ChunkSize)
<1>1. ChunkSize \in Nat /\ ChunkSize > 0
  BY ChunksAssumption
<1> QED BY <1>1

\* Multiples of ChunkSize.
LEMMA Times ==
  /\ \A m, n \in Int : (m + n) * ChunkSize = m * ChunkSize + n * ChunkSize
  /\ \A m, n \in Int : (m - n) * ChunkSize = m * ChunkSize - n * ChunkSize
  /\ \A m, n \in Int : m <= n => m * ChunkSize <= n * ChunkSize
  /\ \A m \in Int : m * ChunkSize \in Int
  /\ \A m \in Nat : m * ChunkSize \in Nat
  /\ 0 * ChunkSize = 0 /\ 1 * ChunkSize = ChunkSize
<1>1. ChunkSize \in Nat /\ ChunkSize > 0
  BY ChunksAssumption
<1> QED BY <1>1

\* A part of a sequence of numbers that lies inside it is one, too.
LEMMA Part ==
  ASSUME NEW s \in Data, NEW m \in Int, NEW n \in Int, 1 <= m, n <= Len(s), m <= n + 1
  PROVE  /\ SubSeq(s, m, n) \in Data /\ Len(SubSeq(s, m, n)) = n - m + 1
         /\ \A i \in 1..(n - m + 1) : SubSeq(s, m, n)[i] = s[m + i - 1]
BY DEF Data

\* Two sequences of numbers one after the other.
LEMMA Joined ==
  ASSUME NEW s \in Data, NEW t \in Data
  PROVE  /\ s \o t \in Data /\ Len(s \o t) = Len(s) + Len(t)
         /\ \A i \in 1..Len(s) : (s \o t)[i] = s[i]
         /\ \A i \in 1..Len(t) : (s \o t)[Len(s) + i] = t[i]
BY DEF Data

\* The same for sequences over any set.
LEMMA Concatenated ==
  ASSUME NEW S, NEW s \in Seq(S), NEW t \in Seq(S)
  PROVE  /\ s \o t \in Seq(S) /\ Len(s \o t) = Len(s) + Len(t)
         /\ \A i \in 1..Len(s) : (s \o t)[i] = s[i]
         /\ \A i \in 1..Len(t) : (s \o t)[Len(s) + i] = t[i]
OBVIOUS

-----------------------------------------------------------------------------
\* gridfile_write_buffer cuts the pending bytes followed by the new ones: whole
\* chunks, and less than a chunk that stays pending.
LEMMA SplitSlices ==
  ASSUME NEW pending \in Data, NEW data \in Data, Len(pending) < ChunkSize
  PROVE  LET s == Split(pending, data)
             all == pending \o data
         IN  /\ s.todo \in Seq(Data) /\ s.pending \in Data
             /\ Len(s.pending) < ChunkSize
             /\ Len(pending) + Len(data) = Len(s.todo) * ChunkSize + Len(s.pending)
             /\ \A j \in 1..Len(s.todo) :
                  /\ Len(s.todo[j]) = ChunkSize
                  /\ \A i \in 1..ChunkSize : s.todo[j][i] = all[(j - 1) * ChunkSize + i]
             /\ \A i \in 1..Len(s.pending) : s.pending[i] = all[Len(s.todo) * ChunkSize + i]
<1> DEFINE s == Split(pending, data)
           all == pending \o data
           total == Len(data) + Len(pending)
           partial == PartialLen(pending)
           first == IF pending = <<>> THEN <<>> ELSE <<pending \o SubSeq(data, 1, partial)>>
           count == (total \div ChunkSize) - Len(first)
           whole == [i \in 1..count |->
                       SubSeq(data, Offset(partial, i - 1) + 1, Offset(partial, i))]
           rest == SubSeq(data, Offset(partial, count) + 1,
                          Offset(partial, count) + (total % ChunkSize))
<1>0. ChunkSize \in Nat /\ ChunkSize > 0
  BY ChunksAssumption
<1>a. /\ all \in Data /\ Len(all) = total /\ total \in Nat
      /\ \A i \in 1..Len(pending) : all[i] = pending[i]
      /\ \A i \in 1..Len(data) : all[Len(pending) + i] = data[i]
  BY DEF Data
<1>1. CASE total < ChunkSize
  <2>1. s = [todo |-> <<>>, pending |-> all]
    BY <1>1 DEF Split
  <2> HIDE DEF all, s
  <2>2. s.todo = <<>> /\ s.pending = all
    BY <2>1
  <2>3. Len(s.todo) = 0 /\ s.todo \in Seq(Data) /\ Len(s.todo) * ChunkSize = 0
    BY <2>2, Times
  <2> QED
    BY <1>1, <2>2, <2>3, <1>a DEF Data, all, s
<1>2. CASE total >= ChunkSize
  <2>1. s = [todo |-> first \o whole, pending |-> rest]
    BY <1>2, <1>0 DEF Split
  <2>2. /\ total \div ChunkSize \in Nat /\ total % ChunkSize \in 0..(ChunkSize - 1)
        /\ total = (total \div ChunkSize) * ChunkSize + (total % ChunkSize)
    BY <1>a, DivMod
  <2>3. (total \div ChunkSize) >= 1
    BY <2>2, <1>2, <1>0, Times
  \* The bytes of data that come before the i-th whole chunk.
  <2>4. /\ first \in Seq(Data) /\ Len(first) \in {0, 1} /\ partial \in Nat
        /\ Len(first) * ChunkSize = Len(pending) + partial
        /\ partial <= Len(data)
        /\ \A j \in 1..Len(first) : 
             /\ Len(first[j]) = ChunkSize
             /\ \A i \in 1..ChunkSize : first[j][i] = all[(j - 1) * ChunkSize + i]
    <3>1. CASE pending = <<>>
      BY <3>1, Times, <1>0 DEF PartialLen, Data
    <3>2. CASE pending # <<>>
      <4>1. partial = ChunkSize - Len(pending) /\ first = <<pending \o SubSeq(data, 1, partial)>>
        BY <3>2 DEF PartialLen
      <4> HIDE DEF partial, first, all
      <4>2. Len(pending) \in Nat /\ Len(pending) > 0 /\ Len(data) \in Nat
        BY <3>2 DEF Data
      <4>3. partial \in Nat /\ partial <= Len(data) /\ Len(first) = 1
        BY <4>1, <4>2, <1>2, <1>0
      <4> DEFINE part == SubSeq(data, 1, partial)
      <4>4. part \in Data /\ Len(part) = partial /\ \A i \in 1..partial : part[i] = data[i]
        BY <4>3, Part
      <4> HIDE DEF part
      <4> DEFINE chunk == pending \o part
      <4>5. /\ chunk \in Data /\ Len(chunk) = ChunkSize
            /\ \A i \in 1..Len(pending) : chunk[i] = pending[i]
            /\ \A i \in 1..partial : chunk[Len(pending) + i] = part[i]
        <5>1. /\ chunk \in Data /\ Len(chunk) = Len(pending) + partial
              /\ \A i \in 1..Len(pending) : chunk[i] = pending[i]
              /\ \A i \in 1..partial : chunk[Len(pending) + i] = part[i]
          BY <4>4, Joined
        <5> HIDE DEF chunk
        <5>2. Len(chunk) = ChunkSize
          BY <5>1, <4>1, <4>2, <1>0
        <5> QED
          BY <5>1, <5>2
      <4>6. first = <<chunk>>
        BY <4>1 DEF part
      <4> HIDE DEF chunk
      <4>7. first \in Seq(Data) /\ Len(first) = 1 /\ first[1] = chunk
        BY <4>5, <4>6
      <4>8. ASSUME NEW i \in 1..ChunkSize
            PROVE  chunk[i] = all[i]
        <5>1. CASE i \in 1..Len(pending)
          BY <5>1, <4>5, <1>a
        <5>2. CASE i \notin 1..Len(pending)
          <6> DEFINE k == i - Len(pending)
          <6>1. k \in 1..partial /\ k \in 1..Len(data) /\ Len(pending) + k = i
            BY <5>2, <4>1, <4>2, <4>3, <1>0
          <6> HIDE DEF k
          <6>2. chunk[Len(pending) + k] = data[k] /\ all[Len(pending) + k] = data[k]
            BY <6>1, <4>4, <4>5, <1>a
          <6> QED
            BY <6>1, <6>2
        <5> QED
          BY <5>1, <5>2
      <4>9. Len(first) * ChunkSize = Len(pending) + partial
        BY <4>7, <4>1, <4>2, <1>0, Times
      <4> QED
        <5>1. ASSUME NEW j \in 1..Len(first), NEW i \in 1..ChunkSize
              PROVE  Len(first[j]) = ChunkSize /\ first[j][i] = all[(j - 1) * ChunkSize + i]
          <6>1. j = 1 /\ (j - 1) * ChunkSize + i = i
            BY <4>7, <1>0, Times
          <6> QED
            BY <6>1, <4>5, <4>7, <4>8
        <5> QED
          BY <5>1, <4>3, <4>5, <4>7, <4>9, <1>0
    <3> QED
      BY <3>1, <3>2
  <2> HIDE DEF first, partial, all
  <2> DEFINE Q == total \div ChunkSize
             R == total % ChunkSize
             F == Len(first)
  <2>5. /\ Q \in Nat /\ Q >= 1 /\ R \in Nat /\ R < ChunkSize /\ total = Q * ChunkSize + R
        /\ F \in Nat /\ F <= 1 /\ count = Q - F /\ count \in Nat /\ F + count = Q
    <3>1. /\ Q \in Nat /\ Q >= 1 /\ R \in Nat /\ R < ChunkSize
          /\ total = Q * ChunkSize + R
      BY <2>2, <2>3, <1>0
    <3>2. F \in {0, 1}
      BY <2>4
    <3>3. count = Q - F
      OBVIOUS
    <3> HIDE DEF Q, R, F, count, total
    <3> QED
      BY <3>1, <3>2, <3>3
  <2> HIDE DEF Q, R, F, count
  <2>A. ASSUME NEW i \in Int
        PROVE  /\ Offset(partial, i) \in Int
               /\ Offset(partial, i) + Len(pending) = (F + i) * ChunkSize
               /\ Offset(partial, i) = Offset(partial, i - 1) + ChunkSize
               /\ i \in Nat => Offset(partial, i) \in Nat
    <3>1. Len(pending) \in Nat /\ F * ChunkSize = Len(pending) + partial
      BY <2>4 DEF F, Data
    <3>2. (F + i) * ChunkSize = F * ChunkSize + i * ChunkSize
      BY <2>5, Times
    <3>3. /\ i * ChunkSize \in Int /\ (i - 1) * ChunkSize = i * ChunkSize - ChunkSize
          /\ i \in Nat => i * ChunkSize \in Nat
      BY Times, <1>0
    <3>4. /\ Offset(partial, i) = partial + i * ChunkSize
          /\ Offset(partial, i - 1) = partial + (i - 1) * ChunkSize
      BY DEF Offset
    <3> DEFINE T == i * ChunkSize
               V == (i - 1) * ChunkSize
               U == (F + i) * ChunkSize
               W == F * ChunkSize
    <3> HIDE DEF T, U, V, W
    <3>5. /\ T \in Int /\ V = T - ChunkSize /\ (i \in Nat => T \in Nat)
          /\ U = W + T /\ W = Len(pending) + partial
          /\ Offset(partial, i) = partial + T /\ Offset(partial, i - 1) = partial + V
      BY <3>1, <3>2, <3>3, <3>4 DEF T, U, V, W
    <3>6. /\ Offset(partial, i) \in Int /\ Offset(partial, i) + Len(pending) = U
          /\ Offset(partial, i) = Offset(partial, i - 1) + ChunkSize
          /\ i \in Nat => Offset(partial, i) \in Nat
      BY <3>1, <3>5, <2>4, <1>0
    <3> QED
      BY <3>6 DEF U
  <2>6. /\ \A i \in Int : /\ Offset(partial, i) \in Int
                          /\ Offset(partial, i) + Len(pending) = (F + i) * ChunkSize
        /\ \A i \in Nat : Offset(partial, i) \in Nat
    <3>1. \A i \in Int : /\ Offset(partial, i) \in Int
                         /\ Offset(partial, i) + Len(pending) = (F + i) * ChunkSize
      BY <2>A, Zenon
    <3>2. \A i \in Nat : i \in Int
      OBVIOUS
    <3>3. \A i \in Nat : Offset(partial, i) \in Nat
      BY <2>A, <3>2, Zenon
    <3> QED
      BY <3>1, <3>3, Zenon
  <2>7. \A i \in Int : Offset(partial, i) = Offset(partial, i - 1) + ChunkSize
    BY <2>A
  <2>8. Offset(partial, count) + R = Len(data) /\ Len(pending) \in Nat /\ Len(data) \in Nat
    <3>1. Offset(partial, count) \in Int /\ Offset(partial, count) + Len(pending) = Q * ChunkSize
      <4>1. count \in Int /\ F + count = Q
        BY <2>5
      <4>2. /\ Offset(partial, count) \in Int
            /\ Offset(partial, count) + Len(pending) = (F + count) * ChunkSize
        BY <4>1, <2>6, Zenon
      <4> QED
        BY <4>1, <4>2, Zenon
    <3>2. Len(pending) \in Nat /\ Len(data) \in Nat /\ Q * ChunkSize + R = Len(data) + Len(pending)
      BY <2>5 DEF Data
    <3> QED
      BY <3>1, <3>2, <2>5
  <2>9. \A i \in 1..count : /\ Offset(partial, i - 1) \in Nat /\ Offset(partial, i) \in Nat
                            /\ Offset(partial, i) <= Len(data)
    <3> SUFFICES ASSUME NEW i \in 1..count
                 PROVE  /\ Offset(partial, i - 1) \in Nat /\ Offset(partial, i) \in Nat
                        /\ Offset(partial, i) <= Len(data)
      OBVIOUS
    <3>1. i * ChunkSize <= count * ChunkSize /\ i - 1 \in Nat /\ i \in Nat
      BY Times, <2>5
    <3>2. /\ Offset(partial, i) = partial + i * ChunkSize
          /\ Offset(partial, count) = partial + count * ChunkSize
          /\ i * ChunkSize \in Int /\ count * ChunkSize \in Int
      BY Times, <3>1, <2>5 DEF Offset
    <3>3. Offset(partial, i) \in Nat /\ Offset(partial, i - 1) \in Nat /\ Offset(partial, count) \in Nat
      BY <3>1, <2>5, <2>6
    <3>4. Offset(partial, i) <= Offset(partial, count)
      BY <3>1, <3>2, <2>4
    <3> QED
      BY <3>3, <3>4, <2>5, <2>8
  <2>10. ASSUME NEW i \in 1..count
         PROVE  /\ whole[i] \in Data /\ Len(whole[i]) = ChunkSize
                /\ \A k \in 1..ChunkSize : whole[i][k] = all[(F + i - 1) * ChunkSize + k]
    <3> DEFINE m == Offset(partial, i - 1)
    <3>1. /\ m \in Nat /\ Offset(partial, i) = m + ChunkSize /\ m + ChunkSize <= Len(data)
          /\ m + Len(pending) = (F + i - 1) * ChunkSize
      <4>1. i \in Int /\ i - 1 \in Int /\ F + (i - 1) = F + i - 1
        BY <2>5
      <4> QED
        BY <4>1, <2>6, <2>7, <2>9
    <3>2. whole[i] = SubSeq(data, m + 1, Offset(partial, i))
      OBVIOUS
    <3> HIDE DEF m, whole
    <3>3. /\ whole[i] \in Data /\ Len(whole[i]) = ChunkSize
          /\ \A k \in 1..ChunkSize : whole[i][k] = data[m + k]
      <4> DEFINE part == SubSeq(data, m + 1, m + ChunkSize)
      <4>1. /\ m + 1 \in Int /\ 1 <= m + 1 /\ m + ChunkSize \in Int /\ m + 1 <= m + ChunkSize + 1
            /\ (m + ChunkSize) - (m + 1) + 1 = ChunkSize
            /\ \A k \in 1..ChunkSize : (m + 1) + k - 1 = m + k
        BY <3>1, <1>0
      <4>2. /\ part \in Data /\ Len(part) = (m + ChunkSize) - (m + 1) + 1
            /\ \A k \in 1..((m + ChunkSize) - (m + 1) + 1) : part[k] = data[(m + 1) + k - 1]
        BY <4>1, <3>1, Part
      <4>3. whole[i] = part
        BY <3>1, <3>2
      <4> HIDE DEF part
      <4> QED
        BY <4>1, <4>2, <4>3
    <3>4. ASSUME NEW k \in 1..ChunkSize
          PROVE  data[m + k] = all[(F + i - 1) * ChunkSize + k]
      <4>1. m + k \in 1..Len(data) /\ Len(pending) + (m + k) = (F + i - 1) * ChunkSize + k
        BY <3>1, <2>8, <1>0
      <4> QED
        BY <4>1, <1>a
    <3> QED
      BY <3>3, <3>4
  <2>11. /\ rest \in Data /\ Len(rest) = R
         /\ \A k \in 1..R : rest[k] = all[Q * ChunkSize + k]
    <3> DEFINE m == Offset(partial, count)
    <3>1. m \in Nat /\ m + R = Len(data) /\ m + Len(pending) = Q * ChunkSize
      BY <2>5, <2>6, <2>8
    <3>2. rest = SubSeq(data, m + 1, m + R)
      BY DEF R
    <3> HIDE DEF m, rest
    <3>3. rest \in Data /\ Len(rest) = R /\ \A k \in 1..R : rest[k] = data[m + k]
      <4>1. /\ m + 1 \in Int /\ 1 <= m + 1 /\ m + R \in Int /\ m + 1 <= m + R + 1
            /\ m + R <= Len(data) /\ (m + R) - (m + 1) + 1 = R
            /\ \A k \in 1..R : (m + 1) + k - 1 = m + k
        BY <3>1, <2>5, <2>8
      <4> QED
        BY <4>1, <3>2, Part
    <3>4. ASSUME NEW k \in 1..R
          PROVE  data[m + k] = all[Q * ChunkSize + k]
      <4>1. m + k \in 1..Len(data) /\ Len(pending) + (m + k) = Q * ChunkSize + k
        BY <3>1, <2>5, <2>8
      <4> QED
        BY <4>1, <1>a
    <3> QED
      BY <3>3, <3>4
  <2>12. whole \in Seq(Data) /\ Len(whole) = count
    <3>1. whole = [i \in 1..count |-> whole[i]]
      OBVIOUS
    <3> HIDE DEF whole
    <3> QED
      BY <3>1, <2>10, <2>5
  <2> HIDE DEF whole, rest
  <2> DEFINE todo == first \o whole
  <2>13. /\ todo \in Seq(Data) /\ Len(todo) = Q
         /\ \A j \in 1..F : todo[j] = first[j]
         /\ \A j \in 1..count : todo[F + j] = whole[j]
    <3>1. first \in Seq(Data) /\ Len(first) = F /\ whole \in Seq(Data) /\ Len(whole) = count
      BY <2>4, <2>12 DEF F
    <3> QED
      BY <3>1, <2>5, Concatenated
  <2> HIDE DEF todo
  <2>14. ASSUME NEW j \in 1..Q
         PROVE  /\ Len(todo[j]) = ChunkSize
                /\ \A i \in 1..ChunkSize : todo[j][i] = all[(j - 1) * ChunkSize + i]
    <3>1. CASE j \in 1..F
      BY <3>1, <2>4, <2>13 DEF F
    <3>2. CASE j \notin 1..F
      <4> DEFINE k == j - F
      <4>1. k \in 1..count /\ F + k = j /\ F + k - 1 = j - 1
        BY <3>2, <2>5
      <4> HIDE DEF k
      <4> QED
        BY <4>1, <2>10, <2>13
    <3> QED
      BY <3>1, <3>2
  <2>15. s.todo = todo /\ s.pending = rest
    BY <2>1 DEF todo
  <2> HIDE DEF s
  <2>16. Len(pending) + Len(data) = Q * ChunkSize + R
    BY <2>5, <2>8
  <2> QED
    BY <2>5, <2>11, <2>13, <2>14, <2>15, <2>16 DEF s, all
<1> HIDE DEF s, all
<1>3. total < ChunkSize \/ total >= ChunkSize
  BY <1>0, <1>a
<1> QED
  BY <1>1, <1>2, <1>3 DEF s, all

-----------------------------------------------------------------------------
\* gridfs_store_buffer cuts its data: whole chunks, and the rest, which is not
\* empty unless all of the data is.
LEMMA ChunksSlices ==
  ASSUME NEW data \in Data
  PROVE  LET c == ChunksOf(data)
         IN  /\ c \in Seq(Data) /\ (c = <<>> <=> Len(data) = 0)
             /\ c # <<>> => Len(data) = (Len(c) - 1) * ChunkSize + Len(c[Len(c)])
             /\ \A j \in 1..Len(c) :
                  /\ Len(c[j]) <= ChunkSize /\ (j < Len(c) => Len(c[j]) = ChunkSize)
                  /\ (j - 1) * ChunkSize + Len(c[j]) <= Len(data)
                  /\ \A i \in 1..Len(c[j]) : c[j][i] = data[(j - 1) * ChunkSize + i]
<1> DEFINE c == ChunksOf(data)
           n == Len(data)
           starts == {j \in 1..n : (j - 1) * ChunkSize < n}
           From(i) == (i - 1) * ChunkSize
           To(i) == IF i * ChunkSize < n THEN i * ChunkSize ELSE n
           Slice(i) == SubSeq(data, From(i) + 1, To(i))
<1>0. ChunkSize \in Nat /\ ChunkSize > 0
  BY ChunksAssumption
<1>1. c = [i \in starts |-> Slice(i)]
  BY DEF ChunksOf
<1>2. n \in Nat
  BY DEF Data
<1> HIDE DEF c
<1>3. PICK m \in Nat : starts = 1..m /\ (m = 0 <=> n = 0)
                       /\ (m > 0 => m * ChunkSize >= n)
  <2>1. CASE n = 0
    <3>1. starts = 1..0
      BY <2>1
    <3> HIDE DEF starts
    <3> QED
      BY <2>1, <3>1, Times
  <2>2. CASE n > 0
    <3> DEFINE q == (n - 1) \div ChunkSize
               r == (n - 1) % ChunkSize
    <3>1. q \in Nat /\ r \in 0..(ChunkSize - 1) /\ n - 1 = q * ChunkSize + r
      <4> DEFINE l == n - 1
      <4>1. l \in Nat
        BY <1>2, <2>2
      <4> HIDE DEF l
      <4>2. /\ l \div ChunkSize \in Nat /\ l % ChunkSize \in 0..(ChunkSize - 1)
            /\ l = (l \div ChunkSize) * ChunkSize + (l % ChunkSize)
        BY <4>1, DivMod
      <4> QED
        BY <4>2 DEF l
    <3> HIDE DEF q, r
    <3>2. (q + 1) * ChunkSize = q * ChunkSize + ChunkSize /\ q * ChunkSize \in Nat
      BY <3>1, Times, <1>0
    <3>3. q <= q * ChunkSize
      BY <3>1, <1>0
    <3>4. q + 1 <= n /\ q * ChunkSize < n /\ (q + 1) * ChunkSize >= n
      BY <3>1, <3>2, <3>3, <1>0, <1>2
    <3>5. ASSUME NEW j \in 1..n
          PROVE  (j - 1) * ChunkSize < n <=> j \in 1..(q + 1)
      <4>1. CASE j <= q + 1
        <5>1. (j - 1) * ChunkSize <= q * ChunkSize /\ (j - 1) * ChunkSize \in Int
          BY <4>1, <3>1, <1>2, Times
        <5> QED
          BY <5>1, <4>1, <3>1, <3>2, <3>4, <1>2
      <4>2. CASE j > q + 1
        <5>1. (q + 1) * ChunkSize <= (j - 1) * ChunkSize /\ (j - 1) * ChunkSize \in Int
          BY <4>2, <3>1, <1>2, Times
        <5> QED
          BY <5>1, <4>2, <3>1, <3>2, <3>4, <1>2, <1>0
      <4> QED
        BY <4>1, <4>2, <3>1, <1>2
    <3>6. starts = 1..(q + 1)
      BY <3>1, <3>4, <3>5, <1>2
    <3> HIDE DEF starts
    <3> QED
      BY <3>1, <3>4, <3>6, <2>2
  <2> QED
    BY <2>1, <2>2, <1>2
<1> HIDE DEF starts, Slice, From, To
<1>4. ASSUME NEW i \in 1..m
      PROVE  /\ From(i) \in Nat /\ To(i) \in Nat /\ To(i) <= n
             /\ From(i) < n /\ From(i) <= To(i) /\ To(i) - From(i) <= ChunkSize
             /\ i < m => To(i) - From(i) = ChunkSize
             /\ i = m => To(i) = n
  <2> DEFINE T == i * ChunkSize
  <2>1. T \in Nat /\ From(i) = T - ChunkSize /\ From(i) \in Nat
    BY Times, <1>0, <1>3 DEF From
  <2>2. From(i) < n
    BY <1>3 DEF starts, From
  <2>3. To(i) = IF T < n THEN T ELSE n
    BY DEF To
  <2>4. i = m => T >= n
    BY <1>3
  <2>5. i < m => T < n
    <3>1. ASSUME i < m
          PROVE  T < n
      <4>1. i + 1 \in starts /\ (i + 1) - 1 = i
        BY <1>3, <3>1
      <4> QED
        BY <4>1 DEF starts
    <3> QED
      BY <3>1
  <2> HIDE DEF T
  <2> QED
    BY <2>1, <2>2, <2>3, <2>4, <2>5, <1>0, <1>2
<1>5. ASSUME NEW i \in 1..m
      PROVE  /\ Slice(i) \in Data /\ Len(Slice(i)) = To(i) - From(i)
             /\ \A k \in 1..Len(Slice(i)) : Slice(i)[k] = data[From(i) + k]
  <2>1. /\ From(i) + 1 \in Int /\ To(i) \in Int /\ 1 <= From(i) + 1 /\ To(i) <= Len(data)
        /\ From(i) + 1 <= To(i) + 1 /\ To(i) - (From(i) + 1) + 1 = To(i) - From(i)
        /\ \A k \in 1..(To(i) - From(i)) : (From(i) + 1) + k - 1 = From(i) + k
    BY <1>4
  <2> QED
    BY <2>1, Part DEF Slice
<1>6. c = [i \in 1..m |-> Slice(i)]
  BY <1>1, <1>3
<1>7. c \in Seq(Data) /\ Len(c) = m /\ \A i \in 1..m : c[i] = Slice(i)
  BY <1>5, <1>6
<1>8. c = <<>> <=> n = 0
  BY <1>7, <1>3
<1>9. ASSUME c # <<>>
      PROVE  n = (m - 1) * ChunkSize + Len(c[m])
  <2>1. m \in 1..m
    BY <1>9, <1>8, <1>3
  <2>2. Len(c[m]) = To(m) - From(m) /\ To(m) = n /\ From(m) \in Nat
    BY <2>1, <1>4, <1>5, <1>7
  <2> QED
    BY <2>2, <1>2 DEF From
<1>10. ASSUME NEW j \in 1..m
       PROVE  /\ Len(c[j]) <= ChunkSize /\ (j < m => Len(c[j]) = ChunkSize)
              /\ (j - 1) * ChunkSize + Len(c[j]) <= n
              /\ \A i \in 1..Len(c[j]) : c[j][i] = data[(j - 1) * ChunkSize + i]
  <2>1. /\ c[j] \in Data /\ Len(c[j]) = To(j) - From(j)
        /\ \A k \in 1..Len(c[j]) : c[j][k] = data[From(j) + k]
    BY <1>5, <1>7
  <2>2. /\ From(j) + Len(c[j]) <= n /\ Len(c[j]) <= ChunkSize
        /\ j < m => Len(c[j]) = ChunkSize
    BY <2>1, <1>2, <1>4
  <2> QED
    BY <2>1, <2>2 DEF From
<1> QED
  BY <1>7, <1>8, <1>9, <1>10 DEF c
-----------------------------------------------------------------------------
(***************************************************************************)
(* Numbers in order                                                        *)
(***************************************************************************)

\* Ascending lists a finite set of numbers in order, each once.
LEMMA AscendingLists ==
  ASSUME NEW S \in SUBSET Nat, IsFiniteSet(S)
  PROVE  /\ Cardinality(S) \in Nat
         /\ Ascending(S) \in Seq(S) /\ Len(Ascending(S)) = Cardinality(S)
         /\ \A i \in 1..Cardinality(S) :
              Cardinality({m \in S : m <= Ascending(S)[i]}) = i
         /\ \A n \in S : \E i \in 1..Cardinality(S) : Ascending(S)[i] = n
<1> DEFINE Below(n) == {m \in S : m <= n}
           N == Cardinality(S)
           rank == [n \in S |-> Cardinality(Below(n))]
<1>1. N \in Nat
  BY FS_CardinalityType
<1>2. \A n \in S : IsFiniteSet(Below(n)) /\ Cardinality(Below(n)) \in Nat
  <2> SUFFICES ASSUME NEW n \in S PROVE IsFiniteSet(Below(n)) /\ Cardinality(Below(n)) \in Nat
    OBVIOUS
  <2>1. Below(n) \in SUBSET S
    OBVIOUS
  <2> HIDE DEF Below
  <2> QED
    BY <2>1, FS_Subset, FS_CardinalityType
<1>3. ASSUME NEW n \in S PROVE Cardinality(Below(n)) \in 1..N
  <2>1. Below(n) \in SUBSET S /\ Below(n) # {}
    OBVIOUS
  <2> HIDE DEF Below
  <2>2. Cardinality(Below(n)) <= N
    BY <2>1, FS_Subset
  <2>3. Cardinality(Below(n)) # 0
    BY <2>1, <1>2, FS_EmptySet
  <2> QED
    BY <1>1, <1>2, <2>2, <2>3
<1>4. ASSUME NEW m \in S, NEW n \in S, m < n
      PROVE  Cardinality(Below(m)) # Cardinality(Below(n))
  <2>1. Below(m) \in SUBSET Below(n) /\ Below(m) # Below(n)
    <3>1. m \in Nat /\ n \in Nat /\ \A k \in S : k \in Nat
      OBVIOUS
    <3>2. \A k \in S : k <= m => k <= n
      BY <1>4, <3>1
    <3>3. n \in Below(n) /\ n \notin Below(m)
      BY <1>4, <3>1
    <3> QED
      BY <3>2, <3>3
  <2> HIDE DEF Below
  <2> QED
    BY <2>1, <1>2, FS_Subset
<1>5. rank \in [S -> 1..N]
  BY <1>3
<1>6. rank \in Injection(S, 1..N)
  <2>1. \A m, n \in S : m < n \/ n < m \/ m = n
    OBVIOUS
  <2>2. \A m, n \in S : rank[m] = rank[n] => m = n
    BY <2>1, <1>4
  <2> HIDE DEF rank
  <2> QED
    BY <1>5, <2>2 DEF Injection, IsInjective
<1>7. IsFiniteSet(1..N) /\ Cardinality(1..N) = N
  BY <1>1, FS_Interval
<1>8. rank \in Surjection(S, 1..N)
  <2> HIDE DEF rank, N
  <2> QED
    BY <1>6, <1>7, FS_Injection DEF N
<1>9. ASSUME NEW i \in 1..N
      PROVE  Ascending(S)[i] \in S /\ Cardinality(Below(Ascending(S)[i])) = i
  <2>1. PICK n \in S : rank[n] = i
    BY <1>8 DEF Surjection
  <2>2. Ascending(S)[i] = CHOOSE k \in S : Cardinality(Below(k)) = i
    BY DEF Ascending
  <2>3. Cardinality(Below(n)) = i
    BY <2>1
  <2> HIDE DEF Below
  <2> QED
    BY <2>2, <2>3
<1>10. Ascending(S) \in Seq(S) /\ Len(Ascending(S)) = N
  <2> DEFINE t == Ascending(S)
  <2>1. t = [i \in 1..N |-> t[i]]
    BY DEF Ascending
  <2>2. \A i \in 1..N : t[i] \in S
    BY <1>9
  <2> HIDE DEF N, t
  <2>3. t \in Seq(S) /\ Len(t) = N
    BY <2>1, <2>2, <1>1
  <2> QED
    BY <2>3 DEF t
<1>11. ASSUME NEW n \in S PROVE \E i \in 1..N : Ascending(S)[i] = n
  <2>1. rank[n] \in 1..N
    BY <1>5
  <2>2. Ascending(S)[rank[n]] \in S /\ rank[Ascending(S)[rank[n]]] = rank[n]
    BY <2>1, <1>9
  <2> HIDE DEF rank
  <2>3. Ascending(S)[rank[n]] = n
    BY <2>2, <1>6 DEF Injection, IsInjective
  <2> QED
    BY <2>1, <2>3
<1> QED
  BY <1>1, <1>9, <1>10, <1>11

\* The numbers from a to b in order are a, a + 1, ..., b.
LEMMA AscendingInterval ==
  ASSUME NEW a \in Nat, NEW b \in Int, a <= b + 1
  PROVE  /\ Len(Ascending(a..b)) = b - a + 1 /\ Ascending(a..b) \in Seq(a..b)
         /\ \A i \in 1..(b - a + 1) : Ascending(a..b)[i] = a + i - 1
<1> DEFINE S == a..b
<1>1. S \in SUBSET Nat /\ IsFiniteSet(S) /\ Cardinality(S) = b - a + 1
  BY FS_Interval
<1>2. ASSUME NEW i \in 1..(b - a + 1) PROVE Ascending(S)[i] = a + i - 1
  <2> DEFINE n == Ascending(S)[i]
  <2>1. n \in S /\ Cardinality({m \in S : m <= n}) = i
    <3> HIDE DEF S
    <3> QED
      BY <1>1, AscendingLists
  <2> HIDE DEF n
  <2>2. {m \in S : m <= n} = a..n
    BY <2>1
  <2>3. Cardinality(a..n) = n - a + 1
    BY <2>1, FS_Interval
  <2>4. Cardinality(a..n) = i
    BY <2>1, <2>2
  <2>5. n \in Int /\ i \in Int /\ n - a + 1 = i
    BY <2>1, <2>3, <2>4
  <2>6. n = a + i - 1
    BY <2>5
  <2> QED
    BY <2>6 DEF n
<1>3. Ascending(S) \in Seq(S) /\ Len(Ascending(S)) = Cardinality(S)
  <2> HIDE DEF S
  <2> QED
    BY <1>1, AscendingLists
<1> QED
  BY <1>1, <1>2, <1>3

\* A set that holds 0, and with each number the next, holds them all.
LEMMA FromZero ==
  ASSUME NEW S, 0 \in S, \A n \in Nat : n \in S => n + 1 \in S
  PROVE  Nat \subseteq S
<1> SUFFICES ASSUME NEW k \in Nat, k \notin S PROVE FALSE
  OBVIOUS
<1> DEFINE T == {n \in 0..k : n \notin S}
<1>1. T \in SUBSET Nat /\ k \in T /\ IsFiniteSet(T)
  <2>1. T \in SUBSET (0..k) /\ T \in SUBSET Nat /\ k \in T
    OBVIOUS
  <2>2. IsFiniteSet(0..k)
    BY FS_Interval
  <2> HIDE DEF T
  <2> QED
    BY <2>1, <2>2, FS_Subset
<1>2. \A n \in T : n - 1 \in T
  <2> SUFFICES ASSUME NEW n \in T, n - 1 \notin T PROVE FALSE
    OBVIOUS
  <2>1. n \in Nat /\ n # 0 /\ n \in 0..k /\ n \notin S
    OBVIOUS
  <2>2. n - 1 \in Nat /\ n - 1 \in S /\ (n - 1) + 1 = n
    BY <2>1
  <2> QED
    BY <2>1, <2>2
<1> HIDE DEF T
<1>3. PICK i \in 1..Cardinality(T) : Ascending(T)[i] = k
  BY <1>1, AscendingLists
<1> DEFINE n == Ascending(T)[1]
<1>4. Cardinality(T) \in Nat /\ 1 \in 1..Cardinality(T)
  BY <1>1, <1>3, AscendingLists
<1>5. n \in T /\ Cardinality({m \in T : m <= n}) = 1
  BY <1>1, <1>4, AscendingLists
<1> HIDE DEF n
<1>6. n - 1 \in T /\ n - 1 # n /\ n - 1 <= n /\ n \in Nat
  BY <1>1, <1>2, <1>5
<1> DEFINE B == {m \in T : m <= n}
<1>7. n \in B /\ n - 1 \in B /\ IsFiniteSet(B)
  BY <1>1, <1>5, <1>6, FS_Subset
<1> HIDE DEF B
<1>8. \E x : B = {x}
  BY <1>5, <1>7, FS_Singleton DEF B
<1> QED
  BY <1>6, <1>7, <1>8

-----------------------------------------------------------------------------
\* Chunks one after the other, all but the last full and each with the bytes of its
\* place, are the bytes of the file from the first on.
LEMMA FlattenSlices ==
  ASSUME NEW s \in Seq(Data), Len(s) > 0,
         \A j \in 1..Len(s) :
           /\ j < Len(s) => Len(s[j]) = ChunkSize
           /\ \A i \in 1..Len(s[j]) : s[j][i] = (j - 1) * ChunkSize + i
  PROVE  FlattenSeq(s) = Upto((Len(s) - 1) * ChunkSize + Len(s[Len(s)]))
<1> DEFINE m == Len(s)
           End(i) == (i - 1) * ChunkSize + Len(s[i])
           F(f) == f = [i \in 1..m |-> IF i = 1 THEN s[i] ELSE f[i - 1] \o s[i]]
           up == [i \in 1..m |-> Upto(End(i))]
<1>0. ChunkSize \in Nat /\ ChunkSize > 0 /\ m \in Nat
  BY ChunksAssumption
<1>1. \A i \in 1..m : /\ s[i] \in Data /\ Len(s[i]) \in Nat /\ i - 1 \in Nat /\ i \in Nat
                      /\ (i - 1) * ChunkSize \in Nat
                      /\ i < m => End(i) = i * ChunkSize
  <2> SUFFICES ASSUME NEW i \in 1..m
               PROVE  /\ s[i] \in Data /\ Len(s[i]) \in Nat /\ i - 1 \in Nat /\ i \in Nat
                      /\ (i - 1) * ChunkSize \in Nat
                      /\ i < m => End(i) = i * ChunkSize
    OBVIOUS
  <2>1. s[i] \in Data /\ Len(s[i]) \in Nat /\ i - 1 \in Nat /\ i \in Nat
    BY DEF Data
  <2>2. (i - 1) * ChunkSize \in Nat /\ (i - 1) * ChunkSize = i * ChunkSize - ChunkSize
        /\ i * ChunkSize \in Int
    BY <1>0, <2>1, Times
  <2>3. i < m => End(i) = (i - 1) * ChunkSize + ChunkSize
    BY <1>0
  <2> HIDE DEF End
  <2>4. i < m => End(i) = i * ChunkSize
    <3> DEFINE T == i * ChunkSize
               U == (i - 1) * ChunkSize
    <3>1. T \in Int /\ U = T - ChunkSize /\ (i < m => End(i) = U + ChunkSize)
      BY <2>2, <2>3
    <3> HIDE DEF T, U
    <3>2. i < m => End(i) = T
      BY <3>1, <1>0
    <3> QED
      BY <3>2 DEF T
  <2> QED
    BY <2>1, <2>2, <2>4
\* The bytes up to the end of a chunk are those up to its beginning and its own.
<1>2. ASSUME NEW i \in 1..m PROVE Upto((i - 1) * ChunkSize) \o s[i] = Upto(End(i))
  <2> DEFINE b == (i - 1) * ChunkSize
  <2>1. b \in Nat /\ s[i] \in Seq(Nat) /\ \A k \in 1..Len(s[i]) : s[i][k] = b + k
    BY <1>1 DEF Data
  <2> HIDE DEF b
  <2>2. Upto(b) \in Seq(Nat) /\ Len(Upto(b)) = b /\ \A k \in 1..b : Upto(b)[k] = k
    BY <2>1 DEF Upto
  <2> DEFINE t == Upto(b) \o s[i]
  <2>3. /\ t \in Seq(Nat) /\ Len(t) = b + Len(s[i])
        /\ \A k \in 1..(b + Len(s[i])) : t[k] = k
    <3>1. /\ t \in Seq(Nat) /\ Len(t) = b + Len(s[i])
          /\ \A k \in 1..b : t[k] = Upto(b)[k]
          /\ \A k \in 1..Len(s[i]) : t[b + k] = s[i][k]
      <4>1. Upto(b) \in Data /\ s[i] \in Data
        BY <2>1, <2>2 DEF Data
      <4>2. /\ t \in Data /\ Len(t) = Len(Upto(b)) + Len(s[i])
            /\ \A k \in 1..Len(Upto(b)) : t[k] = Upto(b)[k]
            /\ \A k \in 1..Len(s[i]) : t[Len(Upto(b)) + k] = s[i][k]
        BY <4>1, Joined
      <4> HIDE DEF t
      <4> QED
        BY <4>2, <2>2 DEF Data
    <3> HIDE DEF t
    <3>2. ASSUME NEW k \in 1..(b + Len(s[i])) PROVE t[k] = k
      <4>1. CASE k <= b
        BY <2>1, <2>2, <3>1, <4>1
      <4>2. CASE k > b
        <5>1. k - b \in 1..Len(s[i]) /\ b + (k - b) = k
          BY <2>1, <4>2
        <5>2. t[b + (k - b)] = s[i][k - b] /\ s[i][k - b] = b + (k - b)
          BY <2>1, <3>1, <5>1
        <5> QED
          BY <5>1, <5>2
      <4> QED
        BY <2>1, <4>1, <4>2
    <3> QED
      BY <3>1, <3>2
  <2>4. t = [k \in 1..Len(t) |-> t[k]] /\ Len(t) \in Nat
    BY <2>3
  <2> HIDE DEF t
  <2>5. t = Upto(b + Len(s[i]))
    BY <2>3, <2>4 DEF t, Upto
  <2> QED
    BY <2>5 DEF t, b
<1>3. F(up)
  <2>1. ASSUME NEW i \in 1..m PROVE up[i] = IF i = 1 THEN s[i] ELSE up[i - 1] \o s[i]
    <3>1. CASE i = 1
      <4>1. Upto((i - 1) * ChunkSize) = <<>>
        <5>1. (i - 1) * ChunkSize = 0
          BY <3>1, Times
        <5>2. Upto(0) = <<>>
          BY DEF Upto
        <5> QED
          BY <5>1, <5>2
      <4>2. <<>> \o s[i] = s[i]
        BY <1>1 DEF Data
      <4> QED
        BY <3>1, <4>1, <4>2, <1>2
    <3>2. CASE i # 1
      <4>1. i - 1 \in 1..m /\ i - 1 < m
        BY <3>2, <1>0
      <4>2. up[i - 1] = Upto((i - 1) * ChunkSize)
        BY <4>1, <1>1
      <4> QED
        BY <3>2, <4>2, <1>2
    <3> QED
      BY <3>1, <3>2
  <2> QED
    BY <2>1
<1> DEFINE fl == CHOOSE f : F(f)
<1>4. F(fl)
  <2> HIDE DEF F
  <2> QED
    BY <1>3
<1>5. FlattenSeq(s) = fl[m]
  BY <1>0 DEF FlattenSeq
<1> HIDE DEF fl, up
<1>6. \A i \in 1..m : fl[i] = IF i = 1 THEN s[i] ELSE fl[i - 1] \o s[i]
  BY <1>4
<1>7. \A i \in 1..m : up[i] = IF i = 1 THEN s[i] ELSE up[i - 1] \o s[i]
  BY <1>3
<1> DEFINE S == {i \in Nat : i \in 1..m => fl[i] = up[i]}
<1>8. 0 \in S
  OBVIOUS
<1>9. ASSUME NEW n \in Nat, n \in S PROVE n + 1 \in S
  <2>1. CASE n = 0
    BY <1>6, <1>7, <2>1
  <2>2. CASE n # 0
    <3>1. ASSUME n + 1 \in 1..m PROVE fl[n + 1] = up[n + 1]
      <4>1. n \in 1..m /\ n + 1 # 1 /\ (n + 1) - 1 = n
        BY <2>2, <3>1, <1>0
      <4>2. fl[n] = up[n]
        BY <1>9, <4>1
      <4> QED
        BY <3>1, <4>1, <4>2, <1>6, <1>7
    <3> QED
      BY <3>1
  <2> QED
    BY <2>1, <2>2
<1>10. m \in S /\ m \in 1..m
  <2> HIDE DEF S
  <2> QED
    BY <1>0, <1>8, <1>9, FromZero
<1>11. fl[m] = up[m]
  BY <1>10
<1> QED
  BY <1>5, <1>10, <1>11 DEF up

-----------------------------------------------------------------------------
(*****************************************************************************)
(* How far a writer is                                                       *)
(*****************************************************************************)

\* The bytes of a sequence are those from the place k on.
AtPlace(data, k) == \A i \in 1..Len(data) : data[i] = k + i

\* Chunks c, c + 1, ... of a file: in their places, full, but for the last.
Slices(todo, c) ==
  \A j \in 1..Len(todo) :
    /\ Len(todo[j]) <= ChunkSize /\ (j < Len(todo) => Len(todo[j]) = ChunkSize)
    /\ AtPlace(todo[j], (c + j - 1) * ChunkSize)

\* How far a gridfile w is into which n bytes were written, when it goes on with the
\* chunks in todo.
Progress(w, todo, closing, n) ==
  /\ Slices(todo, w.chunk_num)
  /\ Len(w.pending) < ChunkSize
  /\ AtPlace(w.pending, (w.chunk_num + Len(todo)) * ChunkSize)
  /\ ~closing => /\ w.length = w.chunk_num * ChunkSize
                 /\ n = (w.chunk_num + Len(todo)) * ChunkSize + Len(w.pending)
                 /\ todo # <<>> => Len(todo[Len(todo)]) = ChunkSize
  /\ closing => w.pending = <<>>
  /\ closing /\ todo = <<>> => n = w.length
  /\ closing /\ todo # <<>> =>
       /\ w.length = w.chunk_num * ChunkSize
       /\ n = (w.chunk_num + Len(todo) - 1) * ChunkSize + Len(todo[Len(todo)])

\* What is true of a gridfile and the thread that writes it, at every step.
WriterInv(w, n) ==
  /\ w \in WriterRecord /\ n \in Nat
  /\ w.pc = "new" => /\ w.chunk_num = 0 /\ w.length = 0 /\ n = 0
                     /\ w.todo = <<>> /\ w.pending = <<>> /\ w.closing = FALSE
  /\ w.pc \in {"open", "chunks", "md5", "doc"} => Progress(w, w.todo, w.closing, n)
  /\ w.pc = "open" => w.todo = <<>> /\ w.closing = FALSE
  /\ w.pc = "chunks" => w.todo # <<>>
  /\ w.pc \in {"md5", "doc"} => w.todo = <<>> /\ w.closing = TRUE
  /\ w.res = "OK" => w.pc = "ended"

\* A call goes on with the chunks that were cut.
LEMMA InsertingKeeps ==
  ASSUME NEW w \in WriterRecord, NEW todo \in Seq(Data), NEW closing \in BOOLEAN,
         NEW n \in Nat, Progress(w, todo, closing, n), w.res # "OK"
  PROVE  WriterInv(Inserting(w, todo, closing), n)
<1> DEFINE v == Inserting(w, todo, closing)
<1>1. /\ v \in WriterRecord
      /\ v.todo = todo /\ v.closing = closing /\ v.chunk_num = w.chunk_num
      /\ v.length = w.length /\ v.pending = w.pending /\ v.res = w.res
      /\ v.pc = IF todo # <<>> THEN "chunks" ELSE IF closing THEN "md5" ELSE "open"
  BY DEF Inserting, WriterRecord
<1> HIDE DEF v
<1>2. Progress(v, v.todo, v.closing, n)
  BY <1>1 DEF Progress
<1>3. /\ v.pc \in {"chunks", "md5", "open"}
      /\ v.pc = "chunks" => v.todo # <<>>
      /\ v.pc = "md5" => v.todo = <<>> /\ v.closing = TRUE
      /\ v.pc = "open" => v.todo = <<>> /\ v.closing = FALSE
  BY <1>1
<1> QED
  BY <1>1, <1>2, <1>3 DEF WriterInv, v

\* The bytes of a write follow on those that were written before.
LEMMA NewBytesPlace ==
  ASSUME NEW f, NEW k \in Nat, wrote[f] \in Nat
  PROVE  /\ NewBytes(f, k) \in Data /\ Len(NewBytes(f, k)) = k
         /\ \A i \in 1..k : NewBytes(f, k)[i] = wrote[f] + i
BY DEF NewBytes, Data

\* The first call stores the whole buffer, or the whole input.
LEMMA StoreKeeps ==
  ASSUME NEW f, NEW k \in Nat, WriterInv(writer[f], wrote[f]), writer[f].pc = "new"
  PROVE  /\ WriterInv(Inserting(writer[f], ChunksOf(NewBytes(f, k)), TRUE), wrote[f] + k)
         /\ k = 0 => WriterInv(Inserting(writer[f], <<<<>>>>, TRUE), wrote[f] + k)
<1> DEFINE w == writer[f]
           data == NewBytes(f, k)
           c == ChunksOf(data)
<1>0. ChunkSize \in Nat /\ ChunkSize > 0
  BY ChunksAssumption
<1>1. /\ w \in WriterRecord /\ wrote[f] = 0 /\ w.chunk_num = 0 /\ w.length = 0
      /\ w.pending = <<>> /\ w.res # "OK" /\ wrote[f] + k = k
  BY DEF WriterInv
<1>2. /\ data \in Data /\ Len(data) = k
      /\ \A i \in 1..k : data[i] = i
  BY <1>1, NewBytesPlace
<1> HIDE DEF data
<1>3. /\ c \in Seq(Data) /\ (c = <<>> <=> k = 0)
      /\ c # <<>> => k = (Len(c) - 1) * ChunkSize + Len(c[Len(c)])
      /\ \A j \in 1..Len(c) :
           /\ Len(c[j]) <= ChunkSize /\ (j < Len(c) => Len(c[j]) = ChunkSize)
           /\ (j - 1) * ChunkSize + Len(c[j]) <= k
           /\ \A i \in 1..Len(c[j]) : c[j][i] = data[(j - 1) * ChunkSize + i]
  BY <1>2, ChunksSlices
<1> HIDE DEF c, w
<1>4. Slices(c, 0)
  <2> SUFFICES ASSUME NEW j \in 1..Len(c), NEW i \in 1..Len(c[j])
               PROVE  c[j][i] = (0 + j - 1) * ChunkSize + i
    BY <1>3 DEF Slices, AtPlace
  <2>1. c[j] \in Data /\ Len(c[j]) \in Nat
      BY <1>3 DEF Data
  <2>2. (j - 1) * ChunkSize \in Nat /\ 0 + j - 1 = j - 1
      BY Times
  <2> DEFINE p == (j - 1) * ChunkSize
  <2> HIDE DEF p
  <2>3. p \in Nat /\ p + Len(c[j]) <= k /\ c[j][i] = data[p + i]
      BY <1>3, <2>2 DEF p
  <2>4. p + i \in 1..k
      BY <2>1, <2>3
  <2>5. c[j][i] = p + i
      BY <1>2, <2>3, <2>4
  <2> QED
      BY <2>2, <2>5 DEF p
<1>5. Progress(w, c, TRUE, k)
  <2>1. /\ Len(<<>>) < ChunkSize /\ AtPlace(<<>>, (0 + Len(c)) * ChunkSize) 
        /\ 0 = 0 * ChunkSize /\ 0 + Len(c) - 1 = Len(c) - 1
    BY <1>0, <1>3, Times DEF AtPlace
  <2> QED
    BY <1>1, <1>3, <1>4, <2>1 DEF Progress
<1>6. Slices(<<<<>>>>, 0) /\ <<<<>>>> \in Seq(Data)
  BY <1>0 DEF Slices, AtPlace, Data
<1>7. ASSUME k = 0
      PROVE  Progress(w, <<<<>>>>, TRUE, k)
  <2>1. /\ Len(<<>>) < ChunkSize /\ AtPlace(<<>>, (0 + Len(<<<<>>>>)) * ChunkSize)
        /\ 0 = 0 * ChunkSize /\ 0 + Len(<<<<>>>>) - 1 = 0
        /\ Len(<<<<>>>>[Len(<<<<>>>>)]) = 0 /\ 0 = 0 * ChunkSize + 0
    BY <1>0, Times DEF AtPlace
  <2> QED
    BY <1>1, <1>6, <1>7, <2>1 DEF Progress
<1>8. WriterInv(Inserting(w, c, TRUE), k)
  BY <1>1, <1>3, <1>5, InsertingKeeps
<1>9. k = 0 => WriterInv(Inserting(w, <<<<>>>>, TRUE), k)
  BY <1>1, <1>6, <1>7, InsertingKeeps
<1> QED
  BY <1>1, <1>8, <1>9 DEF w, c, data

\* gridfile_write_buffer.
LEMMA WriteKeeps ==
  ASSUME NEW f, NEW k \in Nat, WriterInv(writer[f], wrote[f]), writer[f].pc = "open"
  PROVE  LET split == Split(writer[f].pending, NewBytes(f, k))
             v == [writer[f] EXCEPT !.pending = split.pending]
         IN  WriterInv(Inserting(v, split.todo, FALSE), wrote[f] + k)
<1> DEFINE w == writer[f]
           n == wrote[f]
           data == NewBytes(f, k)
           s == Split(w.pending, data)
           all == w.pending \o data
           v == [w EXCEPT !.pending = s.pending]
           base == w.chunk_num * ChunkSize
<1>0. ChunkSize \in Nat /\ ChunkSize > 0
  BY ChunksAssumption
<1>1. /\ w \in WriterRecord /\ n \in Nat /\ w.res # "OK"
      /\ w.chunk_num \in Nat /\ w.pending \in Data /\ w.length = base
      /\ Len(w.pending) < ChunkSize /\ base \in Nat
  BY Times DEF WriterInv, Progress, WriterRecord
<1>2. /\ n = base + Len(w.pending)
      /\ \A i \in 1..Len(w.pending) : w.pending[i] = base + i
  <2>1. w.todo = <<>> /\ w.closing = FALSE /\ Progress(w, w.todo, w.closing, n)
    BY DEF WriterInv
  <2>2. w.chunk_num + Len(<<>>) = w.chunk_num
    BY <1>1
  <2> QED
    BY <2>1, <2>2 DEF Progress, AtPlace
<1> HIDE DEF n, w, base
<1>3. /\ data \in Data /\ Len(data) = k
      /\ \A i \in 1..k : data[i] = n + i
  BY <1>1, NewBytesPlace DEF n
<1> HIDE DEF data
<1>4. \A i \in 1..(Len(w.pending) + k) : all[i] = base + i
  <2>1. /\ \A i \in 1..Len(w.pending) : all[i] = w.pending[i]
        /\ \A i \in 1..k : all[Len(w.pending) + i] = data[i]
    BY <1>1, <1>3, Joined
  <2> HIDE DEF all
  <2> SUFFICES ASSUME NEW i \in 1..(Len(w.pending) + k) PROVE all[i] = base + i
    OBVIOUS
  <2>2. Len(w.pending) \in Nat
    BY <1>1 DEF Data
  <2>3. CASE i \in 1..Len(w.pending)
    BY <2>1, <2>3, <1>2
  <2>4. CASE i \notin 1..Len(w.pending)
    <3> DEFINE m == i - Len(w.pending)
    <3>1. m \in 1..k /\ Len(w.pending) + m = i
      BY <2>2, <2>4
    <3> HIDE DEF m
    <3>2. all[Len(w.pending) + m] = n + m
      BY <3>1, <2>1, <1>3
    <3>3. n + m = base + i
      <4> DEFINE l == Len(w.pending)
      <4>1. l \in Nat /\ n \in Nat /\ base \in Nat /\ n = base + l /\ l + m = i /\ m \in Int
        BY <3>1, <1>1, <1>2, <2>2
      <4> HIDE DEF l
      <4> QED
        BY <4>1
    <3> QED
      BY <3>1, <3>2, <3>3
  <2> QED
    BY <2>3, <2>4
<1>5. /\ s.todo \in Seq(Data) /\ s.pending \in Data
      /\ Len(s.pending) < ChunkSize
      /\ Len(w.pending) + k = Len(s.todo) * ChunkSize + Len(s.pending)
      /\ \A j \in 1..Len(s.todo) :
           /\ Len(s.todo[j]) = ChunkSize
           /\ \A i \in 1..ChunkSize : s.todo[j][i] = all[(j - 1) * ChunkSize + i]
      /\ \A i \in 1..Len(s.pending) : s.pending[i] = all[Len(s.todo) * ChunkSize + i]
  BY <1>1, <1>3, SplitSlices
<1> HIDE DEF s, all
<1> DEFINE t == Len(s.todo)
<1>6. t \in Nat /\ Len(s.pending) \in Nat /\ Len(w.pending) \in Nat /\ t * ChunkSize \in Nat
  <2>1. t \in Nat /\ Len(s.pending) \in Nat /\ Len(w.pending) \in Nat
    BY <1>1, <1>5 DEF Data
  <2> HIDE DEF t
  <2> QED
    BY <2>1, Times
<1>7. \A m \in Int : (w.chunk_num + m) * ChunkSize = base + m * ChunkSize
  <2>1. w.chunk_num \in Int
    BY <1>1
  <2> QED
    BY <2>1, Times, Zenon DEF base
<1> HIDE DEF t
<1>8. Slices(s.todo, w.chunk_num)
  <2> SUFFICES ASSUME NEW j \in 1..Len(s.todo), NEW i \in 1..ChunkSize
               PROVE  s.todo[j][i] = (w.chunk_num + j - 1) * ChunkSize + i
    BY <1>5, <1>0 DEF Slices, AtPlace
  <2> DEFINE p == (j - 1) * ChunkSize
  <2>1. p \in Nat /\ p + ChunkSize = j * ChunkSize /\ j * ChunkSize <= t * ChunkSize
    BY <1>6, <1>0, Times DEF t
  <2>2. (w.chunk_num + j - 1) * ChunkSize = base + p
    <3>1. w.chunk_num + j - 1 = w.chunk_num + (j - 1) /\ j - 1 \in Int
      BY <1>1
    <3> QED
      BY <3>1, <1>7
  <2>3. s.todo[j][i] = all[p + i]
    BY <1>5
  <2> HIDE DEF p
  <2>4. p + i \in 1..(Len(w.pending) + k)
    <3> DEFINE whole == t * ChunkSize
               upto == j * ChunkSize
               l == Len(w.pending)
    <3>1. /\ p \in Nat /\ p + ChunkSize = upto /\ upto <= whole /\ whole \in Nat
          /\ l \in Nat /\ l + k = whole + Len(s.pending) /\ Len(s.pending) \in Nat
      BY <2>1, <1>5, <1>6 DEF t
    <3> HIDE DEF whole, upto, l
    <3>2. p + i \in 1..(l + k)
      BY <3>1, <1>0
    <3> QED
      BY <3>2 DEF l
  <2>5. all[p + i] = base + p + i
    BY <2>1, <2>4, <1>0, <1>1, <1>4
  <2> QED
    BY <2>2, <2>3, <2>5
<1>9. AtPlace(s.pending, (w.chunk_num + t) * ChunkSize)
  <2> SUFFICES ASSUME NEW i \in 1..Len(s.pending)
               PROVE  s.pending[i] = (w.chunk_num + t) * ChunkSize + i
    BY DEF AtPlace
  <2> DEFINE p == t * ChunkSize
  <2>1. p \in Nat /\ (w.chunk_num + t) * ChunkSize = base + p
    BY <1>6, <1>7
  <2>2. s.pending[i] = all[p + i] /\ Len(w.pending) + k = p + Len(s.pending)
    BY <1>5 DEF t
  <2> HIDE DEF p
  <2>3. p + i \in 1..(Len(w.pending) + k)
    BY <2>1, <2>2, <1>6
  <2>4. all[p + i] = base + p + i
    BY <2>1, <2>3, <1>1, <1>4
  <2> QED
    BY <2>1, <2>2, <2>4
<1>10. n + k = (w.chunk_num + t) * ChunkSize + Len(s.pending)
  <2> DEFINE p == t * ChunkSize
  <2>1. p \in Nat /\ (w.chunk_num + t) * ChunkSize = base + p
    BY <1>6, <1>7
  <2>2. Len(w.pending) + k = p + Len(s.pending)
    BY <1>5 DEF t
  <2>3. n = base + Len(w.pending)
    BY <1>2
  <2> DEFINE l == Len(w.pending)
             m == Len(s.pending)
             q == (w.chunk_num + t) * ChunkSize
  <2>4. /\ p \in Nat /\ q = base + p /\ l + k = p + m /\ n = base + l
        /\ l \in Nat /\ m \in Nat /\ base \in Nat
    BY <2>1, <2>2, <2>3, <1>1, <1>6
  <2> HIDE DEF p, l, m, q
  <2>5. n + k = q + m
    BY <2>4
  <2> QED
    BY <2>5 DEF q, m
<1>11. s.todo # <<>> => Len(s.todo[Len(s.todo)]) = ChunkSize
  BY <1>5
<1>12. /\ v \in WriterRecord /\ v.res # "OK" /\ v.pending = s.pending
       /\ v.chunk_num = w.chunk_num /\ v.length = w.length
  BY <1>1, <1>5 DEF WriterRecord
<1> HIDE DEF v
<1>13. Progress(v, s.todo, FALSE, n + k)
  BY <1>1, <1>5, <1>8, <1>9, <1>10, <1>11, <1>12 DEF Progress, t, base
<1>14. WriterInv(Inserting(v, s.todo, FALSE), n + k)
  <2>1. n + k \in Nat /\ s.todo \in Seq(Data)
    BY <1>1, <1>5
  <2> QED
    BY <2>1, <1>12, <1>13, InsertingKeeps
<1> QED
  BY <1>14 DEF v, s, data, n, w

\* gridfile_writer_done.
LEMMA DoneKeeps ==
  ASSUME NEW w, NEW n, WriterInv(w, n), w.pc = "open"
  PROVE  WriterInv(Inserting([w EXCEPT !.pending = <<>>], LastPiece(w.pending), TRUE), n)
<1> DEFINE v == [w EXCEPT !.pending = <<>>]
           c == w.chunk_num * ChunkSize
<1>0. ChunkSize \in Nat /\ ChunkSize > 0
  BY ChunksAssumption
<1>1. /\ w \in WriterRecord /\ n \in Nat /\ w.res # "OK"
      /\ w.chunk_num \in Nat /\ w.pending \in Data /\ Len(w.pending) \in Nat
      /\ w.todo = <<>> /\ w.closing = FALSE /\ Progress(w, w.todo, w.closing, n)
  BY DEF WriterInv, WriterRecord, Data
<1>2. /\ w.length = c /\ n = c + Len(w.pending) /\ c \in Nat
      /\ Len(w.pending) < ChunkSize /\ AtPlace(w.pending, c)
  <2>1. w.chunk_num + Len(<<>>) = w.chunk_num
    BY <1>1
  <2> QED
    BY <1>1, <2>1, Times DEF Progress
<1>3. /\ v \in WriterRecord /\ v.res # "OK" /\ v.pending = <<>>
      /\ v.chunk_num = w.chunk_num /\ v.length = w.length
  BY <1>1 DEF WriterRecord, Data
<1>4. \A m : Len(<<>>) < ChunkSize /\ AtPlace(<<>>, m)
  BY <1>0 DEF AtPlace
<1> HIDE DEF v
<1>5. CASE w.pending = <<>>
  <2>1. LastPiece(w.pending) = <<>> /\ Slices(<<>>, v.chunk_num) /\ n = w.length
    BY <1>1, <1>2, <1>5 DEF LastPiece, Slices
  <2>2. Progress(v, <<>>, TRUE, n)
    BY <1>3, <1>4, <2>1 DEF Progress
  <2>3. <<>> \in Seq(Data)
    OBVIOUS
  <2> QED
    BY <1>1, <1>3, <2>1, <2>2, <2>3, InsertingKeeps DEF v
<1>6. CASE w.pending # <<>>
  <2> DEFINE todo == <<w.pending>>
  <2>1. LastPiece(w.pending) = todo
    BY <1>6 DEF LastPiece
  <2>2. todo \in Seq(Data) /\ Len(todo) = 1 /\ todo[1] = w.pending /\ todo # <<>>
    BY <1>1
  <2> HIDE DEF todo
  <2>3. (w.chunk_num + 1 - 1) * ChunkSize = c /\ w.chunk_num + Len(todo) - 1 = w.chunk_num
    BY <1>1, <2>2
  <2>4. Slices(todo, w.chunk_num)
    BY <1>1, <1>2, <2>2, <2>3, <1>0 DEF Slices
  <2>5. n = (w.chunk_num + Len(todo) - 1) * ChunkSize + Len(todo[Len(todo)])
    BY <1>2, <2>2, <2>3
  <2>6. Progress(v, todo, TRUE, n)
    BY <1>2, <1>3, <1>4, <2>2, <2>4, <2>5 DEF Progress, c
  <2> QED
    BY <1>1, <1>3, <2>1, <2>2, <2>6, InsertingKeeps DEF v
<1> QED
  BY <1>5, <1>6

\* A sequence that is not empty, without its first element.
LEMMA HeadAndTail ==
  ASSUME NEW S, NEW s \in Seq(S), s # <<>>
  PROVE  /\ Len(s) \in Nat /\ Len(s) >= 1 /\ Head(s) = s[1] /\ Head(s) \in S
         /\ Tail(s) \in Seq(S) /\ Len(Tail(s)) = Len(s) - 1
         /\ \A j \in 1..(Len(s) - 1) : Tail(s)[j] = s[j + 1]
         /\ Tail(s) = <<>> <=> Len(s) = 1
<1>1. Len(s) \in Nat /\ Len(s) >= 1 /\ Head(s) = s[1] /\ Head(s) \in S
  OBVIOUS
<1>2. /\ Tail(s) \in Seq(S) /\ Len(Tail(s)) = Len(s) - 1
      /\ \A j \in 1..(Len(s) - 1) : Tail(s)[j] = s[j + 1]
  OBVIOUS
<1> DEFINE t == Tail(s)
<1>3. t \in Seq(S) /\ Len(t) = Len(s) - 1
  BY <1>2
<1> HIDE DEF t
<1>4. t = <<>> <=> Len(s) = 1
  BY <1>1, <1>3
<1> QED
  BY <1>1, <1>2, <1>4 DEF t

\* insert_chunk; the chunk counts whether it arrives or not.
LEMMA InsertKeeps ==
  ASSUME NEW w, NEW n, WriterInv(w, n), w.pc = "chunks"
  PROVE  /\ WriterInv(Inserting(Counted(w), Tail(w.todo), w.closing), n)
         /\ w.chunk_num \in Nat /\ Head(w.todo) \in Data /\ Len(Head(w.todo)) <= ChunkSize
         /\ AtPlace(Head(w.todo), w.chunk_num * ChunkSize)
<1> DEFINE v == Counted(w)
           todo == w.todo
           rest == Tail(todo)
           m == Len(todo)
           first == Head(todo)
           c == w.chunk_num * ChunkSize
           d == (w.chunk_num + 1) * ChunkSize
<1>0. ChunkSize \in Nat /\ ChunkSize > 0
  BY ChunksAssumption
<1>1. /\ w \in WriterRecord /\ n \in Nat /\ w.res # "OK" /\ w.closing \in BOOLEAN
      /\ w.chunk_num \in Nat /\ w.length \in Nat /\ w.pending \in Data
      /\ todo \in Seq(Data) /\ todo # <<>> /\ Progress(w, todo, w.closing, n)
  BY DEF WriterInv, WriterRecord
<1> HIDE DEF todo
<1>2. /\ m \in Nat /\ m >= 1 /\ first = todo[1] /\ first \in Data /\ Len(first) \in Nat
      /\ rest \in Seq(Data) /\ Len(rest) = m - 1
      /\ \A j \in 1..(m - 1) : rest[j] = todo[j + 1]
      /\ rest = <<>> <=> m = 1
  <2>1. /\ m \in Nat /\ m >= 1 /\ first = todo[1] /\ first \in Data
        /\ rest \in Seq(Data) /\ Len(rest) = m - 1
        /\ \A j \in 1..(m - 1) : rest[j] = todo[j + 1]
        /\ rest = <<>> <=> m = 1
    BY <1>1, HeadAndTail
  <2>2. Len(first) \in Nat
    BY <2>1 DEF Data
  <2> QED
    BY <2>1, <2>2
<1>3. w.length = c /\ c \in Nat /\ d = c + ChunkSize
  BY <1>0, <1>1, Times DEF Progress
<1>4. \A j \in 1..m : /\ Len(todo[j]) <= ChunkSize /\ (j < m => Len(todo[j]) = ChunkSize)
                      /\ AtPlace(todo[j], (w.chunk_num + j - 1) * ChunkSize)
  BY <1>1 DEF Progress, Slices
<1> HIDE DEF rest, m, first
<1>5. Len(first) <= ChunkSize /\ (m > 1 => Len(first) = ChunkSize) /\ AtPlace(first, c)
  <2>1. 1 \in 1..m /\ w.chunk_num + 1 - 1 = w.chunk_num
    BY <1>1, <1>2
  <2> QED
    BY <2>1, <1>2, <1>4
<1>6. /\ v \in WriterRecord /\ v.res # "OK" /\ v.chunk_num = w.chunk_num + 1
      /\ v.length = c + Len(first) /\ v.pending = w.pending
  <2>1. v = [w EXCEPT !.chunk_num = w.chunk_num + 1, !.length = w.length + Len(first)]
    BY DEF Counted, first, todo
  <2>2. w.chunk_num + 1 \in Nat /\ w.length + Len(first) \in Nat
    BY <1>1, <1>2
  <2> HIDE DEF v
  <2> QED
    BY <2>1, <2>2, <1>1, <1>3 DEF WriterRecord
<1> HIDE DEF v
<1>7. Slices(rest, w.chunk_num + 1)
  <2> SUFFICES ASSUME NEW j \in 1..Len(rest)
               PROVE  /\ Len(rest[j]) <= ChunkSize
                      /\ (j < Len(rest) => Len(rest[j]) = ChunkSize)
                      /\ AtPlace(rest[j], ((w.chunk_num + 1) + j - 1) * ChunkSize)
    BY DEF Slices
  <2>1. /\ j + 1 \in 1..m /\ rest[j] = todo[j + 1] /\ (j < Len(rest) => j + 1 < m)
        /\ (w.chunk_num + 1) + j - 1 = w.chunk_num + (j + 1) - 1
    BY <1>1, <1>2
  <2> QED
    BY <2>1, <1>4
<1>8. v.chunk_num + Len(rest) = w.chunk_num + Len(todo)
  BY <1>1, <1>2, <1>6 DEF m
<1>9. rest # <<>> => /\ v.length = v.chunk_num * ChunkSize
                     /\ rest[Len(rest)] = todo[m] /\ m > 1
  <2> SUFFICES ASSUME rest # <<>>
               PROVE  v.length = v.chunk_num * ChunkSize /\ rest[Len(rest)] = todo[m] /\ m > 1
    OBVIOUS
  <2>1. m > 1 /\ Len(rest) \in 1..(m - 1) /\ Len(rest) + 1 = m
    BY <1>2
  <2>2. v.length = d /\ v.chunk_num * ChunkSize = d
    BY <2>1, <1>3, <1>5, <1>6
  <2> QED
    BY <2>1, <2>2, <1>2
<1>10. Progress(v, rest, w.closing, n)
  <2>1. /\ Len(v.pending) < ChunkSize
        /\ AtPlace(v.pending, (v.chunk_num + Len(rest)) * ChunkSize)
        /\ w.closing => v.pending = <<>>
    BY <1>1, <1>6, <1>8 DEF Progress
  <2>2. ASSUME ~w.closing
        PROVE  /\ v.length = v.chunk_num * ChunkSize
               /\ n = (v.chunk_num + Len(rest)) * ChunkSize + Len(v.pending)
               /\ rest # <<>> => Len(rest[Len(rest)]) = ChunkSize
    <3>1. /\ n = (w.chunk_num + Len(todo)) * ChunkSize + Len(w.pending)
          /\ Len(todo[m]) = ChunkSize
      BY <2>2, <1>1 DEF Progress, m
    <3>2. Len(first) = ChunkSize
      BY <3>1, <1>2, <1>5
    <3>3. v.length = d /\ v.chunk_num * ChunkSize = d
      BY <3>2, <1>3, <1>6
    <3> QED
      BY <3>1, <3>3, <1>6, <1>8, <1>9
  <2>3. ASSUME w.closing = TRUE
        PROVE  n = (w.chunk_num + Len(todo) - 1) * ChunkSize + Len(todo[m])
    BY <2>3, <1>1 DEF Progress, m
  <2>4. ASSUME w.closing = TRUE, rest = <<>>
        PROVE  n = v.length
    <3>1. m = 1 /\ todo[m] = first /\ w.chunk_num + 1 - 1 = w.chunk_num
      BY <2>4, <1>1, <1>2
    <3>2. Len(todo) = 1
      BY <3>1 DEF m
    <3> QED
      BY <3>1, <3>2, <2>3, <2>4, <1>3, <1>6
  <2>5. ASSUME w.closing = TRUE, rest # <<>>
        PROVE  /\ v.length = v.chunk_num * ChunkSize
               /\ n = (v.chunk_num + Len(rest) - 1) * ChunkSize + Len(rest[Len(rest)])
    <3>1. v.chunk_num + Len(rest) - 1 = w.chunk_num + Len(todo) - 1
      <4> DEFINE vn == v.chunk_num
                 wn == w.chunk_num
                 vl == Len(rest)
                 wl == Len(todo)
      <4>1. vn \in Nat /\ vl \in Nat /\ wn \in Nat /\ wl \in Nat /\ vn + vl = wn + wl
        BY <1>1, <1>2, <1>6, <1>8 DEF m
      <4> HIDE DEF vn, wn, vl, wl
      <4>2. vn + vl - 1 = wn + wl - 1
        BY <4>1
      <4> QED
        BY <4>2 DEF vn, wn, vl, wl
    <3>2. Len(rest[Len(rest)]) = Len(todo[m])
      BY <2>5, <1>9
    <3> QED
      BY <3>1, <3>2, <2>3, <2>5, <1>9
  <2> QED
    BY <1>1, <1>6, <1>7, <2>1, <2>2, <2>4, <2>5 DEF Progress
<1>11. WriterInv(Inserting(v, rest, w.closing), n)
  BY <1>1, <1>2, <1>6, <1>10, InsertingKeeps
<1> QED
  BY <1>1, <1>2, <1>5, <1>11 DEF v, rest, first, todo

-----------------------------------------------------------------------------
(*****************************************************************************)
(* Writers and removers                                                      *)
(*****************************************************************************)

\* The collections and the processes are functions.
Shape ==
  /\ DOMAIN docs = Files /\ DOMAIN chunks = Files
  /\ DOMAIN writer = Files /\ DOMAIN wrote = Files
  /\ DOMAIN remover = Removers

\* They are at first, and remain so.
LEMMA ShapeInit == Init => Shape
BY DEF Init, Shape

\* No step changes their domains.
LEMMA ShapeNext == Shape /\ [Next]_vars => Shape'
<1> SUFFICES ASSUME Shape, [Next]_vars PROVE Shape'
  OBVIOUS
<1> USE DEF Shape
<1>1. ASSUME NEW f \in Files, NEW k \in Sizes,
             StoreBuffer(f, k) \/ StoreFile(f, k) \/ WriteBuffer(f, k)
      PROVE Shape'
  BY <1>1 DEF StoreBuffer, StoreFile, WriteBuffer, Gets, server
<1>2. ASSUME NEW f \in Files,
             WriterInit(f) \/ WriterDone(f) \/ StoreFileFails(f) \/ WriterDies(f)
      PROVE Shape'
  BY <1>2 DEF WriterInit, WriterDone, StoreFileFails, WriterDies, Ended, server
<1>3. ASSUME NEW f \in Files, InsertChunk(f)
      PROVE Shape'
  BY <1>3 DEF InsertChunk
<1>4. ASSUME NEW f \in Files, RunMd5(f) \/ InsertDoc(f)
      PROVE Shape'
  BY <1>4 DEF RunMd5, InsertDoc, Ended, server
<1>5. ASSUME NEW r \in Readers,
             \/ \E f \in Files : Open(r, f)
             \/ \E k \in Sizes : Seek(r, k) \/ Read(r, k)
             \/ NextChunk(r) \/ WriteFile(r) \/ GetChunk(r)
      PROVE Shape'
  BY <1>5 DEF Open, Seek, Read, NextChunk, WriteFile, GetChunk, server
<1>6. ASSUME NEW x \in Removers, NEW name, RemoveFilename(x, name)
      PROVE Shape'
  BY <1>6 DEF RemoveFilename, server
<1>7. ASSUME NEW x \in Removers, RemoveDoc(x) \/ RemoveChunks(x) \/ RemoverDies(x)
      PROVE Shape'
  BY <1>7 DEF RemoveDoc, RemoveChunks, RemoverDies, WithoutAll, server
<1>8. ASSUME NEW a \in Actors, LinkBreaks(a) \/ Reconnect(a)
      PROVE Shape'
  BY <1>8 DEF LinkBreaks, Reconnect, server
<1>9. CASE UNCHANGED vars
  BY <1>9 DEF vars, server
<1> HIDE DEF Shape
<1> QED
  BY <1>1, <1>2, <1>3, <1>4, <1>5, <1>6, <1>7, <1>8, <1>9 DEF Next

-----------------------------------------------------------------------------
\* WriterInv of all writers: an inductive invariant.
WritersInv == \A f \in Files : WriterInv(writer[f], wrote[f])

\* It holds before anything is written.
LEMMA WritersInit == Init => WritersInv
<1> SUFFICES ASSUME Init, NEW f \in Files PROVE WriterInv(writer[f], wrote[f])
  BY DEF WritersInv
<1>1. PICK acked \in BOOLEAN :
        writer[f] = [pc |-> "new", todo |-> <<>>, closing |-> FALSE, acked |-> acked,
                     chunk_num |-> 0, length |-> 0, pending |-> <<>>, res |-> "none"]
  BY DEF Init
<1>2. writer[f] \in WriterRecord
  BY <1>1 DEF WriterRecord, Data
<1> QED
  BY <1>1, <1>2 DEF WriterInv, Init

\* Each call of a writer, and each of its requests, keeps it.
LEMMA WritersNext == Shape /\ WritersInv /\ [Next]_vars => WritersInv'
<1> SUFFICES ASSUME Shape, WritersInv, [Next]_vars PROVE WritersInv'
  OBVIOUS
<1>1. ASSUME NEW f \in Files, NEW k \in Sizes,
             StoreBuffer(f, k) \/ StoreFile(f, k) \/ WriteBuffer(f, k)
      PROVE WritersInv'
  <2>1. k \in Nat /\ WriterInv(writer[f], wrote[f])
    BY ChunksAssumption DEF WritersInv
  <2>2. wrote' = [wrote EXCEPT ![f] = wrote[f] + k]
    BY <1>1 DEF StoreBuffer, StoreFile, WriteBuffer, Gets
  <2>3. WriterInv(writer'[f], wrote'[f])
    <3>1. wrote'[f] = wrote[f] + k
      BY <2>2 DEF Shape
    <3>2. CASE StoreBuffer(f, k)
      <4>1. /\ writer[f].pc = "new"
            /\ writer'[f] = Inserting(writer[f], ChunksOf(NewBytes(f, k)), TRUE)
        BY <3>2 DEF StoreBuffer, Shape
      <4> QED
        BY <2>1, <3>1, <4>1, StoreKeeps
    <3>3. CASE StoreFile(f, k)
      <4>1. /\ writer[f].pc = "new"
            /\ \/ writer'[f] = Inserting(writer[f], ChunksOf(NewBytes(f, k)), TRUE)
               \/ k = 0 /\ writer'[f] = Inserting(writer[f], <<<<>>>>, TRUE)
        BY <3>3 DEF StoreFile, Shape
      <4> QED
        BY <2>1, <3>1, <4>1, StoreKeeps
    <3>4. CASE WriteBuffer(f, k)
      <4> DEFINE split == Split(writer[f].pending, NewBytes(f, k))
                 v == [writer[f] EXCEPT !.pending = split.pending]
      <4>1. /\ writer[f].pc = "open"
            /\ writer'[f] = Inserting(v, split.todo, FALSE)
        BY <3>4 DEF WriteBuffer, Shape
      <4>2. WriterInv(Inserting(v, split.todo, FALSE), wrote[f] + k)
        BY <2>1, <4>1, WriteKeeps
      <4> HIDE DEF v, split
      <4> QED
        BY <3>1, <4>1, <4>2
    <3> QED
      BY <1>1, <3>2, <3>3, <3>4
  <2>4. \A g \in Files : g # f => writer'[g] = writer[g] /\ wrote'[g] = wrote[g]
    BY <1>1, <2>2 DEF StoreBuffer, StoreFile, WriteBuffer, Shape
  <2> QED
    BY <2>3, <2>4 DEF WritersInv
<1>2. ASSUME NEW f \in Files, WriterInit(f) \/ WriterDone(f) \/ InsertChunk(f)
      PROVE WritersInv'
  <2> DEFINE w == writer[f]
  <2>1. WriterInv(w, wrote[f]) /\ wrote' = wrote
    BY <1>2 DEF WritersInv, WriterInit, WriterDone, InsertChunk
  <2>2. WriterInv(writer'[f], wrote[f])
    <3>1. CASE WriterInit(f)
      <4>1. writer'[f] = [w EXCEPT !.pc = "open"] /\ w.pc = "new"
        BY <3>1 DEF WriterInit, Shape
      <4> HIDE DEF w
      <4>2. /\ writer'[f] \in WriterRecord /\ writer'[f].pc = "open"
            /\ writer'[f].todo = <<>> /\ writer'[f].closing = FALSE
            /\ writer'[f].pending = <<>> /\ writer'[f].chunk_num = 0
            /\ writer'[f].length = 0 /\ wrote[f] = 0 /\ writer'[f].res = w.res
            /\ w.res # "OK"
        BY <2>1, <4>1 DEF WriterInv, WriterRecord
      <4> DEFINE v == writer'[f]
      <4> HIDE DEF v
      <4>3. Progress(v, <<>>, FALSE, 0)
        <5>1. 0 + Len(<<>>) = 0 /\ 0 * ChunkSize = 0 /\ 0 < ChunkSize /\ Len(<<>>) = 0
          BY Times, ChunksAssumption
        <5> QED
          BY <4>2, <5>1 DEF Progress, Slices, AtPlace, v
      <4> QED
        BY <2>1, <4>2, <4>3 DEF WriterInv, v
    <3>2. CASE WriterDone(f)
      <4>1. /\ writer'[f] = Inserting([w EXCEPT !.pending = <<>>], LastPiece(w.pending), TRUE)
            /\ w.pc = "open"
        BY <3>2 DEF WriterDone, Shape
      <4> HIDE DEF w
      <4> QED
        BY <2>1, <4>1, DoneKeeps
    <3>3. CASE InsertChunk(f)
      <4>1. /\ writer'[f] = Inserting(Counted(w), Tail(w.todo), w.closing)
            /\ w.pc = "chunks"
        BY <3>3 DEF InsertChunk, Shape
      <4> HIDE DEF w
      <4> QED
        BY <2>1, <4>1, InsertKeeps
    <3> QED
      BY <1>2, <3>1, <3>2, <3>3
  <2>3. \A g \in Files : g # f => writer'[g] = writer[g]
    BY <1>2 DEF WriterInit, WriterDone, InsertChunk, Shape
  <2> QED
    BY <2>1, <2>2, <2>3 DEF WritersInv
<1>3. ASSUME NEW f \in Files,
             StoreFileFails(f) \/ RunMd5(f) \/ InsertDoc(f) \/ WriterDies(f)
      PROVE WritersInv'
  <2> DEFINE w == writer[f]
             v == writer'[f]
  <2>1. WriterInv(w, wrote[f]) /\ wrote' = wrote
    BY <1>3 DEF WritersInv, StoreFileFails, RunMd5, InsertDoc, WriterDies
  <2>2. \A g \in Files : g # f => writer'[g] = writer[g]
    BY <1>3 DEF StoreFileFails, RunMd5, InsertDoc, WriterDies, Ended, Shape
  <2>3. \/ \E res \in {"OK", "ERROR"} : v = [w EXCEPT !.pc = "ended", !.res = res]
        \/ v = [w EXCEPT !.pc = "doc"] /\ w.pc = "md5"
        \/ v = [w EXCEPT !.pc = "dead"] /\ w.pc # "ended"
    BY <1>3 DEF StoreFileFails, RunMd5, InsertDoc, WriterDies, Ended, Shape
  <2> HIDE DEF v, w
  <2>4. WriterInv(v, wrote[f])
    <3>1. CASE \E res \in {"OK", "ERROR"} : v = [w EXCEPT !.pc = "ended", !.res = res]
      BY <2>1, <3>1 DEF WriterInv, WriterRecord
    <3>2. CASE v = [w EXCEPT !.pc = "doc"] /\ w.pc = "md5"
      <4>1. /\ v \in WriterRecord /\ v.pc = "doc" /\ v.todo = w.todo /\ v.closing = w.closing
            /\ v.res = w.res /\ v.chunk_num = w.chunk_num /\ v.length = w.length
            /\ v.pending = w.pending
        BY <2>1, <3>2 DEF WriterInv, WriterRecord
      <4>2. Progress(v, v.todo, v.closing, wrote[f])
        BY <2>1, <3>2, <4>1 DEF WriterInv, Progress
      <4> QED
        BY <2>1, <3>2, <4>1, <4>2 DEF WriterInv
    <3>3. CASE v = [w EXCEPT !.pc = "dead"] /\ w.pc # "ended"
      BY <2>1, <3>3 DEF WriterInv, WriterRecord
    <3> QED
      BY <2>3, <3>1, <3>2, <3>3
  <2> QED
    BY <2>1, <2>2, <2>4 DEF WritersInv, v
<1>4. ASSUME UNCHANGED <<writer, wrote>>
      PROVE WritersInv'
  BY <1>4 DEF WritersInv
<1>5. ASSUME NEW r \in Readers,
             \/ \E f \in Files : Open(r, f)
             \/ \E k \in Sizes : Seek(r, k) \/ Read(r, k)
             \/ NextChunk(r) \/ WriteFile(r) \/ GetChunk(r)
      PROVE UNCHANGED <<writer, wrote>>
  BY <1>5 DEF Open, Seek, Read, NextChunk, WriteFile, GetChunk
<1>6. ASSUME NEW x \in Removers,
             \/ \E name \in Range(NameOf) : RemoveFilename(x, name)
             \/ RemoveDoc(x) \/ RemoveChunks(x) \/ RemoverDies(x)
      PROVE UNCHANGED <<writer, wrote>>
  BY <1>6 DEF RemoveFilename, RemoveDoc, RemoveChunks, RemoverDies
<1>7. ASSUME NEW a \in Actors, LinkBreaks(a) \/ Reconnect(a)
      PROVE UNCHANGED <<writer, wrote>>
  BY <1>7 DEF LinkBreaks, Reconnect
<1>8. CASE UNCHANGED vars
  BY <1>8, <1>4 DEF vars
<1> QED
  BY <1>1, <1>2, <1>3, <1>4, <1>5, <1>6, <1>7, <1>8 DEF Next

-----------------------------------------------------------------------------
\* What a remover still has to do has been found by it.
RemoversInv ==
  \A x \in Removers :
    /\ remover[x] \in RemoverRecord
    /\ remover[x].pc \in {"doc", "chunks"} => /\ remover[x].todo \in Seq(touched)
                                              /\ remover[x].todo # <<>>

\* It holds before anything is removed.
LEMMA RemoversInit == Init => RemoversInv
BY DEF Init, RemoversInv, RemoverRecord

\* What mongo_find answers lists the files that were found.
LEMMA FoundIsListed ==
  ASSUME NEW found \in SUBSET Files, NEW todo \in SetToSeqs(found)
  PROVE  todo \in Seq(found) /\ (found # {} => todo # <<>>)
<1>1. IsFiniteSet(found) /\ Cardinality(found) \in Nat
  BY ActorsAssumption, FS_Subset, FS_CardinalityType
<1>2. found # {} => Cardinality(found) # 0
  BY <1>1, FS_EmptySet
<1> DEFINE m == Cardinality(found)
<1>3. todo \in [1..m -> found]
  BY DEF SetToSeqs
<1> HIDE DEF m
<1>4. m \in Nat /\ (found # {} => m # 0)
  BY <1>1, <1>2 DEF m
<1> QED
  BY <1>3, <1>4

\* A sequence over a set is one over any larger set.
LEMMA SeqOfMore ==
  ASSUME NEW S, NEW T, S \subseteq T, NEW s \in Seq(S)
  PROVE  s \in Seq(T)
OBVIOUS

\* Each step of a remover keeps it.
LEMMA RemoversNext == Shape /\ RemoversInv /\ [Next]_vars => RemoversInv'
<1> SUFFICES ASSUME Shape, RemoversInv, [Next]_vars PROVE RemoversInv'
  OBVIOUS
<1>1. ASSUME UNCHANGED <<remover, touched>>
      PROVE RemoversInv'
  BY <1>1 DEF RemoversInv
<1>2. ASSUME NEW f \in Files,
             \/ \E k \in Sizes : StoreBuffer(f, k) \/ StoreFile(f, k) \/ WriteBuffer(f, k)
             \/ WriterInit(f) \/ WriterDone(f) \/ StoreFileFails(f)
             \/ InsertChunk(f) \/ RunMd5(f) \/ InsertDoc(f) \/ WriterDies(f)
      PROVE UNCHANGED <<remover, touched>>
  BY <1>2 DEF StoreBuffer, StoreFile, WriteBuffer, WriterInit, WriterDone, StoreFileFails,
              InsertChunk, RunMd5, InsertDoc, WriterDies, history
<1>3. ASSUME NEW r \in Readers,
             \/ \E f \in Files : Open(r, f)
             \/ \E k \in Sizes : Seek(r, k) \/ Read(r, k)
             \/ NextChunk(r) \/ WriteFile(r) \/ GetChunk(r)
      PROVE UNCHANGED <<remover, touched>>
  BY <1>3 DEF Open, Seek, Read, NextChunk, WriteFile, GetChunk, history
<1>4. ASSUME NEW a \in Actors, LinkBreaks(a) \/ Reconnect(a)
      PROVE UNCHANGED <<remover, touched>>
  BY <1>4 DEF LinkBreaks, Reconnect, history
<1>5. ASSUME NEW x \in Removers, NEW name, RemoveFilename(x, name)
      PROVE RemoversInv'
  <2>1. \A y \in Removers : y # x => remover'[y] = remover[y]
    BY <1>5 DEF RemoveFilename, Shape
  <2>2. touched \subseteq touched'
    BY <1>5 DEF RemoveFilename
  <2>3. /\ remover'[x] \in RemoverRecord
        /\ remover'[x].pc \in {"doc", "chunks"} => /\ remover'[x].todo \in Seq(touched')
                                                   /\ remover'[x].todo # <<>>
    <3> DEFINE found == {f \in Files : NameOf[f] = name /\ docs[f] # NoDoc}
    <3>1. CASE remover' = [remover EXCEPT ![x].pc = "crashed"]
      BY <3>1 DEF Shape, RemoversInv, RemoverRecord
    <3>2. ASSUME NEW todo \in SetToSeqs(found), touched' = touched \cup found,
                 remover' = [remover EXCEPT ![x] =
                              [pc |-> IF found = {} THEN "done" ELSE "doc", todo |-> todo]]
          PROVE  /\ remover'[x] \in RemoverRecord
                 /\ remover'[x].pc \in {"doc", "chunks"} =>
                      remover'[x].todo \in Seq(touched') /\ remover'[x].todo # <<>>
      <4>1. found \in SUBSET Files
        OBVIOUS
      <4> HIDE DEF found
      <4>2. /\ remover'[x].todo = todo
            /\ remover'[x] = [pc |-> IF found = {} THEN "done" ELSE "doc", todo |-> todo]
            /\ remover'[x].pc = IF found = {} THEN "done" ELSE "doc"
        BY <3>2 DEF Shape
      <4>3. todo \in Seq(found) /\ (found # {} => todo # <<>>)
        BY <4>1, FoundIsListed
      <4>4. todo \in Seq(Files) /\ todo \in Seq(touched')
        BY <3>2, <4>1, <4>3, SeqOfMore
      <4> QED
        BY <4>2, <4>3, <4>4 DEF RemoverRecord
    <3> QED
      BY <1>5, <3>1, <3>2 DEF RemoveFilename
  <2> QED
    BY <2>1, <2>2, <2>3, SeqOfMore DEF RemoversInv
<1>6. ASSUME NEW x \in Removers, RemoveDoc(x) \/ RemoverDies(x)
      PROVE RemoversInv'
  <2>1. \E pc \in {"chunks", "dead"} : remover' = [remover EXCEPT ![x].pc = pc]
    BY <1>6 DEF RemoveDoc, RemoverDies
  <2>2. touched' = touched /\ remover[x].pc \in {"doc", "chunks"}
    BY <1>6 DEF RemoveDoc, RemoverDies
  <2> QED
    BY <2>1, <2>2 DEF Shape, RemoversInv, RemoverRecord
<1>7. ASSUME NEW x \in Removers, RemoveChunks(x)
      PROVE RemoversInv'
  <2> DEFINE todo == remover[x].todo
             rest == Tail(todo)
  <2>1. /\ todo \in Seq(touched) /\ todo # <<>> /\ todo \in Seq(Files)
    BY <1>7 DEF RemoveChunks, RemoversInv, RemoverRecord
  <2>2. rest \in Seq(touched) /\ rest \in Seq(Files)
    BY <2>1, HeadAndTail
  <2>3. /\ remover'[x] = [pc |-> IF rest = <<>> THEN "done" ELSE "doc", todo |-> rest]
        /\ touched' = touched
        /\ \A y \in Removers : y # x => remover'[y] = remover[y]
    BY <1>7 DEF RemoveChunks, Shape
  <2> HIDE DEF rest, todo
  <2>4. /\ remover'[x] \in RemoverRecord
        /\ remover'[x].pc \in {"doc", "chunks"} => /\ remover'[x].todo \in Seq(touched')
                                                   /\ remover'[x].todo # <<>>
    BY <2>2, <2>3 DEF RemoverRecord
  <2> QED
    BY <2>3, <2>4 DEF RemoversInv
<1>8. CASE UNCHANGED vars
  BY <1>8, <1>1 DEF vars, history
<1> QED
  BY <1>1, <1>2, <1>3, <1>4, <1>5, <1>6, <1>7, <1>8 DEF Next

-----------------------------------------------------------------------------
\* BytesInPlace is inductive, given what the writers are about to insert.
LEMMA BytesInit == Init => BytesInPlace
BY DEF Init, BytesInPlace

\* Only insert_chunk adds bytes, and it adds them in their place.
LEMMA BytesNext == Shape /\ WritersInv /\ BytesInPlace /\ [Next]_vars => BytesInPlace'
<1> SUFFICES ASSUME Shape, WritersInv, BytesInPlace, [Next]_vars PROVE BytesInPlace'
  OBVIOUS
<1>1. ASSUME UNCHANGED chunks
      PROVE BytesInPlace'
  BY <1>1 DEF BytesInPlace
<1>2. ASSUME NEW f \in Files, InsertChunk(f)
      PROVE BytesInPlace'
  <2> DEFINE w == writer[f]
             first == Head(w.todo)
  <2>1. /\ w.chunk_num \in Nat /\ Len(first) <= ChunkSize
        /\ AtPlace(first, w.chunk_num * ChunkSize)
    <3>1. WriterInv(w, wrote[f]) /\ w.pc = "chunks"
      BY <1>2 DEF WritersInv, InsertChunk
    <3> HIDE DEF w
    <3> QED
      BY <3>1, InsertKeeps
  <2>2. CASE UNCHANGED chunks
    BY <2>2, <1>1
  <2>3. CASE chunks' = [chunks EXCEPT ![f] =
                     [n \in DOMAIN chunks[f] \cup {w.chunk_num} |->
                        IF n = w.chunk_num THEN first ELSE chunks[f][n]]]
    <3>1. /\ DOMAIN chunks'[f] = {w.chunk_num} \cup DOMAIN chunks[f]
          /\ chunks'[f][w.chunk_num] = first
          /\ \A n \in DOMAIN chunks[f] : n # w.chunk_num => chunks'[f][n] = chunks[f][n]
      BY <2>3 DEF Shape
    <3>2. \A g \in Files : g # f => chunks'[g] = chunks[g]
      BY <2>3 DEF Shape
    <3> HIDE DEF w, first
    <3> QED
      BY <2>1, <3>1, <3>2 DEF BytesInPlace, AtPlace
  <2> QED
    BY <1>2, <2>2, <2>3 DEF InsertChunk
<1>3. ASSUME NEW x \in Removers, RemoveChunks(x)
      PROVE BytesInPlace'
  <2>1. CASE UNCHANGED chunks
    BY <2>1, <1>1
  <2>2. ASSUME NEW f, chunks' = [chunks EXCEPT ![f] = <<>>]
        PROVE BytesInPlace'
    BY <2>2 DEF Shape, BytesInPlace
  <2> QED
    BY <1>3, <2>1, <2>2 DEF RemoveChunks, WithoutAll
<1>4. ASSUME NEW f \in Files,
             \/ \E k \in Sizes : StoreBuffer(f, k) \/ StoreFile(f, k) \/ WriteBuffer(f, k)
             \/ WriterInit(f) \/ WriterDone(f) \/ StoreFileFails(f)
             \/ RunMd5(f) \/ InsertDoc(f) \/ WriterDies(f)
      PROVE UNCHANGED chunks
  BY <1>4 DEF StoreBuffer, StoreFile, WriteBuffer, WriterInit, WriterDone, StoreFileFails,
              RunMd5, InsertDoc, WriterDies, server
<1>5. ASSUME NEW r \in Readers,
             \/ \E f \in Files : Open(r, f)
             \/ \E k \in Sizes : Seek(r, k) \/ Read(r, k)
             \/ NextChunk(r) \/ WriteFile(r) \/ GetChunk(r)
      PROVE UNCHANGED chunks
  BY <1>5 DEF Open, Seek, Read, NextChunk, WriteFile, GetChunk, server
<1>6. ASSUME NEW x \in Removers,
             \/ \E name \in Range(NameOf) : RemoveFilename(x, name)
             \/ RemoveDoc(x) \/ RemoverDies(x)
      PROVE UNCHANGED chunks
  BY <1>6 DEF RemoveFilename, RemoveDoc, RemoverDies, server
<1>7. ASSUME NEW a \in Actors, LinkBreaks(a) \/ Reconnect(a)
      PROVE UNCHANGED chunks
  BY <1>7 DEF LinkBreaks, Reconnect, server
<1>8. CASE UNCHANGED vars
  BY <1>8, <1>1 DEF vars, server
<1> QED
  BY <1>1, <1>2, <1>3, <1>4, <1>5, <1>6, <1>7, <1>8 DEF Next

-----------------------------------------------------------------------------
\* What a step of a writer can do to a file, but for inserting its document ...
LEMMA WriterStep ==
  ASSUME Shape, WritersInv, NEW g \in Files,
         \/ \E k \in Sizes : StoreBuffer(g, k) \/ StoreFile(g, k) \/ WriteBuffer(g, k)
         \/ WriterInit(g) \/ WriterDone(g) \/ StoreFileFails(g)
         \/ InsertChunk(g) \/ RunMd5(g) \/ WriterDies(g)
  PROVE  /\ UNCHANGED <<docs, remover, touched, botched>>
         /\ \A f \in Files \ {g} : /\ writer'[f] = writer[f] /\ wrote'[f] = wrote[f]
                                   /\ chunks'[f] = chunks[f]
         /\ writer[g].pc # "ended" /\ writer'[g].res # "OK"
         /\ writer'[g].pc = "ended" => writer'[g].res = "ERROR"
<1> DEFINE w == writer[g]
           v == writer'[g]
<1>1. w \in WriterRecord /\ (w.res = "OK" => w.pc = "ended")
  BY DEF WritersInv, WriterInv
<1>2. /\ UNCHANGED <<docs, remover, touched, botched>>
      /\ \A f \in Files \ {g} : /\ writer'[f] = writer[f] /\ wrote'[f] = wrote[f]
                                /\ chunks'[f] = chunks[f]
  BY DEF StoreBuffer, StoreFile, WriteBuffer, WriterInit, WriterDone, StoreFileFails,
         InsertChunk, RunMd5, WriterDies, Gets, Ended, server, history, Shape
<1>3. w.pc # "ended"
  BY DEF StoreBuffer, StoreFile, WriteBuffer, WriterInit, WriterDone, StoreFileFails,
         InsertChunk, RunMd5, WriterDies
<1>4. ASSUME NEW u, NEW todo, NEW closing, v = Inserting(u, todo, closing),
             u.res = w.res, DOMAIN u = DOMAIN w
      PROVE  v.res # "OK" /\ v.pc # "ended"
  <2> HIDE DEF v, w
  <2>1. v.res = w.res /\ v.pc # "ended"
    BY <1>1, <1>4 DEF Inserting, WriterRecord
  <2> QED
    BY <1>1, <1>3, <2>1
<1>5. v.res # "OK" /\ (v.pc = "ended" => v.res = "ERROR")
  <2>1. ASSUME NEW k \in Sizes, StoreBuffer(g, k) \/ StoreFile(g, k)
        PROVE  v.res # "OK" /\ v.pc # "ended"
    <3>1. \E todo : v = Inserting(w, todo, TRUE)
      BY <2>1 DEF StoreBuffer, StoreFile, Shape
    <3> QED
      BY <3>1, <1>4
  <2>2. ASSUME NEW k \in Sizes, WriteBuffer(g, k)
        PROVE  v.res # "OK" /\ v.pc # "ended"
    <3>1. \E pending, todo : v = Inserting([w EXCEPT !.pending = pending], todo, FALSE)
      BY <2>2 DEF WriteBuffer, Shape
    <3>2. PICK pending, todo : v = Inserting([w EXCEPT !.pending = pending], todo, FALSE)
      BY <3>1
    <3> DEFINE u == [w EXCEPT !.pending = pending]
    <3>3. u.res = w.res /\ DOMAIN u = DOMAIN w
      BY <1>1 DEF WriterRecord
    <3> HIDE DEF u, v, w
    <3> QED
      BY <3>2, <3>3, <1>4 DEF u
  <2>3. CASE WriterDone(g)
    <3> DEFINE u == [w EXCEPT !.pending = <<>>]
    <3>1. v = Inserting(u, LastPiece(w.pending), TRUE)
      BY <2>3 DEF WriterDone, Shape
    <3>2. u.res = w.res /\ DOMAIN u = DOMAIN w
      BY <1>1 DEF WriterRecord
    <3> HIDE DEF u, v, w
    <3> QED
      BY <3>1, <3>2, <1>4
  <2>4. CASE InsertChunk(g)
    <3> DEFINE u == Counted(w)
    <3>1. v = Inserting(u, Tail(w.todo), w.closing)
      BY <2>4 DEF InsertChunk, Shape
    <3>2. u.res = w.res /\ DOMAIN u = DOMAIN w
      BY <1>1 DEF WriterRecord, Counted
    <3> HIDE DEF u, v, w
    <3> QED
      BY <3>1, <3>2, <1>4
  <2>5. CASE WriterInit(g) \/ WriterDies(g)
    <3>1. \E pc \in {"open", "dead"} : v = [w EXCEPT !.pc = pc]
      BY <2>5 DEF WriterInit, WriterDies, Shape
    <3> HIDE DEF v, w
    <3> QED
      BY <3>1, <1>1, <1>3 DEF WriterRecord
  <2>6. CASE StoreFileFails(g) \/ RunMd5(g)
    <3>1. v = [w EXCEPT !.pc = "doc"] \/ v = [w EXCEPT !.pc = "ended", !.res = "ERROR"]
      BY <2>6 DEF StoreFileFails, RunMd5, Ended, Shape
    <3> HIDE DEF v, w
    <3> QED
      BY <3>1, <1>1, <1>3 DEF WriterRecord
  <2> QED
    BY <2>1, <2>2, <2>3, <2>4, <2>5, <2>6
<1> QED
  BY <1>2, <1>3, <1>5 DEF v, w

\* ... by inserting it ...
LEMMA DocumentStep ==
  ASSUME Shape, WritersInv, NEW g \in Files, InsertDoc(g)
  PROVE  /\ UNCHANGED <<chunks, wrote, remover, touched, botched>>
         /\ \A f \in Files \ {g} : writer'[f] = writer[f] /\ docs'[f] = docs[f]
         /\ writer[g].pc = "doc" /\ writer'[g].pc = "ended"
         /\ wrote[g] \in Nat
         /\ \/ docs'[g] = wrote[g]
            \/ docs'[g] = docs[g] /\ (writer'[g].res = "ERROR" \/ ~writer'[g].acked)
<1> DEFINE w == writer[g]
<1>1. w \in WriterRecord /\ w.pc = "doc" /\ w.length = wrote[g] /\ wrote[g] \in Nat
  BY DEF WritersInv, WriterInv, Progress, InsertDoc
<1>2. /\ UNCHANGED <<chunks, wrote, remover, touched, botched>>
      /\ \A f \in Files \ {g} : writer'[f] = writer[f] /\ docs'[f] = docs[f]
  BY DEF InsertDoc, Ended, Shape, history
<1>3. ASSUME NEW res, Ended(g, res)
      PROVE  writer'[g].pc = "ended" /\ writer'[g].res = res /\ writer'[g].acked = w.acked
  BY <1>1, <1>3 DEF Ended, Shape, WriterRecord
<1>4. \/ docs'[g] = w.length /\ \E res : Ended(g, res)
      \/ docs'[g] = docs[g] /\ \E res : (w.acked => res = "ERROR") /\ Ended(g, res)
  BY DEF InsertDoc, Shape
<1> HIDE DEF w
<1> QED
  BY <1>1, <1>2, <1>3, <1>4 DEF w

\* ... and what a step of a remover can do.
LEMMA RemoverStep ==
  ASSUME Shape, RemoversInv, NEW x \in Removers,
         \/ \E name \in Range(NameOf) : RemoveFilename(x, name)
         \/ RemoveDoc(x) \/ RemoveChunks(x) \/ RemoverDies(x)
  PROVE  /\ UNCHANGED <<writer, wrote>>
         /\ touched \subseteq touched'
         /\ \A f \in Files \ touched' : docs'[f] = docs[f] /\ chunks'[f] = chunks[f]
         /\ \A f \in Files : docs'[f] = docs[f] \/ docs'[f] = NoDoc
<1>1. CASE \E name \in Range(NameOf) : RemoveFilename(x, name)
  BY <1>1 DEF RemoveFilename, server
<1>2. CASE RemoverDies(x)
  BY <1>2 DEF RemoverDies, server
<1>3. CASE RemoveDoc(x) \/ RemoveChunks(x)
  <2> DEFINE f == Head(remover[x].todo)
  <2>1. f \in touched
    BY <1>3, HeadAndTail DEF RemoveDoc, RemoveChunks, RemoversInv
  <2> HIDE DEF f
  <2>2. \/ docs' = [docs EXCEPT ![f] = NoDoc] /\ UNCHANGED chunks
        \/ chunks' = [chunks EXCEPT ![f] = <<>>] /\ UNCHANGED docs
        \/ UNCHANGED <<docs, chunks>>
    BY <1>3 DEF RemoveDoc, RemoveChunks, WithoutAll, f
  <2>3. UNCHANGED <<writer, wrote, touched>>
    BY <1>3 DEF RemoveDoc, RemoveChunks
  <2> QED
    BY <2>1, <2>2, <2>3 DEF Shape
<1> QED
  BY <1>1, <1>2, <1>3

-----------------------------------------------------------------------------
\* A file has its document only when the call that stored it has ended.
DocumentLast == \A f \in Files : docs[f] # NoDoc => writer[f].pc = "ended"

\* The steps in which no file changes.
LEMMA OtherStep ==
  ASSUME \/ \E r \in Readers :
              \/ \E f \in Files : Open(r, f)
              \/ \E k \in Sizes : Seek(r, k) \/ Read(r, k)
              \/ NextChunk(r) \/ WriteFile(r) \/ GetChunk(r)
         \/ \E a \in Actors : LinkBreaks(a) \/ Reconnect(a)
         \/ UNCHANGED vars
  PROVE  UNCHANGED <<chunks, docs, writer, remover, wrote, touched, botched>>
<1>1. ASSUME NEW r \in Readers,
             \/ \E f \in Files : Open(r, f)
             \/ \E k \in Sizes : Seek(r, k) \/ Read(r, k)
             \/ NextChunk(r) \/ WriteFile(r) \/ GetChunk(r)
      PROVE UNCHANGED <<chunks, docs, writer, remover, wrote, touched, botched>>
  BY <1>1 DEF Open, Seek, Read, NextChunk, WriteFile, GetChunk, server, history
<1>2. ASSUME NEW a \in Actors, LinkBreaks(a) \/ Reconnect(a)
      PROVE UNCHANGED <<chunks, docs, writer, remover, wrote, touched, botched>>
  BY <1>2 DEF LinkBreaks, Reconnect, server, history
<1>3. CASE UNCHANGED vars
  BY <1>3 DEF vars, server, history
<1> QED
  BY <1>1, <1>2, <1>3

\* The invariants about writers and removers on which the others rest.
Inv == Shape /\ WritersInv /\ RemoversInv

\* They hold at first ...
LEMMA InvInit == Init => Inv
BY ShapeInit, WritersInit, RemoversInit DEF Inv

\* ... and every step keeps them.
LEMMA InvNext == Inv /\ [Next]_vars => Inv'
BY ShapeNext, WritersNext, RemoversNext DEF Inv

\* Only gridfs_insert_file makes a document, and with it the call ends.
LEMMA DocumentLastNext == Inv /\ DocumentLast /\ [Next]_vars => DocumentLast'
<1> SUFFICES ASSUME Inv, DocumentLast, [Next]_vars PROVE DocumentLast'
  OBVIOUS
<1> USE DEF Inv
<1>1. ASSUME NEW g \in Files,
             \/ \E k \in Sizes : StoreBuffer(g, k) \/ StoreFile(g, k) \/ WriteBuffer(g, k)
             \/ WriterInit(g) \/ WriterDone(g) \/ StoreFileFails(g)
             \/ InsertChunk(g) \/ RunMd5(g) \/ WriterDies(g)
      PROVE  DocumentLast'
  <2>1. /\ docs' = docs /\ writer[g].pc # "ended"
        /\ \A f \in Files \ {g} : writer'[f] = writer[f]
    BY <1>1, WriterStep
  <2> QED
    BY <2>1 DEF DocumentLast
<1>2. ASSUME NEW g \in Files, InsertDoc(g)
      PROVE  DocumentLast'
  <2>1. /\ writer'[g].pc = "ended"
        /\ \A f \in Files \ {g} : writer'[f] = writer[f] /\ docs'[f] = docs[f]
    BY <1>2, DocumentStep
  <2> QED
    BY <2>1 DEF DocumentLast
<1>3. ASSUME NEW x \in Removers,
             \/ \E name \in Range(NameOf) : RemoveFilename(x, name)
             \/ RemoveDoc(x) \/ RemoveChunks(x) \/ RemoverDies(x)
      PROVE  DocumentLast'
  <2>1. writer' = writer /\ \A f \in Files : docs'[f] = docs[f] \/ docs'[f] = NoDoc
    BY <1>3, RemoverStep
  <2> QED
    BY <2>1 DEF DocumentLast
<1>4. ASSUME UNCHANGED <<chunks, docs, writer, remover, wrote, touched, botched>>
      PROVE  DocumentLast'
  BY <1>4 DEF DocumentLast
<1> QED
  BY <1>1, <1>2, <1>3, <1>4, OtherStep DEF Next

\* The document that MONGO_OK reports has the length of the file, and only removers
\* take it away.
LEMMA OkMeansStoredNext ==
  Inv /\ DocumentLast /\ OkMeansStored /\ [Next]_vars => OkMeansStored'
<1> SUFFICES ASSUME Inv, OkMeansStored, [Next]_vars PROVE OkMeansStored'
  OBVIOUS
<1> USE DEF Inv
<1>1. ASSUME NEW g \in Files,
             \/ \E k \in Sizes : StoreBuffer(g, k) \/ StoreFile(g, k) \/ WriteBuffer(g, k)
             \/ WriterInit(g) \/ WriterDone(g) \/ StoreFileFails(g)
             \/ InsertChunk(g) \/ RunMd5(g) \/ WriterDies(g)
      PROVE  OkMeansStored'
  <2>1. /\ UNCHANGED <<docs, touched>> /\ writer'[g].res # "OK"
        /\ \A f \in Files \ {g} : writer'[f] = writer[f] /\ wrote'[f] = wrote[f]
    BY <1>1, WriterStep
  <2> QED
    BY <2>1 DEF OkMeansStored
<1>2. ASSUME NEW g \in Files, InsertDoc(g)
      PROVE  OkMeansStored'
  <2>1. /\ UNCHANGED <<wrote, touched>>
        /\ \A f \in Files \ {g} : writer'[f] = writer[f] /\ docs'[f] = docs[f]
        /\ \/ docs'[g] = wrote[g]
           \/ writer'[g].res = "ERROR" \/ ~writer'[g].acked
    BY <1>2, DocumentStep
  <2> QED
    BY <2>1 DEF OkMeansStored
<1>3. ASSUME NEW x \in Removers,
             \/ \E name \in Range(NameOf) : RemoveFilename(x, name)
             \/ RemoveDoc(x) \/ RemoveChunks(x) \/ RemoverDies(x)
      PROVE  OkMeansStored'
  <2>1. /\ UNCHANGED <<writer, wrote>> /\ touched \subseteq touched'
        /\ \A f \in Files \ touched' : docs'[f] = docs[f]
    BY <1>3, RemoverStep
  <2> QED
    BY <2>1 DEF OkMeansStored
<1>4. ASSUME UNCHANGED <<chunks, docs, writer, remover, wrote, touched, botched>>
      PROVE  OkMeansStored'
  BY <1>4 DEF OkMeansStored
<1> QED
  BY <1>1, <1>2, <1>3, <1>4, OtherStep DEF Next

\* ChunksAccounted for one file.
Accounted(f) ==
  docs[f] = NoDoc /\ DOMAIN chunks[f] # {} =>
    \/ writer[f].pc # "ended" \/ writer[f].res = "ERROR" \/ ~writer[f].acked
    \/ f \in botched
    \/ \E x \in Removers : remover[x].pc = "chunks" /\ Head(remover[x].todo) = f

\* Whoever removes the document of a file goes on with its chunks.
LEMMA RemoverAccounts ==
  ASSUME Inv, NEW f \in Files, Accounted(f), NEW x \in Removers,
         \/ \E name \in Range(NameOf) : RemoveFilename(x, name)
         \/ RemoveDoc(x) \/ RemoveChunks(x) \/ RemoverDies(x)
  PROVE  Accounted(f)'
<1> USE DEF Inv
<1>1. writer' = writer /\ \A y \in Removers : y # x => remover'[y] = remover[y]
  BY DEF RemoveFilename, RemoveDoc, RemoveChunks, RemoverDies, Shape
<1>2. CASE \E name \in Range(NameOf) : RemoveFilename(x, name)
  <2>1. /\ UNCHANGED <<docs, chunks, botched>> /\ remover[x].pc = "idle"
    BY <1>2 DEF RemoveFilename, server
  <2> QED
    BY <1>1, <2>1 DEF Accounted
<1>3. CASE RemoveDoc(x)
  <2>1. /\ remover[x].pc = "doc" /\ remover'[x].pc = "chunks" /\ chunks' = chunks
        /\ remover'[x].todo = remover[x].todo /\ botched \subseteq botched'
    BY <1>3 DEF RemoveDoc, Shape, RemoversInv, RemoverRecord
  <2>2. docs'[f] = docs[f] \/ Head(remover[x].todo) = f
    BY <1>3 DEF RemoveDoc, Shape
  <2> QED
    BY <1>1, <2>1, <2>2 DEF Accounted
<1>4. CASE RemoveChunks(x)
  <2>1. docs' = docs /\ botched \subseteq botched' /\ remover[x].pc = "chunks"
    BY <1>4 DEF RemoveChunks
  <2>2. CASE Head(remover[x].todo) = f
    <3>1. DOMAIN chunks'[f] = {} \/ f \in botched'
      BY <1>4, <2>2 DEF RemoveChunks, WithoutAll, Shape
    <3> QED
      BY <3>1 DEF Accounted
  <2>3. CASE Head(remover[x].todo) # f
    <3>1. chunks'[f] = chunks[f]
      BY <1>4, <2>3 DEF RemoveChunks, WithoutAll, Shape
    <3> QED
      BY <1>1, <2>1, <2>3, <3>1 DEF Accounted
  <2> QED
    BY <2>2, <2>3
<1>5. CASE RemoverDies(x)
  <2>1. UNCHANGED <<docs, chunks>> /\ botched' = botched \cup {Head(remover[x].todo)}
    BY <1>5 DEF RemoverDies, server
  <2> QED
    BY <1>1, <2>1 DEF Accounted
<1> QED
  BY <1>2, <1>3, <1>4, <1>5

\* No step of anybody leaves chunks of a file behind that nobody accounts for.
LEMMA ChunksAccountedNext == Inv /\ ChunksAccounted /\ [Next]_vars => ChunksAccounted'
<1> SUFFICES ASSUME Inv, [Next]_vars, NEW f \in Files, Accounted(f) PROVE Accounted(f)'
  BY DEF ChunksAccounted, Accounted
<1> USE DEF Inv
<1>1. ASSUME NEW g \in Files,
             \/ \E k \in Sizes : StoreBuffer(g, k) \/ StoreFile(g, k) \/ WriteBuffer(g, k)
             \/ WriterInit(g) \/ WriterDone(g) \/ StoreFileFails(g)
             \/ InsertChunk(g) \/ RunMd5(g) \/ WriterDies(g)
      PROVE  Accounted(f)'
  <2>1. /\ UNCHANGED <<docs, remover, botched>>
        /\ f # g => writer'[f] = writer[f] /\ chunks'[f] = chunks[f]
        /\ writer'[g].pc = "ended" => writer'[g].res = "ERROR"
    BY <1>1, WriterStep
  <2> QED
    BY <2>1 DEF Accounted
<1>2. ASSUME NEW g \in Files, InsertDoc(g)
      PROVE  Accounted(f)'
  <2>1. /\ UNCHANGED <<chunks, remover, botched>>
        /\ f # g => writer'[f] = writer[f] /\ docs'[f] = docs[f]
        /\ wrote[g] \in Nat
        /\ \/ docs'[g] = wrote[g]
           \/ writer'[g].res = "ERROR" \/ ~writer'[g].acked
    BY <1>2, DocumentStep
  <2> QED
    BY <2>1, ActorsAssumption DEF Accounted
<1>3. ASSUME NEW x \in Removers,
             \/ \E name \in Range(NameOf) : RemoveFilename(x, name)
             \/ RemoveDoc(x) \/ RemoveChunks(x) \/ RemoverDies(x)
      PROVE  Accounted(f)'
  BY <1>3, RemoverAccounts
<1>4. ASSUME UNCHANGED <<chunks, docs, writer, remover, wrote, touched, botched>>
      PROVE  Accounted(f)'
  BY <1>4 DEF Accounted
<1> QED
  BY <1>1, <1>2, <1>3, <1>4, OtherStep DEF Next

-----------------------------------------------------------------------------
(***************************************************************************)
(* The theorems                                                            *)
(***************************************************************************)

\* The invariants on which the theorems rest.
LEMMA Always == Spec => [](Inv /\ DocumentLast)
<1>1. Init => Inv /\ DocumentLast
  BY InvInit DEF Init, DocumentLast
<1>2. Inv /\ DocumentLast /\ [Next]_vars => (Inv /\ DocumentLast)'
  BY InvNext, DocumentLastNext
<1> QED
  BY <1>1, <1>2, PTL DEF Spec

\* Over any writes, by any call, with any chunks lost (179-370): a chunk that is stored
\* has the bytes of its place in the file and none else.
THEOREM ChunksInPlace == Spec => []BytesInPlace
<1>1. Inv /\ BytesInPlace /\ [Next]_vars => BytesInPlace'
  BY BytesNext DEF Inv
<1> QED
  BY BytesInit, Always, <1>1, PTL DEF Spec

\* MONGO_OK from gridfs_insert_file (136-177), with a write concern, means that the
\* file document is there and its length is the number of bytes the calls were given.
THEOREM OkIsStored == Spec => []OkMeansStored
<1>1. Init => OkMeansStored
  BY DEF Init, OkMeansStored
<1> QED
  BY <1>1, OkMeansStoredNext, Always, PTL DEF Spec

\* The order in which documents and chunks are inserted (136-177) and removed (386-405)
\* leaves no chunks without a document, unless a call fails or its result is unknown.
THEOREM NoStrayChunks == Spec => []ChunksAccounted
<1>1. Init => ChunksAccounted
  <2> SUFFICES ASSUME Init PROVE ChunksAccounted
    OBVIOUS
  <2>1. \A f \in Files : DOMAIN chunks[f] = {}
    BY DEF Init
  <2> QED
    BY <2>1 DEF ChunksAccounted
<1> QED
  BY <1>1, ChunksAccountedNext, Always, PTL DEF Spec

\* A file that has its document keeps its document, its chunks and its writer.
PublishedStays ==
  \A f \in Files : docs[f] # NoDoc /\ f \notin touched' =>
    docs'[f] = docs[f] /\ chunks'[f] = chunks[f] /\ writer'[f] = writer[f]

\* No step changes such a file before a remover has found it.
LEMMA PublishedNext == Inv /\ DocumentLast /\ [Next]_vars => PublishedStays
<1> SUFFICES ASSUME Inv, DocumentLast, [Next]_vars,
                    NEW f \in Files, docs[f] # NoDoc, f \notin touched'
             PROVE  docs'[f] = docs[f] /\ chunks'[f] = chunks[f] /\ writer'[f] = writer[f]
  BY DEF PublishedStays
<1> USE DEF Inv
<1>1. ASSUME NEW g \in Files,
             \/ \E k \in Sizes : StoreBuffer(g, k) \/ StoreFile(g, k) \/ WriteBuffer(g, k)
             \/ WriterInit(g) \/ WriterDone(g) \/ StoreFileFails(g)
             \/ InsertChunk(g) \/ RunMd5(g) \/ WriterDies(g)
      PROVE  docs'[f] = docs[f] /\ chunks'[f] = chunks[f] /\ writer'[f] = writer[f]
  <2>1. /\ docs' = docs /\ writer[g].pc # "ended"
        /\ \A h \in Files \ {g} : writer'[h] = writer[h] /\ chunks'[h] = chunks[h]
    BY <1>1, WriterStep
  <2> QED
    BY <2>1 DEF DocumentLast
<1>2. ASSUME NEW g \in Files, InsertDoc(g)
      PROVE  docs'[f] = docs[f] /\ chunks'[f] = chunks[f] /\ writer'[f] = writer[f]
  <2>1. /\ chunks' = chunks /\ writer[g].pc = "doc"
        /\ \A h \in Files \ {g} : writer'[h] = writer[h] /\ docs'[h] = docs[h]
    BY <1>2, DocumentStep
  <2> QED
    BY <2>1 DEF DocumentLast
<1>3. ASSUME NEW x \in Removers,
             \/ \E name \in Range(NameOf) : RemoveFilename(x, name)
             \/ RemoveDoc(x) \/ RemoveChunks(x) \/ RemoverDies(x)
      PROVE  docs'[f] = docs[f] /\ chunks'[f] = chunks[f] /\ writer'[f] = writer[f]
  BY <1>3, RemoverStep
<1>4. ASSUME UNCHANGED <<chunks, docs, writer, remover, wrote, touched, botched>>
      PROVE  docs'[f] = docs[f] /\ chunks'[f] = chunks[f] /\ writer'[f] = writer[f]
  BY <1>4
<1> QED
  BY <1>1, <1>2, <1>3, <1>4, OtherStep DEF Next

\* A file whose document is inserted (170) is not changed by any step of anybody, a late
\* request of its own writer included, until a remover has found it (383).
THEOREM PublishedIsStable == Spec => [][PublishedStays]_vars
<1>1. Inv /\ DocumentLast /\ [Next]_vars => [PublishedStays]_vars
  BY PublishedNext
<1> QED
  BY <1>1, Always, PTL DEF Spec
-----------------------------------------------------------------------------
(***************************************************************************)
(* The chunks of a file                                                    *)
(***************************************************************************)

\* The chunks c of a file are some of those its gridfile w has counted: full, but for
\* the last, which ends where the file does.
Laid(w, c, n) ==
  /\ DOMAIN c \subseteq 0..(w.chunk_num - 1)
  /\ \A k \in DOMAIN c : /\ c[k] \in Data
                         /\ k < w.chunk_num - 1 => Len(c[k]) = ChunkSize
                         /\ k = w.chunk_num - 1 => k * ChunkSize + Len(c[k]) = w.length
  /\ w.length <= n
  /\ (w.chunk_num - 1) * ChunkSize <= w.length /\ w.length <= w.chunk_num * ChunkSize

\* No remover has begun with a file, or none has got further than to find it.
Kept(f) == f \notin touched \/ (docs[f] # NoDoc /\ f \notin botched)

\* What is true of the chunks and the document of a file, at every step.
FileLaid(f) ==
  /\ Laid(writer[f], chunks[f], wrote[f])
  /\ Kept(f) /\ f \notin lossy => DOMAIN chunks[f] = 0..(writer[f].chunk_num - 1)
  /\ docs[f] # NoDoc => docs[f] = writer[f].length /\ docs[f] = wrote[f]
  /\ Kept(f) /\ (docs[f] # NoDoc \/ writer[f].pc = "doc") => Consecutive(f)
  /\ f \in touched => writer[f].pc = "ended"
  /\ wrote[f] <= MaxBytes[f]

FilesInv == \A f \in Files : FileLaid(f)

\* A remover that has come to the chunks of a file has removed its document, or failed to.
RemoversKnow ==
  \A x \in Removers : remover[x].pc = "chunks" => ~Kept(Head(remover[x].todo))

\* A writer has stored no more than it was given.
LEMMA ProgressBounds ==
  ASSUME NEW w, NEW n, WriterInv(w, n), w.pc \in {"new", "open", "chunks", "md5", "doc"}
  PROVE  w.length <= n
<1> DEFINE a == w.chunk_num * ChunkSize
           m == Len(w.todo)
<1>0. ChunkSize \in Nat /\ ChunkSize > 0
  BY ChunksAssumption
<1>1. /\ w \in WriterRecord /\ n \in Nat /\ w.chunk_num \in Nat /\ w.length \in Nat
      /\ w.todo \in Seq(Data) /\ m \in Nat /\ Len(w.pending) \in Nat /\ a \in Nat
      /\ w.closing \in BOOLEAN
  <2>1. /\ w \in WriterRecord /\ n \in Nat /\ w.chunk_num \in Nat /\ w.length \in Nat
        /\ w.todo \in Seq(Data) /\ w.pending \in Data /\ w.closing \in BOOLEAN
    BY DEF WriterInv, WriterRecord
  <2>2. m \in Nat /\ Len(w.pending) \in Nat
    BY <2>1 DEF Data
  <2>3. a \in Nat
    BY <2>1, Times
  <2> QED
    BY <2>1, <2>2, <2>3
<1>2. CASE w.pc = "new"
  BY <1>2 DEF WriterInv
<1>3. CASE w.pc # "new"
  <2>1. Progress(w, w.todo, w.closing, n)
    BY <1>3 DEF WriterInv
  <2>2. CASE ~w.closing
    <3> DEFINE b == (w.chunk_num + m) * ChunkSize
    <3>1. w.length = a /\ n = b + Len(w.pending)
      BY <2>1, <2>2 DEF Progress
    <3>2. a <= b /\ b \in Int
      <4>1. w.chunk_num + m \in Int /\ w.chunk_num \in Int /\ w.chunk_num <= w.chunk_num + m
        BY <1>1
      <4> QED
        BY <4>1, Times
    <3> HIDE DEF a, b, m
    <3> QED
      BY <3>1, <3>2, <1>1
  <2>3. CASE w.closing /\ w.todo = <<>>
    <3>1. n = w.length
      BY <2>1, <2>3 DEF Progress
    <3> QED
      BY <3>1, <1>1
  <2>4. CASE w.closing /\ w.todo # <<>>
    <3> DEFINE b == (w.chunk_num + m - 1) * ChunkSize
               l == Len(w.todo[m])
    <3>1. w.length = a /\ n = b + l
      BY <2>1, <2>4 DEF Progress
    <3>2. m >= 1 /\ l \in Nat
      <4>1. m \in 1..m /\ m >= 1
        BY <1>1, <2>4
      <4>2. w.todo[m] \in Data
        BY <1>1, <4>1
      <4> QED
        BY <4>1, <4>2 DEF Data
    <3> HIDE DEF l
    <3>3. a <= b /\ b \in Int
      <4>1. /\ w.chunk_num + m - 1 \in Int /\ w.chunk_num \in Int
            /\ w.chunk_num <= w.chunk_num + m - 1
        BY <1>1, <3>2
      <4> QED
        BY <4>1, Times
    <3> HIDE DEF a, b, m
    <3> QED
      BY <3>1, <3>2, <3>3, <1>1
  <2> QED
    BY <1>1, <2>2, <2>3, <2>4
<1> QED
  BY <1>2, <1>3

\* The steps of a writer that insert no chunk leave the number and the length of those
\* it has counted.
LEMMA CountStays ==
  ASSUME Shape, WritersInv, NEW g \in Files,
         \/ \E k \in Sizes : StoreBuffer(g, k) \/ StoreFile(g, k) \/ WriteBuffer(g, k)
         \/ WriterInit(g) \/ WriterDone(g) \/ StoreFileFails(g)
         \/ RunMd5(g) \/ InsertDoc(g) \/ WriterDies(g)
  PROVE  /\ UNCHANGED <<chunks, lossy, touched, botched, remover>>
         /\ writer'[g].chunk_num = writer[g].chunk_num
         /\ writer'[g].length = writer[g].length
         /\ \/ wrote'[g] = wrote[g]
            \/ /\ wrote'[g] \in Nat /\ wrote[g] <= wrote'[g] /\ wrote'[g] <= MaxBytes[g]
               /\ writer[g].pc \in {"new", "open"}
<1> DEFINE w == writer[g]
           v == writer'[g]
<1>1. w \in WriterRecord /\ wrote[g] \in Nat
  BY DEF WritersInv, WriterInv
<1>2. UNCHANGED <<chunks, lossy, touched, botched, remover>>
  BY DEF StoreBuffer, StoreFile, WriteBuffer, WriterInit, WriterDone, StoreFileFails,
         RunMd5, InsertDoc, WriterDies, server, history
<1>3. \/ wrote'[g] = wrote[g]
      \/ /\ wrote'[g] \in Nat /\ wrote[g] <= wrote'[g] /\ wrote'[g] <= MaxBytes[g]
         /\ writer[g].pc \in {"new", "open"}
  <2>1. ASSUME NEW k \in Sizes, Gets(g, k)
        PROVE  wrote'[g] \in Nat /\ wrote[g] <= wrote'[g] /\ wrote'[g] <= MaxBytes[g]
    <3>1. k \in Nat /\ wrote'[g] = wrote[g] + k /\ wrote[g] + k <= MaxBytes[g]
      BY <2>1, ChunksAssumption DEF Gets, Shape
    <3> QED
      BY <3>1, <1>1
  <2>2. \/ wrote' = wrote
        \/ \E k \in Sizes : Gets(g, k) /\ writer[g].pc \in {"new", "open"}
    BY DEF StoreBuffer, StoreFile, WriteBuffer, WriterInit, WriterDone, StoreFileFails,
           RunMd5, InsertDoc, WriterDies
  <2> QED
    BY <2>1, <2>2, Zenon
<1>4. ASSUME NEW u, NEW todo, NEW closing, v = Inserting(u, todo, closing),
             DOMAIN u = DOMAIN w, u.chunk_num = w.chunk_num, u.length = w.length
      PROVE  v.chunk_num = w.chunk_num /\ v.length = w.length
  <2> HIDE DEF v, w
  <2> QED
    BY <1>1, <1>4 DEF Inserting, WriterRecord
<1>5. v.chunk_num = w.chunk_num /\ v.length = w.length
  <2>1. ASSUME NEW k \in Sizes, StoreBuffer(g, k) \/ StoreFile(g, k)
        PROVE  v.chunk_num = w.chunk_num /\ v.length = w.length
    <3>1. \E todo : v = Inserting(w, todo, TRUE)
      BY <2>1 DEF StoreBuffer, StoreFile, Shape
    <3> QED
      BY <3>1, <1>4
  <2>2. ASSUME NEW pending, NEW todo, NEW closing,
               v = Inserting([w EXCEPT !.pending = pending], todo, closing)
        PROVE  v.chunk_num = w.chunk_num /\ v.length = w.length
    <3> DEFINE u == [w EXCEPT !.pending = pending]
    <3>1. DOMAIN u = DOMAIN w /\ u.chunk_num = w.chunk_num /\ u.length = w.length
      BY <1>1 DEF WriterRecord
    <3>2. v = Inserting(u, todo, closing)
      BY <2>2
    <3> HIDE DEF u, v, w
    <3> QED
      BY <3>1, <3>2, <1>4
  <2>3. ASSUME NEW k \in Sizes, WriteBuffer(g, k)
        PROVE  \E pending, todo : v = Inserting([w EXCEPT !.pending = pending], todo, FALSE)
    BY <2>3 DEF WriteBuffer, Shape
  <2>4. CASE WriterDone(g)
    <3>1. v = Inserting([w EXCEPT !.pending = <<>>], LastPiece(w.pending), TRUE)
      BY <2>4 DEF WriterDone, Shape
    <3> QED
      BY <3>1, <2>2
  <2>5. ASSUME \/ \E pc : v = [w EXCEPT !.pc = pc]
               \/ \E pc, res : v = [w EXCEPT !.pc = pc, !.res = res]
        PROVE  v.chunk_num = w.chunk_num /\ v.length = w.length
    <3> HIDE DEF v, w
    <3> QED
      BY <1>1, <2>5 DEF WriterRecord
  <2>6. CASE \/ WriterInit(g) \/ WriterDies(g) \/ StoreFileFails(g)
             \/ RunMd5(g) \/ InsertDoc(g)
    <3>1. \/ \E pc \in {"open", "dead", "doc"} : v = [w EXCEPT !.pc = pc]
          \/ \E res : v = [w EXCEPT !.pc = "ended", !.res = res]
      BY <2>6 DEF WriterInit, WriterDies, StoreFileFails, RunMd5, InsertDoc, Ended, Shape
    <3> HIDE DEF v, w
    <3> QED
      BY <3>1, <2>5
  <2> QED
    BY <2>1, <2>2, <2>3, <2>4, <2>6
<1> QED
  BY <1>2, <1>3, <1>5 DEF v, w

\* A file that no writer and no removal of chunks touches.
LEMMA LaidStays ==
  ASSUME NEW f \in Files, FileLaid(f), writer'[f] = writer[f], chunks'[f] = chunks[f],
         wrote'[f] = wrote[f], docs'[f] = docs[f] \/ docs'[f] = NoDoc,
         lossy \subseteq lossy', touched \subseteq touched', botched \subseteq botched',
         f \in touched' => f \in touched \/ writer[f].pc = "ended"
  PROVE  FileLaid(f)'
<1>1. Kept(f)' => Kept(f)
  BY DEF Kept
<1>2. Consecutive(f)' <=> Consecutive(f)
  BY DEF Consecutive
<1>3. Laid(writer[f], chunks[f], wrote[f])'
  BY DEF FileLaid, Laid
<1> QED
  BY <1>1, <1>2, <1>3 DEF FileLaid

\* A writer that inserts no chunk.
LEMMA LaidByWriter ==
  ASSUME Inv, DocumentLast, NEW g \in Files, FileLaid(g),
         \/ \E k \in Sizes : StoreBuffer(g, k) \/ StoreFile(g, k) \/ WriteBuffer(g, k)
         \/ WriterInit(g) \/ WriterDone(g) \/ StoreFileFails(g)
         \/ RunMd5(g) \/ WriterDies(g)
  PROVE  FileLaid(g)'
<1> USE DEF Inv
<1>1. /\ docs' = docs /\ writer[g].pc # "ended"
  BY WriterStep
<1>2. docs[g] = NoDoc /\ g \notin touched
  BY <1>1 DEF DocumentLast, FileLaid
<1>3. /\ UNCHANGED <<chunks, lossy, touched, botched>>
      /\ writer'[g].chunk_num = writer[g].chunk_num /\ writer'[g].length = writer[g].length
      /\ \/ wrote'[g] = wrote[g]
         \/ wrote'[g] \in Nat /\ wrote[g] <= wrote'[g] /\ wrote'[g] <= MaxBytes[g]
  BY CountStays
<1>4. wrote[g] \in Nat /\ writer[g].length \in Nat
  BY DEF WritersInv, WriterInv, WriterRecord
<1>5. Laid(writer[g], chunks[g], wrote[g])'
  BY <1>3, <1>4 DEF FileLaid, Laid
<1>6. writer'[g].pc = "doc" => Consecutive(g)
  <2>1. \A u, todo, closing : DOMAIN u = DOMAIN writer[g] => Inserting(u, todo, closing).pc # "doc"
    BY DEF Inserting, WritersInv, WriterInv, WriterRecord
  <2>2. DOMAIN [writer[g] EXCEPT !.pending = <<>>] = DOMAIN writer[g]
    OBVIOUS
  <2>3. CASE WriterDone(g)
    BY <2>1, <2>2, <2>3 DEF WriterDone, Shape
  <2>4. ASSUME NEW k \in Sizes, StoreBuffer(g, k) \/ StoreFile(g, k)
        PROVE  writer'[g].pc # "doc"
    <3>1. \E todo : writer'[g] = Inserting(writer[g], todo, TRUE)
      BY <2>4 DEF StoreBuffer, StoreFile, Shape
    <3> QED
      BY <2>1, <3>1
  <2>5. ASSUME NEW k \in Sizes, WriteBuffer(g, k)
        PROVE  writer'[g].pc # "doc"
    <3>1. \E p, todo : writer'[g] = Inserting([writer[g] EXCEPT !.pending = p], todo, FALSE)
      BY <2>5 DEF WriteBuffer, Shape
    <3>2. \A p : DOMAIN [writer[g] EXCEPT !.pending = p] = DOMAIN writer[g]
      OBVIOUS
    <3> QED
      BY <2>1, <3>1, <3>2
  <2>6. CASE RunMd5(g)
    <3>1. Consecutive(g) \/ \E res : Ended(g, res)
      BY <2>6 DEF RunMd5
    <3>2. \A res : Ended(g, res) => writer'[g].pc = "ended"
      BY DEF Ended, Shape, WritersInv, WriterInv, WriterRecord
    <3> QED
      BY <3>1, <3>2
  <2>7. CASE WriterInit(g) \/ WriterDies(g) \/ StoreFileFails(g)
    <3>1. \/ \E pc \in {"open", "dead"} : writer'[g] = [writer[g] EXCEPT !.pc = pc]
          \/ writer'[g] = [writer[g] EXCEPT !.pc = "ended", !.res = "ERROR"]
      BY <2>7 DEF WriterInit, WriterDies, StoreFileFails, Ended, Shape
    <3>2. writer[g] \in WriterRecord
      BY DEF WritersInv, WriterInv
    <3> DEFINE w == writer[g]
               v == writer'[g]
    <3>3. /\ \/ \E pc \in {"open", "dead"} : v = [w EXCEPT !.pc = pc]
             \/ v = [w EXCEPT !.pc = "ended", !.res = "ERROR"]
          /\ w \in WriterRecord
      BY <3>1, <3>2
    <3> HIDE DEF v, w
    <3>4. v.pc # "doc"
      BY <3>3 DEF WriterRecord
    <3> QED
      BY <3>4 DEF v
  <2> QED
    BY <2>3, <2>4, <2>5, <2>6, <2>7
<1>7. Consecutive(g)' <=> Consecutive(g)
  BY <1>3 DEF Consecutive
<1>8. DOMAIN chunks'[g] = DOMAIN chunks[g]
  BY <1>3
<1> QED
  BY <1>1, <1>2, <1>3, <1>5, <1>6, <1>7, <1>8 DEF FileLaid, Kept

\* insert_chunk counts the chunk; either it is there or the file is lossy.
LEMMA LaidByChunk ==
  ASSUME Inv, DocumentLast, NEW g \in Files, FileLaid(g), InsertChunk(g)
  PROVE  FileLaid(g)'
<1> USE DEF Inv
<1> DEFINE w == writer[g]
           v == writer'[g]
           c == w.chunk_num
           first == Head(w.todo)
           a == c * ChunkSize
<1>0. ChunkSize \in Nat /\ ChunkSize > 0
  BY ChunksAssumption
<1>1. /\ docs' = docs /\ w.pc = "chunks" /\ wrote' = wrote /\ w.pc # "ended"
      /\ UNCHANGED <<touched, botched>>
      /\ v = Inserting(Counted(w), Tail(w.todo), w.closing)
  BY DEF InsertChunk, Shape
<1>2. docs[g] = NoDoc /\ g \notin touched
  BY <1>1 DEF DocumentLast, FileLaid
<1>3. WriterInv(w, wrote[g]) /\ w \in WriterRecord /\ Progress(w, w.todo, w.closing, wrote[g])
      /\ w.todo # <<>> /\ w.todo \in Seq(Data) /\ c \in Nat /\ w.length \in Nat
      /\ w.closing \in BOOLEAN
  BY <1>1 DEF WritersInv, WriterInv, WriterRecord
<1>4. w.length = a
  BY <1>3 DEF Progress
<1>5. /\ first \in Data /\ Len(first) <= ChunkSize /\ Len(first) \in Nat
      /\ WriterInv(v, wrote[g])
  <2> HIDE DEF w, v
  <2>1. /\ first \in Data /\ Len(first) <= ChunkSize
        /\ WriterInv(Inserting(Counted(w), Tail(w.todo), w.closing), wrote[g])
    BY <1>1, <1>3, InsertKeeps
  <2> HIDE DEF first
  <2> QED
    BY <1>1, <2>1 DEF Data
<1>6. /\ v.chunk_num = c + 1 /\ v.length = a + Len(first)
      /\ v.pc \in {"chunks", "md5", "open"}
  <2> HIDE DEF v
  <2>1. /\ Counted(w).chunk_num = c + 1 /\ Counted(w).length = w.length + Len(first)
        /\ DOMAIN Counted(w) = DOMAIN w
    BY <1>3 DEF Counted, WriterRecord
  <2>2. \A u, todo, closing : DOMAIN u = DOMAIN w =>
          /\ Inserting(u, todo, closing).chunk_num = u.chunk_num
          /\ Inserting(u, todo, closing).length = u.length
          /\ Inserting(u, todo, closing).pc \in {"chunks", "md5", "open"}
    <3> HIDE DEF w
    <3> QED
      BY <1>3 DEF Inserting, WriterRecord
  <2> HIDE DEF w, first
  <2> QED
    BY <1>1, <1>4, <2>1, <2>2
<1>7. v.length <= wrote[g]
  <2> HIDE DEF v
  <2> QED
    BY <1>5, <1>6, ProgressBounds
<1>8. a \in Nat /\ (c + 1) * ChunkSize = a + ChunkSize
  BY <1>0, <1>3, Times
<1>9. (v.chunk_num - 1) * ChunkSize = a /\ v.chunk_num * ChunkSize = a + ChunkSize
      /\ v.chunk_num - 1 = c
  <2>1. v.chunk_num - 1 = c
    BY <1>3, <1>6
  <2> HIDE DEF v, c
  <2> QED
    BY <2>1, <1>6, <1>8
<1>10. Laid(w, chunks[g], wrote[g]) /\ (g \notin lossy => DOMAIN chunks[g] = 0..(c - 1))
  BY <1>2 DEF FileLaid, Kept
\* The chunks that were there: the one before this one ended where this one begins.
<1>11. \A k \in DOMAIN chunks[g] : k \in 0..(c - 1) /\ chunks[g][k] \in Data /\ Len(chunks[g][k]) = ChunkSize
  <2> SUFFICES ASSUME NEW k \in DOMAIN chunks[g]
               PROVE  k \in 0..(c - 1) /\ chunks[g][k] \in Data /\ Len(chunks[g][k]) = ChunkSize
    OBVIOUS
  <2>1. /\ k \in 0..(c - 1) /\ chunks[g][k] \in Data
        /\ k < c - 1 => Len(chunks[g][k]) = ChunkSize
        /\ k = c - 1 => k * ChunkSize + Len(chunks[g][k]) = a
    BY <1>4, <1>10 DEF Laid
  <2>2. CASE k = c - 1
    <3> DEFINE b == k * ChunkSize
               l == Len(chunks[g][k])
    <3>1. l \in Nat
      BY <2>1 DEF Data
    <3>2. b \in Int /\ b = a - ChunkSize
      <4>1. k \in Int /\ c \in Int /\ 1 \in Int
        BY <1>3, <2>1
      <4>2. (c - 1) * ChunkSize = c * ChunkSize - 1 * ChunkSize
        BY <4>1, Times
      <4> QED
        BY <2>2, <4>1, <4>2, Times
    <3>3. b + l = a
      BY <2>1, <2>2
    <3> HIDE DEF a, b, l
    <3>4. l = ChunkSize
      BY <1>0, <1>8, <3>1, <3>2, <3>3
    <3> QED
      BY <2>1, <3>4 DEF l
  <2>3. CASE k # c - 1
    BY <1>3, <2>1, <2>3
  <2> QED
    BY <2>2, <2>3
<1>12. CASE chunks' = chunks /\ lossy' = lossy \cup {g}
  <2>1. Laid(writer[g], chunks[g], wrote[g])'
    <3>1. \A k \in DOMAIN chunks'[g] : k \in 0..c /\ chunks'[g][k] \in Data
                                       /\ Len(chunks'[g][k]) = ChunkSize /\ k # c
      BY <1>3, <1>11, <1>12
    <3> HIDE DEF v, w, c, first
    <3>2. Laid(v, chunks'[g], wrote[g])
      <4> HIDE DEF a
      <4> QED
        BY <1>0, <1>5, <1>6, <1>7, <1>8, <1>9, <3>1 DEF Laid
    <3> QED
      BY <1>1, <3>2 DEF v
  <2>2. g \in lossy' /\ docs'[g] = NoDoc /\ g \notin touched' /\ v.pc # "doc"
    BY <1>1, <1>2, <1>6, <1>12
  <2>3. wrote'[g] <= MaxBytes[g]
    BY <1>1 DEF FileLaid
  <2> QED
    BY <2>1, <2>2, <2>3 DEF FileLaid
<1>13. CASE lossy' = lossy
            /\ chunks' = [chunks EXCEPT ![g] = [n \in DOMAIN chunks[g] \cup {c} |->
                                            IF n = c THEN first ELSE chunks[g][n]]]
  <2>1. /\ DOMAIN chunks'[g] = DOMAIN chunks[g] \cup {c}
        /\ chunks'[g][c] = first
        /\ \A k \in DOMAIN chunks[g] : k # c => chunks'[g][k] = chunks[g][k]
    BY <1>13 DEF Shape
  <2>2. Laid(writer[g], chunks[g], wrote[g])'
    <3>1. \A k \in DOMAIN chunks'[g] : /\ k \in 0..c /\ chunks'[g][k] \in Data
                                       /\ k < c => Len(chunks'[g][k]) = ChunkSize
      BY <1>3, <1>5, <1>11, <2>1
    <3>2. c * ChunkSize + Len(chunks'[g][c]) = a + Len(first)
      BY <2>1
    <3> HIDE DEF v, w, c, first
    <3>3. Laid(v, chunks'[g], wrote[g])
      <4>1. DOMAIN chunks'[g] \subseteq 0..(v.chunk_num - 1)
        BY <1>9, <3>1
      <4>2. \A k \in DOMAIN chunks'[g] :
              /\ chunks'[g][k] \in Data
              /\ k < v.chunk_num - 1 => Len(chunks'[g][k]) = ChunkSize
              /\ k = v.chunk_num - 1 => k * ChunkSize + Len(chunks'[g][k]) = v.length
        BY <1>6, <1>9, <3>1, <3>2
      <4> HIDE DEF a
      <4> QED
        BY <4>1, <4>2, <1>0, <1>5, <1>6, <1>7, <1>8, <1>9 DEF Laid
    <3> QED
      BY <1>1, <3>3 DEF v
  <2>3. g \notin lossy' => DOMAIN chunks'[g] = 0..(writer'[g].chunk_num - 1)
    <3>1. (0..(c - 1)) \cup {c} = 0..c
      BY <1>3
    <3> QED
      BY <1>9, <1>10, <1>13, <2>1, <3>1
  <2>4. docs'[g] = NoDoc /\ g \notin touched' /\ v.pc # "doc"
    BY <1>1, <1>2, <1>6
  <2>5. wrote'[g] <= MaxBytes[g]
    BY <1>1 DEF FileLaid
  <2> QED
    BY <2>2, <2>3, <2>4, <2>5 DEF FileLaid
<1> QED
  BY <1>12, <1>13 DEF InsertChunk

\* gridfs_insert_file makes the document of a file whose chunks leave no gap.
LEMMA LaidByDocument ==
  ASSUME Inv, DocumentLast, NEW g \in Files, FileLaid(g), InsertDoc(g)
  PROVE  FileLaid(g)'
<1> USE DEF Inv
<1>1. /\ UNCHANGED <<wrote, touched, botched>>
      /\ writer[g].pc = "doc" /\ writer'[g].pc = "ended"
      /\ \/ docs'[g] = wrote[g]
         \/ docs'[g] = docs[g]
  BY DocumentStep
<1>2. /\ UNCHANGED <<chunks, lossy>>
      /\ writer'[g].chunk_num = writer[g].chunk_num /\ writer'[g].length = writer[g].length
  BY CountStays
<1>3. docs[g] = NoDoc /\ g \notin touched
  BY <1>1 DEF DocumentLast, FileLaid
<1>4. Consecutive(g) /\ DOMAIN chunks'[g] = DOMAIN chunks[g]
  BY <1>1, <1>2, <1>3 DEF FileLaid, Kept
<1>5. wrote[g] = writer[g].length
  <2>1. WriterInv(writer[g], wrote[g])
    BY DEF WritersInv
  <2> QED
    BY <1>1, <2>1 DEF WriterInv, Progress
<1>6. Laid(writer[g], chunks[g], wrote[g])'
  BY <1>1, <1>2 DEF FileLaid, Laid
<1>7. Consecutive(g)' <=> Consecutive(g)
  BY <1>2 DEF Consecutive
<1> QED
  BY <1>1, <1>2, <1>3, <1>4, <1>5, <1>6, <1>7 DEF FileLaid, Kept

\* What a step of a remover does to the files and to what the removers know.
LEMMA LaidByRemover ==
  ASSUME Inv, DocumentLast, FilesInv, RemoversKnow, NEW x \in Removers,
         \/ \E name \in Range(NameOf) : RemoveFilename(x, name)
         \/ RemoveDoc(x) \/ RemoveChunks(x) \/ RemoverDies(x)
  PROVE  FilesInv' /\ RemoversKnow'
<1> USE DEF Inv
<1>1. /\ UNCHANGED <<writer, wrote, lossy>> /\ touched \subseteq touched'
      /\ botched \subseteq botched'
      /\ \A f \in Files : docs'[f] = docs[f] \/ docs'[f] = NoDoc
      /\ \A y \in Removers \ {x} : remover'[y] = remover[y]
  <2>1. /\ UNCHANGED <<writer, wrote>> /\ touched \subseteq touched'
        /\ \A f \in Files : docs'[f] = docs[f] \/ docs'[f] = NoDoc
    BY RemoverStep
  <2> QED
    BY <2>1 DEF RemoveFilename, RemoveDoc, RemoveChunks, RemoverDies, Shape
<1>2. \A f \in Files : ~Kept(f) => ~Kept(f)'
  BY <1>1 DEF Kept
<1>3. ASSUME NEW f \in Files, f \in touched', f \notin touched
      PROVE  writer[f].pc = "ended"
  BY <1>3 DEF RemoveFilename, RemoveDoc, RemoveChunks, RemoverDies, DocumentLast
<1>4. ASSUME remover[x].pc \in {"doc", "chunks"}
      PROVE  Head(remover[x].todo) \in Files /\ Head(remover[x].todo) \in touched
  BY <1>4, HeadAndTail DEF RemoversInv, RemoverRecord
<1>5. FilesInv'
  <2> SUFFICES ASSUME NEW f \in Files PROVE FileLaid(f)'
    BY DEF FilesInv
  <2>1. FileLaid(f)
    BY DEF FilesInv
  <2>2. CASE chunks'[f] = chunks[f]
    BY <1>1, <1>3, <2>1, <2>2, LaidStays
  <2>3. CASE chunks'[f] # chunks[f]
    <3>1. /\ remover[x].pc = "chunks" /\ f = Head(remover[x].todo)
          /\ chunks' = [chunks EXCEPT ![f] = <<>>]
      BY <2>3 DEF RemoveFilename, RemoveDoc, RemoveChunks, RemoverDies, WithoutAll, server, Shape
    <3>2. ~Kept(f)'
      BY <3>1, <1>2 DEF RemoversKnow
    <3>3. chunks'[f] = <<>>
      BY <3>1 DEF Shape
    <3>4. DOMAIN <<>> = {}
      OBVIOUS
    <3>5. Laid(writer[f], chunks[f], wrote[f])'
      <4>1. Laid(writer[f], chunks[f], wrote[f])
        BY <2>1 DEF FileLaid
      <4> QED
        BY <1>1, <3>3, <3>4, <4>1 DEF Laid
    <3>6. f \in touched => writer'[f].pc = "ended"
      BY <1>1, <2>1 DEF FileLaid
    <3> QED
      BY <1>1, <1>3, <2>1, <3>2, <3>5, <3>6 DEF FileLaid
  <2> QED
    BY <2>2, <2>3
<1>6. ASSUME NEW y \in Removers, remover'[y].pc = "chunks"
      PROVE  ~Kept(Head(remover[y].todo))'
  <2>1. CASE y # x
    <3>1. remover'[y] = remover[y] /\ Head(remover[y].todo) \in Files
      <4>1. remover'[y] = remover[y]
        BY <1>1, <2>1
      <4>2. /\ remover[y].todo \in Seq(Files) /\ remover[y].todo # <<>>
        BY <1>6, <4>1 DEF RemoversInv, RemoverRecord
      <4> QED
        BY <4>1, <4>2, HeadAndTail
    <3> QED
      BY <1>2, <1>6, <3>1 DEF RemoversKnow
  <2>2. CASE y = x
    <3>1. RemoveDoc(x)
      <4>1. ASSUME RemoverDies(x) PROVE FALSE
        BY <1>6, <2>2, <4>1 DEF RemoverDies, RemoversInv, RemoverRecord, Shape
      <4>2. ASSUME RemoveChunks(x) PROVE FALSE
        <5>1. remover'[x].pc \in {"done", "doc"}
          BY <4>2 DEF RemoveChunks, Shape
        <5> QED
          BY <1>6, <2>2, <5>1
      <4>3. ASSUME NEW name, RemoveFilename(x, name) PROVE FALSE
        <5>1. remover'[x].pc \in {"done", "doc", "crashed"}
          <6>1. CASE remover' = [remover EXCEPT ![x].pc = "crashed"]
            BY <6>1 DEF RemoversInv, RemoverRecord, Shape
          <6>2. ASSUME NEW pc \in {"done", "doc"}, NEW todo,
                       remover' = [remover EXCEPT ![x] = [pc |-> pc, todo |-> todo]]
                PROVE  remover'[x].pc \in {"done", "doc"}
            BY <6>2 DEF Shape
          <6> QED
            BY <4>3, <6>1, <6>2 DEF RemoveFilename
        <5> QED
          BY <1>6, <2>2, <5>1
      <4> QED
        BY <4>1, <4>2, <4>3
    <3>2. remover[x].pc = "doc" /\ remover'[x].todo = remover[x].todo
      BY <3>1 DEF RemoveDoc, RemoversInv, RemoverRecord, Shape
    <3>3. PICK f \in Files : f = Head(remover[x].todo) /\ f \in touched
      BY <1>4, <3>2
    <3>4. docs'[f] = NoDoc \/ f \in botched'
      BY <3>1, <3>3 DEF RemoveDoc, Shape
    <3>5. f \in touched' /\ Head(remover'[x].todo) = f
      BY <1>1, <3>2, <3>3
    <3> QED
      BY <2>2, <3>4, <3>5 DEF Kept
  <2> QED
    BY <2>1, <2>2
<1> QED
  BY <1>5, <1>6 DEF RemoversKnow

\* Only writers lose chunks.
LEMMA LossyStays ==
  ASSUME \/ \E r \in Readers :
              \/ \E f \in Files : Open(r, f)
              \/ \E k \in Sizes : Seek(r, k) \/ Read(r, k)
              \/ NextChunk(r) \/ WriteFile(r) \/ GetChunk(r)
         \/ \E a \in Actors : LinkBreaks(a) \/ Reconnect(a)
         \/ UNCHANGED vars
  PROVE  lossy' = lossy
<1>1. ASSUME NEW r \in Readers,
             \/ \E f \in Files : Open(r, f)
             \/ \E k \in Sizes : Seek(r, k) \/ Read(r, k)
             \/ NextChunk(r) \/ WriteFile(r) \/ GetChunk(r)
      PROVE  lossy' = lossy
  BY <1>1 DEF Open, Seek, Read, NextChunk, WriteFile, GetChunk, history
<1>2. ASSUME NEW a \in Actors, LinkBreaks(a) \/ Reconnect(a)
      PROVE  lossy' = lossy
  BY <1>2 DEF LinkBreaks, Reconnect, history
<1>3. CASE UNCHANGED vars
  BY <1>3 DEF vars, history
<1> QED
  BY <1>1, <1>2, <1>3

\* It holds of files without chunks ...
LEMMA FilesInit == Init => FilesInv /\ RemoversKnow
<1> SUFFICES ASSUME Init PROVE FilesInv /\ RemoversKnow
  OBVIOUS
<1>0. ChunkSize \in Nat /\ ChunkSize > 0
  BY ChunksAssumption
<1>1. RemoversKnow
  BY DEF Init, RemoversKnow
<1>2. ASSUME NEW f \in Files PROVE FileLaid(f)
  <2>1. /\ writer[f].chunk_num = 0 /\ writer[f].length = 0 /\ writer[f].pc = "new"
        /\ chunks[f] = <<>> /\ docs[f] = NoDoc /\ wrote[f] = 0
        /\ lossy = {} /\ touched = {} /\ 0 <= MaxBytes[f]
    BY FileBoundsAssumption DEF Init
  <2>2. DOMAIN <<>> = {} /\ 0..(0 - 1) = {}
    OBVIOUS
  <2>3. (0 - 1) * ChunkSize <= 0 /\ 0 * ChunkSize = 0
    BY <1>0
  <2> QED
    BY <2>1, <2>2, <2>3 DEF FileLaid, Laid, Kept
<1> QED
  BY <1>1, <1>2 DEF FilesInv

\* ... and every step of anybody keeps it.
LEMMA FilesNext ==
  Inv /\ DocumentLast /\ FilesInv /\ RemoversKnow /\ [Next]_vars => FilesInv' /\ RemoversKnow'
<1> SUFFICES ASSUME Inv, DocumentLast, FilesInv, RemoversKnow, [Next]_vars
             PROVE  FilesInv' /\ RemoversKnow'
  OBVIOUS
<1> USE DEF Inv
<1>1. ASSUME NEW g \in Files, UNCHANGED <<remover, touched, botched>>, lossy \subseteq lossy',
             \A f \in Files \ {g} : /\ writer'[f] = writer[f] /\ wrote'[f] = wrote[f]
                                    /\ chunks'[f] = chunks[f] /\ docs'[f] = docs[f],
             g \notin touched, FileLaid(g)'
      PROVE  FilesInv' /\ RemoversKnow'
  <2>1. ASSUME NEW f \in Files, f # g PROVE FileLaid(f)'
    <3>1. FileLaid(f) /\ touched' = touched /\ botched' = botched
      BY <1>1 DEF FilesInv
    <3> QED
      BY <1>1, <2>1, <3>1, LaidStays
  <2>2. RemoversKnow'
    <3> SUFFICES ASSUME NEW x \in Removers, remover'[x].pc = "chunks"
                 PROVE  ~Kept(Head(remover[x].todo))'
      BY DEF RemoversKnow
    <3>1. remover'[x] = remover[x] /\ remover[x].pc = "chunks"
      BY <1>1
    <3>2. Head(remover[x].todo) \in Files
      BY <3>1, HeadAndTail DEF RemoversInv, RemoverRecord
    <3>3. PICK f \in Files : f = Head(remover[x].todo)
      BY <3>2
    <3>4. ~Kept(f) /\ Head(remover'[x].todo) = f
      BY <3>1, <3>3 DEF RemoversKnow
    <3>5. f # g
      BY <1>1, <3>4 DEF Kept
    <3>6. ~Kept(f)'
      BY <1>1, <3>4, <3>5 DEF Kept
    <3> QED
      BY <3>4, <3>6 DEF Kept
  <2> QED
    BY <1>1, <2>1, <2>2 DEF FilesInv
<1>2. ASSUME NEW g \in Files,
             \/ \E k \in Sizes : StoreBuffer(g, k) \/ StoreFile(g, k) \/ WriteBuffer(g, k)
             \/ WriterInit(g) \/ WriterDone(g) \/ StoreFileFails(g)
             \/ InsertChunk(g) \/ RunMd5(g) \/ WriterDies(g)
      PROVE  FilesInv' /\ RemoversKnow'
  <2>1. /\ UNCHANGED <<docs, remover, touched, botched>> /\ writer[g].pc # "ended"
        /\ \A f \in Files \ {g} : /\ writer'[f] = writer[f] /\ wrote'[f] = wrote[f]
                                  /\ chunks'[f] = chunks[f]
    BY <1>2, WriterStep
  <2>2. FileLaid(g)
    BY DEF FilesInv
  <2>3. FileLaid(g)' /\ lossy \subseteq lossy'
    <3>1. CASE InsertChunk(g)
      BY <2>2, <3>1, LaidByChunk DEF InsertChunk
    <3>2. CASE ~InsertChunk(g)
      <4>1. \/ \E k \in Sizes : StoreBuffer(g, k) \/ StoreFile(g, k) \/ WriteBuffer(g, k)
            \/ WriterInit(g) \/ WriterDone(g) \/ StoreFileFails(g)
            \/ RunMd5(g) \/ WriterDies(g)
        BY <1>2, <3>2
      <4>2. lossy' = lossy
        BY <4>1, CountStays
      <4> QED
        BY <2>2, <4>1, <4>2, LaidByWriter
    <3> QED
      BY <3>1, <3>2
  <2>4. g \notin touched
    BY <2>1, <2>2 DEF FileLaid
  <2> QED
    BY <1>1, <2>1, <2>3, <2>4
<1>3. ASSUME NEW g \in Files, InsertDoc(g)
      PROVE  FilesInv' /\ RemoversKnow'
  <2>1. /\ UNCHANGED <<chunks, wrote, remover, touched, botched>> /\ writer[g].pc = "doc"
        /\ \A f \in Files \ {g} : writer'[f] = writer[f] /\ docs'[f] = docs[f]
    BY <1>3, DocumentStep
  <2>2. FileLaid(g)
    BY DEF FilesInv
  <2>3. FileLaid(g)' /\ lossy' = lossy
    BY <1>3, <2>2, LaidByDocument, CountStays
  <2>4. g \notin touched
    BY <2>1, <2>2 DEF FileLaid
  <2> QED
    BY <1>1, <2>1, <2>3, <2>4
<1>4. ASSUME NEW x \in Removers,
             \/ \E name \in Range(NameOf) : RemoveFilename(x, name)
             \/ RemoveDoc(x) \/ RemoveChunks(x) \/ RemoverDies(x)
      PROVE  FilesInv' /\ RemoversKnow'
  BY <1>4, LaidByRemover
<1>5. ASSUME UNCHANGED <<chunks, docs, writer, remover, wrote, touched, botched, lossy>>
      PROVE  FilesInv' /\ RemoversKnow'
  <2>1. FilesInv'
    BY <1>5 DEF FilesInv, FileLaid, Laid, Kept, Consecutive
  <2>2. RemoversKnow'
    BY <1>5 DEF RemoversKnow, Kept
  <2> QED
    BY <2>1, <2>2
<1>6. ASSUME \/ \E r \in Readers :
                  \/ \E f \in Files : Open(r, f)
                  \/ \E k \in Sizes : Seek(r, k) \/ Read(r, k)
                  \/ NextChunk(r) \/ WriteFile(r) \/ GetChunk(r)
             \/ \E a \in Actors : LinkBreaks(a) \/ Reconnect(a)
             \/ UNCHANGED vars
      PROVE  FilesInv' /\ RemoversKnow'
  <2>1. UNCHANGED <<chunks, docs, writer, remover, wrote, touched, botched>>
    BY <1>6, OtherStep
  <2>2. lossy' = lossy
    BY <1>6, LossyStays
  <2> QED
    BY <1>5, <2>1, <2>2
<1> QED
  BY <1>2, <1>3, <1>4, <1>6 DEF Next

-----------------------------------------------------------------------------
\* A file whose chunks leave no gap: its content is its first bytes, and all of them if
\* no chunk is missing at its end.
LEMMA ContentOf ==
  ASSUME BytesInPlace, NEW f \in Files, Laid(writer[f], chunks[f], wrote[f]),
         writer[f].chunk_num \in Nat, writer[f].length \in Nat, wrote[f] \in Nat, Consecutive(f)
  PROVE  \E m \in 0..writer[f].length :
           /\ Content(f) = Upto(m)
           /\ DOMAIN chunks[f] = 0..(writer[f].chunk_num - 1) => m = writer[f].length
<1> DEFINE c == chunks[f]
           w == writer[f]
           N == Cardinality(DOMAIN c)
           ns == Ascending(DOMAIN c)
           s == [i \in 1..Len(ns) |-> c[ns[i]]]
<1>0. ChunkSize \in Nat /\ ChunkSize > 0
  BY ChunksAssumption
<1>1. Content(f) = FlattenSeq(s)
  BY DEF Content
<1>2. PICK k \in Nat : DOMAIN c = 0..(k - 1) /\ k <= w.chunk_num
  <2>1. DOMAIN c \subseteq 0..(w.chunk_num - 1)
    BY DEF Laid
  <2>2. IsFiniteSet(0..(w.chunk_num - 1))
    <3>1. 0 \in Int /\ w.chunk_num - 1 \in Int
      OBVIOUS
    <3> HIDE DEF w
    <3> QED
      BY <3>1, FS_Interval
  <2>3. IsFiniteSet(DOMAIN c)
    BY <2>1, <2>2, FS_Subset
  <2>4. N \in Nat
    BY <2>3, FS_CardinalityType
  <2>5. DOMAIN c = 0..(N - 1)
    BY DEF Consecutive
  <2>6. N <= w.chunk_num
    <3> HIDE DEF N, c, w
    <3>1. N = 0 \/ N - 1 \in 0..(w.chunk_num - 1)
      BY <2>1, <2>4, <2>5
    <3>2. w.chunk_num \in Nat
      BY DEF w
    <3> QED
      BY <2>4, <3>1, <3>2
  <2> QED
    BY <2>4, <2>5, <2>6
<1>3. Len(ns) = k /\ ns \in Seq(0..(k - 1)) /\ \A i \in 1..k : ns[i] = i - 1
  <2>1. /\ Len(Ascending(0..(k - 1))) = (k - 1) - 0 + 1
        /\ Ascending(0..(k - 1)) \in Seq(0..(k - 1))
        /\ \A i \in 1..((k - 1) - 0 + 1) : Ascending(0..(k - 1))[i] = 0 + i - 1
    <3>1. 0 \in Nat /\ k - 1 \in Int /\ 0 <= (k - 1) + 1
      BY <1>2
    <3> QED
      BY <3>1, AscendingInterval
  <2>2. (k - 1) - 0 + 1 = k /\ \A i \in 1..k : 0 + i - 1 = i - 1
    OBVIOUS
  <2> QED
    BY <1>2, <2>1, <2>2
<1> HIDE DEF ns, N
<1>4. s = [i \in 1..k |-> c[i - 1]]
  BY <1>3
<1> HIDE DEF s
<1>5. \A n \in 0..(k - 1) :
        /\ c[n] \in Data /\ Len(c[n]) \in Nat
        /\ n < w.chunk_num - 1 => Len(c[n]) = ChunkSize
        /\ n = w.chunk_num - 1 => n * ChunkSize + Len(c[n]) = w.length
        /\ Len(c[n]) <= ChunkSize
        /\ \A i \in 1..Len(c[n]) : c[n][i] = n * ChunkSize + i
  <2> SUFFICES ASSUME NEW n \in DOMAIN c
               PROVE  /\ c[n] \in Data /\ Len(c[n]) \in Nat
                      /\ n < w.chunk_num - 1 => Len(c[n]) = ChunkSize
                      /\ n = w.chunk_num - 1 => n * ChunkSize + Len(c[n]) = w.length
                      /\ Len(c[n]) <= ChunkSize
                      /\ \A i \in 1..Len(c[n]) : c[n][i] = n * ChunkSize + i
    BY <1>2
  <2>1. c[n] \in Data
    BY DEF Laid
  <2>2. Len(c[n]) \in Nat
    BY <2>1 DEF Data
  <2> QED
    BY <2>1, <2>2 DEF Laid, BytesInPlace
<1>6. CASE k = 0
  <2>1. s = <<>> /\ Len(s) = 0
    BY <1>4, <1>6
  <2>2. FlattenSeq(s) = <<>>
    BY <2>1 DEF FlattenSeq
  <2>3. Upto(0) = <<>>
    BY DEF Upto
  <2>4. ASSUME DOMAIN c = 0..(w.chunk_num - 1) PROVE w.length = 0
    <3>1. w.chunk_num = 0
      <4>1. w.chunk_num > 0 => 0 \in 0..(w.chunk_num - 1)
        OBVIOUS
      <4>2. 0..(k - 1) = {}
        BY <1>6
      <4> QED
        BY <1>2, <2>4, <4>1, <4>2
    <3>2. w.length <= w.chunk_num * ChunkSize
      BY DEF Laid
    <3>3. w.length <= 0 /\ w.length \in Nat
      <4>1. w.chunk_num * ChunkSize = 0
        BY <3>1, Times, Zenon
      <4> QED
        BY <3>2, <4>1
    <3> QED
      BY <3>3
  <2> QED
    BY <1>1, <2>2, <2>3, <2>4
<1>7. CASE k > 0
  <2> DEFINE last == c[k - 1]
             m == (k - 1) * ChunkSize + Len(last)
  <2>1. s \in Seq(Data) /\ Len(s) = k /\ \A j \in 1..k : s[j] = c[j - 1]
    <3>1. \A j \in 1..k : c[j - 1] \in Data
      BY <1>5
    <3> HIDE DEF c
    <3> QED
      BY <1>4, <3>1
  <2>2. FlattenSeq(s) = Upto(m)
    <3>1. \A j \in 1..Len(s) :
            /\ j < Len(s) => Len(s[j]) = ChunkSize
            /\ \A i \in 1..Len(s[j]) : s[j][i] = (j - 1) * ChunkSize + i
      <4> SUFFICES ASSUME NEW j \in 1..k
                   PROVE  /\ j < k => Len(s[j]) = ChunkSize
                          /\ \A i \in 1..Len(s[j]) : s[j][i] = (j - 1) * ChunkSize + i
        BY <2>1
      <4>1. j - 1 \in 0..(k - 1) /\ (j < k => j - 1 < w.chunk_num - 1)
        BY <1>2
      <4> HIDE DEF c, w
      <4> QED
        BY <1>5, <2>1, <4>1
    <3>2. Len(s) > 0 /\ s[Len(s)] = last
      BY <1>7, <2>1
    <3> HIDE DEF last
    <3>3. FlattenSeq(s) = Upto((Len(s) - 1) * ChunkSize + Len(s[Len(s)]))
      BY <2>1, <3>1, <3>2, FlattenSlices
    <3> QED
      BY <2>1, <3>2, <3>3
  <2>3. /\ m \in Nat /\ m <= w.length
        /\ k = w.chunk_num => m = w.length
    <3>1. k - 1 \in 0..(k - 1) /\ (k - 1) * ChunkSize \in Nat
      <4>1. k - 1 \in 0..(k - 1) /\ k - 1 \in Nat
        BY <1>7
      <4> QED
        BY <4>1, Times, Zenon
    <3>2. Len(last) \in Nat /\ Len(last) <= ChunkSize
      BY <1>5, <3>1
    <3>3. CASE k = w.chunk_num
      <4>1. m = w.length
        BY <1>5, <3>1, <3>3
      <4> QED
        BY <4>1
    <3>4. CASE k # w.chunk_num
      <4> DEFINE a == (k - 1) * ChunkSize
                 b == (w.chunk_num - 1) * ChunkSize
      <4>1. b <= w.length /\ b \in Int
        <5>1. w.chunk_num - 1 \in Int
          OBVIOUS
        <5>2. b \in Int
          BY <5>1, Times, Zenon
        <5>3. b <= w.length
          BY DEF Laid
        <5> QED
          BY <5>2, <5>3
      <4>2. k * ChunkSize <= b /\ k * ChunkSize = a + ChunkSize /\ k * ChunkSize \in Int
        <5>1. k \in Int /\ w.chunk_num - 1 \in Int /\ k <= w.chunk_num - 1
          BY <1>2, <3>4
        <5>2. 1 \in Int
          OBVIOUS
        <5>3. /\ a = k * ChunkSize - 1 * ChunkSize /\ 1 * ChunkSize = ChunkSize
              /\ k * ChunkSize \in Int /\ k * ChunkSize <= b
          BY <5>1, <5>2, Times, Zenon
        <5> DEFINE e == k * ChunkSize
        <5> HIDE DEF a, b, e
        <5>4. e \in Int /\ a = e - ChunkSize /\ e <= b
          BY <5>3 DEF e
        <5>5. e \in Int /\ e = a + ChunkSize /\ e <= b
          BY <1>0, <5>4
        <5> QED
          BY <5>5 DEF e
      <4>3. a \in Nat
        BY <3>1
      <4> DEFINE e == k * ChunkSize
      <4> HIDE DEF a, b, e, last, w
      <4>4. a + Len(last) <= w.length /\ a + Len(last) \in Nat
        <5>1. w.length \in Nat
          BY DEF w
        <5>2. e <= b /\ e = a + ChunkSize /\ e \in Int
          BY <4>2 DEF e
        <5> QED
          BY <1>0, <3>2, <4>1, <4>3, <5>1, <5>2
      <4> QED
        BY <3>4, <4>4 DEF a
    <3> QED
      BY <3>3, <3>4
  <2>4. ASSUME DOMAIN c = 0..(w.chunk_num - 1) PROVE k = w.chunk_num
    <3>1. w.chunk_num - 1 \in 0..(w.chunk_num - 1)
      BY <1>2, <1>7
    <3>2. w.chunk_num - 1 \in 0..(k - 1) /\ w.chunk_num \in Nat
      BY <1>2, <2>4, <3>1
    <3> HIDE DEF w
    <3> QED
      BY <1>2, <3>2
  <2> HIDE DEF m
  <2>5. m \in 0..w.length
    BY <2>3
  <2> QED
    BY <1>1, <2>2, <2>3, <2>4, <2>5
<1> QED
  BY <1>2, <1>6, <1>7

\* A file with a document that no remover has begun with shows its bytes from the first
\* on, and, if none of its chunks was lost, all of them.
ContentTrue ==
  \A f \in Files : Kept(f) /\ docs[f] # NoDoc =>
    \E m \in 0..wrote[f] : /\ Content(f) = Upto(m) /\ docs[f] = wrote[f]
                          /\ wrote[f] \in Nat /\ (f \notin lossy => m = wrote[f])

\* That follows from what is known of its chunks.
LEMMA KeptContent == Inv /\ BytesInPlace /\ FilesInv => ContentTrue
<1> SUFFICES ASSUME Inv, BytesInPlace, FilesInv, NEW f \in Files, Kept(f), docs[f] # NoDoc
             PROVE  \E m \in 0..wrote[f] :
                      /\ Content(f) = Upto(m) /\ docs[f] = wrote[f]
                      /\ wrote[f] \in Nat /\ (f \notin lossy => m = wrote[f])
  BY DEF ContentTrue
<1> USE DEF Inv
<1>1. /\ Laid(writer[f], chunks[f], wrote[f]) /\ Consecutive(f)
      /\ docs[f] = wrote[f] /\ docs[f] = writer[f].length
      /\ f \notin lossy => DOMAIN chunks[f] = 0..(writer[f].chunk_num - 1)
  BY DEF FilesInv, FileLaid
<1>2. writer[f].chunk_num \in Nat /\ writer[f].length \in Nat /\ wrote[f] \in Nat
  BY DEF WritersInv, WriterInv, WriterRecord
<1>3. PICK m \in 0..writer[f].length :
           /\ Content(f) = Upto(m)
           /\ DOMAIN chunks[f] = 0..(writer[f].chunk_num - 1) => m = writer[f].length
  BY <1>1, <1>2, ContentOf
<1> QED
  BY <1>1, <1>2, <1>3

-----------------------------------------------------------------------------
(***************************************************************************)
(* Files appear and disappear at once                                      *)
(***************************************************************************)

\* A file that is not inserted or removed looks as before.
LEMMA ShownStays ==
  ASSUME NEW f \in Files, f \in touched <=> f \in touched',
         f \notin touched => docs'[f] = docs[f],
         f \notin touched /\ docs[f] # NoDoc => chunks'[f] = chunks[f]
  PROVE  Shown(f)' = Shown(f)
<1>1. CASE f \in touched
  BY <1>1 DEF Shown
<1>2. CASE f \notin touched /\ docs[f] = NoDoc
  BY <1>2 DEF Shown
<1>3. CASE f \notin touched /\ docs[f] # NoDoc
  <2>1. Content(f)' = Content(f)
    BY <1>3 DEF Content
  <2> QED
    BY <1>3, <2>1 DEF Shown
<1> QED
  BY <1>1, <1>2, <1>3

\* The steps of a writer: bytes are written, or a chunk is lost, or nothing is seen.
LEMMA PromiseByWriter ==
  ASSUME Inv, DocumentLast, FilesInv, NEW g \in Files,
         \/ \E k \in Sizes : StoreBuffer(g, k) \/ StoreFile(g, k) \/ WriteBuffer(g, k)
         \/ WriterInit(g) \/ WriterDone(g) \/ StoreFileFails(g)
         \/ InsertChunk(g) \/ RunMd5(g) \/ WriterDies(g)
  PROVE  [Promised!Next]_(Promised!vars)
<1> USE DEF Inv
<1>1. /\ UNCHANGED <<docs, touched>> /\ writer[g].pc # "ended"
      /\ \A f \in Files \ {g} : chunks'[f] = chunks[f]
  BY WriterStep
<1>2. docs[g] = NoDoc /\ g \notin touched
  BY <1>1 DEF DocumentLast, FilesInv, FileLaid
<1>3. \A f \in Files : Shown(f)' = Shown(f)
  <2> SUFFICES ASSUME NEW f \in Files PROVE Shown(f)' = Shown(f)
    OBVIOUS
  <2> QED
    BY <1>1, <1>2, ShownStays
<1> DEFINE shown == [f \in Files |-> Shown(f)]
<1>4. shown' = shown
  BY <1>3
<1>5. shown[g].state = "absent"
  BY <1>2 DEF Shown
<1> HIDE DEF shown
<1>6. CASE InsertChunk(g)
  <2>1. wrote' = wrote /\ (lossy' = lossy \/ lossy' = lossy \cup {g})
    BY <1>6 DEF InsertChunk
  <2>2. lossy' = lossy \cup {g} => Promised!Lose(g)
    BY <1>4, <1>5, <2>1 DEF Promised!Lose, shown
  <2>3. lossy' = lossy => UNCHANGED Promised!vars
    BY <1>4, <2>1 DEF Promised!vars, shown
  <2> QED
    BY <2>1, <2>2, <2>3 DEF Promised!Next
<1>7. CASE ~InsertChunk(g)
  <2>1. /\ lossy' = lossy
        /\ wrote' = wrote \/ \E k \in Sizes : Gets(g, k)
    BY <1>7 DEF StoreBuffer, StoreFile, WriteBuffer, WriterInit, WriterDone, StoreFileFails,
                RunMd5, WriterDies, history
  <2>2. CASE wrote' = wrote
    BY <1>4, <2>1, <2>2 DEF Promised!vars, shown
  <2>3. ASSUME NEW k \in Sizes, Gets(g, k)
        PROVE  Promised!Write(g)
    <3>1. wrote[g] \in Nat /\ k \in Nat
      BY ChunksAssumption DEF WritersInv, WriterInv
    <3>2. wrote' = [wrote EXCEPT ![g] = wrote[g] + k]
      BY <2>3 DEF Gets
    <3>3. wrote'[g] = wrote[g] + k
      BY <3>2 DEF Shape
    <3>4. /\ wrote'[g] \in Nat /\ wrote'[g] >= wrote[g]
          /\ wrote' = [wrote EXCEPT ![g] = wrote'[g]]
      <4>1. wrote'[g] \in Nat /\ wrote'[g] >= wrote[g]
        BY <3>1, <3>3
      <4>2. wrote' = [wrote EXCEPT ![g] = wrote'[g]]
        BY <3>2, <3>3, Zenon
      <4> QED
        BY <4>1, <4>2
    <3> QED
      BY <1>4, <1>5, <2>1, <3>4 DEF Promised!Write, shown
  <2> QED
    BY <2>1, <2>2, <2>3 DEF Promised!Next
<1> QED
  BY <1>6, <1>7

\* The document of a file makes it appear, with all its bytes, or without its end.
LEMMA PromiseByDocument ==
  ASSUME Inv, DocumentLast, FilesInv, ContentTrue', NEW g \in Files, InsertDoc(g)
  PROVE  [Promised!Next]_(Promised!vars)
<1> USE DEF Inv
<1>1. /\ UNCHANGED <<chunks, wrote, touched>> /\ writer[g].pc = "doc"
      /\ \A f \in Files \ {g} : docs'[f] = docs[f]
      /\ wrote[g] \in Nat
      /\ docs'[g] = wrote[g] \/ docs'[g] = docs[g]
  BY DocumentStep
<1>2. docs[g] = NoDoc /\ g \notin touched /\ lossy' = lossy
  BY <1>1, CountStays DEF DocumentLast, FilesInv, FileLaid
<1> DEFINE shown == [f \in Files |-> Shown(f)]
<1>3. CASE docs'[g] = docs[g]
  <2>1. \A f \in Files : Shown(f)' = Shown(f)
    BY <1>1, <1>3, ShownStays
  <2>2. shown' = shown
    BY <2>1
  <2> QED
    BY <1>1, <1>2, <2>2 DEF Promised!vars
<1>4. CASE docs'[g] = wrote[g]
  <2>1. docs'[g] # NoDoc
    BY <1>1, <1>4, ActorsAssumption
  <2>2. \A f \in Files \ {g} : Shown(f)' = Shown(f)
    BY <1>1, ShownStays
  <2>3. PICK m \in 0..wrote[g] : Content(g)' = Upto(m) /\ (g \notin lossy => m = wrote[g])
    <3>1. Kept(g)'
      BY <1>1, <1>2 DEF Kept
    <3> QED
      BY <1>1, <1>2, <2>1, <3>1 DEF ContentTrue, Upto
  <2>4. Shown(g)' = [state |-> "shown", bytes |-> Upto(m)]
    BY <1>1, <1>2, <2>1, <2>3 DEF Shown
  <2>5. Shown(g).state = "absent"
    BY <1>2 DEF Shown
  <2>6. shown' = [shown EXCEPT ![g] = [state |-> "shown", bytes |-> Upto(m)]]
    BY <2>2, <2>4
  <2>7. shown[g].state = "absent"
    BY <2>5
  <2>8. Upto(m) = Promised!Upto(m)
    BY DEF Upto, Promised!Upto
  <2> HIDE DEF shown
  <2>9. Promised!Appear(g)
    BY <1>1, <1>2, <2>3, <2>6, <2>7, <2>8 DEF Promised!Appear, Promised!Is, shown
  <2> QED
    BY <2>9 DEF Promised!Next
<1> QED
  BY <1>1, <1>3, <1>4

\* Removers make files disappear by finding them.
LEMMA PromiseByRemover ==
  ASSUME Inv, NEW x \in Removers,
         \/ \E name \in Range(NameOf) : RemoveFilename(x, name)
         \/ RemoveDoc(x) \/ RemoveChunks(x) \/ RemoverDies(x)
  PROVE  [Promised!Next]_(Promised!vars)
<1> USE DEF Inv
<1> DEFINE shown == [f \in Files |-> Shown(f)]
           F == {f \in Files : f \in touched' /\ f \notin touched}
<1>1. /\ UNCHANGED <<wrote>> /\ touched \subseteq touched'
      /\ \A f \in Files \ touched' : docs'[f] = docs[f] /\ chunks'[f] = chunks[f]
  BY RemoverStep
<1>2. lossy' = lossy
  BY DEF RemoveFilename, RemoveDoc, RemoveChunks, RemoverDies
<1>3. \A f \in F : docs[f] # NoDoc /\ f \notin touched
  BY DEF RemoveFilename, RemoveDoc, RemoveChunks, RemoverDies
<1>4. \A f \in Files \ F : Shown(f)' = Shown(f)
  BY <1>1, ShownStays
<1>5. \A f \in F : Shown(f)' = [state |-> "removed", bytes |-> <<>>] /\ Shown(f).state = "shown"
  BY <1>3 DEF Shown
<1>6. shown' = [f \in Files |-> IF f \in F THEN [state |-> "removed", bytes |-> <<>>] ELSE shown[f]]
  BY <1>4, <1>5
<1>7. \A f \in F : shown[f].state = "shown"
  BY <1>5
<1>8. PICK G \in SUBSET Files : G = F
  OBVIOUS
<1> HIDE DEF shown, F
<1>9. Promised!Disappear(G)
  BY <1>1, <1>2, <1>6, <1>7, <1>8 DEF Promised!Disappear, Promised!Is, shown
<1> QED
  BY <1>9 DEF Promised!Next

-----------------------------------------------------------------------------
\* Everything that is known of the files.
AllInv == Inv /\ DocumentLast /\ BytesInPlace /\ FilesInv /\ RemoversKnow

\* It holds at first ...
LEMMA AllInit == Init => AllInv
BY InvInit, BytesInit, FilesInit DEF AllInv, Init, DocumentLast

\* ... and every step keeps it.
LEMMA AllNext == AllInv /\ [Next]_vars => AllInv'
BY InvNext, DocumentLastNext, BytesNext, FilesNext DEF AllInv, Inv

\* A file document says the truth about the chunks of the file.
THEOREM DocumentIsTrue == Spec => []DocumentTrue
<1>1. AllInv => DocumentTrue
  <2> SUFFICES ASSUME AllInv, NEW f \in Files, docs[f] # NoDoc, f \notin lossy, f \notin botched
               PROVE  Content(f) = Upto(docs[f])
    BY DEF DocumentTrue
  <2>1. Kept(f)
    BY DEF Kept
  <2> QED
    BY <2>1, KeptContent DEF AllInv, ContentTrue
<1> QED
  BY AllInit, AllNext, <1>1, PTL DEF Spec

\* The files of the driver implement FileStore.
THEOREM FilePromiseKept == Spec => FilePromise
<1>1. Init => Promised!Init
  <2> SUFFICES ASSUME Init PROVE Promised!Init
    OBVIOUS
  <2>1. \A f \in Files : Shown(f) = [state |-> "absent", bytes |-> <<>>]
    BY DEF Init, Shown
  <2>2. wrote = [f \in Files |-> 0] /\ lossy = {}
    BY DEF Init
  <2> QED
    BY <2>1, <2>2 DEF Promised!Init, Promised!Is
<1>2. AllInv /\ ContentTrue' /\ [Next]_vars => [Promised!Next]_(Promised!vars)
  <2> SUFFICES ASSUME AllInv, ContentTrue', [Next]_vars PROVE [Promised!Next]_(Promised!vars)
    OBVIOUS
  <2> USE DEF AllInv
  <2>1. ASSUME NEW g \in Files,
               \/ \E k \in Sizes : StoreBuffer(g, k) \/ StoreFile(g, k) \/ WriteBuffer(g, k)
               \/ WriterInit(g) \/ WriterDone(g) \/ StoreFileFails(g)
               \/ InsertChunk(g) \/ RunMd5(g) \/ WriterDies(g)
        PROVE  [Promised!Next]_(Promised!vars)
    BY <2>1, PromiseByWriter
  <2>2. ASSUME NEW g \in Files, InsertDoc(g)
        PROVE  [Promised!Next]_(Promised!vars)
    BY <2>2, PromiseByDocument
  <2>3. ASSUME NEW x \in Removers,
               \/ \E name \in Range(NameOf) : RemoveFilename(x, name)
               \/ RemoveDoc(x) \/ RemoveChunks(x) \/ RemoverDies(x)
        PROVE  [Promised!Next]_(Promised!vars)
    BY <2>3, PromiseByRemover
  <2>4. ASSUME \/ \E r \in Readers :
                    \/ \E f \in Files : Open(r, f)
                    \/ \E k \in Sizes : Seek(r, k) \/ Read(r, k)
                    \/ NextChunk(r) \/ WriteFile(r) \/ GetChunk(r)
               \/ \E a \in Actors : LinkBreaks(a) \/ Reconnect(a)
               \/ UNCHANGED vars
        PROVE  [Promised!Next]_(Promised!vars)
    <3>1. UNCHANGED <<chunks, docs, wrote, touched>>
      BY <2>4, OtherStep
    <3>2. lossy' = lossy
      BY <2>4, LossyStays
    <3>3. \A f \in Files : Shown(f)' = Shown(f)
      BY <3>1, ShownStays
    <3> QED
      BY <3>1, <3>2, <3>3 DEF Promised!vars
  <2> QED
    BY <2>1, <2>2, <2>3, <2>4 DEF Next
<1>3. AllInv => ContentTrue
  BY KeptContent DEF AllInv
<1> QED
  BY AllInit, AllNext, <1>1, <1>2, <1>3, PTL DEF Spec, FilePromise, Promised!Spec

-----------------------------------------------------------------------------
(***************************************************************************)
(* Readers                                                                 *)
(***************************************************************************)

\* What the server answers a cursor is a part of a reply: chunks of the file.
LEMMA BatchesType ==
  ASSUME NEW f, NEW n \in Nat, NEW want \in Nat, NEW exact,
         DOMAIN chunks[f] \in SUBSET Nat, IsFiniteSet(DOMAIN chunks[f]),
         \A k \in DOMAIN chunks[f] : chunks[f][k] \in Data,
         NEW c \in Batches(f, n, want, exact)
  PROVE  c \in CursorRecord
<1> DEFINE S == {m \in DOMAIN chunks[f] : IF exact THEN m = n ELSE m >= n}
           ns == Ascending(S)
           most == IF Len(ns) < want THEN Len(ns) ELSE want
           Cut(k, more) == [batch |-> [i \in 1..k |-> chunks[f][ns[i]]], open |-> more,
                            next |-> IF k = 0 THEN n ELSE ns[k] + 1, current |-> NoData]
<1>1. S \in SUBSET Nat /\ IsFiniteSet(S) /\ S \subseteq DOMAIN chunks[f]
  <2>1. S \subseteq DOMAIN chunks[f]
    OBVIOUS
  <2> HIDE DEF S
  <2> QED
    BY <2>1, FS_Subset
<1>2. ns \in Seq(S) /\ Len(ns) \in Nat
  <2> HIDE DEF S
  <2> QED
    BY <1>1, AscendingLists
<1>3. c \in {Cut(0, FALSE)} \cup {Cut(k, TRUE) : k \in 1..most} \cup {Cut(most, FALSE)}
  BY DEF Batches
<1>4. most \in Nat /\ most <= Len(ns)
  BY <1>2
<1> HIDE DEF most, ns, S
<1>5. \E k \in 0..Len(ns), more \in BOOLEAN : c = Cut(k, more)
  <2>1. /\ 0 \in 0..Len(ns) /\ most \in 0..Len(ns)
        /\ \A k \in 1..most : k \in 0..Len(ns)
        /\ TRUE \in BOOLEAN /\ FALSE \in BOOLEAN
    BY <1>2, <1>4
  <2>2. c = Cut(0, FALSE) \/ c = Cut(most, FALSE) \/ \E k \in 1..most : c = Cut(k, TRUE)
    BY <1>3, Zenon
  <2> HIDE DEF Cut
  <2> QED
    BY <2>1, <2>2, Zenon
<1>6. PICK k \in 0..Len(ns), more \in BOOLEAN : c = Cut(k, more)
  BY <1>5
<1>7. \A i \in 1..k : ns[i] \in S
  BY <1>2, <1>6
<1> DEFINE b == [i \in 1..k |-> chunks[f][ns[i]]]
<1>8. b \in Seq(Data)
  <2>1. \A i \in 1..k : chunks[f][ns[i]] \in Data
    BY <1>1, <1>7
  <2>2. k \in Nat
    BY <1>2, <1>6
  <2> QED
    BY <2>1, <2>2
<1>9. (IF k = 0 THEN n ELSE ns[k] + 1) \in Nat
  <2>1. k # 0 => ns[k] \in Nat
    <3>1. k # 0 => k \in 1..k
      BY <1>2, <1>6
    <3> QED
      BY <1>1, <1>7, <3>1
  <2> QED
    BY <2>1
<1>10. c.batch = b /\ c = [batch |-> b, open |-> more, current |-> NoData,
                           next |-> IF k = 0 THEN n ELSE ns[k] + 1]
  BY <1>6
<1> HIDE DEF b
<1> QED
  BY <1>8, <1>9, <1>10 DEF CursorRecord

\* A batch of a file without gaps: chunks from the one that is asked for on, all that is
\* wanted if the server says that there are no more.
LEMMA BatchesWhole ==
  ASSUME NEW f, NEW n \in Nat, NEW want \in Nat, NEW exact, NEW num \in Nat,
         DOMAIN chunks[f] = 0..(num - 1), want >= 1, n + want <= num, exact => want = 1,
         NEW c \in Batches(f, n, want, exact)
  PROVE  /\ Len(c.batch) \in 1..want /\ c.current = NoData /\ c.next = n + Len(c.batch)
         /\ \A i \in 1..Len(c.batch) : c.batch[i] = chunks[f][n + i - 1]
         /\ c.open \in BOOLEAN /\ (~c.open => Len(c.batch) = want)
<1> DEFINE S == {m \in DOMAIN chunks[f] : IF exact THEN m = n ELSE m >= n}
           ns == Ascending(S)
           most == IF Len(ns) < want THEN Len(ns) ELSE want
           Cut(k, more) == [batch |-> [i \in 1..k |-> chunks[f][ns[i]]], open |-> more,
                            next |-> IF k = 0 THEN n ELSE ns[k] + 1, current |-> NoData]
<1>1. PICK last \in Nat : S = n..last /\ n + want <= last + 1
  <2>1. CASE exact
    <3>1. S = n..n
      BY <2>1
    <3> QED
      BY <2>1, <3>1
  <2>2. CASE ~exact
    <3>1. S = n..(num - 1) /\ num - 1 \in Nat
      BY <2>2
    <3> QED
      BY <3>1
  <2> QED
    BY <2>1, <2>2
<1>2. Len(ns) \in Nat /\ Len(ns) >= want /\ \A i \in 1..want : ns[i] = n + i - 1
  <2>1. n <= last + 1 /\ last \in Int
    BY <1>1
  <2>2. /\ Len(Ascending(n..last)) = last - n + 1
        /\ \A i \in 1..(last - n + 1) : Ascending(n..last)[i] = n + i - 1
    BY <2>1, AscendingInterval
  <2> HIDE DEF S
  <2> QED
    BY <1>1, <2>2
<1>3. most = want
  <2> HIDE DEF ns
  <2> QED
    BY <1>2
<1>4. c \in {Cut(k, TRUE) : k \in 1..most} \cup {Cut(most, FALSE)}
  <2>1. most # 0
    BY <1>3
  <2> QED
    BY <2>1 DEF Batches
<1> HIDE DEF most, ns, S
<1>5. \E k \in 1..want, more \in BOOLEAN : c = Cut(k, more) /\ (~more => k = want)
  <2>1. /\ want \in 1..want /\ \A k \in 1..most : k \in 1..want
        /\ TRUE \in BOOLEAN /\ FALSE \in BOOLEAN
    BY <1>3
  <2>2. c = Cut(want, FALSE) \/ \E k \in 1..most : c = Cut(k, TRUE)
    BY <1>3, <1>4, Zenon
  <2> HIDE DEF Cut
  <2> QED
    BY <2>1, <2>2, Zenon
<1>6. PICK k \in 1..want, more \in BOOLEAN : c = Cut(k, more) /\ (~more => k = want)
  BY <1>5
<1>7. ns[k] = n + k - 1 /\ \A i \in 1..k : ns[i] = n + i - 1
  BY <1>2, <1>6
<1> DEFINE b == [i \in 1..k |-> chunks[f][ns[i]]]
<1>8. Len(b) = k /\ \A i \in 1..k : b[i] = chunks[f][n + i - 1]
  BY <1>6, <1>7
<1>9. c.batch = b /\ c.open = more /\ c.current = NoData /\ c.next = n + k
  BY <1>6, <1>7
<1> HIDE DEF b
<1> QED
  BY <1>6, <1>8, <1>9

\* What is true of a reader at every step, whatever became of its file.
ReaderType(g) ==
  /\ g \in ReaderRecord /\ g.pos <= g.length
  /\ g.pc = "closed" => g.got = <<>> /\ g.size = 0 /\ g.pos = 0 /\ g.file = NoFile
  /\ g.pc # "closed" => g.file \in Files
  /\ g.pc = "read" => /\ g.todo >= 1 /\ g.pos + g.size <= g.length
                      /\ g.bytes_left <= g.size /\ g.size - g.bytes_left <= Len(g.got)
  /\ g.pc = "write_file" => g.todo >= 1

\* The bytes of a chunk that are copied.
Skip(g) == IF g.cursor.current = NoData THEN g.pos % ChunkSize ELSE 0
Rest(g, data) == SubSeq(data, Skip(g) + 1, Len(data))

\* A round of the loop of gridfile_read, if the offset is inside the chunk.
LEMMA CopiedIs ==
  ASSUME NEW g, ReaderType(g), g.pc = "read", NEW c \in CursorRecord, NEW data \in Data,
         Len(data) >= Skip(g)
  PROVE  LET v == Copied(g, c, data)
             rest == Rest(g, data)
             all == g.bytes_left > Len(rest)
         IN  /\ ReaderType(v)
             /\ Skip(g) \in Nat /\ Len(rest) = Len(data) - Skip(g) /\ Len(rest) \in Nat
             /\ \A i \in 1..Len(rest) : rest[i] = data[Skip(g) + i]
             /\ v.file = g.file /\ v.length = g.length /\ v.from = g.from /\ v.size = g.size
             /\ v.pc = IF g.todo > 1 THEN "read" ELSE "idle"
             /\ Len(v.got) = (g.size - g.bytes_left) + (IF all THEN Len(rest) ELSE g.bytes_left)
             /\ \A i \in 1..(g.size - g.bytes_left) : v.got[i] = g.got[i]
             /\ \A i \in 1..(IF all THEN Len(rest) ELSE g.bytes_left) :
                  v.got[(g.size - g.bytes_left) + i] = rest[i]
             /\ g.todo > 1 => /\ v.pos = g.pos /\ v.todo = g.todo - 1
                              /\ v.bytes_left = (IF all THEN g.bytes_left - Len(rest)
                                                        ELSE g.bytes_left)
                              /\ v.cursor.batch = c.batch /\ v.cursor.next = c.next
                              /\ v.cursor.open = c.open /\ v.cursor.current = data
<1> DEFINE v == Copied(g, c, data)
           rest == Rest(g, data)
           all == g.bytes_left > Len(rest)
           n == g.size - g.bytes_left
           done == SubSeq(g.got, 1, n)
           more == IF all THEN rest ELSE SubSeq(rest, 1, g.bytes_left)
           l == IF all THEN Len(rest) ELSE g.bytes_left
           after == [g EXCEPT !.cursor = [c EXCEPT !.current = data],
                              !.todo = @ - 1,
                              !.bytes_left = IF all THEN @ - Len(rest) ELSE @,
                              !.got = done \o more]
           ended == Returns([after EXCEPT !.pos = @ + g.size])
<1>1. /\ g \in ReaderRecord /\ g.pos \in Nat /\ g.size \in Nat /\ g.bytes_left \in Nat
      /\ g.todo \in Nat /\ g.todo >= 1 /\ g.got \in Data /\ g.length \in Nat
      /\ g.pos + g.size <= g.length /\ g.bytes_left <= g.size
      /\ n <= Len(g.got) /\ n \in Nat /\ g.file \in Files /\ Len(g.got) \in Nat
  <2>1. /\ g \in ReaderRecord /\ g.pos \in Nat /\ g.size \in Nat /\ g.bytes_left \in Nat
        /\ g.todo \in Nat /\ g.todo >= 1 /\ g.got \in Data /\ g.length \in Nat
        /\ g.pos + g.size <= g.length /\ g.bytes_left <= g.size
        /\ n <= Len(g.got) /\ g.file \in Files
    BY DEF ReaderType, ReaderRecord
  <2>2. Len(g.got) \in Nat
    BY <2>1 DEF Data
  <2> QED
    BY <2>1, <2>2
<1>2. Skip(g) \in Nat /\ Len(data) \in Nat
  <2>1. g.pos % ChunkSize \in 0..(ChunkSize - 1)
    BY <1>1, DivMod
  <2> QED
    BY <2>1, ChunksAssumption DEF Skip, Data
<1>3. /\ rest \in Data /\ Len(rest) = Len(data) - Skip(g) /\ Len(rest) \in Nat
      /\ \A i \in 1..Len(rest) : rest[i] = data[Skip(g) + i]
  <2> DEFINE k == Skip(g)
  <2>1. /\ k + 1 \in Int /\ Len(data) \in Int /\ 1 <= k + 1 /\ Len(data) <= Len(data)
        /\ k + 1 <= Len(data) + 1 /\ Len(data) - (k + 1) + 1 = Len(data) - k
        /\ \A i \in 1..(Len(data) - k) : (k + 1) + i - 1 = k + i
    BY <1>2
  <2>2. rest = SubSeq(data, k + 1, Len(data))
    BY DEF Rest
  <2> HIDE DEF k, rest
  <2>3. /\ rest \in Data /\ Len(rest) = Len(data) - k
        /\ \A i \in 1..(Len(data) - k) : rest[i] = data[k + i]
    BY <2>1, <2>2, Part
  <2> QED
    BY <1>2, <2>3 DEF k
<1> HIDE DEF rest
<1>4. done \in Data /\ Len(done) = n /\ \A i \in 1..n : done[i] = g.got[i]
  <2>1. 1 \in Int /\ n \in Int /\ 1 <= n + 1 /\ n - 1 + 1 = n /\ \A i \in 1..n : 1 + i - 1 = i
    BY <1>1
  <2> HIDE DEF n
  <2> QED
    BY <1>1, <2>1, Part
<1>5. more \in Data /\ Len(more) = l /\ l \in Nat /\ \A i \in 1..l : more[i] = rest[i]
  <2>1. CASE all
    BY <1>3, <2>1
  <2>2. CASE ~all
    <3> DEFINE b == g.bytes_left
    <3>1. /\ 1 \in Int /\ b \in Int /\ b <= Len(rest) /\ 1 <= b + 1 /\ b - 1 + 1 = b
          /\ \A i \in 1..b : 1 + i - 1 = i
      BY <1>1, <1>3, <2>2
    <3>2. more = SubSeq(rest, 1, b) /\ l = b
      BY <2>2
    <3> HIDE DEF b, more, l
    <3> QED
      BY <1>1, <1>3, <3>1, <3>2, Part DEF b
  <2> QED
    BY <2>1, <2>2
<1> HIDE DEF done, more
<1>6. /\ done \o more \in Data /\ Len(done \o more) = n + l
      /\ \A i \in 1..n : (done \o more)[i] = g.got[i]
      /\ \A i \in 1..l : (done \o more)[n + i] = rest[i]
  <2> HIDE DEF n, l
  <2> QED
    BY <1>4, <1>5, Joined
<1>7. v = IF g.todo > 1 THEN after ELSE ended
  <2>1. ~(Len(data) < Skip(g))
    BY <1>2
  <2>2. v = CASE Len(data) < Skip(g) -> [g EXCEPT !.pc = "crashed"]
              [] Len(data) >= Skip(g) /\ g.todo > 1 -> after
              [] OTHER -> ended
    BY DEF Copied, Skip, Rest, rest, more, done
  <2> HIDE DEF v, after, ended
  <2>3. CASE g.todo > 1
    BY <2>1, <2>2, <2>3
  <2>4. CASE ~(g.todo > 1)
    BY <2>1, <2>2, <2>4
  <2> QED
    BY <2>3, <2>4
<1> DEFINE cur == [c EXCEPT !.current = data]
           left == IF all THEN g.bytes_left - Len(rest) ELSE g.bytes_left
<1>8. /\ cur \in CursorRecord /\ cur.batch = c.batch /\ cur.next = c.next
      /\ cur.open = c.open /\ cur.current = data
  BY DEF CursorRecord
<1>9. left \in Nat /\ left <= g.size /\ g.size - left <= n + l
  BY <1>1, <1>3
<1> DEFINE got == done \o more
<1>10. after = [g EXCEPT !.cursor = cur, !.todo = g.todo - 1, !.bytes_left = left, !.got = got]
  OBVIOUS
<1> HIDE DEF cur, left, got, after
<1>11. /\ after \in ReaderRecord /\ after.cursor = cur /\ after.todo = g.todo - 1
       /\ after.bytes_left = left /\ after.got = got /\ after.pc = "read"
       /\ after.file = g.file /\ after.length = g.length /\ after.from = g.from
       /\ after.size = g.size /\ after.pos = g.pos
  <2>1. g.todo - 1 \in Nat /\ got \in Data
    BY <1>1, <1>6 DEF got
  <2> QED
    BY <1>1, <1>8, <1>9, <1>10, <2>1 DEF ReaderRecord
<1>12. NoCursor \in CursorRecord
  BY DEF NoCursor, CursorRecord
<1>13. /\ ended \in ReaderRecord /\ ended.got = got /\ ended.pc = "idle"
       /\ ended.file = g.file /\ ended.length = g.length /\ ended.from = g.from
       /\ ended.size = g.size /\ ended.pos = g.pos + g.size
  <2> DEFINE moved == [after EXCEPT !.pos = g.pos + g.size]
  <2>1. ended = Returns(moved)
    BY <1>11
  <2>2. g.pos + g.size \in Nat
    BY <1>1
  <2> HIDE DEF ended
  <2>3. /\ moved \in ReaderRecord /\ moved.got = got /\ moved.file = g.file
        /\ moved.length = g.length /\ moved.from = g.from /\ moved.size = g.size
        /\ moved.pos = g.pos + g.size
    BY <1>11, <2>2 DEF ReaderRecord
  <2> HIDE DEF moved
  <2> QED
    BY <1>12, <2>1, <2>3 DEF Returns, ReaderRecord
<1> HIDE DEF ended
<1>14. Len(got) = n + l
  BY <1>6 DEF got
<1>17. /\ Skip(g) \in Nat /\ Len(rest) = Len(data) - Skip(g) /\ Len(rest) \in Nat
       /\ \A i \in 1..Len(rest) : rest[i] = data[Skip(g) + i]
       /\ Len(got) = n + l
       /\ \A i \in 1..n : got[i] = g.got[i]
       /\ \A i \in 1..l : got[n + i] = rest[i]
  BY <1>2, <1>3, <1>6, <1>14 DEF got
<1>15. CASE g.todo > 1
  <2>1. v = after
    BY <1>7, <1>15
  <2> HIDE DEF v
  <2>2. ReaderType(v)
    <3>1. after.todo >= 1 /\ g.pos <= g.length
      BY <1>1, <1>11, <1>15
    <3> QED
      BY <1>1, <1>9, <1>11, <1>14, <2>1, <3>1 DEF ReaderType
  <2>3. /\ v.file = g.file /\ v.length = g.length /\ v.from = g.from /\ v.size = g.size
        /\ v.pc = "read" /\ v.got = got /\ v.pos = g.pos /\ v.todo = g.todo - 1
        /\ v.bytes_left = left
        /\ v.cursor.batch = c.batch /\ v.cursor.next = c.next
        /\ v.cursor.open = c.open /\ v.cursor.current = data
    BY <1>8, <1>11, <2>1
  <2> QED
    BY <1>15, <1>17, <2>2, <2>3, SMTT(60) DEF left, v, rest
<1>16. CASE ~(g.todo > 1)
  <2>1. v = ended
    BY <1>7, <1>16
  <2> HIDE DEF v
  <2>2. ReaderType(v)
    BY <1>1, <1>13, <2>1 DEF ReaderType
  <2>3. /\ v.file = g.file /\ v.length = g.length /\ v.from = g.from /\ v.size = g.size
        /\ v.pc = "idle" /\ v.got = got
    BY <1>13, <2>1
  <2> QED
    BY <1>16, <1>17, <2>2, <2>3, SMTT(60) DEF v, rest
<1> QED
  BY <1>15, <1>16

\* The chunks of a file are finitely many sequences of bytes.
LEMMA ChunksType ==
  ASSUME Inv, FilesInv, NEW f \in Files
  PROVE  /\ DOMAIN chunks[f] \in SUBSET Nat /\ IsFiniteSet(DOMAIN chunks[f])
         /\ \A k \in DOMAIN chunks[f] : chunks[f][k] \in Data
<1>1. Laid(writer[f], chunks[f], wrote[f]) /\ writer[f].chunk_num \in Nat
  BY DEF Inv, FilesInv, FileLaid, WritersInv, WriterInv, WriterRecord
<1> DEFINE n == writer[f].chunk_num - 1
<1>2. n \in Int /\ DOMAIN chunks[f] \subseteq 0..n
  BY <1>1 DEF Laid
<1> HIDE DEF n
<1>3. IsFiniteSet(0..n)
  <2>1. 0 \in Int /\ n \in Int
    BY <1>2
  <2> QED
    BY <2>1, FS_Interval
<1>4. IsFiniteSet(DOMAIN chunks[f])
  BY <1>2, <1>3, FS_Subset
<1> QED
  BY <1>1, <1>2, <1>4 DEF Laid

\* How many chunks a length takes.
LEMMA NumChunksType ==
  ASSUME NEW l \in Nat
  PROVE  /\ NumChunks(l) \in Nat /\ l <= NumChunks(l) * ChunkSize
         /\ NumChunks(l) > 0 => (NumChunks(l) - 1) * ChunkSize < l
<1> DEFINE q == l \div ChunkSize
           r == l % ChunkSize
<1>0. ChunkSize \in Nat /\ ChunkSize > 0
  BY ChunksAssumption
<1>1. q \in Nat /\ r \in 0..(ChunkSize - 1) /\ l = q * ChunkSize + r
  BY DivMod
<1>2. NumChunks(l) = q + (IF r > 0 THEN 1 ELSE 0)
  BY DEF NumChunks
<1> HIDE DEF q, r
<1>3. CASE r > 0
  <2>1. NumChunks(l) = q + 1 /\ q + 1 \in Nat /\ (q + 1) - 1 = q
    BY <1>1, <1>2, <1>3
  <2>2. (q + 1) * ChunkSize = q * ChunkSize + ChunkSize /\ q * ChunkSize \in Nat
    <3>1. q \in Int /\ 1 \in Int
      BY <1>1
    <3> QED
      BY <1>1, <3>1, Times
  <2>3. l <= (q + 1) * ChunkSize /\ q * ChunkSize < l
    <3> DEFINE a == q * ChunkSize
               b == (q + 1) * ChunkSize
    <3>1. l = a + r /\ b = a + ChunkSize /\ a \in Nat
      BY <1>1, <2>2
    <3> HIDE DEF a, b
    <3>2. l <= b /\ a < l
      BY <1>0, <1>1, <1>3, <3>1
    <3> QED
      BY <3>2 DEF a, b
  <2> QED
    BY <2>1, <2>3
<1>4. CASE ~(r > 0)
  <2>1. NumChunks(l) = q /\ l = q * ChunkSize
    <3>1. NumChunks(l) = q /\ r = 0
      BY <1>1, <1>2, <1>4
    <3>2. q * ChunkSize \in Nat
      BY <1>1, Times
    <3> QED
      BY <1>1, <3>1, <3>2
  <2>2. (q - 1) * ChunkSize < l /\ l <= l
    <3>1. (q - 1) * ChunkSize = q * ChunkSize - ChunkSize
      <4>1. q \in Int /\ 1 \in Int
        BY <1>1
      <4> QED
        BY <4>1, Times
    <3> DEFINE a == q * ChunkSize
    <3>2. l = a /\ (q - 1) * ChunkSize = a - ChunkSize
      BY <2>1, <3>1
    <3> HIDE DEF a
    <3> QED
      BY <1>0, <3>2
  <2> QED
    BY <1>1, <2>1, <2>2
<1> QED
  BY <1>1, <1>3, <1>4

\* All readers.
ReadersInv == DOMAIN reader = Readers /\ \A r \in Readers : ReaderType(reader[r])

\* They are of their types when they are closed.
LEMMA ReadersInit == Init => ReadersInv
<1> SUFFICES ASSUME Init, NEW r \in Readers
             PROVE  DOMAIN reader = Readers /\ ReaderType(reader[r])
  BY DEF ReadersInv, Init
<1>1. reader[r] = [pc |-> "closed", file |-> NoFile, length |-> 0, pos |-> 0, from |-> 0,
                   size |-> 0, bytes_left |-> 0, todo |-> 0, got |-> <<>>,
                   cursor |-> NoCursor, calls |-> 0]
  BY DEF Init
<1>2. NoCursor \in CursorRecord /\ <<>> \in Data
  BY DEF NoCursor, CursorRecord, Data
<1>3. 0 \in 0..MaxReads
  BY FileBoundsAssumption
<1>4. reader[r] \in ReaderRecord
  BY <1>1, <1>2, <1>3 DEF ReaderRecord
<1> QED
  BY <1>1, <1>4 DEF ReaderType, Init

\* A call that returns to the application.
LEMMA ReturnsType ==
  ASSUME NEW g \in ReaderRecord, g.pos <= g.length, g.file \in Files
  PROVE  /\ ReaderType(Returns(g))
         /\ Returns(g).pc = "idle" /\ Returns(g).file = g.file /\ Returns(g).length = g.length
         /\ Returns(g).pos = g.pos /\ Returns(g).from = g.from /\ Returns(g).size = g.size
         /\ Returns(g).got = g.got
<1> DEFINE v == Returns(g)
<1>1. NoCursor \in CursorRecord
  BY DEF NoCursor, CursorRecord
<1>2. /\ v \in ReaderRecord /\ v.pc = "idle" /\ v.file = g.file /\ v.length = g.length
      /\ v.pos = g.pos /\ v.from = g.from /\ v.size = g.size /\ v.got = g.got
  BY <1>1 DEF Returns, ReaderRecord
<1> HIDE DEF v
<1>3. ReaderType(v)
  BY <1>2 DEF ReaderType
<1> QED
  BY <1>2, <1>3 DEF v

\* Fewer chunks, fewer bytes.
LEMMA FewerChunks ==
  ASSUME NEW m \in Int, NEW n \in Int
  PROVE  /\ m * ChunkSize < n * ChunkSize => m < n
         /\ m * ChunkSize <= n * ChunkSize => m <= n
         /\ (m + 1) * ChunkSize = m * ChunkSize + ChunkSize /\ m * ChunkSize \in Int
<1> DEFINE a == m * ChunkSize
           b == n * ChunkSize
<1>0. ChunkSize \in Nat /\ ChunkSize > 0
  BY ChunksAssumption
<1>1. a \in Int /\ b \in Int /\ (n <= m => b <= a)
  BY Times, Zenon
<1>2. (m + 1) * ChunkSize = a + ChunkSize
  <2>1. 1 \in Int
    OBVIOUS
  <2>2. (m + 1) * ChunkSize = a + 1 * ChunkSize
    BY <2>1, Times, Zenon
  <2>3. 1 * ChunkSize = ChunkSize
    BY Times
  <2> QED
    BY <2>2, <2>3, Zenon
<1>3. m + 1 <= n => (m + 1) * ChunkSize <= b
  <2>1. m + 1 \in Int
    OBVIOUS
  <2> QED
    BY <2>1, Times, Zenon
<1>4. m < n \/ n <= m
  OBVIOUS
<1>5. n < m => n + 1 <= m
  OBVIOUS
<1>6. n + 1 <= m => b + ChunkSize <= a
  <2>1. n + 1 \in Int /\ 1 \in Int
    OBVIOUS
  <2>2. n + 1 <= m => (n + 1) * ChunkSize <= a
    BY <2>1, Times, Zenon
  <2>3. (n + 1) * ChunkSize = b + ChunkSize
    <3>1. (n + 1) * ChunkSize = b + 1 * ChunkSize
      BY <2>1, Times, Zenon
    <3>2. 1 * ChunkSize = ChunkSize
      BY Times
    <3> QED
      BY <3>1, <3>2, Zenon
  <2> QED
    BY <2>2, <2>3
<1> HIDE DEF a, b
<1>7. a < b => m < n
  BY <1>1, <1>4
<1>8. a <= b => m <= n
  BY <1>0, <1>1, <1>5, <1>6
<1> QED
  BY <1>1, <1>2, <1>7, <1>8 DEF a, b

\* The chunks from the first to the last byte of a read: none only if it reads nothing.
LEMMA LastChunkIs ==
  ASSUME NEW pos \in Nat, NEW size \in Nat
  PROVE  LET first == pos \div ChunkSize
             last == LastChunk(pos, size)
         IN  /\ first \in Nat /\ last \in Int /\ last - first + 1 \in Nat
             /\ last - first + 1 = 0 => size = 0
             /\ last - first + 1 > 0 => /\ last \in Nat /\ first <= last
                                        /\ last * ChunkSize < pos + size
                                        /\ pos + size <= (last + 1) * ChunkSize
             /\ first * ChunkSize + (pos % ChunkSize) = pos
             /\ pos % ChunkSize \in Nat /\ pos < (first + 1) * ChunkSize
<1> DEFINE first == pos \div ChunkSize
           last == LastChunk(pos, size)
           skip == pos % ChunkSize
           e == pos + size - 1
<1>0. ChunkSize \in Nat /\ ChunkSize > 0
  BY ChunksAssumption
<1>1. first \in Nat /\ skip \in 0..(ChunkSize - 1) /\ pos = first * ChunkSize + skip
  BY DivMod
<1> HIDE DEF first, skip
<1>2. (first + 1) * ChunkSize = first * ChunkSize + ChunkSize /\ first * ChunkSize \in Int
  BY <1>1, FewerChunks
<1>3. /\ first * ChunkSize + skip = pos /\ skip \in Nat
      /\ pos < (first + 1) * ChunkSize /\ first * ChunkSize <= pos
  <2> DEFINE a == first * ChunkSize
             b == (first + 1) * ChunkSize
  <2>1. a \in Int /\ b = a + ChunkSize /\ pos = a + skip
    BY <1>1, <1>2
  <2> HIDE DEF a, b
  <2>2. a + skip = pos /\ skip \in Nat /\ pos < b /\ a <= pos
    BY <1>0, <1>1, <2>1
  <2> QED
    BY <2>2 DEF a, b
<1>4. CASE pos + size = 0
  <2>1. pos = 0 /\ size = 0 /\ last = -1
    BY <1>4 DEF LastChunk
  <2>2. first = 0
    <3>1. first * ChunkSize <= 0 * ChunkSize
      BY <1>3, <2>1, Times
    <3>2. 0 \in Int /\ first \in Int
      BY <1>1
    <3>3. first <= 0
      BY <3>1, <3>2, FewerChunks
    <3> QED
      BY <1>1, <3>3
  <2>3. last \in Int /\ last - first + 1 = 0
    BY <2>1, <2>2
  <2> HIDE DEF last
  <2> QED
    BY <1>1, <1>3, <2>1, <2>3 DEF first, last, skip
<1>5. CASE pos + size # 0
  <2>1. e \in Nat /\ last = e \div ChunkSize /\ e + 1 = pos + size
    BY <1>5 DEF LastChunk
  <2> HIDE DEF last, e
  <2>2. last \in Nat /\ e % ChunkSize \in 0..(ChunkSize - 1)
        /\ e = last * ChunkSize + (e % ChunkSize)
    BY <2>1, DivMod
  <2>3. (last + 1) * ChunkSize = last * ChunkSize + ChunkSize /\ last * ChunkSize \in Int
    BY <2>2, FewerChunks
  <2> DEFINE a == last * ChunkSize
             b == (last + 1) * ChunkSize
  <2>4. a \in Int /\ b = a + ChunkSize /\ a <= e /\ e < b
    <3> DEFINE m == e % ChunkSize
    <3>1. m \in 0..(ChunkSize - 1) /\ e = a + m /\ a \in Int /\ b = a + ChunkSize
      BY <2>2, <2>3
    <3> HIDE DEF a, b, m
    <3> QED
      BY <1>0, <3>1
  <2>5. first * ChunkSize <= b
    <3> DEFINE c == first * ChunkSize
    <3>1. c <= pos /\ c \in Int
      BY <1>2, <1>3
    <3> HIDE DEF a, b, c
    <3>2. c <= b
      BY <1>0, <2>1, <2>4, <3>1
    <3> QED
      BY <3>2 DEF c
  <2>6. first <= last + 1
    <3>1. last + 1 \in Int /\ first \in Int
      BY <1>1, <2>2
    <3> QED
      BY <2>5, <3>1, FewerChunks
  <2>7. first = last + 1 => size = 0
    <3>1. first = last + 1 => b <= pos
      BY <1>3
    <3> HIDE DEF b, a
    <3> QED
      BY <1>0, <2>1, <2>4, <3>1
  <2>8. a < pos + size /\ pos + size <= b
    <3> HIDE DEF a, b
    <3> QED
      BY <1>0, <2>1, <2>4
  <2>9. last - first + 1 = 0 => first = last + 1
    BY <1>1, <2>2
  <2>10. last - first + 1 > 0 => first <= last
    BY <1>1, <2>2
  <2>11. last \in Int /\ last - first + 1 \in Nat
    BY <1>1, <2>2, <2>6
  <2> QED
    BY <1>1, <1>3, <2>2, <2>7, <2>8, <2>9, <2>10, <2>11 DEF first, last, skip
<1> QED
  BY <1>4, <1>5

\* What Read does, in the terms of the other lemmas.
LEMMA ReadIs ==
  ASSUME ReadersInv, NEW r \in Readers, NEW asked \in Sizes, Read(r, asked)
  PROVE  LET g == reader[r]
             size == ReadSize(g, asked)
             first == g.pos \div ChunkSize
             total == LastChunk(g.pos, size) - first + 1
         IN  /\ g.pc = "idle" /\ g \in ReaderRecord /\ g.file \in Files
             /\ size \in Nat /\ g.pos + size <= g.length /\ first \in Nat /\ total \in Nat
             /\ \/ reader' = [reader EXCEPT ![r].pc = "cut"]
                \/ \E called \in ReaderRecord :
                     /\ called.pc = "read" /\ called.file = g.file
                     /\ called.length = g.length /\ called.pos = g.pos /\ called.from = g.pos
                     /\ called.size = size /\ called.todo = total
                     /\ called.bytes_left = size /\ called.got = <<>>
                     /\ \/ total = 0 /\ reader' = [reader EXCEPT ![r] = Returns(called)]
                        \/ total > 0 /\ \E c \in Batches(g.file, first, total, total = 1) :
                             reader' = [reader EXCEPT ![r] = [called EXCEPT !.cursor = c]]
<1> DEFINE g == reader[r]
           size == ReadSize(g, asked)
           first == g.pos \div ChunkSize
           total == LastChunk(g.pos, size) - first + 1
           called == [g EXCEPT !.pc = "read", !.from = g.pos, !.size = size, !.todo = total,
                               !.bytes_left = size, !.got = <<>>, !.calls = g.calls + 1]
<1>1. /\ g \in ReaderRecord /\ g.pos \in Nat /\ g.length \in Nat /\ g.pos <= g.length
      /\ g.calls \in 0..MaxReads
  BY DEF ReadersInv, ReaderType, ReaderRecord
<1>2. g.pc = "idle" /\ g.calls < MaxReads /\ g.file \in Files
  BY DEF Read, CanCall, ReadersInv, ReaderType
<1>3. size \in Nat /\ g.pos + size <= g.length
  <2>1. asked \in Nat
    BY ChunksAssumption
  <2> HIDE DEF g
  <2> QED
    BY <1>1, <2>1 DEF ReadSize
<1>4. first \in Nat /\ total \in Nat
  <2> HIDE DEF g, size
  <2> QED
    BY <1>1, <1>3, LastChunkIs
<1>5. \/ total <= 0 /\ reader' = [reader EXCEPT ![r] = Returns(called)]
      \/ total > 0 /\ \E c \in Batches(g.file, first, total, total = 1) :
                         reader' = [reader EXCEPT ![r] = [called EXCEPT !.cursor = c]]
      \/ reader' = [reader EXCEPT ![r].pc = "cut"]
  BY DEF Read
<1> HIDE DEF g, size, first, total
<1>6. /\ called.pc = "read" /\ called.file = g.file /\ called.length = g.length
      /\ called.pos = g.pos /\ called.from = g.pos /\ called.size = size
      /\ called.todo = total /\ called.bytes_left = size /\ called.got = <<>>
      /\ called \in ReaderRecord
  <2>1. g.calls + 1 \in 0..MaxReads /\ <<>> \in Data
    BY <1>1, <1>2, FileBoundsAssumption DEF Data
  <2> QED
    BY <1>1, <1>3, <1>4, <2>1 DEF ReaderRecord
<1> HIDE DEF called
<1>7. total <= 0 <=> total = 0
  BY <1>4
<1> QED
  BY <1>1, <1>2, <1>3, <1>4, <1>5, <1>6, <1>7 DEF g, size, first, total

\* A chunk is taken from a batch.
LEMMA TakenIs ==
  ASSUME NEW c \in CursorRecord, c.batch # <<>>
  PROVE  LET d == [c EXCEPT !.batch = Tail(@)]
         IN  /\ d \in CursorRecord /\ d.batch = Tail(c.batch) /\ d.next = c.next
             /\ d.open = c.open /\ Head(c.batch) \in Data /\ Head(c.batch) = c.batch[1]
             /\ Len(c.batch) \in Nat /\ Len(d.batch) = Len(c.batch) - 1
             /\ \A i \in 1..(Len(c.batch) - 1) : d.batch[i] = c.batch[i + 1]
<1> DEFINE b == c.batch
           d == [c EXCEPT !.batch = Tail(b)]
<1>1. b \in Seq(Data) /\ b # <<>>
  BY DEF CursorRecord
<1> HIDE DEF b
<1>2. /\ Tail(b) \in Seq(Data) /\ Head(b) \in Data /\ Head(b) = b[1] /\ Len(b) \in Nat
      /\ Len(Tail(b)) = Len(b) - 1
      /\ \A i \in 1..(Len(b) - 1) : Tail(b)[i] = b[i + 1]
  BY <1>1, HeadAndTail
<1>3. d \in CursorRecord /\ d.batch = Tail(b) /\ d.next = c.next /\ d.open = c.open
  BY <1>2 DEF CursorRecord
<1> QED
  BY <1>2, <1>3 DEF b

\* What a round of the loop of gridfile_read does.
LEMMA NextChunkIs ==
  ASSUME Inv, FilesInv, ReadersInv, NEW r \in Readers, NextChunk(r)
  PROVE  LET g == reader[r]
         IN  /\ g.pc = "read" /\ ReaderType(g)
             /\ \/ \E pc \in {"cut", "crashed"} : reader' = [reader EXCEPT ![r].pc = pc]
                \/ \E c \in CursorRecord, data \in Data :
                     Len(data) >= Skip(g) /\ reader' = [reader EXCEPT ![r] = Copied(g, c, data)]
<1> DEFINE g == reader[r]
<1>1. ReaderType(g) /\ g.pc = "read" /\ g.file \in Files
  BY DEF ReadersInv, ReaderType, NextChunk
<1>2. g.cursor \in CursorRecord /\ g.todo \in Nat /\ g \in ReaderRecord
  BY <1>1 DEF ReaderType, ReaderRecord
<1>3. ASSUME NEW c \in CursorRecord, NEW data \in Data,
             reader' = [reader EXCEPT ![r] = Copied(g, c, data)]
      PROVE  \/ \E pc \in {"cut", "crashed"} : reader' = [reader EXCEPT ![r].pc = pc]
             \/ \E d \in CursorRecord, x \in Data :
                  Len(x) >= Skip(g) /\ reader' = [reader EXCEPT ![r] = Copied(g, d, x)]
  <2>1. CASE Len(data) >= Skip(g)
    BY <1>3, <2>1
  <2>2. CASE ~(Len(data) >= Skip(g))
    <3>1. Skip(g) \in Nat /\ Len(data) \in Nat
      <4>1. g.pos \in Nat
        BY <1>2 DEF ReaderRecord
      <4>2. g.pos % ChunkSize \in 0..(ChunkSize - 1)
        BY <4>1, DivMod
      <4> QED
        BY <4>2, ChunksAssumption DEF Skip, Data
    <3>2. Len(data) < Skip(g)
      BY <2>2, <3>1
    <3>3. Copied(g, c, data) = [g EXCEPT !.pc = "crashed"]
      <4> DEFINE rest == SubSeq(data, Skip(g) + 1, Len(data))
                 all == g.bytes_left > Len(rest)
                 done == SubSeq(g.got, 1, g.size - g.bytes_left)
                 after == [g EXCEPT !.cursor = [c EXCEPT !.current = data],
                                    !.todo = @ - 1,
                                    !.bytes_left = IF all THEN @ - Len(rest) ELSE @,
                                    !.got = done \o IF all THEN rest
                                                    ELSE SubSeq(rest, 1, g.bytes_left)]
                 ended == Returns([after EXCEPT !.pos = @ + g.size])
                 v == Copied(g, c, data)
                 gone == [g EXCEPT !.pc = "crashed"]
      <4>1. v = CASE Len(data) < Skip(g) -> gone
                  [] Len(data) >= Skip(g) /\ g.todo > 1 -> after
                  [] OTHER -> ended
        BY DEF Copied, Skip
      <4> HIDE DEF v, after, ended, gone
      <4>2. ~(Len(data) >= Skip(g))
        BY <2>2
      <4>3. v = gone
        BY <3>2, <4>1, <4>2
      <4> QED
        BY <4>3 DEF v, gone
    <3> QED
      BY <1>3, <3>3
  <2> QED
    BY <2>1, <2>2
<1>4. ASSUME NEW c \in CursorRecord, c.batch # <<>>,
             reader' = [reader EXCEPT ![r] =
                          Copied(g, [c EXCEPT !.batch = Tail(@)], Head(c.batch))]
      PROVE  \/ \E pc \in {"cut", "crashed"} : reader' = [reader EXCEPT ![r].pc = pc]
             \/ \E d \in CursorRecord, x \in Data :
                  Len(x) >= Skip(g) /\ reader' = [reader EXCEPT ![r] = Copied(g, d, x)]
  <2>1. [c EXCEPT !.batch = Tail(@)] \in CursorRecord /\ Head(c.batch) \in Data
    BY <1>4, TakenIs
  <2> QED
    BY <1>3, <1>4, <2>1
<1>5. ASSUME NEW d \in Batches(g.file, g.cursor.next, g.todo, FALSE)
      PROVE  d \in CursorRecord
  <2>1. g.cursor.next \in Nat
    BY <1>2 DEF CursorRecord
  <2>2. /\ DOMAIN chunks[g.file] \in SUBSET Nat /\ IsFiniteSet(DOMAIN chunks[g.file])
        /\ \A k \in DOMAIN chunks[g.file] : chunks[g.file][k] \in Data
    BY <1>1, ChunksType
  <2> HIDE DEF g
  <2> QED
    BY <1>2, <2>1, <2>2, BatchesType
<1>6. ASSUME g.cursor.current # NoData, g.cursor.batch = <<>>,
             reader' = [reader EXCEPT ![r] = Copied(g, g.cursor, g.cursor.current)]
      PROVE  \/ \E pc \in {"cut", "crashed"} : reader' = [reader EXCEPT ![r].pc = pc]
             \/ \E d \in CursorRecord, x \in Data :
                  Len(x) >= Skip(g) /\ reader' = [reader EXCEPT ![r] = Copied(g, d, x)]
  <2>1. g.cursor.current \in Data
    BY <1>2, <1>6 DEF CursorRecord
  <2> QED
    BY <1>2, <1>3, <1>6, <2>1
<1>7. \/ /\ g.cursor.batch # <<>>
         /\ reader' = [reader EXCEPT ![r] =
              Copied(g, [g.cursor EXCEPT !.batch = Tail(@)], Head(g.cursor.batch))]
      \/ \E d \in Batches(g.file, g.cursor.next, g.todo, FALSE) :
           /\ d.batch # <<>>
           /\ reader' = [reader EXCEPT ![r] =
                Copied(g, [d EXCEPT !.batch = Tail(@)], Head(d.batch))]
      \/ \E pc \in {"cut", "crashed"} : reader' = [reader EXCEPT ![r].pc = pc]
      \/ /\ g.cursor.current # NoData /\ g.cursor.batch = <<>>
         /\ reader' = [reader EXCEPT ![r] = Copied(g, g.cursor, g.cursor.current)]
  BY DEF NextChunk
<1> HIDE DEF g
<1>8. \/ \E pc \in {"cut", "crashed"} : reader' = [reader EXCEPT ![r].pc = pc]
      \/ \E d \in CursorRecord, x \in Data :
           Len(x) >= Skip(g) /\ reader' = [reader EXCEPT ![r] = Copied(g, d, x)]
  BY <1>2, <1>4, <1>5, <1>6, <1>7
<1> QED
  BY <1>1, <1>8 DEF g

\* Every step of a reader keeps its type.
LEMMA ReaderTypeStep ==
  ASSUME Inv, FilesInv, ReadersInv, NEW r \in Readers,
         \/ \E f \in Files : Open(r, f)
         \/ \E k \in Sizes : Seek(r, k) \/ Read(r, k)
         \/ NextChunk(r) \/ WriteFile(r) \/ GetChunk(r)
  PROVE  ReaderType(reader'[r]) /\ reader' = [reader EXCEPT ![r] = reader'[r]]
<1> DEFINE g == reader[r]
           v == reader'[r]
<1>1. /\ ReaderType(g) /\ g \in ReaderRecord /\ g.pos \in Nat /\ g.length \in Nat
      /\ g.pos <= g.length /\ g.todo \in Nat /\ g.got \in Data /\ g.calls \in 0..MaxReads
      /\ r \in DOMAIN reader
  BY DEF ReadersInv, ReaderType, ReaderRecord
<1>A. ASSUME NEW u, reader' = [reader EXCEPT ![r] = u]
      PROVE  v = u /\ reader' = [reader EXCEPT ![r] = reader'[r]]
  <2>1. v = u
    BY <1>1, <1>A
  <2> QED
    BY <1>A, <2>1
<1>B. <<>> \in Data /\ \A n \in 0..MaxReads : n < MaxReads => n + 1 \in 0..MaxReads
  BY FileBoundsAssumption DEF Data
<1>2. ASSUME NEW pc \in {"cut", "crashed"}, reader' = [reader EXCEPT ![r].pc = pc],
             g.file \in Files
      PROVE  ReaderType(v) /\ reader' = [reader EXCEPT ![r] = reader'[r]]
  <2>1. v = [g EXCEPT !.pc = pc] /\ reader' = [reader EXCEPT ![r] = reader'[r]]
    BY <1>2, <1>A
  <2> HIDE DEF g, v
  <2> QED
    BY <1>1, <1>2, <2>1 DEF ReaderType, ReaderRecord
<1>3. ASSUME NEW f \in Files, Open(r, f)
      PROVE  ReaderType(v) /\ reader' = [reader EXCEPT ![r] = reader'[r]]
  <2>1. docs[f] \in Nat
    BY <1>3 DEF Open, FilesInv, FileLaid, Inv, WritersInv, WriterInv, WriterRecord
  <2>2. g.pc = "closed"
    BY <1>3 DEF Open
  <2>3. reader' = [reader EXCEPT ![r] = [g EXCEPT !.pc = "idle", !.file = f, !.length = docs[f]]]
    BY <1>3 DEF Open
  <2>4. g.pos = 0
    BY <1>1, <2>2 DEF ReaderType
  <2>5. v = [g EXCEPT !.pc = "idle", !.file = f, !.length = docs[f]]
        /\ reader' = [reader EXCEPT ![r] = reader'[r]]
    BY <2>3, <1>A
  <2> DEFINE l == docs[f]
  <2> HIDE DEF g, v, l
  <2>6. /\ v \in ReaderRecord /\ v.pc = "idle" /\ v.pos = g.pos /\ v.length = l /\ v.file = f
    BY <1>1, <2>1, <2>5 DEF ReaderRecord, l
  <2>7. v.pos <= v.length
    BY <2>1, <2>4, <2>6 DEF l
  <2>8. ReaderType(v)
    BY <2>6, <2>7 DEF ReaderType
  <2> QED
    BY <2>5, <2>8
<1>4. ASSUME NEW k \in Sizes, Seek(r, k)
      PROVE  ReaderType(v) /\ reader' = [reader EXCEPT ![r] = reader'[r]]
  <2>1. g.pc = "idle" /\ g.calls < MaxReads
    BY <1>4 DEF Seek, CanCall
  <2>2. SeekTo(g, k) \in Nat /\ SeekTo(g, k) <= g.length
    <3>1. k \in Nat
      BY ChunksAssumption
    <3> HIDE DEF g
    <3> QED
      BY <1>1, <3>1 DEF SeekTo
  <2>3. reader' = [reader EXCEPT ![r] = [g EXCEPT !.pos = SeekTo(g, k), !.from = 0, !.size = 0,
                                                  !.got = <<>>, !.calls = g.calls + 1]]
    BY <1>4 DEF Seek
  <2>4. v = [g EXCEPT !.pos = SeekTo(g, k), !.from = 0, !.size = 0,
                      !.got = <<>>, !.calls = g.calls + 1]
        /\ reader' = [reader EXCEPT ![r] = reader'[r]]
    BY <2>3, <1>A
  <2>5. g.calls + 1 \in 0..MaxReads
    BY <1>1, <1>B, <2>1
  <2> DEFINE pos == SeekTo(g, k)
  <2> HIDE DEF g, v, pos
  <2>6. /\ v \in ReaderRecord /\ v.pc = "idle" /\ v.pos = pos /\ v.length = g.length
        /\ v.file = g.file
    BY <1>1, <1>B, <2>1, <2>2, <2>4, <2>5 DEF ReaderRecord, pos
  <2> QED
    BY <1>1, <2>1, <2>2, <2>4, <2>6 DEF ReaderType, pos
<1>5. ASSUME NEW k \in Sizes, Read(r, k)
      PROVE  ReaderType(v) /\ reader' = [reader EXCEPT ![r] = reader'[r]]
  <2> DEFINE size == ReadSize(g, k)
             first == g.pos \div ChunkSize
             total == LastChunk(g.pos, size) - first + 1
  <2>1. /\ g.file \in Files
        /\ size \in Nat /\ g.pos + size <= g.length /\ first \in Nat /\ total \in Nat
        /\ \/ reader' = [reader EXCEPT ![r].pc = "cut"]
           \/ \E called \in ReaderRecord :
                /\ called.pc = "read" /\ called.file = g.file
                /\ called.length = g.length /\ called.pos = g.pos /\ called.from = g.pos
                /\ called.size = size /\ called.todo = total
                /\ called.bytes_left = size /\ called.got = <<>>
                /\ \/ total = 0 /\ reader' = [reader EXCEPT ![r] = Returns(called)]
                   \/ total > 0 /\ \E c \in Batches(g.file, first, total, total = 1) :
                        reader' = [reader EXCEPT ![r] = [called EXCEPT !.cursor = c]]
    BY <1>5, ReadIs
  <2> HIDE DEF size, first, total
  <2>2. ASSUME NEW called \in ReaderRecord, called.file = g.file, called.pos = g.pos,
               called.length = g.length, reader' = [reader EXCEPT ![r] = Returns(called)]
        PROVE  ReaderType(v) /\ reader' = [reader EXCEPT ![r] = reader'[r]]
    <3>1. ReaderType(Returns(called))
      BY <1>1, <2>1, <2>2, ReturnsType
    <3> QED
      BY <1>A, <2>2, <3>1
  <2>3. ASSUME NEW called \in ReaderRecord, called.pc = "read", called.file = g.file,
               called.length = g.length, called.pos = g.pos,
               called.size = size, called.todo = total, called.bytes_left = size,
               called.got = <<>>, total > 0,
               NEW c \in Batches(g.file, first, total, total = 1),
               reader' = [reader EXCEPT ![r] = [called EXCEPT !.cursor = c]]
        PROVE  ReaderType(v) /\ reader' = [reader EXCEPT ![r] = reader'[r]]
    <3>1. c \in CursorRecord
      <4>1. /\ DOMAIN chunks[g.file] \in SUBSET Nat /\ IsFiniteSet(DOMAIN chunks[g.file])
            /\ \A i \in DOMAIN chunks[g.file] : chunks[g.file][i] \in Data
        BY <2>1, ChunksType
      <4> HIDE DEF g
      <4> QED
        BY <2>1, <2>3, <4>1, BatchesType
    <3>2. v = [called EXCEPT !.cursor = c] /\ reader' = [reader EXCEPT ![r] = reader'[r]]
      BY <1>A, <2>3
    <3> HIDE DEF g, v
    <3>3. /\ v \in ReaderRecord /\ v.pc = "read" /\ v.file = g.file /\ v.length = g.length
          /\ v.pos = g.pos /\ v.size = size /\ v.todo = total /\ v.bytes_left = size
          /\ v.got = <<>>
      BY <2>3, <3>1, <3>2 DEF ReaderRecord
    <3>4. total >= 1 /\ size <= size /\ size - size <= Len(<<>>)
      BY <2>1, <2>3
    <3> QED
      BY <1>1, <2>1, <3>2, <3>3, <3>4 DEF ReaderType
  <2> HIDE DEF g, v
  <2> QED
    BY <1>2, <2>1, <2>2, <2>3 DEF g
<1>6. ASSUME NextChunk(r)
      PROVE  ReaderType(v) /\ reader' = [reader EXCEPT ![r] = reader'[r]]
  <2>1. /\ g.pc = "read"
        /\ \/ \E pc \in {"cut", "crashed"} : reader' = [reader EXCEPT ![r].pc = pc]
           \/ \E c \in CursorRecord, data \in Data :
                Len(data) >= Skip(g) /\ reader' = [reader EXCEPT ![r] = Copied(g, c, data)]
    BY <1>6, NextChunkIs
  <2>2. g.file \in Files
    BY <1>1, <2>1 DEF ReaderType
  <2>3. ASSUME NEW c \in CursorRecord, NEW data \in Data, Len(data) >= Skip(g),
               reader' = [reader EXCEPT ![r] = Copied(g, c, data)]
        PROVE  ReaderType(v) /\ reader' = [reader EXCEPT ![r] = reader'[r]]
    <3>1. ReaderType(Copied(g, c, data))
      <4> HIDE DEF g
      <4> QED
        BY <1>1, <2>1, <2>3, CopiedIs
    <3> QED
      BY <1>A, <2>3, <3>1
  <2> HIDE DEF v
  <2> QED
    BY <1>2, <2>1, <2>2, <2>3
<1>7. ASSUME WriteFile(r)
      PROVE  ReaderType(v) /\ reader' = [reader EXCEPT ![r] = reader'[r]]
  <2> DEFINE n == NumChunks(g.length)
             called == [g EXCEPT !.pc = "write_file", !.from = 0, !.size = g.length,
                                 !.todo = n, !.got = <<>>, !.calls = g.calls + 1]
  <2>1. g.pc = "idle" /\ g.calls < MaxReads /\ g.file \in Files
    BY <1>1, <1>7 DEF WriteFile, CanCall, ReaderType
  <2>2. n \in Nat
    BY <1>1, NumChunksType
  <2>3. g.calls + 1 \in 0..MaxReads
    BY <1>1, <1>B, <2>1
  <2>4. reader' = [reader EXCEPT ![r] = IF called.todo = 0 THEN Returns(called) ELSE called]
    BY <1>7 DEF WriteFile
  <2>5. v = (IF called.todo = 0 THEN Returns(called) ELSE called)
        /\ reader' = [reader EXCEPT ![r] = reader'[r]]
    BY <1>A, <2>4
  <2> HIDE DEF g, v, n
  <2>6. /\ called \in ReaderRecord /\ called.pc = "write_file" /\ called.file = g.file
        /\ called.length = g.length /\ called.pos = g.pos /\ called.todo = n
    BY <1>1, <1>B, <2>1, <2>2, <2>3 DEF ReaderRecord
  <2> HIDE DEF called
  <2>7. CASE n = 0
    <3>1. v = Returns(called)
      BY <2>5, <2>6, <2>7
    <3> QED
      BY <1>1, <2>1, <2>5, <2>6, <3>1, ReturnsType
  <2>8. CASE n # 0
    <3>1. v = called /\ n >= 1
      BY <2>2, <2>5, <2>6, <2>8
    <3> QED
      BY <1>1, <2>1, <2>5, <2>6, <3>1 DEF ReaderType
  <2> QED
    BY <2>7, <2>8
<1>8. ASSUME GetChunk(r)
      PROVE  ReaderType(v) /\ reader' = [reader EXCEPT ![r] = reader'[r]]
  <2> DEFINE n == NumChunks(g.length) - g.todo
             got == g.got \o chunks[g.file][n]
             after == [g EXCEPT !.todo = g.todo - 1, !.got = got]
  <2>1. g.pc = "write_file" /\ g.file \in Files /\ g.todo >= 1
    BY <1>1, <1>8 DEF GetChunk, ReaderType
  <2>2. \/ \E pc \in {"cut", "crashed"} : reader' = [reader EXCEPT ![r].pc = pc]
        \/ /\ n \in DOMAIN chunks[g.file]
           /\ reader' = [reader EXCEPT ![r] = IF g.todo > 1 THEN after ELSE Returns(after)]
    BY <1>8 DEF GetChunk
  <2>3. CASE \E pc \in {"cut", "crashed"} : reader' = [reader EXCEPT ![r].pc = pc]
    BY <1>2, <2>1, <2>3
  <2>4. CASE /\ n \in DOMAIN chunks[g.file]
             /\ reader' = [reader EXCEPT ![r] = IF g.todo > 1 THEN after ELSE Returns(after)]
    <3>1. v = (IF g.todo > 1 THEN after ELSE Returns(after))
          /\ reader' = [reader EXCEPT ![r] = reader'[r]]
      BY <1>A, <2>4
    <3>2. chunks[g.file][n] \in Data
      BY <2>1, <2>4, ChunksType
    <3>3. got \in Data
      BY <1>1, <3>2, Joined
    <3> HIDE DEF g, v, got
    <3>4. g.todo - 1 \in Nat
      BY <1>1, <2>1
    <3>5. /\ after \in ReaderRecord /\ after.pc = "write_file" /\ after.file = g.file
          /\ after.length = g.length /\ after.pos = g.pos /\ after.todo = g.todo - 1
      BY <1>1, <2>1, <3>3, <3>4 DEF ReaderRecord
    <3> HIDE DEF after
    <3>6. CASE g.todo > 1
      <4>1. v = after /\ g.todo - 1 >= 1
        BY <1>1, <3>1, <3>6
      <4> QED
        BY <1>1, <2>1, <3>1, <3>5, <4>1 DEF ReaderType
    <3>7. CASE ~(g.todo > 1)
      <4>1. v = Returns(after)
        BY <3>1, <3>7
      <4> QED
        BY <1>1, <2>1, <3>1, <3>5, <4>1, ReturnsType
    <3> QED
      BY <3>6, <3>7
  <2> QED
    BY <2>2, <2>3, <2>4
<1> HIDE DEF v, g
<1> QED
  BY <1>3, <1>4, <1>5, <1>6, <1>7, <1>8 DEF v

\* The steps of anybody else leave the readers alone.
LEMMA OthersReadNot ==
  ASSUME \/ \E f \in Files :
              \/ \E k \in Sizes : StoreBuffer(f, k) \/ StoreFile(f, k) \/ WriteBuffer(f, k)
              \/ WriterInit(f) \/ WriterDone(f) \/ StoreFileFails(f)
              \/ InsertChunk(f) \/ RunMd5(f) \/ InsertDoc(f) \/ WriterDies(f)
         \/ \E x \in Removers :
              \/ \E name \in Range(NameOf) : RemoveFilename(x, name)
              \/ RemoveDoc(x) \/ RemoveChunks(x) \/ RemoverDies(x)
         \/ \E a \in Actors : LinkBreaks(a) \/ Reconnect(a)
         \/ UNCHANGED vars
  PROVE  reader' = reader
<1>1. ASSUME NEW f \in Files,
             \/ \E k \in Sizes : StoreBuffer(f, k) \/ StoreFile(f, k) \/ WriteBuffer(f, k)
             \/ WriterInit(f) \/ WriterDone(f) \/ StoreFileFails(f)
             \/ InsertChunk(f) \/ RunMd5(f) \/ InsertDoc(f) \/ WriterDies(f)
      PROVE  reader' = reader
  BY <1>1 DEF StoreBuffer, StoreFile, WriteBuffer, WriterInit, WriterDone, StoreFileFails,
              InsertChunk, RunMd5, InsertDoc, WriterDies
<1>2. ASSUME NEW x \in Removers,
             \/ \E name \in Range(NameOf) : RemoveFilename(x, name)
             \/ RemoveDoc(x) \/ RemoveChunks(x) \/ RemoverDies(x)
      PROVE  reader' = reader
  BY <1>2 DEF RemoveFilename, RemoveDoc, RemoveChunks, RemoverDies
<1>3. ASSUME NEW a \in Actors, LinkBreaks(a) \/ Reconnect(a)
      PROVE  reader' = reader
  BY <1>3 DEF LinkBreaks, Reconnect
<1>4. CASE UNCHANGED vars
  BY <1>4 DEF vars
<1> QED
  BY <1>1, <1>2, <1>3, <1>4

\* Every step of anybody keeps the types of the readers.
LEMMA ReadersNext == Inv /\ FilesInv /\ ReadersInv /\ [Next]_vars => ReadersInv'
<1> SUFFICES ASSUME Inv, FilesInv, ReadersInv, [Next]_vars PROVE ReadersInv'
  OBVIOUS
<1>1. ASSUME NEW r \in Readers,
             \/ \E f \in Files : Open(r, f)
             \/ \E k \in Sizes : Seek(r, k) \/ Read(r, k)
             \/ NextChunk(r) \/ WriteFile(r) \/ GetChunk(r)
      PROVE  ReadersInv'
  <2>1. ReaderType(reader'[r]) /\ reader' = [reader EXCEPT ![r] = reader'[r]]
    BY <1>1, ReaderTypeStep
  <2>2. DOMAIN reader' = Readers /\ \A p \in Readers : p # r => reader'[p] = reader[p]
    BY <2>1 DEF ReadersInv
  <2>3. \A p \in Readers : ReaderType(reader'[p])
    BY <2>1, <2>2 DEF ReadersInv
  <2> QED
    BY <2>2, <2>3 DEF ReadersInv
<1>2. CASE reader' = reader
  BY <1>2 DEF ReadersInv
<1> QED
  BY <1>1, <1>2, OthersReadNot DEF Next

-----------------------------------------------------------------------------
\* The variables are of the types that their parts have, and the rest of TypeOK.
Typed ==
  /\ docs \in [Files -> Nat \cup {NoDoc}] /\ writer \in [Files -> WriterRecord]
  /\ reader \in [Readers -> ReaderRecord] /\ remover \in [Removers -> RemoverRecord]
  /\ broken \subseteq Actors /\ faults \in 0..MaxFaults
  /\ lossy \subseteq Files /\ touched \subseteq Files /\ botched \subseteq touched

\* They are at first ...
LEMMA TypedInit == Init => Typed
<1> SUFFICES ASSUME Init PROVE Typed
  OBVIOUS
<1>1. docs \in [Files -> Nat \cup {NoDoc}]
  BY DEF Init
<1>2. writer \in [Files -> WriterRecord]
  BY DEF Init, WriterRecord, Data
<1>3. \A r \in Readers : reader[r] \in ReaderRecord
  BY ReadersInit DEF ReadersInv, ReaderType
<1>4. reader \in [Readers -> ReaderRecord]
  BY <1>3 DEF Init
<1>5. remover \in [Removers -> RemoverRecord]
  BY DEF Init, RemoverRecord
<1>6. faults \in 0..MaxFaults
  BY FileBoundsAssumption DEF Init
<1> QED
  BY <1>1, <1>2, <1>4, <1>5, <1>6 DEF Typed, Init

\* ... and remain so.
LEMMA TypedNext ==
  ASSUME Typed, Inv, FilesInv, ReadersInv, Inv', ReadersInv', [Next]_vars
  PROVE  Typed'
<1>1. /\ \A f \in Files : writer'[f] \in WriterRecord /\ wrote[f] \in Nat
      /\ \A r \in Readers : reader'[r] \in ReaderRecord
      /\ \A x \in Removers : remover'[x] \in RemoverRecord
      /\ DOMAIN writer' = Files /\ DOMAIN reader' = Readers /\ DOMAIN remover' = Removers
  BY DEF Inv, Shape, WritersInv, WriterInv, RemoversInv, ReadersInv, ReaderType
<1>2. Fault => faults' \in 0..MaxFaults
  BY FileBoundsAssumption DEF Typed, Fault
<1>3. ASSUME NEW a, Arrives(a) \/ IsLost(a)
      PROVE  faults' \in 0..MaxFaults
  BY <1>2, <1>3 DEF Arrives, IsLost, Typed
<1>4. ASSUME NEW f \in Files,
             \/ \E k \in Sizes : StoreBuffer(f, k) \/ StoreFile(f, k) \/ WriteBuffer(f, k)
             \/ WriterInit(f) \/ WriterDone(f) \/ StoreFileFails(f)
             \/ InsertChunk(f) \/ RunMd5(f) \/ InsertDoc(f) \/ WriterDies(f)
      PROVE  Typed'
  <2>1. writer' \in [Files -> WriterRecord]
    <3>1. \/ \E e : writer' = [writer EXCEPT ![f] = e]
          \/ \E pc, res : writer' = [writer EXCEPT ![f].pc = pc, ![f].res = res]
      BY <1>4 DEF StoreBuffer, StoreFile, WriteBuffer, WriterInit, WriterDone, StoreFileFails,
                  InsertChunk, RunMd5, InsertDoc, WriterDies, Ended
    <3> QED
      BY <1>1, <3>1 DEF Typed
  <2>2. docs' \in [Files -> Nat \cup {NoDoc}]
    <3>1. docs' = docs \/ docs' = [docs EXCEPT ![f] = writer[f].length]
      BY <1>4 DEF StoreBuffer, StoreFile, WriteBuffer, WriterInit, WriterDone, StoreFileFails,
                  InsertChunk, RunMd5, InsertDoc, WriterDies, server
    <3>2. writer[f].length \in Nat
      BY DEF Typed, WriterRecord
    <3> QED
      BY <3>1, <3>2 DEF Typed
  <2>3. /\ UNCHANGED <<reader, remover, broken, touched, botched>>
        /\ lossy' \in {lossy, lossy \cup {f}}
    BY <1>4 DEF StoreBuffer, StoreFile, WriteBuffer, WriterInit, WriterDone, StoreFileFails,
                InsertChunk, RunMd5, InsertDoc, WriterDies, history
  <2>4. faults' \in 0..MaxFaults
    <3>1. faults' = faults \/ Fault \/ Arrives(f) \/ IsLost(f)
      BY <1>4 DEF StoreBuffer, StoreFile, WriteBuffer, WriterInit, WriterDone, StoreFileFails,
                  InsertChunk, RunMd5, InsertDoc, WriterDies
    <3> QED
      BY <1>2, <1>3, <3>1 DEF Typed
  <2> QED
    BY <2>1, <2>2, <2>3, <2>4 DEF Typed
<1>5. ASSUME NEW r \in Readers,
             \/ \E f \in Files : Open(r, f)
             \/ \E k \in Sizes : Seek(r, k) \/ Read(r, k)
             \/ NextChunk(r) \/ WriteFile(r) \/ GetChunk(r)
      PROVE  Typed'
  <2>1. reader' = [reader EXCEPT ![r] = reader'[r]]
    BY <1>5, ReaderTypeStep
  <2>2. reader' \in [Readers -> ReaderRecord]
    BY <1>1, <2>1 DEF Typed
  <2>3. UNCHANGED <<docs, writer, remover, broken, lossy, touched, botched>>
    BY <1>5 DEF Open, Seek, Read, NextChunk, WriteFile, GetChunk, server, history
  <2>4. faults' \in 0..MaxFaults
    <3>1. faults' = faults \/ Arrives(r) \/ IsLost(r)
      BY <1>5 DEF Open, Seek, Read, NextChunk, WriteFile, GetChunk
    <3> QED
      BY <1>3, <3>1 DEF Typed
  <2> QED
    BY <2>2, <2>3, <2>4 DEF Typed
<1>6. ASSUME NEW x \in Removers,
             \/ \E name \in Range(NameOf) : RemoveFilename(x, name)
             \/ RemoveDoc(x) \/ RemoveChunks(x) \/ RemoverDies(x)
      PROVE  Typed'
  <2> DEFINE f == Head(remover[x].todo)
  <2>1. remover' \in [Removers -> RemoverRecord]
    <3>1. \/ \E e : remover' = [remover EXCEPT ![x] = e]
          \/ \E p : remover' = [remover EXCEPT ![x].pc = p]
      BY <1>6 DEF RemoveFilename, RemoveDoc, RemoveChunks, RemoverDies
    <3> QED
      BY <1>1, <3>1 DEF Typed
  <2>2. remover[x].pc \in {"doc", "chunks"} => f \in touched
    BY HeadAndTail DEF Inv, RemoversInv
  <2>3. UNCHANGED <<writer, reader, broken, lossy>>
    BY <1>6 DEF RemoveFilename, RemoveDoc, RemoveChunks, RemoverDies
  <2>4. faults' \in 0..MaxFaults
    <3>1. Fault \/ Arrives(x) \/ IsLost(x)
      BY <1>6 DEF RemoveFilename, RemoveDoc, RemoveChunks, RemoverDies
    <3> QED
      BY <1>2, <1>3, <3>1
  <2>5. touched \subseteq touched' /\ touched' \subseteq Files
    <3>1. touched' = touched \/ \E name : touched' = touched \cup
                                  {h \in Files : NameOf[h] = name /\ docs[h] # NoDoc}
      BY <1>6 DEF RemoveFilename, RemoveDoc, RemoveChunks, RemoverDies
    <3> QED
      BY <3>1 DEF Typed
  <2> HIDE DEF f
  <2>6. botched' \in {botched, botched \cup {f}} /\ (botched' # botched => f \in touched)
    <3>1. \/ botched' = botched
          \/ botched' = botched \cup {f} /\ remover[x].pc \in {"doc", "chunks"}
      BY <1>6 DEF RemoveFilename, RemoveDoc, RemoveChunks, RemoverDies, f
    <3> QED
      BY <2>2, <3>1
  <2>7. docs' \in [Files -> Nat \cup {NoDoc}]
    <3>1. docs' = docs \/ docs' = [docs EXCEPT ![f] = NoDoc]
      BY <1>6 DEF RemoveFilename, RemoveDoc, RemoveChunks, RemoverDies, f, server
    <3> QED
      BY <3>1 DEF Typed
  <2> QED
    BY <2>1, <2>3, <2>4, <2>5, <2>6, <2>7 DEF Typed
<1>7. ASSUME NEW a \in Actors, LinkBreaks(a) \/ Reconnect(a)
      PROVE  Typed'
  <2>1. UNCHANGED <<docs, writer, reader, remover, lossy, touched, botched>>
    BY <1>7 DEF LinkBreaks, Reconnect, server, history
  <2>2. broken' \in {broken \cup {a}, broken \ {a}} /\ (faults' = faults \/ Fault)
    BY <1>7 DEF LinkBreaks, Reconnect
  <2> QED
    BY <1>2, <2>1, <2>2 DEF Typed
<1>8. CASE UNCHANGED vars
  BY <1>8 DEF vars, server, history, Typed
<1> QED
  BY <1>4, <1>5, <1>6, <1>7, <1>8 DEF Next

\* A chunk has at least one byte of room.
LEMMA NoMoreChunksThanBytes == \A m \in Nat : m <= m * ChunkSize
<1>1. ChunkSize \in Nat /\ ChunkSize >= 1
  BY ChunksAssumption
<1> QED
  BY <1>1

\* The variables of GridFile have the types that the module declares: none of the
\* calls, in whatever order and with whatever faults, leaves them.
THEOREM GridTypes == Spec => []TypeOK
<1>1. AllInv /\ ReadersInv /\ Typed => TypeOK
  <2> SUFFICES ASSUME AllInv, ReadersInv, Typed PROVE TypeOK
    OBVIOUS
  <2>1. ASSUME NEW f \in Files
        PROVE  /\ DOMAIN chunks[f] \subseteq 0..MaxBytes[f]
               /\ \A n \in DOMAIN chunks[f] : chunks[f][n] \in Data
               /\ wrote[f] \in 0..MaxBytes[f]
    <3>1. /\ Laid(writer[f], chunks[f], wrote[f]) /\ wrote[f] <= MaxBytes[f]
          /\ writer[f].chunk_num \in Nat /\ writer[f].length \in Nat /\ wrote[f] \in Nat
          /\ MaxBytes[f] \in Nat
      BY FileBoundsAssumption
         DEF AllInv, Inv, FilesInv, FileLaid, WritersInv, WriterInv, WriterRecord
    <3> DEFINE m == writer[f].chunk_num - 1
               c == chunks[f]
    <3>2. /\ m * ChunkSize <= writer[f].length /\ writer[f].length <= wrote[f] /\ m \in Int
          /\ DOMAIN c \subseteq 0..m /\ \A n \in DOMAIN c : c[n] \in Data
      BY <3>1 DEF Laid
    <3>3. m * ChunkSize \in Int /\ (m \in Nat => m <= m * ChunkSize)
      BY <3>2, Times, NoMoreChunksThanBytes
    <3> HIDE DEF m, c
    <3>4. m \in Nat => m <= MaxBytes[f]
      <4> DEFINE a == m * ChunkSize
      <4>1. a \in Int /\ a <= writer[f].length /\ (m \in Nat => m <= a)
        BY <3>2, <3>3
      <4> HIDE DEF a
      <4> QED
        BY <3>1, <3>2, <4>1
    <3>5. DOMAIN c \subseteq 0..MaxBytes[f]
      BY <3>1, <3>2, <3>4
    <3> QED
      BY <3>1, <3>2, <3>5 DEF c
  <2>2. DOMAIN chunks = Files /\ \A r \in Readers : reader[r].pos <= reader[r].length
    BY DEF AllInv, Inv, Shape, ReadersInv, ReaderType
  <2> QED
    BY <2>1, <2>2 DEF TypeOK, Typed
<1>2. AllInv /\ ReadersInv /\ [Next]_vars => ReadersInv'
  BY ReadersNext DEF AllInv
<1>3. AllInv /\ AllInv' /\ ReadersInv /\ ReadersInv' /\ Typed /\ [Next]_vars => Typed'
  <2> SUFFICES ASSUME AllInv, AllInv', ReadersInv, ReadersInv', Typed, [Next]_vars
               PROVE  Typed'
    OBVIOUS
  <2>1. Inv /\ FilesInv /\ Inv'
    BY DEF AllInv
  <2> QED
    BY <2>1, TypedNext
<1> QED
  BY AllInit, AllNext, ReadersInit, TypedInit, <1>1, <1>2, <1>3, PTL DEF Spec

-----------------------------------------------------------------------------
(***************************************************************************)
(* What an undamaged file is read as                                       *)
(***************************************************************************)

\* The n chunks c of a file of l bytes are all there, and each has the bytes of its place.
WholeChunks(c, n, l) ==
  /\ n \in Nat /\ l \in Nat /\ DOMAIN c = 0..(n - 1)
  /\ \A k \in 0..(n - 1) : /\ c[k] \in Data /\ AtPlace(c[k], k * ChunkSize)
                           /\ k < n - 1 => Len(c[k]) = ChunkSize
                           /\ k = n - 1 => k * ChunkSize + Len(c[k]) = l
  /\ (n - 1) * ChunkSize <= l /\ l <= n * ChunkSize

\* The files that are shown and were not damaged are of that kind.
LEMMA UndamagedIsWhole ==
  ASSUME AllInv, NEW f \in Files, docs[f] # NoDoc, ~Damaged(f)
  PROVE  WholeChunks(chunks[f], writer[f].chunk_num, docs[f])
<1> DEFINE n == writer[f].chunk_num
           c == chunks[f]
<1>1. n \in Nat /\ writer[f].length \in Nat
  BY DEF AllInv, Inv, WritersInv, WriterInv, WriterRecord
<1>2. Laid(writer[f], c, wrote[f]) /\ DOMAIN c = 0..(n - 1) /\ docs[f] = writer[f].length
  BY DEF AllInv, FilesInv, FileLaid, Kept, Damaged
<1>3. \A k \in DOMAIN c : AtPlace(c[k], k * ChunkSize)
  BY DEF AllInv, BytesInPlace, AtPlace
<1> HIDE DEF n, c
<1>4. \A k \in DOMAIN c : /\ c[k] \in Data
                          /\ k < n - 1 => Len(c[k]) = ChunkSize
                          /\ k = n - 1 => k * ChunkSize + Len(c[k]) = docs[f]
  BY <1>2, Zenon DEF Laid, n
<1>5. (n - 1) * ChunkSize <= docs[f] /\ docs[f] <= n * ChunkSize
  BY <1>2, Zenon DEF Laid, n
<1>6. WholeChunks(c, n, docs[f])
  BY <1>1, <1>2, <1>3, <1>4, <1>5, Zenon DEF WholeChunks
<1> QED
  BY <1>6 DEF c, n

\* Where a chunk of such a file ends: at the end of the file, or before it if there are more.
LEMMA WholeEnds ==
  ASSUME NEW c, NEW n, NEW l, WholeChunks(c, n, l), NEW k \in 0..(n - 1)
  PROVE  /\ c[k] \in Data /\ AtPlace(c[k], k * ChunkSize) /\ Len(c[k]) \in Nat
         /\ \A e \in Nat : e <= l /\ e <= (k + 1) * ChunkSize => e <= k * ChunkSize + Len(c[k])
         /\ (k + 1) * ChunkSize >= l => k * ChunkSize + Len(c[k]) = l
         /\ \A j \in Int : k < j /\ j * ChunkSize < l => Len(c[k]) = ChunkSize
<1> DEFINE a == k * ChunkSize
           b == (k + 1) * ChunkSize
           z == (n - 1) * ChunkSize
           m == Len(c[k])
<1>0. ChunkSize \in Nat /\ ChunkSize > 0
  BY ChunksAssumption
<1>1. n \in Nat /\ l \in Nat /\ k \in Nat /\ k <= n - 1
  BY DEF WholeChunks
<1>2. a \in Nat /\ b = a + ChunkSize
  <2>1. a \in Nat
    BY <1>1, Times, Zenon
  <2>2. k \in Int
    BY <1>1
  <2> QED
    BY <2>1, <2>2, FewerChunks, Zenon
<1>3. /\ c[k] \in Data /\ AtPlace(c[k], a) /\ m \in Nat
      /\ k < n - 1 => m = ChunkSize
      /\ k = n - 1 => a + m = l
  <2>1. /\ c[k] \in Data /\ AtPlace(c[k], a)
        /\ k < n - 1 => m = ChunkSize
        /\ k = n - 1 => a + m = l
    BY DEF WholeChunks
  <2> QED
    BY <2>1 DEF Data
<1>4. z <= l /\ z \in Int /\ (k + 1 <= n - 1 => b <= z)
  <2>1. n - 1 \in Int /\ k + 1 \in Int
    BY <1>1
  <2>2. z \in Int /\ (k + 1 <= n - 1 => b <= z)
    BY <2>1, Times, Zenon
  <2> QED
    BY <2>2 DEF WholeChunks
<1>5. ASSUME NEW e \in Nat, e <= l, e <= b
      PROVE  e <= a + m
  <2> HIDE DEF a, b, m
  <2> QED
    BY <1>0, <1>1, <1>2, <1>3, <1>5
<1>6. b >= l => a + m = l
  <2> HIDE DEF a, b, m, z
  <2> QED
    BY <1>0, <1>1, <1>2, <1>3, <1>4
<1>7. ASSUME NEW j \in Int, k < j, j * ChunkSize < l
      PROVE  m = ChunkSize
  <2>1. j * ChunkSize < n * ChunkSize
    <3> DEFINE x == j * ChunkSize
               y == n * ChunkSize
    <3>1. x \in Int /\ y \in Int /\ x < l /\ l <= y
      BY <1>1, <1>7, Times DEF WholeChunks
    <3> HIDE DEF x, y
    <3>2. x < y
      BY <1>1, <3>1
    <3> QED
      BY <3>2 DEF x, y
  <2>2. n \in Int
    BY <1>1
  <2>3. j < n
    BY <2>1, <2>2, FewerChunks
  <2>4. k < n - 1
    BY <1>1, <1>7, <2>3
  <2> QED
    BY <1>3, <2>4
<1> QED
  BY <1>3, <1>5, <1>6, <1>7

\* What has been read is exact.
Exact(g) == Len(g.got) = g.size /\ AtPlace(g.got, g.from)

\* The cursor d will return the chunks from the m-th on, and not end before the todo-th.
Holds(c, d, m, todo) ==
  /\ Len(d.batch) <= todo
  /\ \A i \in 1..Len(d.batch) : d.batch[i] = c[m + i - 1]
  /\ d.open => d.next = m + Len(d.batch)
  /\ ~d.open => Len(d.batch) = todo

\* gridfile_read in its loop: the next chunk is the m-th, of which the bytes from "at" on
\* are wanted, and those before it are in the buffer.
Reading(g, c) ==
  LET m == LastChunk(g.pos, g.size) + 1 - g.todo
      first == g.pos \div ChunkSize
      at == IF m = first THEN g.pos ELSE m * ChunkSize
  IN  /\ g.from = g.pos /\ m >= first
      /\ g.pos + (g.size - g.bytes_left) = at
      /\ \A i \in 1..(g.size - g.bytes_left) : g.got[i] = g.pos + i
      /\ (g.cursor.current = NoData) <=> (m = first)
      /\ Holds(c, g.cursor, m, g.todo)

\* gridfile_write_file in its loop: all chunks up to the next are written.
Writing(g) ==
  /\ g.from = 0 /\ g.size = g.length /\ g.todo <= NumChunks(g.length)
  /\ Len(g.got) = (NumChunks(g.length) - g.todo) * ChunkSize /\ AtPlace(g.got, 0)

\* The reader g has become v, in the loop or at its end.
GoesOn(v, g, c) ==
  /\ ReaderType(v) /\ v.file = g.file /\ v.length = g.length
  /\ \/ v.pc = "read" /\ Reading(v, c)
     \/ v.pc = "idle" /\ Exact(v)

\* One more round of gridfile_read with the right chunk.
LEMMA RoundIsRight ==
  ASSUME NEW g, ReaderType(g), g.pc = "read", NEW c, NEW n, WholeChunks(c, n, g.length),
         Reading(g, c), NEW d \in CursorRecord, NEW data,
         data = c[LastChunk(g.pos, g.size) + 1 - g.todo],
         Holds(c, d, LastChunk(g.pos, g.size) + 2 - g.todo, g.todo - 1)
  PROVE  GoesOn(Copied(g, d, data), g, c)
<1> DEFINE v == Copied(g, d, data)
           last == LastChunk(g.pos, g.size)
           first == g.pos \div ChunkSize
           m == last + 1 - g.todo
           at == IF m = first THEN g.pos ELSE m * ChunkSize
           skip == Skip(g)
           rest == Rest(g, data)
           done == g.size - g.bytes_left
           a == m * ChunkSize
           b == (m + 1) * ChunkSize
           l == g.length
<1>0. ChunkSize \in Nat /\ ChunkSize > 0
  BY ChunksAssumption
<1>1. /\ g.pos \in Nat /\ g.size \in Nat /\ g.bytes_left \in Nat /\ g.todo \in Nat
      /\ g.todo >= 1 /\ g.got \in Data /\ l \in Nat /\ g.pos + g.size <= l
      /\ g.bytes_left <= g.size /\ done <= Len(g.got) /\ done \in Nat /\ done <= g.size
  <2>1. /\ g.pos \in Nat /\ g.size \in Nat /\ g.bytes_left \in Nat /\ g.todo \in Nat
        /\ g.todo >= 1 /\ g.got \in Data /\ l \in Nat /\ g.pos + g.size <= l
        /\ g.bytes_left <= g.size /\ done <= Len(g.got)
    BY DEF ReaderType, ReaderRecord
  <2> QED
    BY <2>1
<1>2. /\ g.from = g.pos /\ m >= first /\ g.pos + done = at
      /\ \A i \in 1..done : g.got[i] = g.pos + i
      /\ (g.cursor.current = NoData) <=> (m = first)
  BY DEF Reading
<1>3. /\ first \in Nat /\ last \in Int /\ last - first + 1 \in Nat
      /\ last - first + 1 > 0 => /\ last \in Nat /\ first <= last
                                 /\ last * ChunkSize < g.pos + g.size
                                 /\ g.pos + g.size <= (last + 1) * ChunkSize
      /\ first * ChunkSize + (g.pos % ChunkSize) = g.pos
      /\ g.pos % ChunkSize \in Nat /\ g.pos < (first + 1) * ChunkSize
  BY <1>1, LastChunkIs
<1>4. /\ m \in Nat /\ m <= last /\ last - first + 1 > 0
  <2>1. first \in Nat /\ last \in Int /\ g.todo \in Nat /\ g.todo >= 1 /\ m >= first
    BY <1>1, <1>2, <1>3
  <2> HIDE DEF first, last
  <2> QED
    BY <2>1
<1>5. /\ last \in Nat /\ last * ChunkSize < g.pos + g.size
      /\ g.pos + g.size <= (last + 1) * ChunkSize
  BY <1>3, <1>4
<1>6. m \in 0..(n - 1)
  <2>1. last * ChunkSize < n * ChunkSize
    <3> DEFINE x == last * ChunkSize
               y == n * ChunkSize
    <3>1. x \in Int /\ y \in Int /\ x < g.pos + g.size /\ l <= y
      BY <1>5, Times DEF WholeChunks
    <3> HIDE DEF x, y, last, l
    <3>2. x < y
      BY <1>1, <3>1
    <3> QED
      BY <3>2 DEF x, y
  <2>2. n \in Int /\ last \in Int
    BY <1>5 DEF WholeChunks
  <2> HIDE DEF last
  <2>3. last < n
    BY <2>1, <2>2, FewerChunks
  <2> HIDE DEF m
  <2> QED
    BY <1>4, <2>2, <2>3
<1>7. a \in Nat /\ b = a + ChunkSize
  <2> HIDE DEF m
  <2>1. m \in Int
    BY <1>4
  <2>2. a \in Nat
    BY <1>4, Times, Zenon
  <2> QED
    BY <2>1, <2>2, FewerChunks, Zenon
<1>8. /\ data \in Data /\ AtPlace(data, a) /\ Len(data) \in Nat
      /\ g.pos + g.size <= b => g.pos + g.size <= a + Len(data)
      /\ m < last => Len(data) = ChunkSize /\ b < g.pos + g.size
      /\ g.todo = 1 => g.pos + g.size <= b
  <2> HIDE DEF m, last, l
  <2>1. /\ c[m] \in Data /\ AtPlace(c[m], a) /\ Len(c[m]) \in Nat
        /\ \A e \in Nat : e <= l /\ e <= b => e <= a + Len(c[m])
        /\ \A j \in Int : m < j /\ j * ChunkSize < l => Len(c[m]) = ChunkSize
    BY <1>6, WholeEnds DEF l
  <2>2. data = c[m]
    BY DEF m, last
  <2>3. g.pos + g.size \in Nat /\ g.pos + g.size <= l
    BY <1>1
  <2>4. g.todo = 1 => m = last
    BY <1>5 DEF m
  <2>5. m < last => last * ChunkSize < l /\ b <= last * ChunkSize
    <3>1. last * ChunkSize \in Int /\ (m + 1 <= last => b <= last * ChunkSize)
      <4>1. m + 1 \in Int /\ last \in Int
        BY <1>4, <1>5
      <4> QED
        BY <4>1, Times, Zenon
    <3> DEFINE x == last * ChunkSize
    <3>2. x \in Int /\ (m + 1 <= last => b <= x) /\ x < g.pos + g.size
      BY <1>5, <3>1
    <3> HIDE DEF x, b
    <3>3. m < last => x < l /\ b <= x
      BY <1>1, <1>4, <1>5, <2>3, <3>2
    <3> QED
      BY <3>3 DEF x
  <2>6. m < last => Len(c[m]) = ChunkSize
    BY <1>5, <2>1, <2>5
  <2>7. m < last => b < g.pos + g.size
    <3> DEFINE x == last * ChunkSize
    <3>1. x \in Int /\ x < g.pos + g.size /\ (m < last => b <= x)
      BY <1>5, <2>5, Times
    <3> HIDE DEF x, b
    <3>2. b \in Int
      BY <1>0, <1>7
    <3> QED
      BY <1>1, <3>1, <3>2
  <2> QED
    BY <1>5, <2>1, <2>2, <2>3, <2>4, <2>6, <2>7
<1>9. /\ skip \in Nat /\ at = a + skip
      /\ skip <= Len(data)
  <2>1. CASE m = first
    <3>1. skip = g.pos % ChunkSize /\ at = g.pos
      BY <1>2, <2>1 DEF Skip
    <3>2. a + (g.pos % ChunkSize) = g.pos /\ g.pos % ChunkSize \in Nat
      BY <1>3, <2>1
    <3>3. g.pos < b
      BY <1>3, <2>1
    <3> HIDE DEF m, first, last, at, skip, b, a
    <3>4. g.pos <= a + Len(data)
      <4>1. CASE m < last
        <5>1. Len(data) = ChunkSize
          BY <1>8, <4>1
        <5>2. a \in Nat /\ b = a + ChunkSize /\ g.pos < b /\ g.pos \in Nat
          BY <1>1, <1>7, <3>3
        <5> QED
          BY <1>0, <5>1, <5>2
      <4>2. CASE m = last
        <5>1. g.pos + g.size <= b
          BY <1>5, <4>2 DEF b
        <5>2. g.pos + g.size <= a + Len(data) /\ g.pos \in Nat /\ g.size \in Nat
              /\ a \in Nat /\ Len(data) \in Nat
          BY <1>1, <1>7, <1>8, <5>1
        <5> QED
          BY <5>2
      <4>3. m \in Nat /\ m <= last /\ last \in Nat
        BY <1>4, <1>5
      <4> QED
        BY <4>1, <4>2, <4>3
    <3>5. skip \in Nat /\ a + skip = g.pos
      BY <3>1, <3>2
    <3> QED
      BY <1>1, <1>7, <1>8, <3>1, <3>4, <3>5
  <2>2. CASE m # first
    <3>1. skip = 0 /\ at = a
      BY <1>2, <2>2 DEF Skip
    <3> HIDE DEF a, skip, at
    <3> QED
      BY <1>7, <1>8, <3>1
  <2> QED
    BY <2>1, <2>2
<1>10. /\ ReaderType(v) /\ Len(rest) = Len(data) - skip /\ Len(rest) \in Nat
       /\ \A i \in 1..Len(rest) : rest[i] = data[skip + i]
       /\ v.file = g.file /\ v.length = l /\ v.from = g.from /\ v.size = g.size
       /\ v.pc = IF g.todo > 1 THEN "read" ELSE "idle"
       /\ Len(v.got) = done + (IF g.bytes_left > Len(rest) THEN Len(rest) ELSE g.bytes_left)
       /\ \A i \in 1..done : v.got[i] = g.got[i]
       /\ \A i \in 1..(IF g.bytes_left > Len(rest) THEN Len(rest) ELSE g.bytes_left) :
            v.got[done + i] = rest[i]
       /\ g.todo > 1 => /\ v.pos = g.pos /\ v.todo = g.todo - 1
                        /\ v.bytes_left = (IF g.bytes_left > Len(rest)
                                             THEN g.bytes_left - Len(rest) ELSE g.bytes_left)
                        /\ v.cursor.batch = d.batch /\ v.cursor.next = d.next
                        /\ v.cursor.open = d.open /\ v.cursor.current = data
  BY <1>8, <1>9, CopiedIs
<1>11. \A i \in 1..Len(rest) : rest[i] = at + i
  <2>1. \A i \in 1..Len(rest) : skip + i \in 1..Len(data) /\ a + (skip + i) = at + i
    <3> HIDE DEF a, at, skip, rest
    <3> QED
      BY <1>7, <1>8, <1>9, <1>10
  <2>2. \A i \in 1..Len(data) : data[i] = a + i
    BY <1>8 DEF AtPlace
  <2> HIDE DEF a, at, skip, rest
  <2> QED
    BY <1>10, <2>1, <2>2
<1>12. CASE g.todo > 1
  <2> DEFINE k == Len(rest)
  <2>1. m < last
    <3> HIDE DEF last
    <3> QED
      BY <1>1, <1>5, <1>12
  <2>2. at + k = b /\ g.bytes_left > k /\ k \in Nat /\ at \in Nat
    <3> HIDE DEF m, first, last, a, b, at, skip, rest
    <3>0. /\ Len(rest) = Len(data) - skip /\ Len(rest) \in Nat /\ Len(data) = ChunkSize
          /\ b < g.pos + g.size
      BY <1>8, <1>10, <2>1
    <3> HIDE DEF k
    <3>1. at \in Nat /\ at + k = b /\ k \in Nat
      BY <1>0, <1>7, <1>9, <3>0 DEF k
    <3>2. g.bytes_left = (g.pos + g.size) - at
      <4>1. g.pos + done = at
        BY <1>2
      <4>2. g.pos \in Nat /\ g.size \in Nat /\ g.bytes_left \in Nat
        BY <1>1
      <4> QED
        BY <4>1, <4>2
    <3>3. g.bytes_left > k
      <4>1. g.pos \in Nat /\ g.size \in Nat /\ b \in Nat
        BY <1>0, <1>1, <1>7
      <4> QED
        BY <3>0, <3>1, <3>2, <4>1
    <3> QED
      BY <3>1, <3>3
  <2>3. /\ v.bytes_left = g.bytes_left - k /\ v.size - v.bytes_left = done + k
        /\ v.pos = g.pos /\ v.from = g.pos /\ v.todo = g.todo - 1 /\ v.pc = "read"
    <3>1. /\ v.bytes_left = (IF g.bytes_left > k THEN g.bytes_left - k ELSE g.bytes_left)
          /\ v.size = g.size /\ v.pos = g.pos /\ v.from = g.pos /\ v.todo = g.todo - 1
          /\ v.pc = "read"
      BY <1>2, <1>10, <1>12
    <3>2. g.size \in Nat /\ g.bytes_left \in Nat
      BY <1>1
    <3> HIDE DEF v, k
    <3>3. v.bytes_left = g.bytes_left - k
      BY <2>2, <3>1
    <3> QED
      BY <2>2, <3>1, <3>2, <3>3
  <2>4. LastChunk(v.pos, v.size) + 1 - v.todo = m + 1
    <3>1. LastChunk(v.pos, v.size) = last
      BY <1>10, <2>3
    <3> HIDE DEF last, v
    <3> QED
      BY <1>1, <1>5, <2>3, <3>1
  <2>5. \A i \in 1..(done + k) : v.got[i] = g.pos + i
    <3> SUFFICES ASSUME NEW i \in 1..(done + k) PROVE v.got[i] = g.pos + i
      OBVIOUS
    <3>1. CASE i \in 1..done
      BY <1>2, <1>10, <3>1
    <3>2. CASE i \notin 1..done
      <4> DEFINE j == i - done
      <4> HIDE DEF v, rest, done, at
      <4>1. j \in 1..k /\ done + j = i
        BY <1>1, <2>2, <3>2
      <4>2. v.got[done + j] = rest[j]
        BY <1>10, <2>2, <4>1
      <4>3. rest[j] = at + j
        BY <1>11, <4>1
      <4>4. at + j = g.pos + i
        BY <1>1, <1>2, <4>1
      <4> QED
        BY <4>1, <4>2, <4>3, <4>4
    <3> QED
      BY <3>1, <3>2
  <2>6. Holds(c, v.cursor, m + 1, v.todo)
    <3>1. Holds(c, d, m + 1, g.todo - 1)
      <4> HIDE DEF last
      <4>1. m + 1 = last + 2 - g.todo
        BY <1>1, <1>5
      <4> QED
        BY <4>1 DEF last
    <3>2. /\ v.cursor.batch = d.batch /\ v.cursor.next = d.next /\ v.cursor.open = d.open
          /\ v.todo = g.todo - 1
      BY <1>10, <1>12
    <3> HIDE DEF v, m
    <3> QED
      BY <3>1, <3>2 DEF Holds
  <2>7. v.cursor.current # NoData
    BY <1>8, <1>10, <1>12, ActorsAssumption DEF Data
  <2>8. m + 1 # first /\ m + 1 >= first
    <3> HIDE DEF m, first
    <3> QED
      BY <1>2, <1>3, <1>4
  <2>9. v.pos + (v.size - v.bytes_left) = b
    <3>1. /\ v.pos = g.pos /\ v.size - v.bytes_left = done + k /\ g.pos + done = at
          /\ g.pos \in Nat /\ done \in Nat
      BY <1>1, <1>2, <2>3
    <3> HIDE DEF v, b, at, k, done
    <3> QED
      BY <2>2, <3>1
  <2>10. Reading(v, c)
    <3>1. v.pos \div ChunkSize = first
      BY <2>3
    <3> HIDE DEF v, m, first, last, done, k, rest
    <3> QED
      BY <2>3, <2>4, <2>5, <2>6, <2>7, <2>8, <2>9, <3>1 DEF Reading
  <2> QED
    BY <1>10, <2>3, <2>10 DEF GoesOn
<1>13. CASE ~(g.todo > 1)
  <2>1. g.todo = 1
    BY <1>1, <1>13
  <2> DEFINE k == g.bytes_left
  <2>2. k <= Len(rest) /\ k \in Nat /\ done + k = g.size /\ at \in Nat
    <3> HIDE DEF m, first, last, a, b, at, skip, rest
    <3>1. at \in Nat /\ Len(rest) = Len(data) - skip
      BY <1>7, <1>9, <1>10
    <3>2. g.pos + g.size <= a + Len(data)
      BY <1>8, <2>1
    <3>3. g.pos + done = at /\ g.pos \in Nat /\ g.size \in Nat /\ k \in Nat
      BY <1>1, <1>2
    <3>4. a \in Nat /\ skip \in Nat /\ at = a + skip /\ Len(data) \in Nat
      BY <1>7, <1>8, <1>9
    <3>5. k = (g.pos + g.size) - at /\ done + k = g.size
      BY <3>1, <3>3
    <3> DEFINE e == g.pos + g.size
               r == Len(rest)
    <3>6. e \in Nat /\ k = e - at
      BY <3>3, <3>5
    <3>8. e <= a + Len(data)
      BY <3>2
    <3>9. r = Len(data) - skip
      BY <3>1
    <3> HIDE DEF e, r, k, done
    <3>7. k <= r
      BY <3>4, <3>6, <3>8, <3>9
    <3> QED
      BY <3>1, <3>3, <3>5, <3>7 DEF r
  <2>3. Len(v.got) = g.size /\ v.pc = "idle" /\ v.size = g.size /\ v.from = g.pos
    <3>1. /\ Len(v.got) = done + (IF k > Len(rest) THEN Len(rest) ELSE k)
          /\ v.pc = "idle" /\ v.size = g.size /\ v.from = g.pos /\ Len(rest) \in Nat
      BY <1>2, <1>10, <1>13
    <3> HIDE DEF v, rest, done, k
    <3>2. Len(v.got) = done + k
      BY <2>2, <3>1
    <3> QED
      BY <2>2, <3>1, <3>2
  <2>4. \A i \in 1..(done + k) : v.got[i] = g.pos + i
    <3> SUFFICES ASSUME NEW i \in 1..(done + k) PROVE v.got[i] = g.pos + i
      OBVIOUS
    <3>1. CASE i \in 1..done
      BY <1>2, <1>10, <3>1
    <3>2. CASE i \notin 1..done
      <4> DEFINE j == i - done
      <4> HIDE DEF v, rest, done, at
      <4>1. j \in 1..k /\ done + j = i /\ j \in 1..Len(rest)
        <5>1. done \in Nat /\ Len(rest) \in Nat
          BY <1>1, <1>10
        <5> HIDE DEF k
        <5> QED
          BY <2>2, <3>2, <5>1
      <4>2. v.got[done + j] = rest[j]
        BY <1>10, <2>2, <4>1
      <4>3. rest[j] = at + j
        BY <1>11, <4>1
      <4>4. at + j = g.pos + i
        BY <1>1, <1>2, <4>1
      <4> QED
        BY <4>1, <4>2, <4>3, <4>4
    <3> QED
      BY <3>1, <3>2
  <2>5. Exact(v)
    <3> HIDE DEF v, done
    <3> QED
      BY <2>2, <2>3, <2>4 DEF Exact, AtPlace
  <2> QED
    BY <1>10, <2>3, <2>5 DEF GoesOn
<1> QED
  BY <1>12, <1>13 DEF GoesOn

\* From a batch that holds the right chunks the right one is taken.
LEMMA TakesTheNext ==
  ASSUME NEW c, NEW m \in Nat, NEW todo \in Nat, todo >= 1, NEW d \in CursorRecord,
         d.batch # <<>>, Holds(c, d, m, todo)
  PROVE  /\ Head(d.batch) = c[m]
         /\ [d EXCEPT !.batch = Tail(@)] \in CursorRecord
         /\ Holds(c, [d EXCEPT !.batch = Tail(@)], m + 1, todo - 1)
<1> DEFINE e == [d EXCEPT !.batch = Tail(@)]
           k == Len(d.batch)
<1>1. /\ e \in CursorRecord /\ e.next = d.next /\ e.open = d.open
      /\ Head(d.batch) = d.batch[1] /\ k \in Nat /\ Len(e.batch) = k - 1
      /\ \A i \in 1..(k - 1) : e.batch[i] = d.batch[i + 1]
  BY TakenIs
<1>2. k >= 1
  <2>1. d.batch \in Seq(Data)
    BY DEF CursorRecord
  <2> QED
    BY <2>1
<1>3. /\ k <= todo /\ \A i \in 1..k : d.batch[i] = c[m + i - 1]
      /\ d.open => d.next = m + k
      /\ ~d.open => k = todo
  BY DEF Holds
<1> HIDE DEF e, k
<1>4. Head(d.batch) = c[m]
  <2>1. 1 \in 1..k /\ m + 1 - 1 = m
    BY <1>1, <1>2
  <2> QED
    BY <1>1, <1>3, <2>1
<1>5. Holds(c, e, m + 1, todo - 1)
  <2>1. ASSUME NEW i \in 1..(k - 1)
        PROVE  e.batch[i] = c[(m + 1) + i - 1]
    <3>1. i + 1 \in 1..k /\ m + (i + 1) - 1 = (m + 1) + i - 1
      BY <1>1
    <3> QED
      BY <1>1, <1>3, <3>1
  <2>2. k - 1 <= todo - 1 /\ (m + 1) + (k - 1) = m + k
    BY <1>1, <1>3
  <2> QED
    BY <1>1, <1>3, <2>1, <2>2 DEF Holds
<1> QED
  BY <1>1, <1>4, <1>5 DEF e

\* So it does when it has just been answered.
Answered(c, d, m, todo) == Holds(c, d, m, todo) /\ d.current = NoData /\ d.batch # <<>>

\* What the server answers holds the right chunks.
LEMMA AnswerHolds ==
  ASSUME NEW f, NEW n, NEW l, WholeChunks(chunks[f], n, l), NEW m \in Nat, NEW todo \in Nat,
         todo >= 1, m + todo <= n, NEW exact, exact => todo = 1,
         NEW d \in Batches(f, m, todo, exact)
  PROVE  Answered(chunks[f], d, m, todo)
<1>1. n \in Nat /\ DOMAIN chunks[f] = 0..(n - 1)
  BY DEF WholeChunks
<1>2. /\ Len(d.batch) \in 1..todo /\ d.current = NoData /\ d.next = m + Len(d.batch)
      /\ \A i \in 1..Len(d.batch) : d.batch[i] = chunks[f][m + i - 1]
      /\ d.open \in BOOLEAN /\ (~d.open => Len(d.batch) = todo)
  BY <1>1, BatchesWhole
<1>3. d.batch # <<>>
  BY <1>2
<1> QED
  BY <1>2, <1>3 DEF Holds, Answered

\* One more chunk for gridfile_write_file: it is there, and it is the right one.
LEMMA PieceIsRight ==
  ASSUME NEW g, ReaderType(g), g.pc = "write_file", NEW c, NEW n,
         WholeChunks(c, n, g.length), Writing(g), NEW k, k = NumChunks(g.length) - g.todo
  PROVE  /\ k \in DOMAIN c /\ g.got \o c[k] \in Data /\ AtPlace(g.got \o c[k], 0)
         /\ g.todo > 1 => Len(g.got \o c[k]) = (k + 1) * ChunkSize
         /\ g.todo = 1 => Len(g.got \o c[k]) = g.length
<1> DEFINE l == g.length
           N == NumChunks(l)
           a == k * ChunkSize
           b == (k + 1) * ChunkSize
           z == (N - 1) * ChunkSize
           y == n * ChunkSize
<1>0. ChunkSize \in Nat /\ ChunkSize > 0
  BY ChunksAssumption
<1>1. /\ l \in Nat /\ g.todo \in Nat /\ g.todo >= 1 /\ g.got \in Data /\ g.todo <= N
      /\ Len(g.got) = a /\ AtPlace(g.got, 0)
  BY DEF ReaderType, ReaderRecord, Writing
<1>2. N \in Nat /\ l <= N * ChunkSize /\ (N > 0 => z < l)
  BY <1>1, NumChunksType
<1>3. n \in Nat /\ DOMAIN c = 0..(n - 1) /\ l <= y
  BY DEF WholeChunks
<1>4. k \in Nat /\ k + 1 <= N /\ (g.todo = 1 => k + 1 = N) /\ (g.todo > 1 => k < N - 1)
  <2> HIDE DEF N
  <2> QED
    BY <1>1, <1>2 DEF N
<1>5. k \in 0..(n - 1)
  <2>1. z \in Int /\ y \in Int /\ N - 1 \in Int /\ n \in Int
    <3>1. N - 1 \in Int /\ n \in Int
      BY <1>2, <1>3
    <3> QED
      BY <3>1, Times, Zenon
  <2>2. z < y
    <3> HIDE DEF z, y, N
    <3> QED
      BY <1>1, <1>2, <1>3, <1>4, <2>1
  <2>3. N - 1 < n
    BY <2>1, <2>2, FewerChunks, Zenon
  <2> HIDE DEF N
  <2> QED
    BY <1>2, <1>3, <1>4, <2>3
<1>6. /\ c[k] \in Data /\ AtPlace(c[k], a) /\ Len(c[k]) \in Nat
      /\ b >= l => a + Len(c[k]) = l
      /\ \A j \in Int : k < j /\ j * ChunkSize < l => Len(c[k]) = ChunkSize
  BY <1>5, WholeEnds
<1>7. a \in Nat /\ b = a + ChunkSize
  <2>1. k \in Int
    BY <1>4
  <2>2. a \in Nat
    BY <1>4, Times, Zenon
  <2> QED
    BY <2>1, <2>2, FewerChunks, Zenon
<1>8. g.todo > 1 => Len(c[k]) = ChunkSize
  <2>1. g.todo > 1 => N - 1 \in Int /\ k < N - 1 /\ z < l
    BY <1>2, <1>4
  <2> QED
    BY <1>6, <2>1
<1>9. g.todo = 1 => a + Len(c[k]) = l
  <2>1. g.todo = 1 => b >= l
    BY <1>2, <1>4
  <2> QED
    BY <1>6, <2>1
<1> HIDE DEF a, b, l
<1>10. /\ g.got \o c[k] \in Data /\ Len(g.got \o c[k]) = a + Len(c[k])
       /\ \A i \in 1..a : (g.got \o c[k])[i] = g.got[i]
       /\ \A i \in 1..Len(c[k]) : (g.got \o c[k])[a + i] = c[k][i]
  BY <1>1, <1>6, Joined
<1> DEFINE s == g.got \o c[k]
<1> HIDE DEF s
<1>11. AtPlace(s, 0)
  <2> SUFFICES ASSUME NEW i \in 1..Len(s) PROVE s[i] = 0 + i
    BY DEF AtPlace
  <2>1. CASE i \in 1..a
    <3>1. g.got[i] = 0 + i
      BY <1>1, <2>1 DEF AtPlace
    <3> QED
      BY <1>10, <2>1, <3>1 DEF s
  <2>2. CASE i \notin 1..a
    <3> DEFINE j == i - a
    <3>1. Len(s) = a + Len(c[k])
      BY <1>10 DEF s
    <3>2. j \in 1..Len(c[k]) /\ a + j = i /\ a + j = 0 + i
      BY <1>6, <1>7, <2>2, <3>1
    <3> HIDE DEF j
    <3>3. s[a + j] = c[k][j] /\ c[k][j] = a + j
      BY <1>6, <1>10, <3>2 DEF AtPlace, s
    <3> QED
      BY <3>2, <3>3
  <2> QED
    BY <2>1, <2>2
<1>12. g.todo > 1 => Len(s) = b
  BY <1>7, <1>8, <1>10 DEF s
<1>13. g.todo = 1 => Len(s) = l
  BY <1>9, <1>10 DEF s
<1> QED
  BY <1>3, <1>5, <1>10, <1>11, <1>12, <1>13 DEF s, b, l

\* What is true of a reader as long as its file is not damaged.
Right(g) ==
  g.file # NoFile /\ ~Damaged(g.file) =>
    /\ docs[g.file] = g.length /\ g.pc # "crashed"
    /\ g.pc = "idle" => Exact(g)
    /\ g.pc = "read" => Reading(g, chunks[g.file])
    /\ g.pc = "write_file" => Writing(g)

\* The first and every other round of gridfile_read keeps that.
LEMMA RightByRead ==
  ASSUME AllInv, ReadersInv, NEW r \in Readers, Right(reader[r]),
         \/ \E k \in Sizes : Read(r, k)
         \/ NextChunk(r)
  PROVE  Right(reader'[r])
<1> DEFINE g == reader[r]
           v == reader'[r]
           c == chunks[g.file]
           n == writer[g.file].chunk_num
<1>1. ReaderType(g) /\ r \in DOMAIN reader
  BY DEF ReadersInv
<1>A. ASSUME NEW u, reader' = [reader EXCEPT ![r] = u]
      PROVE  v = u
  BY <1>1, <1>A
<1>2. g.pc \in {"idle", "read"} /\ g.file \in Files /\ g \in ReaderRecord
  BY <1>1 DEF Read, CanCall, NextChunk, ReaderType
<1>3. Inv /\ FilesInv
  BY DEF AllInv
<1>4. ASSUME reader' = [reader EXCEPT ![r].pc = "cut"]
      PROVE  Right(v)
  <2>1. v = [g EXCEPT !.pc = "cut"]
    BY <1>4, <1>A
  <2> HIDE DEF v, g
  <2>2. v.file = g.file /\ v.length = g.length /\ v.pc = "cut"
    BY <1>2, <2>1 DEF ReaderRecord
  <2> QED
    BY <2>2 DEF Right, g
<1>5. ASSUME v.file = g.file,
             ~Damaged(g.file) => \/ v.pc = "cut" /\ v.length = g.length
                                 \/ v.pc = "idle" /\ Exact(v) /\ v.length = g.length
                                 \/ v.pc = "read" /\ Reading(v, c) /\ v.length = g.length
      PROVE  Right(v)
  <2> HIDE DEF v
  <2> QED
    BY <1>2, <1>5, ActorsAssumption DEF Right
<1>6. ASSUME ~Damaged(g.file)
      PROVE  WholeChunks(c, n, g.length) /\ docs[g.file] = g.length
  <2>1. docs[g.file] = g.length /\ g.length \in Nat
    BY <1>2, <1>6, ActorsAssumption DEF Right, ReaderRecord
  <2>2. docs[g.file] # NoDoc
    BY <2>1, ActorsAssumption
  <2> HIDE DEF g
  <2> QED
    BY <1>2, <1>6, <2>1, <2>2, UndamagedIsWhole
<1>7. ASSUME NEW k \in Sizes, Read(r, k)
      PROVE  Right(v)
  <2> DEFINE size == ReadSize(g, k)
             first == g.pos \div ChunkSize
             last == LastChunk(g.pos, size)
             total == last - first + 1
  <2>1. /\ size \in Nat /\ g.pos + size <= g.length /\ first \in Nat /\ total \in Nat
        /\ \/ reader' = [reader EXCEPT ![r].pc = "cut"]
           \/ \E called \in ReaderRecord :
                /\ called.pc = "read" /\ called.file = g.file
                /\ called.length = g.length /\ called.pos = g.pos /\ called.from = g.pos
                /\ called.size = size /\ called.todo = total
                /\ called.bytes_left = size /\ called.got = <<>>
                /\ \/ total = 0 /\ reader' = [reader EXCEPT ![r] = Returns(called)]
                   \/ total > 0 /\ \E d \in Batches(g.file, first, total, total = 1) :
                        reader' = [reader EXCEPT ![r] = [called EXCEPT !.cursor = d]]
    BY <1>7, ReadIs
  <2>2. g.pos \in Nat /\ g.length \in Nat /\ g.pos <= g.length
    BY <1>1 DEF ReaderType, ReaderRecord
  <2>3. /\ last \in Int /\ (total = 0 => size = 0)
        /\ total > 0 => last \in Nat /\ last * ChunkSize < g.pos + size
    <3> HIDE DEF g, size
    <3> QED
      BY <2>1, <2>2, LastChunkIs
  <2> HIDE DEF size
  <2>4. ASSUME NEW called \in ReaderRecord, called.file = g.file, called.length = g.length,
               called.pos = g.pos, called.from = g.pos, called.size = size,
               called.got = <<>>, total = 0, reader' = [reader EXCEPT ![r] = Returns(called)]
        PROVE  Right(v)
    <3>1. /\ Returns(called).pc = "idle" /\ Returns(called).file = g.file
          /\ Returns(called).length = g.length /\ Returns(called).size = size
          /\ Returns(called).got = <<>>
      BY <1>2, <2>2, <2>4, ReturnsType
    <3>2. v = Returns(called)
      BY <1>A, <2>4
    <3>3. Exact(v)
      BY <2>3, <2>4, <3>1, <3>2 DEF Exact, AtPlace
    <3> QED
      BY <1>5, <3>1, <3>2, <3>3
  <2>5. ASSUME NEW called \in ReaderRecord, called.pc = "read", called.file = g.file,
               called.length = g.length, called.pos = g.pos, called.from = g.pos,
               called.size = size, called.todo = total, called.bytes_left = size,
               called.got = <<>>, total > 0,
               NEW d \in Batches(g.file, first, total, total = 1),
               reader' = [reader EXCEPT ![r] = [called EXCEPT !.cursor = d]]
        PROVE  Right(v)
    <3>1. v = [called EXCEPT !.cursor = d]
      BY <1>A, <2>5
    <3>2. /\ v.pc = "read" /\ v.file = g.file /\ v.length = g.length /\ v.pos = g.pos
          /\ v.from = g.pos /\ v.size = size /\ v.todo = total /\ v.bytes_left = size
          /\ v.cursor = d
      <4> HIDE DEF v, g, total, first
      <4> QED
        BY <2>5, <3>1 DEF ReaderRecord
    <3>3. ASSUME ~Damaged(g.file) PROVE Reading(v, c)
      <4>1. WholeChunks(c, n, g.length) /\ n \in Nat
        BY <1>6, <3>3 DEF WholeChunks
      <4>2. first + total <= n
        <5> DEFINE x == last * ChunkSize
                   y == n * ChunkSize
        <5>1. x \in Int /\ y \in Int /\ x < g.pos + size /\ g.length <= y
          <6>1. last \in Int /\ n \in Int /\ x < g.pos + size
            BY <2>3, <2>5, <4>1
          <6>2. g.length <= y
            BY <4>1 DEF WholeChunks
          <6> QED
            BY <6>1, <6>2, Times, Zenon
        <5> HIDE DEF x, y, last, n
        <5>2. x < y
          BY <2>1, <2>2, <5>1
        <5>3. last < n
          <6>1. last \in Int /\ n \in Int
            BY <2>3, <4>1
          <6> QED
            BY <5>2, <6>1, FewerChunks, Zenon DEF x, y
        <5> HIDE DEF first
        <5> QED
          BY <2>1, <2>3, <4>1, <5>3
      <4>3. Holds(c, d, first, total) /\ d.current = NoData
        <5>1. /\ total >= 1 /\ (total = 1) \in BOOLEAN
          BY <2>1, <2>5
        <5>2. Answered(c, d, first, total)
          <6> HIDE DEF total, first, g, n
          <6> QED
            BY <2>1, <2>5, <4>1, <4>2, <5>1, AnswerHolds
        <5> QED
          BY <5>2 DEF Answered
      <4>4. LastChunk(v.pos, v.size) + 1 - v.todo = first
        <5>1. LastChunk(v.pos, v.size) = last
          BY <3>2
        <5> HIDE DEF last, first
        <5> QED
          BY <2>1, <2>3, <3>2, <5>1
      <4>5. /\ v.pos + (v.size - v.bytes_left) = g.pos /\ v.pos \div ChunkSize = first
            /\ v.size - v.bytes_left = 0
        <5>1. v.size - v.bytes_left = 0
          BY <2>1, <3>2
        <5>2. v.pos \div ChunkSize = first
          BY <3>2
        <5> HIDE DEF first, v, g
        <5> QED
          BY <2>2, <3>2, <5>1, <5>2 DEF g
      <4> HIDE DEF v, first, last, total, g, c
      <4> QED
        BY <2>1, <3>2, <4>3, <4>4, <4>5 DEF Reading
    <3> QED
      BY <1>5, <3>2, <3>3
  <2> HIDE DEF v, g, first, total
  <2> QED
    BY <1>4, <2>1, <2>4, <2>5
<1>8. ASSUME NextChunk(r)
      PROVE  Right(v)
  <2> DEFINE last == LastChunk(g.pos, g.size)
             m == last + 1 - g.todo
             k == g.cursor
  <2>1. /\ g.pc = "read" /\ k \in CursorRecord /\ g.todo \in Nat /\ g.todo >= 1
        /\ g.pos \in Nat /\ g.size \in Nat /\ g.length \in Nat /\ g.pos + g.size <= g.length
    BY <1>1, <1>8 DEF NextChunk, ReaderType, ReaderRecord
  <2>2. CASE Damaged(g.file)
    <3>1. ReaderType(v) /\ v.file = g.file
      <4>1. /\ \/ \E pc \in {"cut", "crashed"} : reader' = [reader EXCEPT ![r].pc = pc]
               \/ \E d \in CursorRecord, data \in Data :
                    Len(data) >= Skip(g) /\ reader' = [reader EXCEPT ![r] = Copied(g, d, data)]
        BY <1>3, <1>8, NextChunkIs
      <4>2. ASSUME NEW pc \in {"cut", "crashed"}, reader' = [reader EXCEPT ![r].pc = pc]
            PROVE  v.file = g.file
        BY <1>2, <1>A, <4>2 DEF ReaderRecord
      <4>3. ASSUME NEW d \in CursorRecord, NEW data \in Data, Len(data) >= Skip(g),
                   reader' = [reader EXCEPT ![r] = Copied(g, d, data)]
            PROVE  v.file = g.file
        <5>1. Copied(g, d, data).file = g.file
          <6> HIDE DEF g
          <6> QED
            BY <1>1, <2>1, <4>3, CopiedIs
        <5> QED
          BY <1>A, <4>3, <5>1
      <4>4. ReaderType(v)
        BY <1>3, <1>8, ReaderTypeStep
      <4> HIDE DEF v, g
      <4> QED
        BY <4>1, <4>2, <4>3, <4>4
    <3> QED
      BY <1>5, <2>2, <3>1
  <2>3. CASE ~Damaged(g.file)
    <3>1. WholeChunks(c, n, g.length) /\ n \in Nat
      BY <1>6, <2>3 DEF WholeChunks
    <3>2. Reading(g, c)
      BY <1>2, <2>1, <2>3, ActorsAssumption DEF Right
    <3>3. /\ m >= g.pos \div ChunkSize /\ Holds(c, k, m, g.todo)
      BY <3>2 DEF Reading
    <3>4. /\ g.pos \div ChunkSize \in Nat /\ last \in Int
          /\ last - (g.pos \div ChunkSize) + 1 > 0 => last \in Nat /\ last * ChunkSize < g.pos + g.size
      <4> HIDE DEF g
      <4> QED
        BY <2>1, LastChunkIs
    <3>5. m \in Nat /\ last \in Nat /\ last * ChunkSize < g.pos + g.size
      <4> DEFINE first == g.pos \div ChunkSize
      <4>1. first \in Nat /\ last \in Int /\ m >= first /\ g.todo >= 1 /\ g.todo \in Nat
        BY <2>1, <3>3, <3>4
      <4> HIDE DEF first, last
      <4>2. m \in Nat /\ last - first + 1 > 0
        BY <4>1
      <4> QED
        BY <3>4, <4>2 DEF first, last
    <3>6. m + g.todo <= n
      <4> DEFINE x == last * ChunkSize
                 y == n * ChunkSize
      <4>1. x \in Int /\ y \in Int /\ x < g.pos + g.size /\ g.length <= y
        <5>1. last \in Int /\ n \in Int /\ x < g.pos + g.size
          BY <3>1, <3>5
        <5>2. g.length <= y
          BY <3>1 DEF WholeChunks
        <5> QED
          BY <5>1, <5>2, Times, Zenon
      <4> HIDE DEF x, y, last, n
      <4>2. x < y
        BY <2>1, <4>1
      <4>3. last < n
        <5>1. last \in Int /\ n \in Int
          BY <3>1, <3>5
        <5> QED
          BY <4>2, <5>1, FewerChunks, Zenon DEF x, y
      <4> QED
        BY <2>1, <3>1, <3>5, <4>3
    <3>7. ASSUME NEW d \in CursorRecord, d.batch # <<>>, Holds(c, d, m, g.todo),
                 reader' = [reader EXCEPT ![r] = Copied(g, [d EXCEPT !.batch = Tail(@)],
                                                        Head(d.batch))]
          PROVE  Right(v)
      <4> DEFINE e == [d EXCEPT !.batch = Tail(@)]
                 data == Head(d.batch)
      <4>1. v = Copied(g, e, data)
        BY <1>A, <3>7
      <4>2. data = c[m] /\ e \in CursorRecord /\ Holds(c, e, m + 1, g.todo - 1)
        <5> HIDE DEF m, c, g
        <5> QED
          BY <2>1, <3>5, <3>7, TakesTheNext
      <4> HIDE DEF e, data, v
      <4>3. Holds(c, e, last + 2 - g.todo, g.todo - 1)
        <5>1. m + 1 = last + 2 - g.todo
          <6> HIDE DEF last
          <6> QED
            BY <2>1, <3>5
        <5> QED
          BY <4>2, <5>1
      <4>4. /\ v.file = g.file /\ v.length = g.length
            /\ \/ v.pc = "read" /\ Reading(v, c)
               \/ v.pc = "idle" /\ Exact(v)
        <5> DEFINE u == Copied(g, e, data)
        <5>1. data = c[LastChunk(g.pos, g.size) + 1 - g.todo]
          BY <4>2
        <5>3. /\ ReaderType(g) /\ g.pc = "read" /\ WholeChunks(c, n, g.length) /\ Reading(g, c)
              /\ e \in CursorRecord
              /\ Holds(c, e, LastChunk(g.pos, g.size) + 2 - g.todo, g.todo - 1)
          BY <1>1, <2>1, <3>1, <3>2, <4>2, <4>3
        <5> HIDE DEF g, c, n, m, last, k
        <5>2. GoesOn(u, g, c)
          BY <5>1, <5>3, RoundIsRight
        <5> HIDE DEF u
        <5> QED
          BY <4>1, <5>2 DEF u, GoesOn
      <4> QED
        BY <1>5, <4>4 DEF v
    <3>8. ASSUME NEW d \in Batches(g.file, k.next, g.todo, FALSE), k.batch = <<>>, k.open
          PROVE  d \in CursorRecord /\ d.batch # <<>> /\ Holds(c, d, m, g.todo)
      <4>1. k.next = m
        <5>1. k.next = m + Len(k.batch) /\ Len(k.batch) = 0
          BY <3>3, <3>8 DEF Holds
        <5> HIDE DEF m, k
        <5> QED
          BY <3>5, <5>1
      <4>2. Holds(c, d, m, g.todo) /\ d.batch # <<>>
        <5>1. Answered(c, d, m, g.todo)
          <6> HIDE DEF m, g, n, k
          <6> QED
            BY <2>1, <3>1, <3>5, <3>6, <3>8, <4>1, AnswerHolds
        <5> QED
          BY <5>1 DEF Answered
      <4>3. d \in CursorRecord
        <5>1. /\ DOMAIN c \in SUBSET Nat /\ IsFiniteSet(DOMAIN c)
              /\ \A i \in DOMAIN c : c[i] \in Data
          BY <1>2, <1>3, ChunksType
        <5> HIDE DEF m, g, k
        <5> QED
          BY <2>1, <3>5, <3>8, <4>1, <5>1, BatchesType
      <4> QED
        BY <4>2, <4>3
    <3>9. k.batch = <<>> => k.open
      <4>1. k.batch = <<>> /\ ~k.open => Len(k.batch) = g.todo /\ Len(k.batch) = 0
        BY <3>3 DEF Holds
      <4> QED
        BY <2>1, <4>1
    <3>10. \/ /\ k.batch # <<>>
              /\ reader' = [reader EXCEPT ![r] =
                   Copied(g, [k EXCEPT !.batch = Tail(@)], Head(k.batch))]
           \/ /\ k.batch = <<>> /\ k.open
              /\ \E d \in Batches(g.file, k.next, g.todo, FALSE) :
                   d.batch # <<>> =>
                     reader' = [reader EXCEPT ![r] =
                       Copied(g, [d EXCEPT !.batch = Tail(@)], Head(d.batch))]
           \/ reader' = [reader EXCEPT ![r].pc = "cut"]
           \/ k.batch = <<>> /\ ~k.open
      BY <1>8 DEF NextChunk
    <3> HIDE DEF v, g, k, m, c
    <3> QED
      BY <1>4, <2>1, <3>3, <3>7, <3>8, <3>9, <3>10
  <2> QED
    BY <2>2, <2>3
<1> QED
  BY <1>7, <1>8

\* So do the other calls of a reader.
LEMMA RightByOther ==
  ASSUME AllInv, ReadersInv, NEW r \in Readers, Right(reader[r]),
         \/ \E f \in Files : Open(r, f)
         \/ \E k \in Sizes : Seek(r, k)
         \/ WriteFile(r) \/ GetChunk(r)
  PROVE  Right(reader'[r])
<1> DEFINE g == reader[r]
           v == reader'[r]
           c == chunks[g.file]
           n == writer[g.file].chunk_num
<1>1. ReaderType(g) /\ g \in ReaderRecord /\ r \in DOMAIN reader
  BY DEF ReadersInv, ReaderType
<1>A. ASSUME NEW u, reader' = [reader EXCEPT ![r] = u]
      PROVE  v = u
  BY <1>1, <1>A
<1>2. ASSUME NEW f \in Files, Open(r, f)
      PROVE  Right(v)
  <2> DEFINE l == docs[f]
  <2>1. v = [g EXCEPT !.pc = "idle", !.file = f, !.length = l]
    BY <1>1, <1>2 DEF Open
  <2>2. g.pc = "closed"
    BY <1>2 DEF Open
  <2>3. g.got = <<>> /\ g.size = 0
    BY <1>1, <2>2 DEF ReaderType
  <2> HIDE DEF g, v, l
  <2>4. v.pc = "idle" /\ v.file = f /\ v.length = l /\ v.got = g.got /\ v.size = g.size
    BY <1>1, <2>1 DEF ReaderRecord
  <2>5. Exact(v)
    BY <2>3, <2>4 DEF Exact, AtPlace
  <2> QED
    BY <2>4, <2>5 DEF Right, l
<1>3. ASSUME NEW k \in Sizes, Seek(r, k)
      PROVE  Right(v)
  <2>1. \E pos, calls : reader' = [reader EXCEPT ![r] = [g EXCEPT !.pos = pos, !.from = 0,
                                      !.size = 0, !.got = <<>>, !.calls = calls]]
    <3> DEFINE pos == SeekTo(g, k)
    <3> HIDE DEF pos
    <3>1. reader' = [reader EXCEPT ![r] = [g EXCEPT !.pos = pos, !.from = 0,
                                !.size = 0, !.got = <<>>, !.calls = g.calls + 1]]
      BY <1>3 DEF Seek, pos
    <3> QED
      BY <3>1
  <2>2. PICK pos, calls : v = [g EXCEPT !.pos = pos, !.from = 0, !.size = 0, !.got = <<>>,
                                        !.calls = calls]
    BY <1>A, <2>1
  <2>3. g.pc = "idle"
    BY <1>3 DEF Seek, CanCall
  <2> HIDE DEF v, g
  <2>4. /\ v.pc = "idle" /\ v.file = g.file /\ v.length = g.length /\ v.got = <<>>
        /\ v.size = 0
    BY <1>1, <2>2, <2>3 DEF ReaderRecord
  <2>5. Exact(v)
    BY <2>4 DEF Exact, AtPlace
  <2> QED
    BY <2>4, <2>5 DEF Right, g
<1>4. ASSUME WriteFile(r)
      PROVE  Right(v)
  <2> DEFINE N == NumChunks(g.length)
             called == [g EXCEPT !.pc = "write_file", !.from = 0, !.size = g.length,
                                 !.todo = N, !.got = <<>>, !.calls = g.calls + 1]
  <2>1. g.pc = "idle" /\ g.calls < MaxReads /\ g.file \in Files
    BY <1>1, <1>4 DEF WriteFile, CanCall, ReaderType
  <2>2. g.length \in Nat /\ g.pos <= g.length /\ g.calls \in 0..MaxReads
    BY <1>1 DEF ReaderType, ReaderRecord
  <2>3. N \in Nat /\ g.length <= N * ChunkSize
    BY <2>2, NumChunksType
  <2>4. v = (IF called.todo = 0 THEN Returns(called) ELSE called)
    BY <1>A, <1>4 DEF WriteFile
  <2>5. g.calls + 1 \in 0..MaxReads /\ <<>> \in Data
    BY <2>1, <2>2, FileBoundsAssumption DEF Data
  <2> HIDE DEF g, v, N
  <2>6. /\ called \in ReaderRecord /\ called.pc = "write_file" /\ called.file = g.file
        /\ called.length = g.length /\ called.pos = g.pos /\ called.todo = N
        /\ called.from = 0 /\ called.size = g.length /\ called.got = <<>>
    BY <1>1, <2>1, <2>2, <2>3, <2>5 DEF ReaderRecord
  <2> HIDE DEF called
  <2>7. CASE N = 0
    <3>1. v = Returns(called)
      BY <2>4, <2>6, <2>7
    <3>2. /\ v.pc = "idle" /\ v.file = g.file /\ v.length = g.length /\ v.from = 0
          /\ v.size = g.length /\ v.got = <<>>
      BY <2>1, <2>2, <2>6, <3>1, ReturnsType
    <3>3. g.length = 0
      <4>1. 0 * ChunkSize = 0
        BY Times
      <4> QED
        BY <2>2, <2>3, <2>7, <4>1
    <3>4. Exact(v)
      BY <3>2, <3>3 DEF Exact, AtPlace
    <3> QED
      BY <3>2, <3>4 DEF Right, g
  <2>8. CASE N # 0
    <3>1. v = called
      BY <2>4, <2>6, <2>8
    <3>2. NumChunks(v.length) = N
      BY <2>6, <3>1 DEF N
    <3>3. (N - N) * ChunkSize = 0
      <4>1. N - N = 0
        BY <2>3
      <4> QED
        BY <4>1, Times
    <3>4. Writing(v)
      BY <2>3, <2>6, <3>1, <3>2, <3>3 DEF Writing, AtPlace
    <3> QED
      BY <2>6, <3>1, <3>4 DEF Right, g
  <2> QED
    BY <2>7, <2>8
<1>5. ASSUME GetChunk(r)
      PROVE  Right(v)
  <2> DEFINE k == NumChunks(g.length) - g.todo
             got == g.got \o c[k]
             after == [g EXCEPT !.todo = g.todo - 1, !.got = got]
  <2>1. /\ g.pc = "write_file" /\ g.file \in Files /\ g.todo \in Nat /\ g.todo >= 1
        /\ g.length \in Nat /\ g.pos <= g.length
    BY <1>1, <1>5 DEF GetChunk, ReaderType, ReaderRecord
  <2>2. \/ reader' = [reader EXCEPT ![r].pc = "cut"]
        \/ k \notin DOMAIN c /\ reader' = [reader EXCEPT ![r].pc = "crashed"]
        \/ reader' = [reader EXCEPT ![r] = IF g.todo > 1 THEN after ELSE Returns(after)]
    BY <1>5 DEF GetChunk
  <2>3. ASSUME ~Damaged(g.file)
        PROVE  WholeChunks(c, n, g.length) /\ docs[g.file] = g.length /\ Writing(g)
    <3>1. docs[g.file] = g.length /\ Writing(g) /\ docs[g.file] # NoDoc
      BY <2>1, <2>3, ActorsAssumption DEF Right
    <3> HIDE DEF g
    <3> QED
      BY <2>1, <2>3, <3>1, UndamagedIsWhole
  <2>4. ~Damaged(g.file) => /\ k \in DOMAIN c /\ got \in Data /\ AtPlace(got, 0)
                            /\ g.todo > 1 => Len(got) = (k + 1) * ChunkSize
                            /\ g.todo = 1 => Len(got) = g.length
    <3> HIDE DEF g, c, n
    <3> QED
      BY <1>1, <2>1, <2>3, PieceIsRight
  <2>5. ASSUME NEW pc \in {"cut", "crashed"}, reader' = [reader EXCEPT ![r].pc = pc],
               pc = "crashed" => k \notin DOMAIN c
        PROVE  Right(v)
    <3>1. v = [g EXCEPT !.pc = pc]
      BY <1>A, <2>5
    <3>2. v.pc = pc /\ v.file = g.file /\ v.length = g.length
      <4> HIDE DEF g, v
      <4> QED
        BY <1>1, <3>1 DEF ReaderRecord
    <3>3. Damaged(g.file) => Damaged(v.file)
      BY <3>2
    <3>4. ~Damaged(g.file) => pc = "cut" /\ docs[v.file] = v.length
      BY <2>3, <2>4, <2>5, <3>2
    <3> HIDE DEF g, v
    <3> QED
      BY <3>2, <3>3, <3>4 DEF Right
  <2>6. CASE Damaged(g.file)
    <3>1. v.file = g.file
      <4>1. \/ \E pc : v = [g EXCEPT !.pc = pc]
            \/ v = after \/ v = Returns(after)
        BY <1>A, <2>2
      <4> HIDE DEF v, g, got
      <4> QED
        BY <1>1, <4>1 DEF ReaderRecord, Returns
    <3> QED
      BY <2>6, <3>1 DEF Right
  <2>7. CASE /\ ~Damaged(g.file)
             /\ reader' = [reader EXCEPT ![r] = IF g.todo > 1 THEN after ELSE Returns(after)]
    <3>1. v = IF g.todo > 1 THEN after ELSE Returns(after)
      BY <1>A, <2>7
    <3>2. got \in Data /\ AtPlace(got, 0) /\ Writing(g) /\ docs[g.file] = g.length
      BY <2>3, <2>4, <2>7
    <3>3. /\ g.todo > 1 => Len(got) = (k + 1) * ChunkSize
          /\ g.todo = 1 => Len(got) = g.length
      BY <2>4, <2>7
    <3> HIDE DEF g, v, got, k
    <3>4. g.todo - 1 \in Nat
      BY <2>1
    <3>5. /\ after \in ReaderRecord /\ after.pc = "write_file" /\ after.file = g.file
          /\ after.length = g.length /\ after.pos = g.pos /\ after.todo = g.todo - 1
          /\ after.from = g.from /\ after.size = g.size /\ after.got = got
      BY <1>1, <2>1, <3>2, <3>4 DEF ReaderRecord
    <3> HIDE DEF after
    <3>6. CASE g.todo > 1
      <4>1. v = after
        BY <3>1, <3>6
      <4>2. NumChunks(v.length) - v.todo = k + 1 /\ v.todo <= NumChunks(v.length)
        <5>1. NumChunks(v.length) = NumChunks(g.length) /\ v.todo = g.todo - 1
          BY <3>5, <4>1
        <5>2. NumChunks(g.length) \in Nat /\ g.todo <= NumChunks(g.length)
          BY <2>1, <3>2, NumChunksType DEF Writing
        <5> QED
          BY <2>1, <5>1, <5>2 DEF k
      <4>3. Writing(v)
        BY <3>2, <3>3, <3>5, <3>6, <4>1, <4>2 DEF Writing
      <4> QED
        BY <3>2, <3>5, <4>1, <4>3 DEF Right
    <3>7. CASE ~(g.todo > 1)
      <4>1. v = Returns(after) /\ g.todo = 1
        BY <2>1, <3>1, <3>7
      <4>2. /\ v.pc = "idle" /\ v.file = g.file /\ v.length = g.length /\ v.from = g.from
            /\ v.size = g.size /\ v.got = got
        BY <2>1, <3>5, <4>1, ReturnsType
      <4>3. Exact(v)
        BY <3>2, <3>3, <4>1, <4>2 DEF Exact, Writing
      <4> QED
        BY <3>2, <4>2, <4>3 DEF Right
    <3> QED
      BY <3>6, <3>7
  <2> QED
    BY <2>2, <2>5, <2>6, <2>7
<1> HIDE DEF v, g, c, n
<1>6. Right(v)
  BY <1>2, <1>3, <1>4, <1>5, Zenon
<1> QED
  BY <1>6 DEF v

-----------------------------------------------------------------------------
\* It is true of all readers, whatever the others do.
ReadersRight == \A r \in Readers : Right(reader[r])

\* A file that is damaged remains so.
LEMMA DamageLasts ==
  ASSUME Inv, [Next]_vars
  PROVE  lossy \subseteq lossy' /\ touched \subseteq touched'
<1> USE DEF Inv
<1>1. ASSUME NEW g \in Files,
             \/ \E k \in Sizes : StoreBuffer(g, k) \/ StoreFile(g, k) \/ WriteBuffer(g, k)
             \/ WriterInit(g) \/ WriterDone(g) \/ StoreFileFails(g)
             \/ RunMd5(g) \/ InsertDoc(g) \/ WriterDies(g)
      PROVE  UNCHANGED <<lossy, touched>>
  BY <1>1, CountStays
<1>2. ASSUME NEW g \in Files, InsertChunk(g)
      PROVE  lossy \subseteq lossy' /\ touched' = touched
  BY <1>2 DEF InsertChunk
<1>3. ASSUME NEW x \in Removers,
             \/ \E name \in Range(NameOf) : RemoveFilename(x, name)
             \/ RemoveDoc(x) \/ RemoveChunks(x) \/ RemoverDies(x)
      PROVE  lossy' = lossy /\ touched \subseteq touched'
  BY <1>3, RemoverStep DEF RemoveFilename, RemoveDoc, RemoveChunks, RemoverDies
<1>4. ASSUME \/ \E r \in Readers :
                  \/ \E f \in Files : Open(r, f)
                  \/ \E k \in Sizes : Seek(r, k) \/ Read(r, k)
                  \/ NextChunk(r) \/ WriteFile(r) \/ GetChunk(r)
             \/ \E a \in Actors : LinkBreaks(a) \/ Reconnect(a)
             \/ UNCHANGED vars
      PROVE  UNCHANGED <<lossy, touched>>
  BY <1>4, OtherStep, LossyStays
<1> QED
  BY <1>1, <1>2, <1>3, <1>4 DEF Next

\* What is right of a reader remains right in the steps of others.
LEMMA RightStays ==
  ASSUME AllInv, ReadersInv, [Next]_vars, NEW r \in Readers, Right(reader[r]),
         reader'[r] = reader[r]
  PROVE  Right(reader[r])'
<1> DEFINE g == reader[r]
<1>1. lossy \subseteq lossy' /\ touched \subseteq touched' /\ PublishedStays
  BY DamageLasts, PublishedNext DEF AllInv
<1>2. SUFFICES ASSUME g.file # NoFile, ~Damaged(g.file)'
      PROVE  Right(reader[r])'
  BY DEF Right
<1>3. g.file \in Files /\ ~Damaged(g.file) /\ g.length \in Nat /\ g.file \notin touched'
  BY <1>1, <1>2 DEF Damaged, ReadersInv, ReaderType, ReaderRecord
<1>4. docs[g.file] = g.length /\ docs[g.file] # NoDoc
  BY <1>2, <1>3, ActorsAssumption DEF Right
<1>5. docs'[g.file] = docs[g.file] /\ chunks'[g.file] = chunks[g.file]
  BY <1>1, <1>3, <1>4 DEF PublishedStays
<1> QED
  BY <1>2, <1>3, <1>5 DEF Right

\* No reader goes wrong.
LEMMA ReadersRightNext == AllInv /\ ReadersInv /\ ReadersRight /\ [Next]_vars => ReadersRight'
<1> SUFFICES ASSUME AllInv, ReadersInv, ReadersRight, [Next]_vars PROVE ReadersRight'
  OBVIOUS
<1>1. ASSUME NEW r \in Readers,
             \/ \E f \in Files : Open(r, f)
             \/ \E k \in Sizes : Seek(r, k) \/ Read(r, k)
             \/ NextChunk(r) \/ WriteFile(r) \/ GetChunk(r)
      PROVE  ReadersRight'
  <2>1. UNCHANGED <<chunks, docs, writer, remover, wrote, touched, botched>> /\ lossy' = lossy
    BY <1>1, OtherStep, LossyStays
  <2>2. reader' = [reader EXCEPT ![r] = reader'[r]]
    BY <1>1, ReaderTypeStep DEF AllInv
  <2>3. Right(reader'[r])
    BY <1>1, RightByRead, RightByOther DEF ReadersRight
  <2>4. Right(reader[r])'
    BY <2>1, <2>3 DEF Right, Damaged
  <2>5. \A p \in Readers : p # r => reader'[p] = reader[p]
    BY <2>2 DEF ReadersInv
  <2> QED
    BY <2>4, <2>5, RightStays DEF ReadersRight
<1>2. CASE reader' = reader
  BY <1>2, RightStays DEF ReadersRight
<1> QED
  BY <1>1, <1>2, OthersReadNot DEF Next

\* All that is known of readers and files.
LEMMA AlwaysRight == Spec => [](AllInv /\ ReadersInv /\ ReadersRight)
<1>1. Init => ReadersRight
  <2> SUFFICES ASSUME Init, NEW r \in Readers PROVE Right(reader[r])
    BY DEF ReadersRight
  <2>1. reader[r].file = NoFile
    BY DEF Init
  <2> QED
    BY <2>1 DEF Right
<1>2. AllInv /\ ReadersInv /\ [Next]_vars => ReadersInv'
  BY ReadersNext DEF AllInv
<1> QED
  BY AllInit, AllNext, ReadersInit, ReadersRightNext, <1>1, <1>2, PTL DEF Spec

\* Over any chunk boundaries, with any replies of the server and any steps of others
\* between its requests, a call that reads (638-709) returns the bytes that were written
\* at its place, unless a chunk of the file was lost or a remover has found it.
THEOREM ReadsAreExact == Spec => []ReadExact
<1>1. AllInv /\ ReadersInv /\ ReadersRight => ReadExact
  <2> SUFFICES ASSUME ReadersInv, ReadersRight, NEW r \in Readers, reader[r].pc = "idle",
                      reader[r].file # NoFile, ~Damaged(reader[r].file)
               PROVE  reader[r].got = [i \in 1..reader[r].size |-> reader[r].from + i]
    BY DEF ReadExact
  <2> DEFINE s == reader[r].got
             k == reader[r].from
             m == reader[r].size
  <2>1. s \in Seq(Nat) /\ Len(s) = m /\ m \in Nat /\ \A i \in 1..Len(s) : s[i] = k + i
    BY DEF ReadersRight, Right, Exact, AtPlace, ReadersInv, ReaderType, ReaderRecord, Data
  <2> HIDE DEF s, k, m
  <2>2. s = [i \in 1..m |-> k + i]
    BY <2>1
  <2> QED
    BY <2>2 DEF s, k, m
<1> QED
  BY AlwaysRight, <1>1, PTL

\* The results that a reader ignores (646-652, 686-690) crash it only over a file that
\* lost a chunk or is being removed.
THEOREM ReadersAreSafe == Spec => []ReaderSafe
<1>1. AllInv /\ ReadersInv /\ ReadersRight => ReaderSafe
  <2> SUFFICES ASSUME ReadersInv, ReadersRight, NEW r \in Readers, reader[r].pc = "crashed"
               PROVE  Damaged(reader[r].file)
    BY DEF ReaderSafe
  <2>1. reader[r].file # NoFile
    BY ActorsAssumption DEF ReadersInv, ReaderType
  <2> QED
    BY <2>1 DEF ReadersRight, Right
<1> QED
  BY AlwaysRight, <1>1, PTL
=============================================================================
