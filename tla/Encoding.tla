------------------------------ MODULE Encoding ------------------------------
(***************************************************************************)
(* The checks of encoding.c on keys and strings, and the conversion of     *)
(* object ids to hexadecimal text in bson.c. A text is the sequence of its *)
(* bytes.                                                                  *)
(***************************************************************************)
EXTENDS Integers, Sequences, FiniteSets

Byte == 0..255

Dot    == 46
Dollar == 36

\* What a C function sees of a Lua string: the bytes before the first zero.
CString(s) == SubSeq(s, 1, Cardinality({i \in 1..Len(s) : \A j \in 1..i : s[j] # 0}))

-----------------------------------------------------------------------------
(* UTF-8.                                                                  *)

TrailingBytesForUTF8(c) ==
  CASE c < 192 -> 0
    [] c \in 192..223 -> 1
    [] c \in 224..239 -> 2
    [] c \in 240..247 -> 3
    [] c \in 248..251 -> 4
    [] OTHER -> 5

\* Mutant: a character of three bytes that two would do for.
IsLegalUTF8Overlong(s) ==
  /\ Len(s) \in 1..4
  /\ \A i \in 3..Len(s) : s[i] \in 128..191
  /\ Len(s) >= 2 =>
       /\ s[2] <= 191
       /\ CASE s[1] = 240 -> s[2] >= 144
            [] s[1] = 244 -> s[2] <= 143
            [] OTHER -> s[2] >= 128
  /\ s[1] \notin 128..193
  /\ s[1] <= 244

\* One character: the second byte of a character that starts with F4 has no
\* lower bound, and nothing is said of one that starts with ED.
IsLegalUTF8(s) ==
  /\ Len(s) \in 1..4
  /\ \A i \in 3..Len(s) : s[i] \in 128..191
  /\ Len(s) >= 2 =>
       /\ s[2] <= 191
       /\ CASE s[1] = 224 -> s[2] >= 160
            [] s[1] = 240 -> s[2] >= 144
            [] s[1] = 244 -> s[2] <= 143
            [] OTHER -> s[2] >= 128
  /\ s[1] \notin 128..193
  /\ s[1] <= 244

\* The names of the parts of a reference: $ref..., and exactly $id and $db.
IsDbRef(s) ==
  \/ Len(s) >= 4 /\ SubSeq(s, 2, 4) = <<114, 101, 102>>
  \/ Len(s) = 3 /\ SubSeq(s, 2, 3) \in {<<105, 100>>, <<100, 98>>}

\* The character that starts at p: where it ends by its first byte, and whether it
\* is all there and legal.
CharEnd(s, p) == p + TrailingBytesForUTF8(s[p])
Sound(s, p)   == CharEnd(s, p) <= Len(s) /\ IsLegalUTF8(SubSeq(s, p, CharEnd(s, p)))

\* The scan from the left, a character a step: what is found from p on. It ends at
\* the first one that is not legal; the flags raised before stay.
Scan(s, checkDot) ==
  LET scan[p \in 1..(Len(s) + 1)] ==
        IF p > Len(s) THEN [ok |-> TRUE, err |-> {}]
        ELSE LET rest == IF Sound(s, p) THEN scan[CharEnd(s, p) + 1]
                                        ELSE [ok |-> FALSE, err |-> {"NOT_UTF8"}]
             IN  IF checkDot /\ s[p] = Dot
                   THEN [rest EXCEPT !.err = @ \cup {"FIELD_HAS_DOT"}]
                   ELSE rest
  IN  scan

ValidateString(s, checkDot, checkDollar) ==
  LET dollar == checkDollar /\ Len(s) > 0 /\ s[1] = Dollar /\ ~IsDbRef(s)
  IN  [Scan(s, checkDot)[1] EXCEPT
         !.err = @ \cup (IF dollar THEN {"FIELD_INIT_DOLLAR"} ELSE {})]

CheckString(s)    == ValidateString(s, FALSE, FALSE)
CheckFieldName(s) == ValidateString(s, TRUE, TRUE)

-----------------------------------------------------------------------------
(* What the two words mean, for the properties.                            *)

\* The definition of UTF-8: the shortest encoding of a code point that is not
\* a surrogate.
EncodesACodePoint(s) ==
  LET tail(i) == s[i] - 128
      two   == (s[1] - 192) * 64 + tail(2)
      three == (s[1] - 224) * 4096 + tail(2) * 64 + tail(3)
      four  == (s[1] - 240) * 262144 + tail(2) * 4096 + tail(3) * 64 + tail(4)
  IN  /\ \A i \in 2..Len(s) : s[i] \in 128..191
      /\ \/ Len(s) = 1 /\ s[1] \in 0..127
         \/ Len(s) = 2 /\ s[1] \in 192..223 /\ 128 <= two
         \/ Len(s) = 3 /\ s[1] \in 224..239 /\ 2048 <= three
              /\ (three < 55296 \/ three > 57343)
         \/ Len(s) = 4 /\ s[1] \in 240..247 /\ 65536 <= four /\ four <= 1114111

\* What the driver takes for characters besides: surrogates, and F4 followed
\* by a byte below 80.
TakenForACharacter(s) ==
  \/ Len(s) = 3 /\ s[1] = 237 /\ s[2] \in 160..191 /\ s[3] \in 128..191
  \/ Len(s) = 4 /\ s[1] = 244 /\ s[2] < 128 /\ s[3] \in 128..191 /\ s[4] \in 128..191

\* s is made of characters, each of which is in Char.
MadeOf(s, Char(_)) ==
  LET from[p \in 1..(Len(s) + 1)] ==
        \/ p = Len(s) + 1
        \/ \E q \in p..Len(s) : q < p + 4 /\ Char(SubSeq(s, p, q)) /\ from[q + 1]
  IN  from[1]

IsUTF8(s) == MadeOf(s, EncodesACodePoint)

AcceptedText(s) == MadeOf(s, LAMBDA c : EncodesACodePoint(c) \/ TakenForACharacter(c))

-----------------------------------------------------------------------------
(* Object ids: twelve bytes, written as 24 digits.                         *)

HexByte(c) ==
  CASE c \in 48..57  -> c - 48
    [] c \in 65..70  -> c - 55
    [] c \in 97..102 -> c - 87
    [] OTHER -> 0

\* A text shorter than 24 digits is read beyond its end: first the zero that
\* ends it, then what lies behind.
OidFromString(s, behind) ==
  LET at(i) == IF i <= Len(s) THEN s[i] ELSE IF i = Len(s) + 1 THEN 0 ELSE behind
  IN  [i \in 1..12 |-> 16 * HexByte(at(2 * i - 1)) + HexByte(at(2 * i))]

HexDigit(n) == IF n < 10 THEN 48 + n ELSE 87 + n

OidToString(oid) ==
  [i \in 1..24 |-> LET byte == oid[(i + 1) \div 2]
                   IN  HexDigit(IF i % 2 = 1 THEN byte \div 16 ELSE byte % 16)]
=============================================================================
