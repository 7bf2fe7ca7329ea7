------------------------------- MODULE MongoNs -------------------------------
(***************************************************************************)
(* Names of collections, `database.collection` (mongo.c): what             *)
(* mongo_validate_ns accepts.                                              *)
(***************************************************************************)
EXTENDS Encoding

CONSTANT MaxNs     \* the longest name, 128 in the code

ASSUME NsAssumption == MaxNs \in Nat

Slash     == 47
Backslash == 92
Space     == 32

\* The place of the dot behind the name of the database.
Division(ns) ==
  IF \E i \in 1..Len(ns) : ns[i] = Dot
    THEN CHOOSE i \in 1..Len(ns) : ns[i] = Dot /\ \A j \in 1..(i - 1) : ns[j] # Dot
    ELSE Len(ns) + 1

ValidateNs(ns) ==
  LET division == Division(ns)
      db == SubSeq(ns, 1, division - 1)
      collection == SubSeq(ns, division + 1, Len(ns))
  IN  /\ db # <<>>
      /\ collection # <<>>
      /\ collection[1] # Dot
      /\ \A i \in 1..Len(db) : db[i] \notin {Space, Dollar, Slash, Backslash}
      /\ \A i \in 2..Len(collection) : ~(collection[i - 1] = Dot /\ collection[i] = Dot)
      /\ \A i \in 1..Len(collection) : collection[i] # Dollar
      /\ Len(db) + 1 + Len(collection) <= MaxNs
      /\ collection[Len(collection)] # Dot

-----------------------------------------------------------------------------
(* What a name is, for the properties: parts that are not empty, between   *)
(* dots, at least two; no dollar in any, no blank or slash in the first.   *)
LegalNs(ns) ==
  LET dots == {0, Len(ns) + 1} \cup {i \in 1..Len(ns) : ns[i] = Dot}
  IN  /\ \E i \in 1..Len(ns) : ns[i] = Dot
      /\ \A i, j \in dots : i < j => j - i >= 2
      /\ \A i \in 1..Len(ns) :
           /\ ns[i] # Dollar
           /\ ns[i] \in {Space, Slash, Backslash} => \E j \in 1..i : ns[j] = Dot
      /\ Len(ns) <= MaxNs
=============================================================================
