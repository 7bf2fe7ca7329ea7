----------------------------- MODULE DocThreads -----------------------------
(***************************************************************************)
(* The threads of a process that uses the driver. Each has a job, a        *)
(* document it builds, and a place in its program. Threads share nothing   *)
(* but the static variables of bson_oid_gen.                               *)
(***************************************************************************)
EXTENDS BsonBuilder, OidGen

VARIABLES
  job,     \* job[t]: what the thread does, chosen at the start
  pc,      \* pc[t]: "build", "insert", "read" (the document is read back),
           \* "done", "refused" by mongo_insert, or stopped with an "error"
  doc      \* doc[t]: its `bson` object

Last(s) == s[Len(s)]
Front(s) == SubSeq(s, 1, Len(s) - 1)

threadVars == <<job, pc, doc>>

\* A process that wrote outside of an array has no defined state any more.
Sane == \A t \in Threads : doc[t].bad = "no"

\* Thread t is at the given place and not inside bson_oid_gen.
At(t, place) == Sane /\ pc[t] = place /\ gen[t].at = "idle"

\* A step of t that leaves the document b and goes on at `place`.
Build(t, b, place) ==
  /\ doc' = [doc EXCEPT ![t] = b]
  /\ pc' = [pc EXCEPT ![t] = place]
  /\ UNCHANGED job
=============================================================================
