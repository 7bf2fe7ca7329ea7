------------------------------- MODULE OidGen -------------------------------
(***************************************************************************)
(* bson_oid_gen (bson.c): object ids made of the time, a random number     *)
(* drawn once, and a counter. The last two are static variables; threads   *)
(* that make ids at the same time read and write them without a lock.      *)
(***************************************************************************)
EXTENDS Integers, Sequences

CONSTANTS
  Threads,
  IncFunc,      \* the application gave a counter of its own (bson_set_oid_inc)
  Randoms,      \* what rand() may return
  MaxTime       \* bound: seconds that pass

ASSUME OidAssumption ==
  /\ IncFunc \in BOOLEAN
  /\ Randoms \subseteq Nat
  /\ MaxTime \in Nat

VARIABLES
  now,          \* time(NULL) when it was last called
  incr, fuzz,   \* the static variables
  gen,          \* gen[t]: where thread t is inside bson_oid_gen, and its i and t
  ids,          \* history: the ids made, in the order they were completed
  raced         \* history: a call read the counter while another was between
                \* its read and its write

oidVars == <<now, incr, fuzz, gen, ids, raced>>

Idle == [at |-> "idle", i |-> 0, t |-> 0]

OidInit ==
  /\ now = 1 /\ incr = 0 /\ fuzz = 0
  /\ gen = [t \in Threads |-> Idle]
  /\ ids = <<>> /\ raced = FALSE

\* The call, up to the read of the counter: what time it is then is any time
\* since the last call. A counter of the application is taken to be atomic.
GenStart(t) ==
  /\ gen[t].at = "idle"
  /\ now' \in now..MaxTime
  /\ gen' = [gen EXCEPT ![t] = [at |-> IF IncFunc THEN "fuzz" ELSE "inc", i |-> incr, t |-> now']]
  /\ incr' = IF IncFunc THEN incr + 1 ELSE incr
  /\ raced' = (raced \/ \E u \in Threads : gen[u].at = "inc")
  /\ UNCHANGED <<fuzz, ids>>

GenIncrement(t) ==
  /\ gen[t].at = "inc"
  /\ incr' = gen[t].i + 1
  /\ gen' = [gen EXCEPT ![t].at = "fuzz"]
  /\ UNCHANGED <<now, fuzz, ids, raced>>

GenCheckFuzz(t) ==
  /\ gen[t].at = "fuzz"
  /\ gen' = [gen EXCEPT ![t].at = IF fuzz = 0 THEN "seed" ELSE "out"]
  /\ UNCHANGED <<now, incr, fuzz, ids, raced>>

\* Mutant: the counter starts again with the random number.
GenSeedResets(t) ==
  /\ gen[t].at = "seed"
  /\ fuzz' \in Randoms
  /\ incr' = 0
  /\ gen' = [gen EXCEPT ![t].at = "out"]
  /\ UNCHANGED <<now, ids, raced>>

GenSeed(t) ==
  /\ gen[t].at = "seed"
  /\ fuzz' \in Randoms
  /\ gen' = [gen EXCEPT ![t].at = "out"]
  /\ UNCHANGED <<now, incr, ids, raced>>

\* The end of the call: the id it leaves in *oid.
Made(t) == [time |-> gen[t].t, fuzz |-> fuzz, inc |-> gen[t].i]

GenOut(t) ==
  /\ gen[t].at = "out"
  /\ gen' = [gen EXCEPT ![t] = Idle]
  /\ ids' = Append(ids, Made(t))
  /\ UNCHANGED <<now, incr, fuzz, raced>>

GenInside(t) == GenIncrement(t) \/ GenCheckFuzz(t) \/ GenSeed(t)

\* The twelve bytes: time and counter with the highest byte first.
OidBytes(id) ==
  [k \in 1..12 |->
     LET int == CASE k <= 4 -> id.time [] k \in 5..8 -> id.fuzz [] OTHER -> id.inc
         power == CASE (k - 1) % 4 = 0 -> 0 [] (k - 1) % 4 = 1 -> 1
                    [] (k - 1) % 4 = 2 -> 2 [] OTHER -> 3
     IN  (int \div 256 ^ (IF k \in 5..8 THEN power ELSE 3 - power)) % 256]

-----------------------------------------------------------------------------
OidTypeOK ==
  /\ now \in Nat /\ incr \in Nat /\ fuzz \in Nat
  /\ gen \in [Threads -> [at : {"idle", "inc", "fuzz", "seed", "out"}, i : Nat, t : Nat]]
  /\ ids \in Seq([time : Nat, fuzz : Nat, inc : Nat])
  /\ raced \in BOOLEAN

\* No two ids are the same as long as no call read the counter while another
\* one was about to write it. The time and the random number do not help: all
\* ids of a second have both in common.
IdsDiffer ==
  ~raced => \A m, n \in 1..Len(ids) : m # n => ids[m] # ids[n]
=============================================================================
