---------------------------- MODULE ResultStream ----------------------------
(***************************************************************************)
(* What a cursor promises to the application that iterates over it: the    *)
(* rows of its result in order, each of them once, and an honest word at   *)
(* the end.  "end" is said when the whole result, or the limit, has been   *)
(* given, "wait" when a tailable result has nothing new, "error" whenever  *)
(* something failed.                                                       *)
(***************************************************************************)
EXTENDS Integers, Sequences

CONSTANTS Cursors,
          Tailable  \* the cursors whose result may grow

VARIABLES
  given,   \* the rows given to the application, by number, of each cursor
  told,    \* what the application was last told of each cursor
  avail,   \* how many rows there are to give
  limit    \* 0: all rows; n: at most n; -n: at most n, in a single batch

vars == <<given, told, avail, limit>>

Told == {"nothing", "row", "wait", "end", "error"}

Init == /\ given = [c \in Cursors |-> <<>>]
        /\ told = [c \in Cursors |-> "nothing"]
        /\ avail \in [Cursors -> Nat]
        /\ limit = [c \in Cursors |-> 0]

Size(n) == IF n < 0 THEN -n ELSE n

\* The number of rows is only known to be final for a result that cannot grow.
AllGiven(c) == \/ Len(given[c]) = avail[c] /\ c \notin Tailable
               \/ limit[c] > 0 /\ Len(given[c]) >= limit[c]
               \/ limit[c] < 0

Tell(c, t) == told' = [told EXCEPT ![c] = t]

\* The application sets the limit; the query may fail at once.
Limit(c) ==
  /\ told[c] = "nothing"
  /\ limit'[c] \in Int /\ limit' = [limit EXCEPT ![c] = limit'[c]]
  /\ UNCHANGED told \/ Tell(c, "error")
  /\ UNCHANGED <<given, avail>>

Row(c) ==
  /\ told[c] # "end"
  /\ Len(given[c]) < avail[c]
  /\ limit[c] # 0 => Len(given[c]) < Size(limit[c])
  /\ given' = [given EXCEPT ![c] = Append(@, Len(@) + 1)]
  /\ Tell(c, "row")
  /\ UNCHANGED <<avail, limit>>

End(c) ==
  /\ AllGiven(c) /\ Tell(c, "end")
  /\ UNCHANGED <<given, avail, limit>>

Wait(c) ==
  /\ c \in Tailable /\ Len(given[c]) = avail[c] /\ Tell(c, "wait")
  /\ UNCHANGED <<given, avail, limit>>

Fail(c) == Tell(c, "error") /\ UNCHANGED <<given, avail, limit>>

Grow(c) ==
  /\ c \in Tailable /\ avail' = [avail EXCEPT ![c] = @ + 1]
  /\ UNCHANGED <<given, told, limit>>

Next == \E c \in Cursors : \/ Limit(c) \/ Row(c) \/ End(c) \/ Wait(c)
                           \/ Fail(c) \/ Grow(c)

Spec == Init /\ [][Next]_vars

=============================================================================
