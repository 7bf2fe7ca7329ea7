----------------------------- MODULE AckedWrites -----------------------------
(***************************************************************************)
(* What the write functions promise: an application that is told that a    *)
(* write was acknowledged, or refused, or rejected before it was sent, is  *)
(* told the truth, and no write is done twice.  It is told "done" only by  *)
(* MONGO_OK with no error left in conn->err: MONGO_OK over an error is     *)
(* "unknown" here.  About a write it is told nothing else about, the       *)
(* server may decide at any time.                                          *)
(***************************************************************************)
CONSTANTS
  Writes,
  Refused   \* those the server refuses, of a duplicate key for example

VARIABLES
  told,     \* what the application knows of each write
  outcome   \* what the server did with it

Verdicts == {"done", "failed", "rejected", "unknown"}

Init ==
  /\ told = [w \in Writes |-> "uncalled"]
  /\ outcome = [w \in Writes |-> "none"]

\* The application calls the function of a write; it may return at once.
Call(w, t) ==
  /\ told[w] = "uncalled" /\ t \in {"called", "rejected", "unknown"}
  /\ \A v \in Writes : told[v] # "called"
  /\ told' = [told EXCEPT ![w] = t]
  /\ UNCHANGED outcome

Serve(w) ==
  /\ told[w] \notin {"uncalled", "rejected"} /\ outcome[w] = "none"
  /\ outcome' = [outcome EXCEPT ![w] = IF w \in Refused THEN "failed" ELSE "done"]
  /\ UNCHANGED told

Tell(w, t) ==
  /\ told[w] = "called" /\ t \in Verdicts
  /\ t \in {"done", "failed"} => outcome[w] = t
  /\ t = "rejected" => outcome[w] = "none"
  /\ told' = [told EXCEPT ![w] = t]
  /\ UNCHANGED outcome

Next == \E w \in Writes :
          \/ \E t \in {"called", "rejected", "unknown"} : Call(w, t)
          \/ \E t \in Verdicts : Tell(w, t)
          \/ Serve(w)

Spec == Init /\ [][Next]_<<told, outcome>>
=============================================================================
