------------------------------ MODULE FileStore ------------------------------
(***************************************************************************)
(* What GridFS promises about a file: it appears at once, with every byte  *)
(* that was written to it in its place, does not change, and disappears at *)
(* once.  If the server lost a part of what was written, the file may      *)
(* appear without its end, but never with a hole or with bytes displaced.  *)
(***************************************************************************)
EXTENDS Integers, Sequences

CONSTANT Files

VARIABLES
  wrote,   \* how many bytes were written to each file; the i-th byte is i
  lossy,   \* the files of which something was lost on the way
  shown    \* what a reader finds

vars == <<wrote, lossy, shown>>

Upto(n) == [i \in 1..n |-> i]

Is(state, bytes) == [state |-> state, bytes |-> bytes]

Init ==
  /\ wrote = [f \in Files |-> 0]
  /\ lossy = {}
  /\ shown = [f \in Files |-> Is("absent", <<>>)]

Write(f) ==
  /\ shown[f].state = "absent"
  /\ wrote'[f] \in Nat /\ wrote'[f] >= wrote[f]
  /\ wrote' = [wrote EXCEPT ![f] = wrote'[f]]
  /\ UNCHANGED <<lossy, shown>>

Lose(f) ==
  /\ shown[f].state = "absent"
  /\ lossy' = lossy \cup {f}
  /\ UNCHANGED <<wrote, shown>>

Appear(f) ==
  /\ shown[f].state = "absent"
  /\ \E n \in 0..wrote[f] :
       /\ f \notin lossy => n = wrote[f]
       /\ shown' = [shown EXCEPT ![f] = Is("shown", Upto(n))]
  /\ UNCHANGED <<wrote, lossy>>

\* Several files of one name disappear together.
Disappear(F) ==
  /\ \A f \in F : shown[f].state = "shown"
  /\ shown' = [f \in Files |-> IF f \in F THEN Is("removed", <<>>) ELSE shown[f]]
  /\ UNCHANGED <<wrote, lossy>>

Next == \/ \E f \in Files : Write(f) \/ Lose(f) \/ Appear(f)
        \/ \E F \in SUBSET Files : Disappear(F)

Spec == Init /\ [][Next]_vars

=============================================================================
