---------------------------- MODULE MCMongoWrites ----------------------------
(***************************************************************************)
(* Instances of MongoWrites: three writes of which the server refuses one, *)
(* under every kind of write concern.                                      *)
(***************************************************************************)
EXTENDS MongoWrites

CONSTANTS w1, w2, w3

McTwo == {w1, w2}
McThree == {w1, w2, w3}
McSecond == {w2}

McFine == {[ns |-> TRUE, doc |-> "fine"]}
McInputs == McFine \cup {[ns |-> FALSE, doc |-> "fine"], [ns |-> TRUE, doc |-> "badKey"],
                         [ns |-> TRUE, doc |-> "tooLarge"]}

McAcked == {[w |-> 1, finished |-> TRUE]}
McConcerns == McAcked \cup {[w |-> 0, finished |-> FALSE], [w |-> 1, finished |-> FALSE]}

McFaults == {"timeout", "break", "connect"}
McTimeouts == {"timeout"}
McBreaks == {"break"}

=============================================================================
