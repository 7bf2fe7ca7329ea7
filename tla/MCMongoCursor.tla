---------------------------- MODULE MCMongoCursor ----------------------------
(***************************************************************************)
(* Instances of MongoCursor: one cursor with every kind of limit, two      *)
(* cursors that take turns on a connection, and a tailable cursor.         *)
(***************************************************************************)
EXTENDS MongoCursor

CONSTANTS k1, k2

McNone == {}
McOne == {k1}
McTwo == {k1, k2}

McAll == {0}
McAllOrTwo == {0, 2}
McOneBatchToo == {-2, 0, 2}

McValid == {"valid"}
McNoQueryToo == {"valid", "null"}

McAnyRows == 0..4
McSomeRows == 1..2
McFewRows == 0..2

McBreaks == {"break", "queryFail"}
McServerFails == {"queryFail", "moreFail", "expire"}
McExpire == {"expire"}

=============================================================================
