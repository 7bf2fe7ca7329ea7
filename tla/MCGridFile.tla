----------------------------- MODULE MCGridFile -----------------------------
(***************************************************************************)
(* Instances of GridFile: two files of the same name, one of several       *)
(* chunks and one without any bytes.                                       *)
(***************************************************************************)
EXTENDS GridFile

CONSTANTS f1, f2, r1, x1, fname

McFiles == {f1, f2}
McNames == [f \in Files |-> fname]
McSizes == {0, 1, 4}
McBytes == [f \in Files |-> IF f = f1 THEN 5 ELSE 0]

=============================================================================
