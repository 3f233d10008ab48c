------------------------------- MODULE MCFiles -------------------------------
(* Blocks of two cells and files of up to three of them. *)
EXTENDS Files

CONSTANTS p1, p2
MCProc == {p1, p2}
MCNames == {"a", "b"}
MCMatch == {<<n, n>> : n \in MCNames}
MCOwn == [p \in Proc |-> IF p = p1 THEN {"a"} ELSE {"b"}]
MCModes == {"w", "rw"}
MCLengths == {3}
MCSeeks == {<<"cur", -1>>, <<"other", 0>>}
MCSeekBack == {<<"cur", -1>>}
MCZero == {0}
=============================================================================
