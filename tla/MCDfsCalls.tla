----------------------------- MODULE MCDfsCalls -----------------------------
(* Small files: three cells to a block, so that ranges begin and end inside *)
(* a block, fill one, and run over two and three of them.                   *)
EXTENDS DfsCalls

MCNames == {"a", "ab", "c"}
MCMatch == {<<n, n>> : n \in MCNames} \cup {<<"a", "ab">>, <<"ab", "a">>}
MCOneName == {"c"}
MCOneMatch == {<<"c", "c">>}
MCZero == {0}
MCOne == {1}
MCExtents == {<<0, 3>>, <<1, 1>>, <<2, 5>>}
MCFarExtents == {<<0, 1>>, <<2, 2>>}
=============================================================================
