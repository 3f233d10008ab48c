----------------------------- MODULE MCResources -----------------------------
(* Small files: pieces of twelve characters, lines of four to eight, pages *)
(* of twenty cells with seven for the arguments.                           *)
EXTENDS Resources

MCNames == {"disk", "vm", "none", "prog", "data", "text", "tiny", "dlx"}
MCVmNames == {"vm", "none"}
MCPrograms == {"prog", "data", "none", "text", "tiny", "dlx"}
MCDumps == {<<>>, <<"prog", "text", "data">>}

\* The first lines are twelve characters long.  The data of prog come first
\* and its code begins at 0 in a line without an address; data has a gap, an
\* address inside a piece and a cell that is given twice.
Line(width, addr, bytes) == [width |-> width, addr |-> addr, bytes |-> bytes]
MCNoAddr == -1
First == Line(12, MCNoAddr, <<>>)
MCLines ==
  [n \in MCNames |->
     CASE n = "prog" -> <<First, Line(8, 0, <<1, 2>>), Line(4, MCNoAddr, <<3>>),
                          Line(4, MCNoAddr, <<4>>), Line(4, MCNoAddr, <<5>>)>>
       [] n = "data" -> <<First, Line(5, 4, <<6>>), Line(5, 1, <<7>>),
                          Line(4, MCNoAddr, <<8>>), Line(5, 2, <<9>>)>>
       [] n \in {"text", "disk", "vm"} -> <<First>>
       [] n = "tiny" -> <<Line(3, MCNoAddr, <<>>)>>
       [] OTHER -> <<>>]
MCExecutable == {"prog", "data"}

Size(n) == CASE n \in {"text", "disk", "vm"} -> 12
             [] n = "prog" -> 32
             [] n = "data" -> 31
             [] n = "tiny" -> 3
             [] OTHER -> -1
MCHost == [n \in MCNames |-> [size |-> Size(n), dlx |-> n = "dlx", chars |-> <<60>>]]

\* The first two lists arrive whole, the third one does not fit the buffer.
MCArgLists == {<<>>, <<<<61>>, <<62>>>>, <<<<61, 62>>, <<61>>>>}
MCFillers == {0, 63}
=============================================================================
