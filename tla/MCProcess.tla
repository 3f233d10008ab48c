------------------------------ MODULE MCProcess ------------------------------
(* The instances of Process that TLC checks; the .cfg files give the sizes. *)
EXTENDS Process
=============================================================================
