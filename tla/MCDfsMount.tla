----------------------------- MODULE MCDfsMount -----------------------------
(* The instances of DfsMount that TLC checks; the .cfg files give the sizes. *)
EXTENDS DfsMount
=============================================================================
