-------------------------- MODULE MCFreeBlockVector --------------------------
(* Three words of three bits, the first word and one bit taken by metadata. *)
EXTENDS FreeBlockVector

MCMeta == 0 .. 3
=============================================================================
