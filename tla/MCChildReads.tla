---------------------------- MODULE MCChildReads ----------------------------
(* All short lists; the module needs no definitions of its own.            *)
EXTENDS ChildReads
=============================================================================
