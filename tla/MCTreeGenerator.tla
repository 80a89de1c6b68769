--------------------------- MODULE MCTreeGenerator ---------------------------
(* A small instance of TreeGenerator for TLC.                              *)
EXTENDS TreeGenerator

Draws == 0 .. 3
=============================================================================
