---------------------------- MODULE MCGraphStore ----------------------------
(* Two runs that write one graph and one that reads it.                      *)
EXTENDS GraphStore
=============================================================================
