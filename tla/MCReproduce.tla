---------------------------- MODULE MCReproduce -----------------------------
(* The two runs of one command.                                              *)
EXTENDS Reproduce
=============================================================================
