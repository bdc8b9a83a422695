---------------------------- MODULE MCRunStream ----------------------------
(* A small instance of RunStream for TLC: its constants are numbers.         *)
EXTENDS RunStream
=============================================================================
