---------------------------- MODULE MCReassembler ----------------------------
(* Model-checking instance of the reassembler.                             *)
EXTENDS Reassembler, TLC

Symmetry == Permutations(Streams)
=============================================================================
