------------------------------ MODULE MCRawlog ------------------------------
(* Rawlog for TLC: log names are interchangeable model values.               *)
EXTENDS Rawlog

Symmetry == Permutations(Names)
=============================================================================
