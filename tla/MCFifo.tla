------------------------------- MODULE MCFifo -------------------------------
(* Instances of Fifo for TLC; subscribers are interchangeable.             *)
EXTENDS Fifo, TLC

Symmetry == Permutations(Subs)
=============================================================================
