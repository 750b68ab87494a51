------------------------------ MODULE MCVector ------------------------------
(* An instance of Vector for TLC: elements of half the alignment.           *)
EXTENDS Vector

Lengths == <<4, 1>>
=============================================================================
