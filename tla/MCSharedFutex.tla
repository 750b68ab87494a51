--------------------------- MODULE MCSharedFutex ----------------------------
(* Instances of SharedFutex for TLC; threads are interchangeable.          *)
EXTENDS SharedFutex, TLC

Symmetry == Permutations(Threads)
=============================================================================
