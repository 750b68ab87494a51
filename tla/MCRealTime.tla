----------------------------- MODULE MCRealTime -----------------------------
(***************************************************************************)
(* Instances of RealTime for TLC.  Processes and wrappers are model values *)
(* and interchangeable.                                                    *)
(***************************************************************************)
EXTENDS RealTime, TLC

\* The pool is as large as per_publisher_pool_size makes it.
Num == INSTANCE Numeric WITH Width <- 8
ASSUME PoolSizeAssumption ==
  {PoolSize} = Num!ceil_to_power_of_two(MaxSubs * MaxAcquires + 2)

Symmetry == Permutations(Pubs) \cup Permutations(Subs) \cup Permutations(Wrappers)
=============================================================================
