-------------------------- MODULE MCManagedRunner --------------------------
(* ManagedRunner on small sets of units, create options and runners.       *)
EXTENDS ManagedRunner, TLC

\* Nothing in ManagedRunner distinguishes two runner ids, two options or two units.
Symmetry == Permutations(Ids) \cup Permutations(Opts) \cup Permutations(Entries)

\* States beyond the bound on ids are not followed.
WithinBound == faults <= MaxFaults
=============================================================================
