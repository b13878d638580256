------------------------- MODULE MCAllocationLifetime -------------------------
(***************************************************************************)
(* Small instances of AllocationLifetime for model checking.               *)
(***************************************************************************)
EXTENDS AllocationLifetime, TLC

\* Channels and peers are interchangeable.
TableSymmetry == Permutations(Channels) \cup Permutations(Peers)
=============================================================================
