--------------------------- MODULE MCPortAllocator ---------------------------
(***************************************************************************)
(* Small instances of PortAllocator for model checking.                    *)
(***************************************************************************)
EXTENDS PortAllocator, TLC

\* The callers are interchangeable.
CallerSymmetry == Permutations(Callers)
=============================================================================
