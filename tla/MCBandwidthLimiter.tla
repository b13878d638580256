-------------------------- MODULE MCBandwidthLimiter --------------------------
(***************************************************************************)
(* Small instances of BandwidthLimiter for model checking.                 *)
(***************************************************************************)
EXTENDS BandwidthLimiter, TLC

\* Threads are interchangeable.
CallerSymmetry == Permutations(Callers)
=============================================================================
