-------------------------- MODULE MCClientTransport --------------------------
(***************************************************************************)
(* Small instances of ClientTransport for model checking.                  *)
(***************************************************************************)
EXTENDS ClientTransport, TLC

\* Connections are interchangeable, and so are relay tasks.
TaskSymmetry == Permutations(Conns) \cup Permutations(Relays)
=============================================================================
