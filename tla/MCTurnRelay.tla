----------------------------- MODULE MCTurnRelay -----------------------------
(***************************************************************************)
(* Small instances of TurnRelay for model checking.                        *)
(***************************************************************************)
EXTENDS TurnRelay, TLC

CONSTANTS f1, f2, c1, c2, c3, c4

\* Two UDP workers, one client each.
TwoClients == f1 :> {c1} @@ f2 :> {c2}

\* Two UDP workers with two clients each.
FourClients == f1 :> {c1, c2} @@ f2 :> {c3, c4}

\* One client address reaching the server over two transports.
TwoTransports == f1 :> {c1} @@ f2 :> {c1}

\* Relay ports are interchangeable, and so are the clients of one worker.
WorkerSymmetry == Permutations(Ports) \cup Permutations({c1, c2}) \cup Permutations({c3, c4})
=============================================================================
