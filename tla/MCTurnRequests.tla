---------------------------- MODULE MCTurnRequests ----------------------------
(* TurnRequests for TLC: with authentication the clients have a worker each,  *)
(* or share one.                                                              *)
EXTENDS TurnRequests, TLC

CONSTANTS c1, c2, w1, w2, p1, p2

MCPassword == [c \in Clients |-> p1]
MCAccounts == {[password |-> p1, expires |-> Never], [password |-> p2, expires |-> 1]}
MCFirstRule == [match |-> Clients, allow |-> TRUE, priority |-> 0]
MCRules == {MCFirstRule, [match |-> {c1}, allow |-> FALSE, priority |-> 1]}
MCSetups ==
    {[stun |-> TRUE, turn |-> TRUE, auth_disabled |-> FALSE, password |-> p2,
      hash |-> (c1 :> w1) @@ (c2 :> w2)],
     [stun |-> TRUE, turn |-> TRUE, auth_disabled |-> FALSE, password |-> None,
      hash |-> (c1 :> w1) @@ (c2 :> w1)],
     [stun |-> FALSE, turn |-> TRUE, auth_disabled |-> TRUE, password |-> p2,
      hash |-> (c1 :> w1) @@ (c2 :> w1)],
     [stun |-> TRUE, turn |-> FALSE, auth_disabled |-> FALSE, password |-> p2,
      hash |-> (c1 :> w1) @@ (c2 :> w1)]}
=============================================================================
