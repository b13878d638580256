------------------------------- MODULE PortPool -------------------------------
(***************************************************************************)
(* What the port allocator promises the threads that call it: allocate and *)
(* release are linearizable.  Each takes effect on the set of taken ports  *)
(* in one step between its call and its return, and on its own port only.  *)
(* allocate may also refuse, but only if every port has been taken at some *)
(* time of the call.  TurnRelay takes ports from such a pool.              *)
(***************************************************************************)
EXTENDS Naturals

CONSTANTS Ports, Callers

VARIABLES
    taken,    \* ports in use
    owned,    \* ports returned by allocate and not yet passed to release
    phase,    \* where each caller's call stands
    port,     \* port of its call
    free      \* ports not taken since its allocate was called

vars == <<taken, owned, phase, port, free>>

Init ==
    /\ taken = {}
    /\ owned = {}
    /\ phase = [t \in Callers |-> "idle"]
    /\ port \in [Callers -> Ports]
    /\ free = [t \in Callers |-> {}]

Moves(t, from, to) == phase[t] = from /\ phase' = [phase EXCEPT ![t] = to]

CallAllocate(t) ==
    /\ Moves(t, "idle", "allocating")
    /\ free' = [free EXCEPT ![t] = Ports \ taken]
    /\ UNCHANGED <<taken, owned, port>>

Take(t) ==
    /\ Moves(t, "allocating", "allocated")
    /\ \E p \in Ports \ taken :
         /\ taken' = taken \cup {p}
         /\ port' = [port EXCEPT ![t] = p]
         /\ free' = [u \in Callers |-> free[u] \ {p}]
    /\ UNCHANGED owned

Refuse(t) ==
    /\ Moves(t, "allocating", "idle")
    /\ free[t] = {}
    /\ UNCHANGED <<taken, owned, port, free>>

ReturnPort(t) ==
    /\ Moves(t, "allocated", "idle")
    /\ owned' = owned \cup {port[t]}
    /\ UNCHANGED <<taken, port, free>>

CallRelease(t) ==
    /\ Moves(t, "idle", "releasing")
    /\ \E p \in owned : owned' = owned \ {p} /\ port' = [port EXCEPT ![t] = p]
    /\ UNCHANGED <<taken, free>>

Give(t) ==
    /\ Moves(t, "releasing", "released")
    /\ taken' = taken \ {port[t]}
    /\ UNCHANGED <<owned, port, free>>

ReturnReleased(t) ==
    /\ Moves(t, "released", "idle")
    /\ UNCHANGED <<taken, owned, port, free>>

Step(t) ==
    \/ CallAllocate(t) \/ Take(t) \/ Refuse(t) \/ ReturnPort(t)
    \/ CallRelease(t) \/ Give(t) \/ ReturnReleased(t)

Spec == Init /\ [][\E t \in Callers : Step(t)]_vars
=============================================================================
