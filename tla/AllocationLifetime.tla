-------------------------- MODULE AllocationLifetime --------------------------
(***************************************************************************)
(* Time: when an allocation and its channel bindings expire, what the      *)
(* responses tell the client about it, and the two periodic cleanup tasks. *)
(* The module follows one client; TurnRelay has the interleavings and      *)
(* leaves time out.  A request is one step, and a cleanup task runs in the *)
(* second in which its interval ticks.                                     *)
(***************************************************************************)
EXTENDS Integers, Absent

CONSTANTS Lifetimes,        \* values of LIFETIME that clients send
          MaxDuration,      \* max_allocation_duration_secs
          AllocationInterval, \* CLEANUP_INTERVAL_SECONDS of the allocation cleanup task
          Channels, Peers,
          BindingLifetime,  \* lifetime of a channel binding
          ChannelInterval,  \* CLEANUP_INTERVAL_SECONDS of the channel cleanup task
          MaxNow            \* bound on the clock

ASSUME TimesAssumption ==
    /\ Lifetimes \subseteq Nat
    /\ MaxDuration \in Nat
    /\ AllocationInterval \in Nat \ {0}
    /\ BindingLifetime \in Nat
    /\ ChannelInterval \in Nat \ {0}
    /\ MaxNow \in Nat

Allocation == [created_at : Nat, lifetime : Nat]
ChannelBinding == [peer_addr : Peers, created_at : Nat]

ASSUME AbsentAssumption == None \notin Allocation /\ None \notin ChannelBinding

VARIABLES now,          \* the clock, in seconds
          allocation,   \* the client's entry in the allocation table
          channels,     \* channel number -> binding on its relayed address
          cleanupAt,    \* next ticks of the two cleanup tasks
          channelsAt,
          told          \* ghost: time until which the last response grants the allocation

lifetimeVars == <<now, allocation, channels, cleanupAt, channelsAt, told>>

LifetimeTypeOK ==
    /\ now \in Nat
    /\ allocation \in Allocation \cup {None}
    /\ channels \in [Channels -> ChannelBinding \cup {None}]
    /\ cleanupAt \in Nat
    /\ channelsAt \in Nat
    /\ told \in Nat

NoBindings == [ch \in Channels |-> None]

\* The first tick of a tokio interval is immediate.
LifetimeInit ==
    /\ now = 0
    /\ allocation = None
    /\ channels = NoBindings
    /\ cleanupAt = 0
    /\ channelsAt = 0
    /\ told = 0

Due == now = cleanupAt \/ now = channelsAt

\* is_expired, of an allocation and of a binding.
AllocationExpired == now - allocation.created_at > allocation.lifetime
BindingExpired(ch) == now - channels[ch].created_at > BindingLifetime
-----------------------------------------------------------------------------
Capped(lifetime) == IF lifetime > MaxDuration THEN MaxDuration ELSE lifetime

\* handle_allocate: the old allocation goes, with its bindings; the new one lives for the
\* capped lifetime; the response reports the lifetime as requested.
Allocate(lifetime) ==
    /\ allocation' = [created_at |-> now, lifetime |-> Capped(lifetime)]
    /\ channels' = NoBindings
    /\ told' = now + lifetime
    /\ UNCHANGED <<now, cleanupAt, channelsAt>>

\* handle_allocate when create_allocation refuses: the old allocation is gone all the same.
AllocateRefused ==
    /\ allocation' = None
    /\ channels' = NoBindings
    /\ UNCHANGED <<now, cleanupAt, channelsAt, told>>

\* Mutant: the new lifetime is added to the old one.
RefreshAdds(lifetime) ==
    /\ allocation # None
    /\ IF lifetime = 0
       THEN allocation' = None /\ channels' = NoBindings
       ELSE allocation' = [allocation EXCEPT !.lifetime = @ + lifetime] /\ UNCHANGED channels
    /\ told' = now + lifetime
    /\ UNCHANGED <<now, cleanupAt, channelsAt>>

\* handle_refresh: 0 deletes; any other value becomes the lifetime, counted from the creation
\* of the allocation, and is reported.
Refresh(lifetime) ==
    /\ allocation # None
    /\ IF lifetime = 0
       THEN allocation' = None /\ channels' = NoBindings
       ELSE allocation' = [allocation EXCEPT !.lifetime = lifetime] /\ UNCHANGED channels
    /\ told' = now + lifetime
    /\ UNCHANGED <<now, cleanupAt, channelsAt>>

\* ChannelTable::bind: a new binding, or the same one made young again; a channel bound to
\* another peer is refused, even when that binding has expired.
ChannelBind(ch, peer) ==
    /\ allocation # None
    /\ channels[ch] # None => channels[ch].peer_addr = peer
    /\ channels' = [channels EXCEPT ![ch] = [peer_addr |-> peer, created_at |-> now]]
    /\ UNCHANGED <<now, allocation, cleanupAt, channelsAt, told>>

Cleanup ==
    /\ now = cleanupAt
    /\ cleanupAt' = now + AllocationInterval
    /\ IF allocation # None /\ AllocationExpired
       THEN allocation' = None /\ channels' = NoBindings
       ELSE UNCHANGED <<allocation, channels>>
    /\ UNCHANGED <<now, channelsAt, told>>

\* Mutant: one expired binding goes per tick.
ChannelCleanupOne ==
    LET expired == {ch \in Channels : channels[ch] # None /\ BindingExpired(ch)} IN
    /\ now = channelsAt
    /\ channelsAt' = now + ChannelInterval
    /\ channels' = [ch \in Channels |-> IF expired # {} /\ ch = (CHOOSE x \in expired : TRUE)
                                        THEN None ELSE channels[ch]]
    /\ UNCHANGED <<now, allocation, cleanupAt, told>>

ChannelCleanup ==
    /\ now = channelsAt
    /\ channelsAt' = now + ChannelInterval
    /\ channels' = [ch \in Channels |-> IF channels[ch] # None /\ BindingExpired(ch)
                                        THEN None ELSE channels[ch]]
    /\ UNCHANGED <<now, allocation, cleanupAt, told>>

ClockTick ==
    /\ ~Due
    /\ now < MaxNow
    /\ now' = now + 1
    /\ UNCHANGED <<allocation, channels, cleanupAt, channelsAt, told>>

LifetimeNext ==
    \/ \E lifetime \in Lifetimes : Allocate(lifetime) \/ Refresh(lifetime)
    \/ AllocateRefused
    \/ \E ch \in Channels, peer \in Peers : ChannelBind(ch, peer)
    \/ Cleanup
    \/ ChannelCleanup
    \/ ClockTick

LifetimeSpec == LifetimeInit /\ [][LifetimeNext]_lifetimeVars
-----------------------------------------------------------------------------
(* Properties                                                              *)

\* No allocation is kept, and no relay port held, for longer than one cleanup interval
\* after the time the client was last told, whether the lifetime ran out, was capped, or
\* was shortened by a Refresh.
NeverOutlivesGrant == allocation # None => now <= told + AllocationInterval

\* A binding that is not renewed is gone one channel cleanup interval after its lifetime,
\* so a channel is refused to another peer for a bounded time only.
BindingsExpire ==
    \A ch \in Channels : channels[ch] # None =>
        now <= channels[ch].created_at + BindingLifetime + ChannelInterval

\* What RFC 5766, with which the README claims compliance, says of LIFETIME in a response:
\* the server keeps the allocation for that long.
GrantHonoured == [][Cleanup /\ allocation' # allocation => now > told]_lifetimeVars
=============================================================================
