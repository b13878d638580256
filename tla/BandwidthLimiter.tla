--------------------------- MODULE BandwidthLimiter ---------------------------
(***************************************************************************)
(* The bandwidth manager: one token bucket for all traffic and one for     *)
(* each allocation that is registered with a limit.  Threads call          *)
(* try_relay at the same time; a step is one access to the clock, to       *)
(* last_update, to the token counter or to the map of trackers.            *)
(*                                                                         *)
(* Time is counted in ticks, TicksPerSec of them to a second, as the code  *)
(* counts nanoseconds.  Counters are machine words of maximum MaxWord.     *)
(***************************************************************************)
EXTENDS Naturals, FiniteSets, FiniteSetsExt, Absent

CONSTANTS Callers,      \* threads that relay packets
          Addrs,        \* relayed addresses
          GlobalLimit,  \* global_limit, a rate
          Limits,       \* rates an allocation may be registered with, Unlimited included
          Sizes,        \* packet sizes
          TicksPerSec,
          BurstSecs,    \* 10 in the code
          MaxWord,      \* u64::MAX
          MaxTime,      \* bound on the clock
          MaxTotal,     \* bound on the bytes relayed
          Global, Unlimited

Buckets == Addrs \cup {Global}
Word == 0..MaxWord

ASSUME BandwidthAssumption ==
    /\ IsFiniteSet(Callers)
    /\ Global \notin Addrs
    /\ MaxWord \in Nat
    /\ Limits \subseteq Word \cup {Unlimited}
    /\ GlobalLimit \in Word \cup {Unlimited}
    /\ Unlimited \notin Word /\ None \notin Word \cup {Unlimited}
    /\ Sizes \subseteq Word
    /\ TicksPerSec \in Nat \ {0}
    /\ BurstSecs \in Nat
    /\ MaxTime \in Nat /\ MaxTotal \in Nat
    /\ None \notin Buckets

VARIABLES
    clock,       \* Instant::now()
    limit,       \* bucket -> its rate; None for an address without a tracker
    tokens,      \* bucket -> tokens
    last,        \* bucket -> last_update
    total,       \* total_bytes
    stage,       \* where each caller stands in try_relay
    call,        \* its locals: the bucket, the address, the size, now, tokens_to_add, current
    ideal,       \* ghost: bucket -> tokens at last_update, exact, in units of 1/TicksPerSec
    admitted,    \* ghost: bucket -> packets it has let through
    spent,       \* ghost: bucket -> bytes it has let through
    opened,      \* ghost: bucket -> when it was created
    crowded      \* ghost: buckets on which two calls have been under way at once

tally == <<ideal, admitted, spent, opened, crowded>>
bucketVars == <<limit, tokens, last>>
bandwidthVars == <<clock, bucketVars, total, stage, call, tally>>

\* Saturating arithmetic on words.
Saturate(n) == IF n > MaxWord THEN MaxWord ELSE n

\* The bucket of a limiter for a rate holds ten seconds of it.
Burst(rate) == Saturate(rate * BurstSecs)

\* Mutant: the rest is rounded up.
TokensToAddUp(rate, elapsed) ==
    Saturate(Saturate((elapsed \div TicksPerSec) * rate)
             + ((elapsed % TicksPerSec) * rate + TicksPerSec - 1) \div TicksPerSec)

\* tokens_to_add: whole seconds and the rest are multiplied apart, the rest rounded down.
TokensToAdd(rate, elapsed) ==
    Saturate(Saturate((elapsed \div TicksPerSec) * rate) + ((elapsed % TicksPerSec) * rate) \div TicksPerSec)

Least(m, n) == IF m < n THEN m ELSE n

Limited(b) == limit[b] \notin {None, Unlimited}

Idle == [bucket |-> None, addr |-> None, size |-> 0, now |-> 0, add |-> 0, current |-> 0]

BandwidthTypeOK ==
    /\ clock \in Nat
    /\ limit \in [Buckets -> Word \cup {Unlimited, None}]
    /\ tokens \in [Buckets -> Word]
    /\ last \in [Buckets -> Nat]
    /\ total \in Nat
    /\ stage \in [Callers -> {"idle", "now", "elapsed", "load", "swap", "update", "lookup"}]
    /\ call \in [Callers -> [bucket : Buckets \cup {None}, addr : Addrs \cup {None}, size : Word,
                             now : Nat, add : Word, current : Word]]

BandwidthInit ==
    /\ clock = 0
    /\ limit = [b \in Buckets |-> IF b = Global THEN GlobalLimit ELSE None]
    /\ tokens = [b \in Buckets |-> IF Limited(b) THEN Burst(limit[b]) ELSE 0]
    /\ last = [b \in Buckets |-> 0]
    /\ total = 0
    /\ stage = [c \in Callers |-> "idle"]
    /\ call = [c \in Callers |-> Idle]
    /\ ideal = [b \in Buckets |-> tokens[b] * TicksPerSec]
    /\ admitted = [b \in Buckets |-> 0]
    /\ spent = [b \in Buckets |-> 0]
    /\ opened = [b \in Buckets |-> 0]
    /\ crowded = {}
-----------------------------------------------------------------------------
(* BandwidthLimiter::try_consume                                           *)

Consuming == {"elapsed", "load", "swap", "update"}

\* Another call is under way on the bucket.
Contended(c, b) == \E d \in Callers \ {c} : call[d].bucket = b /\ stage[d] \in Consuming

\* let now = Instant::now()
ReadNow(c) ==
    /\ stage[c] = "now"
    /\ stage' = [stage EXCEPT ![c] = "elapsed"]
    /\ call' = [call EXCEPT ![c].now = clock]
    /\ crowded' = IF Contended(c, call[c].bucket) THEN crowded \cup {call[c].bucket} ELSE crowded
    /\ UNCHANGED <<clock, bucketVars, total, ideal, admitted, spent, opened>>

\* now.duration_since(*last_update.read()) is zero when last_update is later than now.
ReadElapsed(c) ==
    LET b == call[c].bucket
        elapsed == IF call[c].now > last[b] THEN call[c].now - last[b] ELSE 0
    IN /\ stage[c] = "elapsed"
       /\ stage' = [stage EXCEPT ![c] = "load"]
       /\ call' = [call EXCEPT ![c].add = TokensToAdd(limit[b], elapsed)]
       /\ UNCHANGED <<clock, bucketVars, total, tally>>

LoadTokens(c) ==
    /\ stage[c] = "load"
    /\ stage' = [stage EXCEPT ![c] = "swap"]
    /\ call' = [call EXCEPT ![c].current = tokens[call[c].bucket]]
    /\ UNCHANGED <<clock, bucketVars, total, tally>>

Available(c) == Least(Saturate(call[c].current + call[c].add), Burst(limit[call[c].bucket]))

\* What try_relay does once a bucket has let the packet through: after the global one it goes
\* to the allocation's, after that it counts the packet and returns.
Pass(c) ==
    IF call[c].bucket = Global
    THEN /\ stage' = [stage EXCEPT ![c] = "lookup"]
         /\ UNCHANGED <<total, call>>
    ELSE /\ stage' = [stage EXCEPT ![c] = "idle"]
         /\ total' = total + call[c].size
         /\ call' = [call EXCEPT ![c] = Idle]

\* Not enough tokens: None, and try_relay returns false.  The tokens of the global bucket, if
\* it was the allocation's that refused, are not given back.
Refuse(c) ==
    /\ stage[c] = "swap"
    /\ Available(c) < call[c].size
    /\ stage' = [stage EXCEPT ![c] = "idle"]
    /\ call' = [call EXCEPT ![c] = Idle]
    /\ UNCHANGED <<clock, bucketVars, total, tally>>

\* The exchange succeeds.
Swap(c) ==
    LET b == call[c].bucket IN
    /\ stage[c] = "swap"
    /\ Available(c) >= call[c].size
    /\ tokens[b] = call[c].current
    /\ tokens' = [tokens EXCEPT ![b] = Available(c) - call[c].size]
    /\ stage' = [stage EXCEPT ![c] = "update"]
    /\ admitted' = [admitted EXCEPT ![b] = @ + 1]
    /\ spent' = [spent EXCEPT ![b] = @ + call[c].size]
    /\ ideal' = [ideal EXCEPT ![b] = IF b \in crowded THEN 0
          ELSE Least(@ + (call[c].now - last[b]) * limit[b], Burst(limit[b]) * TicksPerSec)
               - call[c].size * TicksPerSec]
    /\ UNCHANGED <<clock, limit, last, total, call, opened, crowded>>

\* The weak exchange fails, because the counter has changed or for no reason; the value read
\* is tried next, with the same tokens_to_add.
SwapFails(c) ==
    /\ stage[c] = "swap"
    /\ Available(c) >= call[c].size
    /\ call' = [call EXCEPT ![c].current = tokens[call[c].bucket]]
    /\ UNCHANGED <<clock, bucketVars, total, stage, tally>>

\* Mutant: last_update is left as it was.
UpdateForgotten(c) ==
    /\ stage[c] = "update"
    /\ Pass(c)
    /\ UNCHANGED <<clock, bucketVars, tally>>

\* *last_update.write() = now, the now of the beginning of the call.
Update(c) ==
    /\ stage[c] = "update"
    /\ last' = [last EXCEPT ![call[c].bucket] = call[c].now]
    /\ Pass(c)
    /\ UNCHANGED <<clock, limit, tokens, tally>>
-----------------------------------------------------------------------------
(* BandwidthManager                                                        *)

\* Mutant: an address with a limit of its own is spared the global one.
TryRelayOwnLimitOnly(c, a, size) ==
    /\ stage[c] = "idle"
    /\ total < MaxTotal
    /\ stage' = [stage EXCEPT ![c] = IF Limited(Global) /\ ~Limited(a) THEN "now" ELSE "lookup"]
    /\ call' = [call EXCEPT ![c] =
         [bucket |-> Global, addr |-> a, size |-> size, now |-> 0, add |-> 0, current |-> 0]]
    /\ UNCHANGED <<clock, bucketVars, total, tally>>

\* try_relay of a packet: the global limit is checked first, if there is one.
TryRelay(c, a, size) ==
    /\ stage[c] = "idle"
    /\ total < MaxTotal
    /\ stage' = [stage EXCEPT ![c] = IF Limited(Global) THEN "now" ELSE "lookup"]
    /\ call' = [call EXCEPT ![c] =
         [bucket |-> Global, addr |-> a, size |-> size, now |-> 0, add |-> 0, current |-> 0]]
    /\ UNCHANGED <<clock, bucketVars, total, tally>>

\* The tracker is looked up, and its bucket asked, under the read lock of the map.  Without a
\* tracker, or with one that has no limit, the packet passes.
Lookup(c) ==
    LET a == call[c].addr IN
    /\ stage[c] = "lookup"
    /\ IF Limited(a)
       THEN /\ stage' = [stage EXCEPT ![c] = "now"]
            /\ call' = [call EXCEPT ![c].bucket = a]
            /\ UNCHANGED total
       ELSE /\ stage' = [stage EXCEPT ![c] = "idle"]
            /\ call' = [call EXCEPT ![c] = Idle]
            /\ total' = total + call[c].size
    /\ UNCHANGED <<clock, bucketVars, tally>>

\* No caller holds the map's read lock.
TrackersUnlocked == \A c \in Callers : call[c].bucket \notin Addrs

\* register_allocation replaces the tracker of the address by a fresh one with a full bucket.
RegisterAllocation(a, rate) ==
    LET burst == IF rate = Unlimited THEN 0 ELSE Burst(rate) IN
    /\ TrackersUnlocked
    /\ limit' = [limit EXCEPT ![a] = rate]
    /\ tokens' = [tokens EXCEPT ![a] = burst]
    /\ last' = [last EXCEPT ![a] = clock]
    /\ ideal' = [ideal EXCEPT ![a] = burst * TicksPerSec]
    /\ admitted' = [admitted EXCEPT ![a] = 0]
    /\ spent' = [spent EXCEPT ![a] = 0]
    /\ opened' = [opened EXCEPT ![a] = clock]
    /\ crowded' = crowded \ {a}
    /\ UNCHANGED <<clock, total, stage, call>>

UnregisterAllocation(a) ==
    /\ TrackersUnlocked
    /\ limit[a] # None
    /\ limit' = [limit EXCEPT ![a] = None]
    /\ tokens' = [tokens EXCEPT ![a] = 0]
    /\ last' = [last EXCEPT ![a] = 0]
    /\ ideal' = [ideal EXCEPT ![a] = 0]
    /\ admitted' = [admitted EXCEPT ![a] = 0]
    /\ spent' = [spent EXCEPT ![a] = 0]
    /\ opened' = [opened EXCEPT ![a] = 0]
    /\ crowded' = crowded \ {a}
    /\ UNCHANGED <<clock, total, stage, call>>

Tick ==
    /\ clock < MaxTime
    /\ clock' = clock + 1
    /\ UNCHANGED <<bucketVars, total, stage, call, tally>>
-----------------------------------------------------------------------------
Consume(c) == ReadNow(c) \/ ReadElapsed(c) \/ LoadTokens(c) \/ Refuse(c) \/ Swap(c) \/ SwapFails(c) \/ Update(c)

BandwidthNext ==
    \/ \E c \in Callers, a \in Addrs, size \in Sizes : TryRelay(c, a, size)
    \/ \E c \in Callers : Consume(c) \/ Lookup(c)
    \/ \E a \in Addrs, rate \in Limits : RegisterAllocation(a, rate)
    \/ \E a \in Addrs : UnregisterAllocation(a)
    \/ Tick

BandwidthSpec == BandwidthInit /\ [][BandwidthNext]_bandwidthVars
-----------------------------------------------------------------------------
(* Properties                                                              *)

\* Without calls that overlap, rounding is all that separates a bucket from one filled
\* continuously: try_consume never hands out more, and loses less than one token for each
\* packet it lets through, however the packets are spread over time.
TracksExactBucket ==
    \A b \in Buckets : Limited(b) /\ b \notin crowded =>
        /\ tokens[b] * TicksPerSec <= ideal[b]
        /\ ideal[b] <= tokens[b] * TicksPerSec + admitted[b] * (TicksPerSec - 1)

\* Calls that overlap count the same time more than once: each reads last_update before the
\* others write it, and a slow one puts it back.  With n threads a moment is counted at most
\* 1 + 2 + ... + n times, so a bucket never lets through more than its burst and that many
\* times its rate; without overlap the rate is kept.
OveradmissionBounded ==
    LET n == Cardinality(Callers)
        times(b) == IF b \in crowded THEN (n * (n + 1)) \div 2 ELSE 1
    IN \A b \in Buckets : Limited(b) =>
           spent[b] * TicksPerSec <= Burst(limit[b]) * TicksPerSec
                                     + times(b) * limit[b] * (clock - opened[b])

\* Every byte reported as relayed has been paid for in the global bucket: what is in
\* total_bytes, and what has passed the global bucket and awaits the allocation's.
RelayedWasPaid ==
    LET waiting == {c \in Callers : call[c].bucket \in Addrs \/ stage[c] \in {"lookup", "update"}} IN
    Limited(Global) => total + MapThenSumSet(LAMBDA c : call[c].size, waiting) <= spent[Global]
=============================================================================
