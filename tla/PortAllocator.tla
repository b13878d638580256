---------------------------- MODULE PortAllocator ----------------------------
(***************************************************************************)
(* The lock-free port bitmap: words of bits changed by compare-and-swap,   *)
(* and a counter that is updated after the swap.  Callers run allocate and *)
(* release concurrently; one step is one access to a shared atomic, with   *)
(* the local computation around it.                                        *)
(*                                                                         *)
(* A word has WordBits bits (64 in the code) and is the set of its bits    *)
(* that are 1.  A port is its index, port - min_port.                      *)
(***************************************************************************)
EXTENDS Integers, FiniteSets

CONSTANTS Callers,    \* threads inside the allocator
          PortCount,  \* max_port - min_port + 1
          WordBits    \* bits of an AtomicU64

ASSUME AllocatorAssumption ==
    /\ IsFiniteSet(Callers)
    /\ PortCount \in Nat \ {0}
    /\ WordBits \in Nat \ {0}

NumWords == (PortCount + WordBits - 1) \div WordBits
Words == 0..NumWords - 1
Bits == 0..WordBits - 1
Indexes == 0..PortCount - 1

VARIABLES
    allocated,   \* the bitmap: word -> its set bits
    count,       \* allocated_count
    pc,          \* where each caller stands
    word, left,  \* word it looks at, words left to look at
    bit,         \* bit it tries first
    cur,         \* value of the word it last read
    idx,         \* port index it has set or is to clear
    result,      \* what its last call returned
    owners,      \* ghost: how many callers got the port from allocate and have not released it
    free         \* ghost: ports free ever since the caller's allocate began

scan == <<word, left, bit>>
vars == <<allocated, count, pc, scan, cur, idx, result, owners, free>>

PCs == {"idle", "load", "random", "lowest", "count", "clear", "uncount"}
Results == {"none", "port", "exhausted", "released", "not_allocated"}

PortIndex(w, b) == w * WordBits + b
BitmapIndex(i) == i \div WordBits
BitIndex(i) == i % WordBits

\* is_allocated
IsAllocated(i) == BitIndex(i) \in allocated[BitmapIndex(i)]
Taken == {i \in Indexes : IsAllocated(i)}

TypeOK ==
    /\ allocated \in [Words -> SUBSET Bits]
    /\ count \in Int
    /\ pc \in [Callers -> PCs]
    /\ word \in [Callers -> Words]
    /\ left \in [Callers -> 0..NumWords]
    /\ bit \in [Callers -> Bits]
    /\ cur \in [Callers -> SUBSET Bits]
    /\ idx \in [Callers -> Indexes]
    /\ result \in [Callers -> Results]
    /\ owners \in [Indexes -> Nat]
    /\ free \in [Callers -> SUBSET Indexes]

Init ==
    /\ allocated = [w \in Words |-> {}]
    /\ count = 0
    /\ pc = [t \in Callers |-> "idle"]
    /\ word = [t \in Callers |-> 0]
    /\ left = [t \in Callers |-> 0]
    /\ bit = [t \in Callers |-> 0]
    /\ cur = [t \in Callers |-> {}]
    /\ idx = [t \in Callers |-> 0]
    /\ result = [t \in Callers |-> "none"]
    /\ owners = [i \in Indexes |-> 0]
    /\ free = [t \in Callers |-> {}]
-----------------------------------------------------------------------------
(* allocate                                                                *)

\* Random start word and bit.
AllocateBegin(t) ==
    /\ pc[t] = "idle"
    /\ \E w \in Words, b \in Bits :
         /\ word' = [word EXCEPT ![t] = w]
         /\ bit' = [bit EXCEPT ![t] = b]
    /\ left' = [left EXCEPT ![t] = NumWords]
    /\ pc' = [pc EXCEPT ![t] = "load"]
    /\ result' = [result EXCEPT ![t] = "none"]
    /\ free' = [free EXCEPT ![t] = Indexes \ Taken]
    /\ UNCHANGED <<allocated, count, cur, idx, owners>>

\* Mutant: the scan goes round until it finds a port.
NextWordForEver(t) ==
    /\ word' = [word EXCEPT ![t] = (@ + 1) % NumWords]
    /\ bit' = [bit EXCEPT ![t] = (@ + 1) % WordBits]
    /\ pc' = [pc EXCEPT ![t] = "load"]
    /\ UNCHANGED <<left, result>>

\* The locals of the scan end with it.
EndScan(t) ==
    /\ word' = [word EXCEPT ![t] = 0]
    /\ left' = [left EXCEPT ![t] = 0]
    /\ bit' = [bit EXCEPT ![t] = 0]

\* On to the next word, cyclically, or None after the last.
NextWord(t) ==
    \/ /\ left[t] > 1
       /\ word' = [word EXCEPT ![t] = (@ + 1) % NumWords]
       /\ bit' = [bit EXCEPT ![t] = (@ + 1) % WordBits]
       /\ left' = [left EXCEPT ![t] = @ - 1]
       /\ pc' = [pc EXCEPT ![t] = "load"]
       /\ UNCHANGED result
    \/ /\ left[t] <= 1
       /\ EndScan(t)
       /\ pc' = [pc EXCEPT ![t] = "idle"]
       /\ result' = [result EXCEPT ![t] = "exhausted"]

Load(t) ==
    LET w == allocated[word[t]] IN
    /\ pc[t] = "load"
    /\ cur' = [cur EXCEPT ![t] = w]
    /\ \/ w = Bits /\ NextWord(t)
       \/ /\ w # Bits
          /\ pc' = [pc EXCEPT ![t] = IF bit[t] \notin w /\ PortIndex(word[t], bit[t]) < PortCount
                                     THEN "random" ELSE "lowest"]
          /\ UNCHANGED <<scan, result>>
    /\ UNCHANGED <<allocated, count, idx, owners, free>>

\* Mutant: a load and a store instead of a compare-and-swap.
SetBitUnchecked(t, b) ==
    LET i == PortIndex(word[t], b) IN
    /\ allocated' = [allocated EXCEPT ![word[t]] = cur[t] \cup {b}]
    /\ idx' = [idx EXCEPT ![t] = i]
    /\ pc' = [pc EXCEPT ![t] = "count"]
    /\ free' = [u \in Callers |-> free[u] \ {i}]
    /\ EndScan(t)
    /\ UNCHANGED <<count, cur, result, owners>>

\* compare_exchange_weak that sets bit b of the caller's word.
SetBit(t, b) ==
    LET i == PortIndex(word[t], b) IN
    /\ allocated[word[t]] = cur[t]
    /\ allocated' = [allocated EXCEPT ![word[t]] = @ \cup {b}]
    /\ idx' = [idx EXCEPT ![t] = i]
    /\ pc' = [pc EXCEPT ![t] = "count"]
    /\ free' = [u \in Callers |-> free[u] \ {i}]
    /\ EndScan(t)
    /\ UNCHANGED <<count, cur, result, owners>>

\* Mutant: a failed swap gives the whole word up.
SwapFailsSkipsWord(t) ==
    /\ cur' = [cur EXCEPT ![t] = allocated[word[t]]]
    /\ NextWord(t)
    /\ UNCHANGED <<allocated, count, idx, owners, free>>

\* compare_exchange_weak that fails, perhaps spuriously, and returns the word.
SwapFails(t) ==
    /\ cur' = [cur EXCEPT ![t] = allocated[word[t]]]
    /\ pc' = [pc EXCEPT ![t] = "lowest"]
    /\ UNCHANGED <<allocated, count, scan, idx, result, owners, free>>

TryRandom(t) == pc[t] = "random" /\ SetBit(t, bit[t])
TryRandomFails(t) == pc[t] = "random" /\ SwapFails(t)

\* trailing_zeros of the free mask: the lowest free bit, which may lie beyond the range.
Lowest(s) == CHOOSE b \in s : \A c \in s : b <= c

Usable(t) == cur[t] # Bits /\ PortIndex(word[t], Lowest(Bits \ cur[t])) < PortCount

TryLowest(t) == pc[t] = "lowest" /\ Usable(t) /\ SetBit(t, Lowest(Bits \ cur[t]))
TryLowestFails(t) == pc[t] = "lowest" /\ Usable(t) /\ SwapFails(t)

WordExhausted(t) ==
    /\ pc[t] = "lowest"
    /\ ~Usable(t)
    /\ NextWord(t)
    /\ UNCHANGED <<allocated, count, cur, idx, owners, free>>

\* Mutant: the port is returned uncounted.
CountUpMissing(t) ==
    /\ pc[t] = "count"
    /\ owners' = [owners EXCEPT ![idx[t]] = @ + 1]
    /\ pc' = [pc EXCEPT ![t] = "idle"]
    /\ result' = [result EXCEPT ![t] = "port"]
    /\ UNCHANGED <<allocated, count, scan, cur, idx, free>>

\* allocated_count.fetch_add, then the port is returned.
CountUp(t) ==
    /\ pc[t] = "count"
    /\ count' = count + 1
    /\ owners' = [owners EXCEPT ![idx[t]] = @ + 1]
    /\ pc' = [pc EXCEPT ![t] = "idle"]
    /\ result' = [result EXCEPT ![t] = "port"]
    /\ UNCHANGED <<allocated, scan, cur, idx, free>>
-----------------------------------------------------------------------------
(* release, of a port a caller owns                                      *)

\* The loop checks the bit in every value of the word it reads, and gives up if it is clear.
ClearOrGiveUp(t, i, w) ==
    /\ cur' = [cur EXCEPT ![t] = w]
    /\ pc' = [pc EXCEPT ![t] = IF BitIndex(i) \in w THEN "clear" ELSE "idle"]
    /\ result' = [result EXCEPT ![t] = IF BitIndex(i) \in w THEN "none" ELSE "not_allocated"]

ReleaseBegin(t) ==
    /\ pc[t] = "idle"
    /\ \E i \in Indexes :
         /\ owners[i] > 0
         /\ owners' = [owners EXCEPT ![i] = @ - 1]
         /\ idx' = [idx EXCEPT ![t] = i]
         /\ ClearOrGiveUp(t, i, allocated[BitmapIndex(i)])
    /\ UNCHANGED <<allocated, count, scan, free>>

\* Mutant: a load and a store instead of a compare-and-swap.
ClearUnchecked(t) ==
    LET w == BitmapIndex(idx[t]) IN
    /\ pc[t] = "clear"
    /\ allocated' = [allocated EXCEPT ![w] = cur[t] \ {BitIndex(idx[t])}]
    /\ pc' = [pc EXCEPT ![t] = "uncount"]
    /\ UNCHANGED <<count, scan, cur, idx, result, owners, free>>

Clear(t) ==
    LET w == BitmapIndex(idx[t]) IN
    /\ pc[t] = "clear"
    /\ allocated[w] = cur[t]
    /\ allocated' = [allocated EXCEPT ![w] = @ \ {BitIndex(idx[t])}]
    /\ pc' = [pc EXCEPT ![t] = "uncount"]
    /\ UNCHANGED <<count, scan, cur, idx, result, owners, free>>

ClearFails(t) ==
    /\ pc[t] = "clear"
    /\ ClearOrGiveUp(t, idx[t], allocated[BitmapIndex(idx[t])])
    /\ UNCHANGED <<allocated, count, scan, idx, owners, free>>

CountDown(t) ==
    /\ pc[t] = "uncount"
    /\ count' = count - 1
    /\ pc' = [pc EXCEPT ![t] = "idle"]
    /\ result' = [result EXCEPT ![t] = "released"]
    /\ UNCHANGED <<allocated, scan, cur, idx, owners, free>>
-----------------------------------------------------------------------------
Swap(t) == TryRandom(t) \/ TryLowest(t) \/ Clear(t)

Continue(t) ==
    \/ Load(t) \/ Swap(t) \/ TryRandomFails(t) \/ TryLowestFails(t) \/ WordExhausted(t)
    \/ CountUp(t) \/ ClearFails(t) \/ CountDown(t)

Next == \E t \in Callers : AllocateBegin(t) \/ ReleaseBegin(t) \/ Continue(t)

Spec == Init /\ [][Next]_vars

\* A thread inside the allocator runs on, and a weak compare-and-swap whose word is
\* unchanged again and again does not fail for ever.
Fairness == \A t \in Callers : WF_vars(Continue(t)) /\ SF_vars(Swap(t))

FairSpec == Spec /\ Fairness
-----------------------------------------------------------------------------
(* Properties                                                              *)

\* The callers that have set a bit and not yet returned it, or are about to clear one.
InTransit == {t \in Callers : pc[t] \in {"count", "clear"}}

\* Every port whose bit is set belongs to exactly one party: to the callers that got it
\* from allocate, or to one call in progress.  No interleaving of compare-and-swaps hands
\* a port out twice, loses one, or clears the bit of another port in the word, and release always finds its bit.
OneOwnerPerPort ==
    /\ \A t \in Callers : result[t] # "not_allocated"
    /\ Taken = {i \in Indexes : owners[i] = 1} \cup {idx[t] : t \in InTransit}
    /\ \A i \in Indexes : owners[i] <= 1
    /\ \A t \in InTransit : owners[idx[t]] = 0
    /\ \A t, u \in InTransit : idx[t] = idx[u] => t = u

\* The counter is off by exactly the calls between their swap and their count.
CountDrift ==
    count + Cardinality({t \in Callers : pc[t] = "count"})
        = Cardinality(Taken) + Cardinality({t \in Callers : pc[t] = "uncount"})

\* allocate returns None only if no port was free during the whole call: neither the
\* rotated scan nor a failed swap skips a port that was free from beginning to end.
NoneMeansExhausted == \A t \in Callers : result[t] = "exhausted" => free[t] = {}

\* What a caller of the pool is doing while its thread stands at c in the code.
Phase(c) == CASE c = "idle" -> "idle"
              [] c \in {"load", "random", "lowest"} -> "allocating"
              [] c = "count" -> "allocated"
              [] c = "clear" -> "releasing"
              [] c = "uncount" -> "released"

Pool == INSTANCE PortPool WITH
    Ports <- Indexes, taken <- Taken, owned <- {i \in Indexes : owners[i] > 0},
    phase <- [t \in Callers |-> Phase(pc[t])], port <- idx

\* allocate and release are linearizable: the bitmap changes as in PortPool, by the one port
\* of one call and at the call's own swap, although other threads change the same word between
\* its read and its swap; release never returns before its bit is clear.
ImplementsPortPool == Pool!Spec

\* When every caller is inside the allocator, one of them gets out: swaps that fail
\* because of each other do not go on for ever.
LockFree == (\A t \in Callers : pc[t] # "idle") ~> (\E t \in Callers : pc[t] = "idle")
=============================================================================
