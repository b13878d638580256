-------------------------- MODULE TrafficProofs -----------------------------
(***************************************************************************)
(* Proofs for the two components that a client's traffic passes through:   *)
(* BandwidthLimiter, whose buckets let a packet through or not, and        *)
(* ClientTransport, which puts frames on its streams.  They share the      *)
(* constant None and no state.                                             *)
(***************************************************************************)
EXTENDS ClientTransport, BandwidthLimiter, TLAPS

-----------------------------------------------------------------------------
(* Bandwidth                                                               *)

\* Dividing with a remainder.
LEMMA Division ==
    ASSUME NEW n \in Nat, NEW d \in Nat \ {0}
    PROVE  /\ n \div d \in Nat /\ n % d \in 0..(d - 1)
           /\ n = (n \div d) * d + (n % d)
OBVIOUS

\* Multiplying by d distributes over sums and keeps an order.
LEMMA Products ==
    ASSUME NEW a \in Int, NEW b \in Int, NEW d \in Nat
    PROVE  /\ a * d \in Int /\ (a + b) * d = a * d + b * d /\ (a - b) * d = a * d - b * d
           /\ a <= b => a * d <= b * d
OBVIOUS

\* What elapsed time adds: never more than rate and time make, and less than one token less,
\* unless the counter is at its end.
LEMMA Refill ==
    ASSUME NEW rate \in Word, NEW elapsed \in Nat
    PROVE  /\ TokensToAdd(rate, elapsed) \in Word
           /\ TokensToAdd(rate, elapsed) * TicksPerSec <= elapsed * rate
           /\ \/ TokensToAdd(rate, elapsed) = MaxWord
              \/ elapsed * rate <= TokensToAdd(rate, elapsed) * TicksPerSec + (TicksPerSec - 1)
<1> DEFINE T == TicksPerSec
           secs == elapsed \div T
           rest == elapsed % T
           part == (rest * rate) \div T
           left == (rest * rate) % T
<1>1. T \in Nat \ {0} /\ rate \in Nat /\ MaxWord \in Nat
  BY BandwidthAssumption DEF Word
<1>2. secs \in Nat /\ rest \in Nat /\ elapsed = secs * T + rest /\ rest * rate \in Nat
  BY <1>1, Division
<1>4. part \in Nat /\ left \in 0..(T - 1) /\ rest * rate = part * T + left
  BY <1>1, <1>2, Division, Zenon
<1>5. TokensToAdd(rate, elapsed) = Saturate(Saturate(secs * rate) + part)
  BY DEF TokensToAdd
<1> HIDE DEF secs, rest, part, left, T
<1>6. elapsed * rate = (secs * rate) * T + rest * rate
  BY <1>1, <1>2
<1> DEFINE whole == secs * rate
<1>7. whole \in Nat
  BY <1>1, <1>2
<1>8. elapsed * rate = whole * T + part * T + left
  BY <1>1, <1>4, <1>7, <1>6
<1> HIDE DEF whole
<1> DEFINE sum == Saturate(whole) + part
<1>9. sum \in Nat /\ sum <= whole + part /\ (sum < MaxWord => sum = whole + part)
  BY <1>1, <1>4, <1>7 DEF Saturate
<1>10. TokensToAdd(rate, elapsed) = Saturate(sum)
  BY <1>5 DEF whole
<1> HIDE DEF sum
<1>11. /\ Saturate(sum) \in Word /\ Saturate(sum) <= whole + part
       /\ Saturate(sum) = MaxWord \/ Saturate(sum) = whole + part
  BY <1>1, <1>4, <1>7, <1>9 DEF Saturate, Word
<1>12. (whole + part) * T = whole * T + part * T /\ Saturate(sum) * T <= (whole + part) * T
  BY <1>1, <1>4, <1>7, <1>11, Products DEF Word
<1>13. QED
  BY <1>1, <1>4, <1>7, <1>11, <1>12, <1>8, <1>10 DEF Word, T

\* One packet: what try_consume takes and leaves, against the exact bucket.
LEMMA Taken ==
    ASSUME NEW rate \in Word, NEW elapsed \in Nat, NEW current \in Word, NEW exact \in Int, NEW count \in Nat,
           current * TicksPerSec <= exact, exact <= current * TicksPerSec + count * (TicksPerSec - 1),
           NEW size \in Nat,
           size <= Least(Saturate(current + TokensToAdd(rate, elapsed)), Burst(rate))
    PROVE  LET rest == Least(Saturate(current + TokensToAdd(rate, elapsed)), Burst(rate)) - size
               exactRest == Least(exact + elapsed * rate, Burst(rate) * TicksPerSec) - size * TicksPerSec
           IN /\ rest \in Word /\ exactRest \in Int
              /\ rest * TicksPerSec <= exactRest
              /\ exactRest <= rest * TicksPerSec + (count + 1) * (TicksPerSec - 1)
<1> DEFINE T == TicksPerSec
           add == TokensToAdd(rate, elapsed)
           full == Burst(rate)
           new == Saturate(current + add)
           income == elapsed * rate
<1>1. T \in Nat \ {0} /\ rate \in Nat /\ MaxWord \in Nat /\ current \in Nat
  BY BandwidthAssumption DEF Word
<1>2. full \in Word /\ full \in Nat /\ full <= MaxWord
  BY <1>1, BandwidthAssumption DEF Burst, Saturate, Word
<1>3. /\ add \in Nat /\ add <= MaxWord /\ add * T <= income
      /\ add = MaxWord \/ income <= add * T + (T - 1)
  BY <1>1, Refill DEF Word
<1>4. income \in Nat
  BY <1>1
<1> HIDE DEF add, full, income
<1>5. /\ new \in Nat /\ new <= MaxWord /\ new <= current + add
      /\ new >= full \/ (new = current + add /\ add # MaxWord)
  BY <1>1, <1>2, <1>3 DEF Saturate
<1> HIDE DEF new, T
<1> DEFINE have == Least(new, full)
<1>6. have \in Nat /\ have <= MaxWord /\ size <= have /\ have <= full /\ have <= new /\ (have = full \/ (have = new /\ new < full))
  BY <1>2, <1>5 DEF have, new, full, add, Least
<1> HIDE DEF have
<1>7. /\ have * T <= full * T /\ have * T <= (current + add) * T
      /\ (current + add) * T = current * T + add * T
      /\ (have - size) * T = have * T - size * T
      /\ (count + 1) * (T - 1) = count * (T - 1) + (T - 1)
  BY <1>1, <1>3, <1>5, <1>6, <1>2, Products
<1>8. /\ have * T \in Nat /\ full * T \in Nat /\ current * T \in Nat /\ add * T \in Nat /\ size * T \in Nat
      /\ count * (T - 1) \in Nat
  BY <1>1, <1>2, <1>3, <1>6
<1> DEFINE exactHave == Least(exact + income, full * T)
<1>9. exactHave \in Int /\ have * T <= exactHave
  BY <1>3, <1>4, <1>7, <1>8 DEF Least, T
<1>10. exactHave <= have * T + (count + 1) * (T - 1)
  BY <1>1, <1>4, <1>7, <1>8, <1>2, <1>3, <1>5, <1>9, <1>6 DEF Least, T
<1> HIDE DEF exactHave
<1>11. /\ have - size \in Word /\ exactHave - size * T \in Int
       /\ (have - size) * T <= exactHave - size * T
       /\ exactHave - size * T <= (have - size) * T + (count + 1) * (T - 1)
  BY <1>1, <1>6, <1>7, <1>8, <1>9, <1>10 DEF Word
<1>12. QED
  BY <1>11 DEF have, exactHave, new, full, add, income, T

\* What a caller holds in its local variables.
Calls == [bucket : Buckets \cup {None}, addr : Addrs \cup {None}, size : Word, now : Nat, add : Word, current : Word]

\* The types, of the tally too.
TalliesOK ==
    /\ BandwidthTypeOK
    /\ ideal \in [Buckets -> Int] /\ admitted \in [Buckets -> Nat] /\ crowded \subseteq Buckets

\* A caller that is in a bucket is in one with a limit, and no clock is ahead.
CallsOK ==
    /\ \A c \in Callers :
         /\ stage[c] # "idle" => call[c].bucket \in Buckets /\ call[c].addr \in Addrs
         /\ stage[c] = "lookup" => call[c].bucket = Global
         /\ stage[c] \in Consuming \cup {"now"} => Limited(call[c].bucket)
         /\ call[c].now <= clock
    /\ \A b \in Buckets : last[b] <= clock

\* The caller is in try_consume of bucket b, past its first read.
In(c, b) == stage[c] \in Consuming /\ call[c].bucket = b

\* In a bucket without overlap a caller is alone, and what it has read is still so.
AloneOK ==
    \A c \in Callers, b \in Buckets \ crowded : In(c, b) =>
        /\ \A d \in Callers : In(d, b) => d = c
        /\ stage[c] # "update" => last[b] <= call[c].now
        /\ stage[c] \in {"load", "swap"} => call[c].add = TokensToAdd(limit[b], call[c].now - last[b])
        /\ stage[c] = "swap" => call[c].current = tokens[b]

\* The inductive invariant: what a caller that is alone has read is still so when it takes.
BucketInv == TalliesOK /\ CallsOK /\ AloneOK /\ TracksExactBucket

\* The rate of a bucket with a limit is a number.
LEMMA Rates ==
    ASSUME TalliesOK, NEW b \in Buckets, Limited(b)
    PROVE  limit[b] \in Word
BY DEF TalliesOK, BandwidthTypeOK, Limited

\* The limiter starts with no tracker and a full global bucket.
LEMMA BucketInit == BandwidthInit => BucketInv
<1> SUFFICES ASSUME BandwidthInit PROVE BucketInv
  OBVIOUS
<1>1. limit \in [Buckets -> Word \cup {Unlimited, None}] /\ tokens \in [Buckets -> Word]
  BY BandwidthAssumption DEF BandwidthInit, Limited, Word, Burst, Saturate
<1>2. TalliesOK
  BY <1>1, BandwidthAssumption DEF BandwidthInit, TalliesOK, BandwidthTypeOK, Idle, Word
<1>3. CallsOK /\ AloneOK
  BY BandwidthAssumption DEF BandwidthInit, CallsOK, AloneOK, In, Consuming, Idle
<1>4. TracksExactBucket
  BY <1>2, BandwidthAssumption DEF BandwidthInit, TracksExactBucket, TalliesOK, BandwidthTypeOK, Word
<1>5. QED
  BY <1>2, <1>3, <1>4 DEF BucketInv

\* Only the bucket of the caller that moves is touched.
LEMMA ConsumeSteps ==
    ASSUME BucketInv, NEW c \in Callers, Consume(c)
    PROVE  BucketInv'
<1> DEFINE b == call[c].bucket
<1>1. TalliesOK /\ CallsOK /\ AloneOK /\ TracksExactBucket
  BY DEF BucketInv
<1>2. b \in Buckets /\ Limited(b) /\ limit[b] \in Word /\ call[c].addr \in Addrs /\ stage[c] \in Consuming \cup {"now"}
  BY <1>1, Rates DEF Consume, ReadNow, ReadElapsed, LoadTokens, Refuse, Swap, SwapFails, Update, CallsOK, Consuming
<1>3. CASE ReadNow(c)
  <2>1. TalliesOK'
    BY <1>1, <1>2, <1>3 DEF TalliesOK, BandwidthTypeOK, ReadNow, bucketVars
  <2>2. CallsOK'
    BY <1>1, <1>2, <1>3 DEF TalliesOK, BandwidthTypeOK, CallsOK, ReadNow, bucketVars, Limited, Consuming
  <2>3. TracksExactBucket'
    BY <1>1, <1>3 DEF ReadNow, bucketVars, Limited, TracksExactBucket
  <2>4. AloneOK'
    BY <1>1, <1>2, <1>3
       DEF CallsOK, AloneOK, ReadNow, bucketVars, Contended, Consuming, In, TalliesOK, BandwidthTypeOK
  <2>5. QED
    BY <2>1, <2>2, <2>3, <2>4 DEF BucketInv
<1>4. CASE ReadElapsed(c)
  <2> DEFINE elapsed == IF call[c].now > last[b] THEN call[c].now - last[b] ELSE 0
  <2>0. elapsed \in Nat /\ TokensToAdd(limit[b], elapsed) \in Word
    BY <1>1, <1>2, Refill DEF TalliesOK, BandwidthTypeOK
  <2>1. TalliesOK' /\ CallsOK' /\ TracksExactBucket'
    BY <1>1, <1>2, <1>4, <2>0
       DEF TalliesOK, BandwidthTypeOK, ReadElapsed, bucketVars, tally, CallsOK, Limited, Consuming, TracksExactBucket
  <2>2. QED
    BY <1>1, <1>2, <1>4, <2>1
       DEF AloneOK, ReadElapsed, bucketVars, tally, Consuming, In, TalliesOK, BandwidthTypeOK, BucketInv
<1>5. CASE LoadTokens(c)
  BY <1>1, <1>2, <1>5 DEF TalliesOK, BandwidthTypeOK, LoadTokens, bucketVars, tally, CallsOK,
     Limited, Consuming, AloneOK, In, TracksExactBucket, BucketInv
<1>6. CASE Refuse(c)
  <2>1. Idle \in Calls /\ Idle.now = 0
    BY BandwidthAssumption DEF Idle, Calls, Word
  <2>2. TalliesOK' /\ CallsOK'
    BY <1>1, <1>6, <2>1 DEF TalliesOK, BandwidthTypeOK, Refuse, bucketVars, tally, Calls, CallsOK, Limited, Consuming
  <2>3. AloneOK' /\ TracksExactBucket'
    BY <1>1, <1>6 DEF TalliesOK, BandwidthTypeOK, Refuse, bucketVars, tally, Consuming, AloneOK, In,
       TracksExactBucket, Limited
  <2>4. QED
    BY <2>2, <2>3 DEF BucketInv
<1>7. CASE Swap(c)
  <2> DEFINE rest == Available(c) - call[c].size
             exact == IF b \in crowded THEN 0
                      ELSE Least(ideal[b] + (call[c].now - last[b]) * limit[b], Burst(limit[b]) * TicksPerSec)
                           - call[c].size * TicksPerSec
  <2>0. rest \in Word
    BY <1>1, <1>2, <1>7, BandwidthAssumption
       DEF Available, Least, Saturate, Burst, Word, Swap, TalliesOK, BandwidthTypeOK
  <2>1. exact \in Int /\ (b \notin crowded => /\ rest * TicksPerSec <= exact
                                                  /\ exact <= rest * TicksPerSec + (admitted[b] + 1) * (TicksPerSec - 1))
    <3>1. CASE b \notin crowded
      <4>1. /\ call[c].now - last[b] \in Nat /\ call[c].add = TokensToAdd(limit[b], call[c].now - last[b])
            /\ call[c].current = tokens[b] /\ tokens[b] \in Word /\ ideal[b] \in Int /\ admitted[b] \in Nat
            /\ tokens[b] * TicksPerSec <= ideal[b] /\ call[c].size \in Nat
            /\ ideal[b] <= tokens[b] * TicksPerSec + admitted[b] * (TicksPerSec - 1)
        BY <1>1, <1>2, <1>7, <3>1
           DEF AloneOK, In, Consuming, Swap, TalliesOK, BandwidthTypeOK, TracksExactBucket, Word
      <4>2. call[c].size <= Least(Saturate(tokens[b] + TokensToAdd(limit[b], call[c].now - last[b])), Burst(limit[b]))
        BY <1>7, <4>1, <2>0 DEF Swap, Available
      <4>3. QED
        BY <1>2, <3>1, <4>1, <4>2, Taken, ZenonT(30) DEF Available
    <3>2. QED
      BY <3>1
  <2> HIDE DEF rest, exact
  <2>2. /\ tokens' = [tokens EXCEPT ![b] = rest] /\ ideal' = [ideal EXCEPT ![b] = exact]
        /\ admitted' = [admitted EXCEPT ![b] = admitted[b] + 1] /\ stage' = [stage EXCEPT ![c] = "update"]
        /\ UNCHANGED <<clock, limit, last, total, call, crowded>>
    BY <1>7 DEF Swap, rest, exact
  <2>3. TalliesOK' /\ CallsOK'
    BY <1>1, <1>2, <2>0, <2>1, <2>2 DEF TalliesOK, BandwidthTypeOK, CallsOK, Limited, Consuming
  <2>4. TracksExactBucket'
    BY <1>1, <1>2, <2>1, <2>2 DEF TracksExactBucket, Limited, TalliesOK, BandwidthTypeOK
  <2>5. AloneOK'
    <3>1. /\ stage[c] = "swap" /\ tokens \in [Buckets -> Word]
          /\ stage \in [Callers -> {"idle", "now", "elapsed", "load", "swap", "update", "lookup"}]
      BY <1>1, <1>7, ZenonT(30) DEF Swap, TalliesOK, BandwidthTypeOK
    <3>2. QED
      BY <1>1, <1>2, <2>2, <3>1 DEF AloneOK, Consuming, In
  <2>6. QED
    BY <2>3, <2>4, <2>5 DEF BucketInv
<1>8. CASE SwapFails(c)
  BY <1>1, <1>2, <1>8 DEF TalliesOK, BandwidthTypeOK, SwapFails, bucketVars, tally, CallsOK,
     Limited, Consuming, AloneOK, In, TracksExactBucket, BucketInv
<1>9. CASE Update(c)
  <2>1. /\ last' = [last EXCEPT ![b] = call[c].now] /\ UNCHANGED <<clock, limit, tokens, ideal, admitted, crowded>>
        /\ \/ stage' = [stage EXCEPT ![c] = "lookup"] /\ call' = call /\ total' = total /\ b = Global
           \/ stage' = [stage EXCEPT ![c] = "idle"] /\ call' = [call EXCEPT ![c] = Idle] /\ total' = total + call[c].size
    BY <1>9 DEF Update, Pass, tally
  <2>2. Idle \in Calls /\ call[c].size \in Nat /\ Idle.now = 0
    BY <1>1, BandwidthAssumption DEF Idle, Calls, Word, TalliesOK, BandwidthTypeOK
  <2>3. TalliesOK'
    BY <1>1, <1>2, <2>1, <2>2 DEF TalliesOK, BandwidthTypeOK, Calls
  <2>4. CallsOK'
    <3>1. \A e \in Buckets : last'[e] <= clock'
      BY <1>1, <1>2, <2>1 DEF CallsOK, TalliesOK, BandwidthTypeOK
    <3>2. \A d \in Callers : d # c => stage'[d] = stage[d] /\ call'[d] = call[d]
      BY <1>1, <2>1 DEF TalliesOK, BandwidthTypeOK
    <3>3. call'[c].now <= clock' /\ (stage'[c] = "idle" \/ (stage'[c] = "lookup" /\ call'[c] = call[c] /\ b = Global))
      BY <1>1, <2>1, <2>2 DEF CallsOK, TalliesOK, BandwidthTypeOK
    <3>4. QED
      BY <1>1, <1>2, <2>1, <3>1, <3>2, <3>3 DEF CallsOK, Limited, Consuming
  <2>5. QED
    <3>1. TracksExactBucket'
      BY <1>1, <2>1 DEF TracksExactBucket, Limited
    <3>2. QED
      BY <1>1, <1>2, <1>9, <2>1, <2>3, <2>4, <3>1
         DEF AloneOK, Consuming, In, TalliesOK, BandwidthTypeOK, Update, BucketInv
<1>10. QED
  BY <1>3, <1>4, <1>5, <1>6, <1>7, <1>8, <1>9 DEF Consume

\* A call that begins or goes on to its address's bucket, and time, touch no bucket.
LEMMA OtherSteps ==
    ASSUME BucketInv,
           \/ \E c \in Callers, a \in Addrs, size \in Sizes : TryRelay(c, a, size)
           \/ \E c \in Callers : Lookup(c)
           \/ Tick \/ UNCHANGED bandwidthVars
    PROVE  BucketInv'
<1>1. TalliesOK /\ CallsOK /\ AloneOK /\ TracksExactBucket
  BY DEF BucketInv
<1>2. UNCHANGED <<limit, tokens, last, ideal, admitted, crowded>> /\ clock' \in Nat /\ clock' >= clock
  BY <1>1 DEF TryRelay, Lookup, Tick, bandwidthVars, bucketVars, tally, TalliesOK, BandwidthTypeOK
<1>3. TracksExactBucket'
  BY <1>1, <1>2 DEF TracksExactBucket, Limited
<1>4. ASSUME NEW c \in Callers, NEW a \in Addrs, NEW size \in Sizes, TryRelay(c, a, size)
      PROVE  TalliesOK' /\ CallsOK' /\ AloneOK'
  <2> DEFINE new == [bucket |-> Global, addr |-> a, size |-> size, now |-> 0, add |-> 0, current |-> 0]
  <2>1. new \in Calls /\ new.now = 0 /\ new.bucket = Global /\ new.addr = a
    BY BandwidthAssumption DEF Calls, Buckets, Word
  <2> HIDE DEF new
  <2>2. /\ call' = [call EXCEPT ![c] = new] /\ clock' = clock /\ total' = total
        /\ stage' = [stage EXCEPT ![c] = IF Limited(Global) THEN "now" ELSE "lookup"]
    BY <1>4 DEF TryRelay, new
  <2>3. QED
    BY <1>1, <1>2, <2>1, <2>2
       DEF TalliesOK, BandwidthTypeOK, Calls, CallsOK, Limited, Consuming, Buckets, AloneOK, In
<1>5. ASSUME NEW c \in Callers, Lookup(c)
      PROVE  TalliesOK' /\ CallsOK' /\ AloneOK'
  <2>1. Idle \in Calls /\ Idle.now = 0 /\ call[c].size \in Nat /\ call[c].addr \in Addrs
    BY <1>1, <1>5, BandwidthAssumption DEF Calls, Idle, Word, TalliesOK, BandwidthTypeOK, CallsOK, Lookup
  <2>2. /\ clock' = clock
        /\ \/ Limited(call[c].addr) /\ stage' = [stage EXCEPT ![c] = "now"] /\ total' = total
              /\ call' = [call EXCEPT ![c].bucket = call[c].addr]
           \/ stage' = [stage EXCEPT ![c] = "idle"] /\ call' = [call EXCEPT ![c] = Idle] /\ total' = total + call[c].size
    BY <1>5 DEF Lookup
  <2>3. TalliesOK'
    <3>1. call[c] \in Calls /\ call \in [Callers -> Calls] /\ total \in Nat
      BY <1>1, ZenonT(30) DEF TalliesOK, BandwidthTypeOK, Calls
    <3>2. total' \in Nat /\ call' \in [Callers -> Calls]
      BY <2>1, <2>2, <3>1 DEF Calls, Buckets
    <3>3. QED
      BY <1>1, <1>2, <2>2, <3>2 DEF TalliesOK, BandwidthTypeOK, Calls
  <2>4. CallsOK'
    <3>1. \A d \in Callers : d # c => stage'[d] = stage[d] /\ call'[d] = call[d]
      BY <1>1, <2>2 DEF TalliesOK, BandwidthTypeOK
    <3>2. /\ call'[c].now <= clock'
          /\ \/ stage'[c] = "idle"
             \/ stage'[c] = "now" /\ call'[c].addr = call[c].addr /\ call'[c].bucket = call[c].addr /\ Limited(call[c].addr)
      BY <1>1, <2>1, <2>2 DEF CallsOK, TalliesOK, BandwidthTypeOK
    <3>3. QED
      BY <1>1, <1>2, <2>1, <2>2, <3>1, <3>2 DEF CallsOK, Limited, Consuming, Buckets
  <2>5. QED
    <3>1. \A d \in Callers : stage'[d] \in Consuming => d # c /\ stage'[d] = stage[d] /\ call'[d] = call[d]
      BY <1>1, <2>2 DEF TalliesOK, BandwidthTypeOK, Consuming
    <3>2. QED
      BY <1>1, <1>2, <2>3, <2>4, <3>1 DEF AloneOK, In
<1>6. CASE Tick \/ UNCHANGED bandwidthVars
  BY <1>6, <1>1, <1>2, <1>3 DEF Tick, bandwidthVars, TalliesOK, BandwidthTypeOK, AloneOK, In,
     CallsOK, Limited, BucketInv
<1>7. QED
  BY <1>3, <1>4, <1>5, <1>6 DEF BucketInv

\* The tracker of an address is replaced, or goes.
Reset(a, rate, full, from) ==
    /\ limit' = [limit EXCEPT ![a] = rate] /\ tokens' = [tokens EXCEPT ![a] = full]
    /\ last' = [last EXCEPT ![a] = from] /\ ideal' = [ideal EXCEPT ![a] = full * TicksPerSec]
    /\ admitted' = [admitted EXCEPT ![a] = 0] /\ crowded' = crowded \ {a}
    /\ TrackersUnlocked /\ UNCHANGED <<clock, total, stage, call>>

\* No caller is in a bucket while it is replaced: the map of trackers is locked.
LEMMA ResetSteps ==
    ASSUME BucketInv, NEW a \in Addrs, NEW rate \in Word \cup {Unlimited, None}, NEW full \in Word, NEW from \in Nat,
           from <= clock, Reset(a, rate, full, from)
    PROVE  BucketInv'
<1>1. TalliesOK /\ CallsOK /\ AloneOK /\ TracksExactBucket
  BY DEF BucketInv
<1>2. a \in Buckets /\ a # Global
  BY BandwidthAssumption DEF Buckets
<1>3. full * TicksPerSec \in Int /\ TicksPerSec - 1 \in Nat /\ full \in Nat
  BY BandwidthAssumption DEF Word
<1>4. \A c \in Callers : call[c].bucket # a
  BY DEF TrackersUnlocked, Reset
<1>5. TalliesOK' /\ CallsOK'
  BY <1>1, <1>2, <1>3, <1>4 DEF TalliesOK, BandwidthTypeOK, CallsOK, Limited, Consuming, Reset
<1>6. AloneOK'
  BY <1>1, <1>2, <1>4, <1>5 DEF AloneOK, In, TalliesOK, BandwidthTypeOK, Reset
<1>7. TracksExactBucket'
  BY <1>1, <1>2, <1>3 DEF Reset, TalliesOK, BandwidthTypeOK, TracksExactBucket, Limited
<1>8. QED
  BY <1>5, <1>6, <1>7 DEF BucketInv

\* A new allocation replaces its address's tracker, and the end of one removes it.
LEMMA TrackerSteps ==
    ASSUME BucketInv, NEW a \in Addrs, (\E rate \in Limits : RegisterAllocation(a, rate)) \/ UnregisterAllocation(a)
    PROVE  BucketInv'
<1>1. clock \in Nat /\ 0 \in Word /\ 0 * TicksPerSec = 0 /\ 0 \in Nat /\ 0 <= clock /\ clock <= clock
  BY BandwidthAssumption DEF BucketInv, TalliesOK, BandwidthTypeOK, Word
<1>2. CASE UnregisterAllocation(a)
  <2>1. Reset(a, None, 0, 0)
    BY <1>1, <1>2, Zenon DEF UnregisterAllocation, Reset
  <2>2. QED
    BY <1>1, <2>1, ResetSteps, Zenon
<1>3. ASSUME NEW rate \in Limits, RegisterAllocation(a, rate) PROVE BucketInv'
  <2> DEFINE full == IF rate = Unlimited THEN 0 ELSE Burst(rate)
  <2>1. full \in Word /\ rate \in Word \cup {Unlimited, None}
    BY BandwidthAssumption DEF Burst, Saturate, Word
  <2>2. Reset(a, rate, full, clock)
    BY <1>3 DEF RegisterAllocation, Reset
  <2>3. QED
    BY <1>1, <2>1, <2>2, ResetSteps, Zenon
<1>4. QED
  BY <1>2, <1>3

\* For any rates, packets and pace: as long as no calls overlap in a bucket, try_consume hands
\* out no more than a bucket filled continuously would, and loses to rounding less than one
\* token for each packet it lets through.
THEOREM OnlyRoundingIsLost == BandwidthSpec => []TracksExactBucket
<1>1. BucketInv /\ [BandwidthNext]_bandwidthVars => BucketInv'
  BY ConsumeSteps, OtherSteps, TrackerSteps DEF BandwidthNext
<1>2. BucketInv => TracksExactBucket
  BY DEF BucketInv
<1>3. QED
  BY <1>1, <1>2, BucketInit, PTL DEF BandwidthSpec
-----------------------------------------------------------------------------
(* Transport: the frames on a stream                                       *)

\* Sequences: the empty one is the one of length 0, and elements are of the type.
LEMMA EmptyAndElements ==
    ASSUME NEW S
    PROVE  /\ << >> \in Seq(S) /\ Len(<< >>) = 0
           /\ \A s \in Seq(S) : /\ Len(s) \in Nat /\ (s # << >> => Len(s) # 0)
                                 /\ \A n \in 1..Len(s) : s[n] \in S
OBVIOUS

\* Append adds one element and keeps the others.
LEMMA Appended ==
    ASSUME NEW S, NEW s \in Seq(S), NEW e \in S
    PROVE  /\ Len(s) \in Nat /\ Len(Append(s, e)) = Len(s) + 1 /\ Append(s, e)[Len(s) + 1] = e
           /\ \A i \in 1..Len(s) : Append(s, e)[i] = s[i]
OBVIOUS

\* A task names a connection while it writes, and a connection task its own.
DestOK ==
    /\ \A w \in Writers : dest[w] # None <=> task[w] \in Writing
    /\ \A c \in Conns : dest[c] \in {None, c}

\* A stream ends in an open frame exactly while its writer is between the two pieces.
OpenFrame(c) == stream[c] # <<>> /\ stream[c][Len(stream[c])][2] = "data"
OpenOK ==
    /\ \A w \in Writers : task[w] = "rest" =>
         stream[dest[w]] # <<>> /\ stream[dest[w]][Len(stream[dest[w]])] = <<w, "data">>
    /\ \A c \in Conns : OpenFrame(c) =>
         LET w == stream[c][Len(stream[c])][1] IN dest[w] = c /\ task[w] = "rest"

\* The inductive invariant of the writers' locks.
LockInv == TransportTypeOK /\ DestOK /\ LockedOnlyWhileWriting

\* Every step keeps the mutex with the task that writes.
LEMMA LockStep ==
    ASSUME LockInv, TransportNext
    PROVE  LockInv'
<1> USE TransportAssumption DEF LockInv, Writers
<1>1. ASSUME NEW c \in Conns, Accept(c) \/ Register(c)
      PROVE  LockInv'
  <2>1. /\ \E next \in {"registering", "reading"} : task' = [task EXCEPT ![c] = next]
        /\ task[c] \notin Writing /\ UNCHANGED <<dest, holder>>
    BY <1>1 DEF Accept, Register, Writing
  <2>2. /\ sender' \in Conns \cup {None} /\ ahead' \in [Relays -> SUBSET Conns]
        /\ dead' \in [Conns -> BOOLEAN] /\ stream' \in [Conns -> Seq(Writers \X Pieces)]
    <3>1. CASE Accept(c)
      BY <3>1, EmptyAndElements DEF Accept, TransportTypeOK
    <3>2. CASE Register(c)
      BY <3>2 DEF Register, SetSender, TransportTypeOK
    <3>3. QED
      BY <1>1, <3>1, <3>2
  <2>3. TransportTypeOK' /\ DestOK'
    BY <2>1, <2>2 DEF TransportTypeOK, DestOK, Writing, Tasks, Queueing
  <2>4. LockedOnlyWhileWriting'
    BY <2>1 DEF TransportTypeOK, LockedOnlyWhileWriting, Writing
  <2>5. QED
    BY <2>3, <2>4
<1>2. CASE \E c \in Conns : Request(c)
  <2>1. PICK c \in Conns : Request(c)
    BY <1>2
  <2>2. TransportTypeOK' /\ DestOK'
    BY <2>1 DEF Request, TransportTypeOK, DestOK, Writing, Tasks, Queueing
  <2>3. LockedOnlyWhileWriting'
    BY <2>1 DEF Request, TransportTypeOK, DestOK, LockedOnlyWhileWriting, Writing, Tasks, Queueing
  <2>4. QED
    BY <2>2, <2>3
<1>3. CASE \E c \in Conns : Close(c) \/ Unregister(c)
  <2>1. PICK c \in Conns : Close(c) \/ Unregister(c)
    BY <1>3
  <2>2. TransportTypeOK' /\ DestOK'
    <3>1. CASE Close(c)
      BY <3>1, ZenonT(30) DEF Close, TransportTypeOK, DestOK, Writing, Tasks, Queueing
    <3>2. CASE Unregister(c)
      BY <3>2, ZenonT(30) DEF Unregister, SetSender, TransportTypeOK, DestOK, Writing, Tasks, Queueing
    <3>3. QED
      BY <2>1, <3>1, <3>2
  <2>3. LockedOnlyWhileWriting'
    BY <2>1 DEF Close, Unregister, SetSender, TransportTypeOK, DestOK, LockedOnlyWhileWriting, Writing, Tasks, Queueing
  <2>4. QED
    BY <2>2, <2>3
<1>4. CASE \E r \in Relays : Spawn(r)
  BY <1>4 DEF Spawn, TransportTypeOK, DestOK, Writing, Tasks, Queueing, LockedOnlyWhileWriting
<1>5. ASSUME NEW r \in Relays, PeerPacket(r) \/ LookUp(r)
      PROVE  LockInv'
  <2>1. CASE PeerPacket(r)
    BY <2>1 DEF PeerPacket, TransportTypeOK, DestOK, Writing, Tasks, LockedOnlyWhileWriting
  <2>2. CASE LookUp(r)
    <3>1. /\ task[r] = "lookup" /\ UNCHANGED <<sender, ahead, holder, dead, stream>>
          /\ \/ task' = [task EXCEPT ![r] = "reading"] /\ UNCHANGED dest
             \/ sender # None /\ task' = [task EXCEPT ![r] = "lock"] /\ dest' = [dest EXCEPT ![r] = sender]
      BY <2>2, ZenonT(30) DEF LookUp
    <3>2. TransportTypeOK'
      <4>1. "reading" \in Tasks /\ "lock" \in Tasks
        BY DEF Tasks, Writing
      <4>2. task' \in [Writers -> Tasks]
        BY <3>1, <4>1 DEF TransportTypeOK
      <4>3. dest' \in [Writers -> Conns \cup {None}]
        BY <3>1 DEF TransportTypeOK
      <4>4. \A w \in Writers : task'[w] \in Writing => dest'[w] # None
        BY <3>1 DEF TransportTypeOK, Writing
      <4>5. QED
        BY <3>1, <4>2, <4>3, <4>4 DEF TransportTypeOK
    <3>3. DestOK'
      BY <3>1 DEF TransportTypeOK, DestOK, Writing
    <3>4. \A w \in Writers : /\ task'[w] \in {"data", "rest"} <=> task[w] \in {"data", "rest"}
                             /\ task[w] \in {"data", "rest"} => dest'[w] = dest[w]
      BY <3>1 DEF TransportTypeOK
    <3>5. LockedOnlyWhileWriting'
      BY <3>1, <3>4 DEF LockedOnlyWhileWriting
    <3>6. QED
      BY <3>2, <3>3, <3>5
  <2>3. QED
    BY <1>5, <2>1, <2>2
<1>6. CASE \E r \in Relays : Abort(r)
  BY <1>6 DEF TransportTypeOK, Pieces, Abort, DestOK, Writing, Tasks, Queueing, LockedOnlyWhileWriting
<1>7. CASE \E w \in Writers : Lock(w)
  BY <1>7 DEF Lock, TransportTypeOK, DestOK, Writing, Tasks, Queueing, LockedOnlyWhileWriting
<1>8. CASE \E w \in Writers : WriteData(w)
  BY <1>8 DEF WriteData, TransportTypeOK, Pieces, DestOK, Writing, Tasks, LockedOnlyWhileWriting
<1>9. CASE \E w \in Writers : WriteRest(w) \/ WriteFails(w)
  <2>1. PICK w \in Writers : WriteRest(w) \/ WriteFails(w)
    BY <1>9
  <2>2. dest[w] \in Conns
    BY <2>1 DEF WriteRest, WriteFails, TransportTypeOK, Writing
  <2>3. stream' \in [Conns -> Seq(Writers \X Pieces)] /\ dead' \in [Conns -> BOOLEAN]
    <3>1. <<w, "rest">> \in Writers \X Pieces /\ <<w, "cut">> \in Writers \X Pieces
      BY DEF Pieces
    <3>2. CASE WriteRest(w)
      BY <2>2, <3>1, <3>2 DEF WriteRest, TransportTypeOK
    <3>3. CASE WriteFails(w)
      BY <2>2, <3>1, <3>3 DEF WriteFails, TransportTypeOK
    <3>4. QED
      BY <2>1, <3>2, <3>3
  <2>4. PICK next \in {"reading", "closing"} : Release(w, next)
    BY <2>1 DEF WriteRest, WriteFails
  <2>5. TransportTypeOK' /\ DestOK'
    BY <2>2, <2>3, <2>4 DEF Release, TransportTypeOK, DestOK, Writing, Tasks, Queueing
  <2>6. holder[dest[w]] = w
    BY <2>1, <2>2 DEF WriteRest, WriteFails, LockedOnlyWhileWriting
  <2>7. LockedOnlyWhileWriting'
    BY <2>2, <2>4, <2>6 DEF Release, TransportTypeOK, DestOK, LockedOnlyWhileWriting, Writing, Tasks, Queueing
  <2>8. QED
    BY <2>5, <2>7
<1>10. QED
  BY <1>1, <1>2, <1>3, <1>4, <1>5, <1>6, <1>7, <1>8, <1>9 DEF TransportNext, Write

\* Types, and who holds a writer, for every interleaving.
LEMMA LockInvariant == TransportSpec => []LockInv
<1>1. TransportInit => LockInv
  BY TransportAssumption DEF TransportInit, LockInv, TransportTypeOK, DestOK, LockedOnlyWhileWriting, Writing, Tasks, Queueing, Writers
<1>2. LockInv /\ [TransportNext]_transportVars => LockInv'
  <2>1. SUFFICES ASSUME LockInv, UNCHANGED transportVars PROVE LockInv'
    BY LockStep
  <2>2. QED
    BY <2>1 DEF transportVars, LockInv, TransportTypeOK, DestOK, LockedOnlyWhileWriting
<1>3. QED
  BY <1>1, <1>2, PTL DEF TransportSpec

\* The mutex of a stream is held exactly by the task that is writing a frame to it; neither
\* an abort nor a write error leaves it locked.
THEOREM WriterLockIsNeverLeaked == TransportSpec => []LockedOnlyWhileWriting
<1>1. LockInv => LockedOnlyWhileWriting
  BY DEF LockInv
<1>2. QED
  BY <1>1, LockInvariant, PTL

\* While a relay task has the registry's guard nobody sets the entry, so the connection it
\* writes to stays the registered one; and an entry is removed before its connection ends.
THEOREM RelaysWriteToRegistered == TransportSpec => []SendsToRegistered
<1>1. TransportInit => SendsToRegistered
  BY DEF TransportInit, SendsToRegistered, Writing, Writers
<1>2. LockInv /\ SendsToRegistered /\ [TransportNext]_transportVars => SendsToRegistered'
  <2> SUFFICES ASSUME LockInv, SendsToRegistered, [TransportNext]_transportVars PROVE SendsToRegistered'
    OBVIOUS
  <2> USE TransportAssumption DEF Writers, Writing
  <2>1. /\ task \in [Writers -> Tasks] /\ sender \in Conns \cup {None}
        /\ dest \in [Writers -> Conns \cup {None}]
    BY DEF LockInv, TransportTypeOK
  <2>2. CASE \E c \in Conns : Accept(c) \/ Request(c) \/ Close(c)
    BY <2>1, <2>2 DEF Accept, Request, Close, SendsToRegistered
  <2>3. CASE \E c \in Conns : Register(c) \/ Unregister(c)
    BY <2>1, <2>3 DEF Register, Unregister, SetSender, RegistryWritable, SendsToRegistered
  <2>4. CASE \E r \in Relays : Spawn(r) \/ PeerPacket(r) \/ LookUp(r) \/ Abort(r)
    <3>1. CASE \E r \in Relays : Spawn(r) \/ Abort(r)
      BY <2>1, <3>1 DEF Spawn, Abort, SendsToRegistered
    <3>2. CASE \E r \in Relays : PeerPacket(r) \/ LookUp(r)
      BY <2>1, <3>2 DEF PeerPacket, LookUp, SendsToRegistered
    <3>3. QED
      BY <2>4, <3>1, <3>2
  <2>5. CASE \E w \in Writers : Write(w)
    BY <2>1, <2>5 DEF Write, Lock, WriteData, WriteRest, WriteFails, Release, SendsToRegistered
  <2>6. CASE UNCHANGED transportVars
    BY <2>6 DEF transportVars, SendsToRegistered
  <2>7. QED
    BY <2>2, <2>3, <2>4, <2>5, <2>6 DEF TransportNext
<1>3. QED
  BY <1>1, <1>2, LockInvariant, PTL DEF TransportSpec

\* The inductive invariant of what is on the streams.
OpenInv == OpenOK /\ FramesExclusive

\* Appending a piece that may follow the last one keeps the pieces of frames adjacent.
LEMMA AppendPiece ==
    ASSUME TransportTypeOK, FramesExclusive, NEW c \in Conns, NEW w \in Writers, NEW k \in Pieces,
           stream' = [stream EXCEPT ![c] = Append(@, <<w, k>>)],
           IF OpenFrame(c) THEN stream[c][Len(stream[c])][1] = w /\ k # "data" ELSE k = "data"
    PROVE  /\ FramesExclusive'
           /\ stream'[c] # <<>> /\ stream'[c][Len(stream'[c])] = <<w, k>>
           /\ \A d \in Conns : d # c => stream'[d] = stream[d]
<1> DEFINE s == stream[c]
           t == stream'[c]
<1>1. s \in Seq(Writers \X Pieces) /\ <<w, k>> \in Writers \X Pieces
  BY DEF TransportTypeOK
<1>2. t = Append(s, <<w, k>>)
  BY DEF TransportTypeOK
<1>3. /\ Len(s) \in Nat /\ Len(t) = Len(s) + 1 /\ t[Len(s) + 1] = <<w, k>>
      /\ \A i \in 1..Len(s) : t[i] = s[i]
  <2> HIDE DEF s, t
  <2>1. QED
    BY <1>1, <1>2, Appended
<1>4. \A d \in Conns : d # c => stream'[d] = stream[d]
  BY DEF TransportTypeOK
<1>5. s # <<>> <=> Len(s) >= 1
  <2> HIDE DEF s
  <2>1. QED
    BY <1>1, <1>3, EmptyAndElements
<1>6. t # <<>>
  <2> HIDE DEF s, t
  <2>1. QED
    BY <1>3
<1>7. FramesExclusive'
  <2>1. SUFFICES ASSUME NEW d \in Conns, NEW i \in 2..Len(stream'[d])
                 PROVE IF stream'[d][i - 1][2] = "data"
                         THEN stream'[d][i][1] = stream'[d][i - 1][1] /\ stream'[d][i][2] # "data"
                         ELSE stream'[d][i][2] = "data"
    BY DEF FramesExclusive
  <2>2. CASE d # c
    BY <1>4, <2>1, <2>2 DEF FramesExclusive
  <2>3. CASE d = c /\ i \in 2..Len(s)
    BY <1>3, <2>3 DEF FramesExclusive
  <2>4. CASE d = c /\ i = Len(s) + 1
    BY <1>3, <1>5, <2>1, <2>4 DEF OpenFrame
  <2>5. QED
    BY <1>3, <2>1, <2>2, <2>3, <2>4
<1>8. QED
  BY <1>2, <1>3, <1>4, <1>6, <1>7

\* Every step leaves whole frames, and at most one open frame, on each stream.
LEMMA StreamStep ==
    ASSUME LockInv, SendsToRegistered, OpenInv, TransportNext
    PROVE  OpenInv'
<1> USE TransportAssumption DEF Writers
<1>0. /\ task \in [Writers -> Tasks]
      /\ dest \in [Writers -> Conns \cup {None}]
      /\ stream \in [Conns -> Seq(Writers \X Pieces)]
      /\ \A w \in Writers : task[w] \in {"data", "rest"} => dest[w] \in Conns /\ holder[dest[w]] = w
      /\ \A c \in Conns : OpenFrame(c) => stream[c][Len(stream[c])][1] \in Writers
  <2>1. \A c \in Conns : OpenFrame(c) => stream[c][Len(stream[c])] \in Writers \X Pieces
    <3>1. SUFFICES ASSUME NEW c \in Conns, OpenFrame(c) PROVE stream[c][Len(stream[c])] \in Writers \X Pieces
      OBVIOUS
    <3>2. stream[c] \in Seq(Writers \X Pieces) /\ stream[c] # <<>>
      BY <3>1 DEF LockInv, TransportTypeOK, OpenFrame
    <3>3. Len(stream[c]) \in 1..Len(stream[c])
      BY <3>2, EmptyAndElements
    <3>4. QED
      BY <3>2, <3>3, EmptyAndElements
  <2>2. QED
    BY <2>1 DEF LockInv, TransportTypeOK, LockedOnlyWhileWriting, Writing
<1>1. CASE \E c \in Conns : Accept(c)
  <2>1. PICK c \in Conns : Accept(c)
    BY <1>1
  <2>2. \A w \in Writers : dest[w] # c
    BY <2>1 DEF Accept, LockInv, DestOK, SendsToRegistered, Writing
  <2>3. QED
    BY <2>1, <2>2, <1>0, EmptyAndElements DEF Accept, OpenInv, FramesExclusive, OpenOK, OpenFrame
<1>2. CASE /\ UNCHANGED stream
           /\ \A w \in Writers : /\ task'[w] = "rest" <=> task[w] = "rest"
                                 /\ task[w] = "rest" => dest'[w] = dest[w]
  BY <1>0, <1>2 DEF OpenInv, OpenOK, OpenFrame, FramesExclusive
<1>3. ASSUME NEW w \in Writers, NEW k \in Pieces, task[w] = IF k = "data" THEN "data" ELSE "rest",
             stream' = [stream EXCEPT ![dest[w]] = Append(@, <<w, k>>)],
             \A v \in Writers : v # w => task'[v] = task[v] /\ dest'[v] = dest[v],
             task'[w] = "rest" <=> k = "data",
             k = "data" => dest'[w] = dest[w]
      PROVE OpenInv'
  <2>1. dest[w] \in Conns /\ holder[dest[w]] = w
    BY <1>0, <1>3
  <2>2. IF OpenFrame(dest[w]) THEN stream[dest[w]][Len(stream[dest[w]])][1] = w /\ k # "data" ELSE k = "data"
    BY <1>0, <2>1, <1>3 DEF OpenInv, OpenOK, OpenFrame
  <2>3. /\ FramesExclusive'
        /\ stream'[dest[w]] # <<>> /\ stream'[dest[w]][Len(stream'[dest[w]])] = <<w, k>>
        /\ \A d \in Conns : d # dest[w] => stream'[d] = stream[d]
    BY <1>3, <2>1, <2>2, AppendPiece, ZenonT(30) DEF LockInv, OpenInv
  <2>4. \A v \in Writers : v # w /\ task[v] = "rest" => dest[v] \in Conns /\ dest[v] # dest[w]
    BY <1>0, <2>1
  <2>5. \A v \in Writers : task'[v] = "rest" =>
          stream'[dest'[v]] # <<>> /\ stream'[dest'[v]][Len(stream'[dest'[v]])] = <<v, "data">>
    <3>1. SUFFICES ASSUME NEW v \in Writers, task'[v] = "rest"
                   PROVE stream'[dest'[v]] # <<>> /\ stream'[dest'[v]][Len(stream'[dest'[v]])] = <<v, "data">>
      OBVIOUS
    <3>2. CASE v = w
      BY <1>3, <2>3, <3>1, <3>2
    <3>3. CASE v # w
      <4>1. task[v] = "rest" /\ dest'[v] = dest[v]
        BY <1>3, <3>1, <3>3
      <4>2. stream'[dest'[v]] = stream[dest[v]]
        BY <2>3, <2>4, <3>3, <4>1
      <4>3. stream[dest[v]] # <<>> /\ stream[dest[v]][Len(stream[dest[v]])] = <<v, "data">>
        BY <4>1 DEF OpenInv, OpenOK
      <4>4. QED
        BY <4>2, <4>3
    <3>4. QED
      BY <3>2, <3>3
  <2>6. ASSUME NEW c \in Conns, OpenFrame(c)'
        PROVE LET v == stream'[c][Len(stream'[c])][1] IN dest'[v] = c /\ task'[v] = "rest"
    <3>1. CASE c = dest[w]
      BY <1>3, <2>3, <2>6, <3>1 DEF OpenFrame
    <3>2. CASE c # dest[w]
      <4>1. OpenFrame(c) /\ stream'[c] = stream[c]
        BY <2>3, <2>6, <3>2 DEF OpenFrame
      <4>2. PICK v \in Writers : v = stream[c][Len(stream[c])][1]
        BY <1>0, <4>1
      <4>3. dest[v] = c /\ task[v] = "rest"
        BY <4>1, <4>2, ZenonT(30) DEF OpenInv, OpenOK
      <4>4. QED
        BY <1>3, <3>2, <4>1, <4>2, <4>3
    <3>3. QED
      BY <3>1, <3>2, ZenonT(30)
  <2>7. QED
    BY <2>3, <2>5, <2>6, ZenonT(30) DEF OpenInv, OpenOK
<1>4. CASE \E c \in Conns : Register(c) \/ Request(c) \/ Close(c) \/ Unregister(c)
  BY <1>0, <1>2, <1>4 DEF Register, Request, Close, Unregister
<1>5. CASE \E r \in Relays : Spawn(r) \/ PeerPacket(r) \/ LookUp(r)
  BY <1>0, <1>2, <1>5 DEF Spawn, PeerPacket, LookUp
<1>6. CASE \E r \in Relays : Abort(r)
  <2>1. PICK r \in Relays : Abort(r)
    BY <1>6
  <2>2. CASE task[r] = "rest"
    BY <1>0, <1>3, <2>1, <2>2, ZenonT(30) DEF Abort, Pieces
  <2>3. CASE task[r] # "rest"
    BY <1>0, <1>2, <2>1, <2>3 DEF Abort
  <2>4. QED
    BY <2>2, <2>3
<1>7. CASE \E w \in Writers : Lock(w)
  BY <1>0, <1>2, <1>7 DEF Lock
<1>8. CASE \E w \in Writers : WriteData(w)
  BY <1>0, <1>3, <1>8, ZenonT(30) DEF WriteData, Pieces
<1>9. CASE \E w \in Writers : WriteRest(w)
  BY <1>0, <1>3, <1>9, ZenonT(30) DEF WriteRest, Release, Pieces
<1>10. CASE \E w \in Writers : WriteFails(w)
  <2>1. PICK w \in Writers : WriteFails(w)
    BY <1>10
  <2>2. CASE task[w] = "rest"
    BY <1>0, <1>3, <2>1, <2>2, ZenonT(30) DEF WriteFails, Release, Pieces
  <2>3. CASE task[w] # "rest"
    BY <1>0, <1>2, <2>1, <2>3 DEF WriteFails, Release
  <2>4. QED
    BY <2>2, <2>3
<1>11. QED
  BY <1>1, <1>4, <1>5, <1>6, <1>7, <1>8, <1>9, <1>10 DEF TransportNext, Write

\* A frame that a task has begun on a stream is ended or cut before another one begins.
THEOREM FramesDoNotMix == TransportSpec => []FramesExclusive
<1>1. TransportInit => OpenInv
  BY EmptyAndElements DEF TransportInit, OpenInv, OpenOK, OpenFrame, FramesExclusive, Writers
<1>2. LockInv /\ SendsToRegistered /\ OpenInv /\ [TransportNext]_transportVars => OpenInv'
  <2>1. SUFFICES ASSUME OpenInv, UNCHANGED transportVars PROVE OpenInv'
    BY StreamStep
  <2>2. QED
    BY <2>1 DEF transportVars, OpenInv, OpenOK, OpenFrame, FramesExclusive
<1>3. OpenInv => FramesExclusive
  BY DEF OpenInv
<1>4. QED
  BY <1>1, <1>2, <1>3, LockInvariant, RelaysWriteToRegistered, PTL DEF TransportSpec
=============================================================================
