------------------------- MODULE PortAllocatorProofs -------------------------
(***************************************************************************)
(* Proofs about PortAllocator, for any number of callers, ports and bits   *)
(* per word: types, one owner per port, the drift of the counter, the      *)
(* refinement of PortPool, and that None means exhausted.                  *)
(***************************************************************************)
EXTENDS PortAllocator, FiniteSetTheorems, WellFoundedInduction, TLAPS

-----------------------------------------------------------------------------
(* Arithmetic of indexes                                                   *)

\* Quotient and remainder.
LEMMA DivMod ==
    ASSUME NEW a \in Int, NEW b \in Nat \ {0}
    PROVE  /\ a = b * (a \div b) + (a % b)
           /\ a % b \in 0..b - 1
           /\ a \div b \in Int
OBVIOUS

\* Multiplication by the word size is monotonic.
LEMMA Scaled ==
    ASSUME NEW p \in Int, NEW q \in Int, NEW b \in Nat \ {0}, p < q
    PROVE  p * b + b <= q * b
  OBVIOUS

\* The sizes are numbers, and there is a word.
LEMMA Sizes ==
    /\ PortCount \in Nat \ {0} /\ WordBits \in Nat \ {0}
    /\ NumWords \in Nat \ {0}
    /\ NumWords * WordBits >= PortCount
    /\ IsFiniteSet(Callers)
<1>1. PortCount \in Nat \ {0} /\ WordBits \in Nat \ {0} /\ IsFiniteSet(Callers)
  BY AllocatorAssumption
<1> DEFINE a == PortCount + WordBits - 1
<1>2. /\ NumWords \in Int
      /\ PortCount + WordBits - 1 = WordBits * NumWords + ((PortCount + WordBits - 1) % WordBits)
      /\ (PortCount + WordBits - 1) % WordBits \in 0..WordBits - 1
  <2>1. a \in Int
    BY <1>1
  <2>2. NumWords = a \div WordBits
    BY DEF NumWords
  <2>3. a = WordBits * NumWords + (a % WordBits) /\ a % WordBits \in 0..WordBits - 1 /\ NumWords \in Int
    <3> HIDE DEF a
    <3>1. QED
      BY <1>1, <2>1, <2>2, DivMod
  <2>4. QED
    BY <2>3
<1>3. WordBits * NumWords \in Int /\ WordBits * NumWords = NumWords * WordBits
  BY <1>1, <1>2
<1>4. NumWords * WordBits >= PortCount
  BY <1>1, <1>2, <1>3
<1>5. NumWords > 0
  <2>1. SUFFICES ASSUME NumWords <= 0 PROVE FALSE
    BY <1>2
  <2>2. CASE NumWords = 0
    BY <2>2, <1>1, <1>4
  <2>3. CASE NumWords < 0
    BY <2>3, <1>1, <1>2, <1>4, Scaled
  <2>4. QED
    BY <2>1, <2>2, <2>3, <1>2
<1>6. QED
  BY <1>1, <1>2, <1>4, <1>5

\* release finds the word and the bit from which allocate made the port number.
LEMMA IndexOfPair ==
    ASSUME NEW w \in Words, NEW b \in Bits
    PROVE  /\ PortIndex(w, b) \in Nat
           /\ BitmapIndex(PortIndex(w, b)) = w
           /\ BitIndex(PortIndex(w, b)) = b
<1> DEFINE i == w * WordBits + b
           q == i \div WordBits
           r == i % WordBits
<1>1. w \in Nat /\ b \in 0..WordBits - 1 /\ WordBits \in Nat \ {0}
  BY Sizes DEF Words, Bits
<1>2. w * WordBits \in Nat
  BY <1>1
<1>3. i \in Nat
  BY <1>1, <1>2
<1>4. i = WordBits * q + r /\ r \in 0..WordBits - 1 /\ q \in Int
  <2> HIDE DEF i
  <2>1. QED
    BY <1>1, <1>3, DivMod
<1>5. WordBits * q \in Int /\ WordBits * q = q * WordBits
  BY <1>1, <1>4
<1> HIDE DEF q, r
<1>6. ~(q < w)
  <2>1. SUFFICES ASSUME q < w PROVE FALSE
    OBVIOUS
  <2>2. q * WordBits + WordBits <= w * WordBits
    BY <2>1, <1>1, <1>4, Scaled
  <2>3. QED
    BY <2>2, <1>1, <1>2, <1>4, <1>5
<1>7. ~(w < q)
  <2>1. SUFFICES ASSUME w < q PROVE FALSE
    OBVIOUS
  <2>2. w * WordBits + WordBits <= q * WordBits
    BY <2>1, <1>1, <1>4, Scaled
  <2>3. QED
    BY <2>2, <1>1, <1>2, <1>4, <1>5
<1>8. q = w
  BY <1>1, <1>4, <1>6, <1>7
<1>9. r = b
  BY <1>1, <1>2, <1>4, <1>5, <1>8
<1>10. QED
  BY <1>3, <1>8, <1>9 DEF PortIndex, BitmapIndex, BitIndex, q, r

\* Every port has a word and a bit, and is made of them.
LEMMA PairOfIndex ==
    ASSUME NEW i \in Indexes
    PROVE  /\ BitmapIndex(i) \in Words
           /\ BitIndex(i) \in Bits
           /\ PortIndex(BitmapIndex(i), BitIndex(i)) = i
<1> DEFINE q == i \div WordBits
           r == i % WordBits
<1>1. i \in Nat /\ i < PortCount
  BY Sizes DEF Indexes
<1>2. i = WordBits * q + r /\ r \in 0..WordBits - 1 /\ q \in Int
  BY <1>1, Sizes, DivMod
<1> HIDE DEF q, r
<1>3. WordBits * q = q * WordBits /\ q * WordBits \in Int
  BY <1>2, Sizes
<1>4. ~(q < 0)
  <2>1. SUFFICES ASSUME q < 0 PROVE FALSE
    OBVIOUS
  <2>2. q * WordBits + WordBits <= 0 * WordBits
    BY <2>1, <1>2, Sizes, Scaled
  <2>3. QED
    BY <2>2, <1>1, <1>2, <1>3, Sizes
<1>5. q < NumWords
  <2>1. SUFFICES ASSUME NumWords <= q PROVE FALSE
    BY <1>2, Sizes
  <2>2. NumWords * WordBits <= q * WordBits
    BY <1>3, <1>2, Sizes, Scaled, <2>1
  <2>3. NumWords * WordBits \in Int
    BY Sizes
  <2>4. QED
    BY <2>2, <2>3, <1>1, <1>2, <1>3, Sizes
<1>6. q \in Words /\ r \in Bits /\ q * WordBits + r = i
  BY <1>2, <1>3, <1>4, <1>5, Sizes DEF Words, Bits
<1>7. QED
  BY <1>6, ZenonT(30) DEF PortIndex, BitmapIndex, BitIndex, q, r

\* trailing_zeros finds the lowest bit of a mask that is not zero.
LEMMA LowestIsLeast ==
    ASSUME NEW s \in SUBSET Bits, s # {}
    PROVE  Lowest(s) \in s /\ \A c \in s : Lowest(s) <= c
<1> DEFINE R == {ss \in Nat \X Nat : ss[1] < ss[2]}
<1>1. IsWellFoundedOn(R, Nat)
  BY NatLessThanWellFounded, Zenon DEF OpToRel
<1>2. s \subseteq Nat
  BY Sizes DEF Bits
<1>3. PICK x \in s : \A y \in s : ~(<<y, x>> \in R)
  <2> HIDE DEF R
  <2>1. QED
    BY <1>1, <1>2, WFMin, ZenonT(30)
<1>4. \A y \in s : x <= y
  <2>1. SUFFICES ASSUME NEW y \in s PROVE x <= y
    OBVIOUS
  <2>2. x \in Nat /\ y \in Nat
    BY <1>2
  <2>3. y < x => <<y, x>> \in R
    BY <2>2
  <2>4. QED
    BY <1>3, <2>2, <2>3
<1>5. QED
  BY <1>4 DEF Lowest
-----------------------------------------------------------------------------
(* Types, and what the locals of a call mean                               *)

Scanning == {"load", "random", "lowest"}

\* The loops' conditions: a word is left to look at; the bit tried first is free in the
\* word as read and in range; the bit to clear is set in the word as read.
LocalsOK ==
    \A t \in Callers :
        /\ pc[t] \in Scanning => left[t] >= 1
        /\ pc[t] = "random" => bit[t] \notin cur[t] /\ PortIndex(word[t], bit[t]) < PortCount
        /\ pc[t] = "clear" => BitIndex(idx[t]) \in cur[t]

\* Every successful swap of allocate sets a bit that was free and is in range.
LEMMA SetsFreeBit ==
    ASSUME TypeOK, LocalsOK, NEW t \in Callers, TryRandom(t) \/ TryLowest(t)
    PROVE  \E b \in Bits : /\ b \notin cur[t]
                           /\ PortIndex(word[t], b) \in Indexes
                           /\ SetBit(t, b)
<1>0. word[t] \in Words /\ bit[t] \in Bits /\ cur[t] \in SUBSET Bits
  BY DEF TypeOK
<1>1. CASE TryRandom(t)
  BY <1>0, IndexOfPair, <1>1, Sizes DEF TryRandom, LocalsOK, Indexes
<1>2. CASE TryLowest(t)
  <2> DEFINE b == Lowest(Bits \ cur[t])
  <2>1. PortIndex(word[t], b) < PortCount /\ SetBit(t, b) /\ Bits \ cur[t] # {}
    BY <1>2, <1>0 DEF TryLowest, Usable
  <2>2. b \in Bits \ cur[t]
    BY <2>1, LowestIsLeast
  <2> HIDE DEF b
  <2>3. PortIndex(word[t], b) \in Nat
    BY <1>0, <2>2, IndexOfPair
  <2>4. QED
    BY <2>1, <2>2, <2>3, Sizes DEF Indexes
<1>3. QED
  BY <1>1, <1>2

\* Moving on to the next word keeps the types.
LEMMA NextWordTypes ==
    ASSUME TypeOK, LocalsOK, NEW t \in Callers, NextWord(t), pc[t] \in Scanning
    PROVE  /\ word' \in [Callers -> Words] /\ bit' \in [Callers -> Bits]
           /\ left' \in [Callers -> 0..NumWords]
           /\ pc' \in [Callers -> PCs] /\ result' \in [Callers -> Results]
           /\ pc'[t] \in {"load", "idle"} /\ (pc'[t] = "load" => left'[t] >= 1)
<1>1. word[t] \in Words /\ bit[t] \in Bits /\ left[t] \in 1..NumWords
  BY Sizes DEF TypeOK, LocalsOK
<1>2. (word[t] + 1) % NumWords \in Words
  <2>1. word[t] + 1 \in Int
    BY <1>1, Sizes DEF Words
  <2>2. QED
    BY <2>1, Sizes, DivMod, ZenonT(30) DEF Words
<1>3. (bit[t] + 1) % WordBits \in Bits
  <2>1. bit[t] + 1 \in Int
    BY <1>1, Sizes DEF Bits
  <2>2. QED
    BY <2>1, Sizes, DivMod, ZenonT(30) DEF Bits
<1>4. left[t] - 1 \in 0..NumWords
  BY <1>1, Sizes
<1>5. /\ word' \in [Callers -> Words] /\ bit' \in [Callers -> Bits]
      /\ left' \in [Callers -> 0..NumWords] /\ left'[t] = left[t] - 1
  <2>1. CASE left[t] > 1
    BY <2>1, <1>1, <1>2, <1>3, <1>4 DEF NextWord, TypeOK
  <2>2. CASE left[t] <= 1
    <3>1. EndScan(t) /\ left[t] = 1 /\ 0 \in Words /\ 0 \in Bits /\ 0 \in 0..NumWords
      BY <2>2, <1>1, Sizes DEF NextWord, Words, Bits
    <3>2. QED
      BY <3>1 DEF EndScan, TypeOK
  <2>3. QED
    BY <2>1, <2>2, <1>1
<1>6. /\ pc' \in [Callers -> PCs] /\ result' \in [Callers -> Results]
      /\ pc'[t] \in {"load", "idle"} /\ (pc'[t] = "load" => left[t] > 1)
  BY DEF NextWord, TypeOK, PCs, Results
<1>7. QED
  BY <1>1, <1>5, <1>6, Sizes

\* What a step of t leaves alone in the other callers.
OthersSame(t) ==
    \A u \in Callers \ {t} :
        /\ pc'[u] = pc[u] /\ word'[u] = word[u] /\ left'[u] = left[u] /\ bit'[u] = bit[u]
        /\ cur'[u] = cur[u] /\ idx'[u] = idx[u] /\ result'[u] = result[u]

\* A call changes the locals of its own thread only.
LEMMA CallFrame ==
    ASSUME TypeOK, NEW t \in Callers, AllocateBegin(t) \/ ReleaseBegin(t) \/ Continue(t)
    PROVE  OthersSame(t)
<1>1. CASE AllocateBegin(t)
  BY <1>1 DEF AllocateBegin, OthersSame, TypeOK
<1>2. CASE ReleaseBegin(t)
  BY <1>2 DEF ReleaseBegin, ClearOrGiveUp, OthersSame, TypeOK, scan
<1>3. CASE Load(t)
  BY <1>3 DEF Load, NextWord, EndScan, OthersSame, TypeOK, scan
<1>4. CASE TryRandom(t) \/ TryLowest(t)
  BY <1>4 DEF TryRandom, TryLowest, SetBit, EndScan, OthersSame, TypeOK
<1>5. CASE TryRandomFails(t) \/ TryLowestFails(t)
  BY <1>5 DEF TryRandomFails, TryLowestFails, SwapFails, OthersSame, TypeOK, scan
<1>6. CASE WordExhausted(t)
  BY <1>6 DEF WordExhausted, NextWord, EndScan, OthersSame, TypeOK
<1>7. CASE CountUp(t) \/ CountDown(t) \/ Clear(t)
  BY <1>7 DEF CountUp, CountDown, Clear, OthersSame, TypeOK, scan
<1>8. CASE ClearFails(t)
  BY <1>8 DEF ClearFails, ClearOrGiveUp, OthersSame, TypeOK, scan
<1>9. QED
  BY <1>1, <1>2, <1>3, <1>4, <1>5, <1>6, <1>7, <1>8 DEF Continue, Swap

\* A call keeps the types.
LEMMA CallTypes ==
    ASSUME TypeOK, LocalsOK, NEW t \in Callers, AllocateBegin(t) \/ ReleaseBegin(t) \/ Continue(t)
    PROVE  TypeOK'
<1>0. Taken \in SUBSET Indexes
  BY DEF Taken
<1>1. CASE AllocateBegin(t)
  BY Sizes, <1>1, <1>0 DEF AllocateBegin, TypeOK, PCs, Results
<1>2. CASE ReleaseBegin(t)
  BY <1>2, PairOfIndex DEF ReleaseBegin, TypeOK, ClearOrGiveUp, PCs, Results, scan
<1>3. CASE Load(t)
  BY <1>3, NextWordTypes DEF TypeOK, Load, Scanning, PCs, scan
<1>4. CASE TryRandom(t) \/ TryLowest(t)
  <2>1. PICK b \in Bits : PortIndex(word[t], b) \in Indexes /\ SetBit(t, b)
    BY <1>4, SetsFreeBit, ZenonT(30)
  <2>2. word[t] \in Words /\ 0 \in Words /\ 0 \in Bits /\ 0 \in 0..NumWords
    BY Sizes DEF TypeOK, Words, Bits
  <2>3. /\ word' \in [Callers -> Words] /\ left' \in [Callers -> 0..NumWords]
        /\ bit' \in [Callers -> Bits]
    BY <2>1, <2>2 DEF SetBit, EndScan, TypeOK
  <2>4. /\ allocated' \in [Words -> SUBSET Bits] /\ idx' \in [Callers -> Indexes]
        /\ pc' \in [Callers -> PCs] /\ free' \in [Callers -> SUBSET Indexes]
    BY <2>1, <2>2 DEF SetBit, TypeOK, PCs
  <2>5. QED
    BY <2>1, <2>3, <2>4 DEF SetBit, TypeOK
<1>5. CASE TryRandomFails(t) \/ TryLowestFails(t)
  BY <1>5 DEF TryRandomFails, TryLowestFails, SwapFails, TypeOK, PCs, scan
<1>6. CASE WordExhausted(t)
  BY <1>6, NextWordTypes DEF WordExhausted, Scanning, TypeOK
<1>7. CASE CountUp(t)
  BY <1>7 DEF CountUp, TypeOK, PCs, Results, scan
<1>8. CASE Clear(t)
  BY <1>8, ZenonT(30) DEF Clear, TypeOK, PCs, scan
<1>9. CASE ClearFails(t)
  BY PairOfIndex, <1>9 DEF TypeOK, ClearFails, ClearOrGiveUp, PCs, Results, scan
<1>10. CASE CountDown(t)
  BY <1>10, SMTT(30) DEF CountDown, TypeOK, PCs, Results, scan
<1>11. QED
  BY <1>1, <1>2, <1>3, <1>4, <1>5, <1>6, <1>7, <1>8, <1>9, <1>10 DEF Continue, Swap

\* A call keeps what its locals mean.
LEMMA CallLocals ==
    ASSUME TypeOK, LocalsOK, NEW t \in Callers, AllocateBegin(t) \/ ReleaseBegin(t) \/ Continue(t)
    PROVE  LocalsOK'
<1> DEFINE L == /\ pc'[t] \in Scanning => left'[t] >= 1
                /\ pc'[t] = "random" => bit'[t] \notin cur'[t] /\ PortIndex(word'[t], bit'[t]) < PortCount
                /\ pc'[t] = "clear" => BitIndex(idx'[t]) \in cur'[t]
<1>1. SUFFICES L
  BY CallFrame DEF LocalsOK, OthersSame
<1>2. CASE AllocateBegin(t)
  BY <1>2, Sizes DEF AllocateBegin, TypeOK, Scanning
<1>3. CASE ReleaseBegin(t)
  BY <1>3 DEF ReleaseBegin, ClearOrGiveUp, TypeOK, Scanning
<1>4. CASE Load(t)
  BY <1>4, NextWordTypes DEF Load, Scanning, LocalsOK, TypeOK, scan
<1>5. CASE TryRandom(t) \/ TryLowest(t) \/ Clear(t) \/ CountUp(t) \/ CountDown(t)
  BY <1>5 DEF TryRandom, TryLowest, SetBit, Clear, CountUp, CountDown, TypeOK, Scanning
<1>6. CASE TryRandomFails(t) \/ TryLowestFails(t)
  BY <1>6 DEF TryRandomFails, TryLowestFails, SwapFails, TypeOK, LocalsOK, Scanning, scan
<1>7. CASE WordExhausted(t)
  BY <1>7, NextWordTypes DEF WordExhausted, Scanning
<1>8. CASE ClearFails(t)
  BY <1>8 DEF ClearFails, ClearOrGiveUp, TypeOK, Scanning, scan
<1>9. QED
  BY <1>2, <1>3, <1>4, <1>5, <1>6, <1>7, <1>8 DEF Continue, Swap

\* Types are kept whatever the interleaving of allocate and release, and every port index
\* that a swap sets lies in the configured range.
THEOREM AllocatorTypes == Spec => [](TypeOK /\ LocalsOK)
<1>1. Init => TypeOK /\ LocalsOK
  BY Sizes DEF Words, Bits, Indexes, Init, TypeOK, LocalsOK, PCs, Results, Scanning
<1>2. TypeOK /\ LocalsOK /\ [Next]_vars => (TypeOK /\ LocalsOK)'
  <2>1. SUFFICES ASSUME TypeOK, LocalsOK, [Next]_vars PROVE (TypeOK /\ LocalsOK)'
    OBVIOUS
  <2>2. CASE Next
    BY <2>1, <2>2, CallTypes, CallLocals DEF Next
  <2>3. CASE UNCHANGED vars
    BY <2>1, <2>3, SMTT(30) DEF vars, scan, TypeOK, LocalsOK
  <2>4. QED
    BY <2>1, <2>2, <2>3
<1>3. QED
  BY <1>1, <1>2, PTL DEF Spec
-----------------------------------------------------------------------------
(* The bitmap as a set of ports                                            *)

\* A successful swap of allocate adds one port that was not taken.
LEMMA SetBitTakes ==
    ASSUME TypeOK, LocalsOK, NEW t \in Callers, TryRandom(t) \/ TryLowest(t)
    PROVE  /\ idx'[t] \in Indexes \ Taken
           /\ Taken' = Taken \cup {idx'[t]}
           /\ pc[t] \in Scanning
           /\ pc' = [pc EXCEPT ![t] = "count"]
           /\ free' = [u \in Callers |-> free[u] \ {idx'[t]}]
           /\ UNCHANGED <<count, cur, result, owners>>
<1>1. PICK b \in Bits : /\ b \notin cur[t]
                        /\ PortIndex(word[t], b) \in Indexes
                        /\ SetBit(t, b)
  BY SetsFreeBit
<1> DEFINE w == word[t]
           i == PortIndex(w, b)
<1>2. w \in Words /\ BitmapIndex(i) = w /\ BitIndex(i) = b
  BY IndexOfPair DEF TypeOK
<1>3. idx'[t] = i /\ allocated[w] = cur[t] /\ allocated' = [allocated EXCEPT ![w] = @ \cup {b}]
  BY <1>1 DEF SetBit, TypeOK
<1>4. i \in Indexes \ Taken
  BY <1>1, <1>2, <1>3, SMTT(30) DEF Taken, IsAllocated
<1>5. ASSUME NEW j \in Indexes
      PROVE  IsAllocated(j)' <=> IsAllocated(j) \/ j = i
  BY <1>5, PairOfIndex, <1>2, <1>3 DEF TypeOK, IsAllocated
<1>6. Taken' = Taken \cup {i}
  BY <1>4, <1>5 DEF Taken
<1>7. QED
  BY <1>1, <1>3, <1>4, <1>6, SMTT(30) DEF SetBit, TryRandom, TryLowest, Scanning

\* A successful swap of release removes its port, which was taken.
LEMMA ClearFrees ==
    ASSUME TypeOK, LocalsOK, NEW t \in Callers, Clear(t)
    PROVE  idx[t] \in Taken /\ Taken' = Taken \ {idx[t]}
<1> DEFINE i == idx[t]
           w == BitmapIndex(i)
           b == BitIndex(i)
<1>1. i \in Indexes /\ w \in Words /\ b \in Bits /\ PortIndex(w, b) = i
  BY PairOfIndex DEF TypeOK
<1>2. b \in cur[t] /\ allocated[w] = cur[t] /\ allocated' = [allocated EXCEPT ![w] = @ \ {b}]
  BY DEF Clear, LocalsOK
<1>3. i \in Taken
  BY <1>1, <1>2 DEF Taken, IsAllocated
<1>4. ASSUME NEW j \in Indexes
      PROVE  IsAllocated(j)' <=> IsAllocated(j) /\ j # i
  BY <1>4, PairOfIndex, <1>1, <1>2 DEF TypeOK, IsAllocated
<1>5. QED
  BY <1>3, <1>4 DEF Taken

\* The other steps leave the bitmap alone.
LEMMA TakenSame ==
    ASSUME UNCHANGED allocated
    PROVE  Taken' = Taken
BY DEF Taken, IsAllocated
-----------------------------------------------------------------------------
(* One owner per port                                                      *)

\* A step that moves no port between the bitmap, the calls and the owners.
LEMMA NoTransfer ==
    ASSUME TypeOK, OneOwnerPerPort, UNCHANGED <<allocated, owners, idx>>, NEW t \in Callers,
           OthersSame(t), t \in InTransit <=> t \in InTransit', result'[t] # "not_allocated"
    PROVE  OneOwnerPerPort'
  BY TakenSame DEF InTransit, OthersSame, OneOwnerPerPort

\* Every step of a call keeps one owner per port.
LEMMA CallOwners ==
    ASSUME TypeOK, LocalsOK, OneOwnerPerPort,
           NEW t \in Callers, AllocateBegin(t) \/ ReleaseBegin(t) \/ Continue(t)
    PROVE  OneOwnerPerPort'
<1>0. OthersSame(t) /\ TypeOK'
  BY CallFrame, CallTypes
<1>1. CASE TryRandom(t) \/ TryLowest(t)
  <2>1. /\ idx'[t] \in Indexes \ Taken /\ Taken' = Taken \cup {idx'[t]}
        /\ pc[t] \in Scanning /\ pc'[t] = "count" /\ UNCHANGED <<owners, result>>
    BY <1>1, SetBitTakes, SMTT(30) DEF TypeOK
  <2>2. InTransit' = InTransit \cup {t} /\ t \notin InTransit
    BY <2>1, <1>0 DEF InTransit, OthersSame, Scanning
  <2>3. owners[idx'[t]] = 0
    <3>1. owners[idx'[t]] \in Nat /\ owners[idx'[t]] <= 1 /\ owners[idx'[t]] # 1
      BY <2>1 DEF OneOwnerPerPort, TypeOK
    <3>2. QED
      BY <3>1
  <2>4. \A u \in InTransit : idx'[u] = idx[u] /\ idx[u] # idx'[t]
    BY <2>1, <2>2, <1>0, SMTT(30) DEF OneOwnerPerPort, OthersSame, InTransit
  <2>5. QED
    BY <2>1, <2>2, <2>3, <2>4 DEF OneOwnerPerPort
<1>2. CASE CountUp(t)
  BY <1>2, <1>0, TakenSame DEF CountUp, TypeOK, InTransit, OthersSame, OneOwnerPerPort
<1>3. CASE ReleaseBegin(t)
  BY <1>3, TakenSame, <1>0 DEF ReleaseBegin, OneOwnerPerPort, TypeOK, ClearOrGiveUp, Taken,
     IsAllocated, InTransit, OthersSame
<1>4. CASE Clear(t)
  <2>1. /\ pc[t] = "clear" /\ pc'[t] = "uncount" /\ UNCHANGED <<owners, idx, result>>
        /\ idx[t] \in Taken /\ Taken' = Taken \ {idx[t]}
    BY <1>4, ClearFrees, ZenonT(30) DEF Clear, TypeOK
  <2>2. InTransit' = InTransit \ {t} /\ t \in InTransit
    BY <2>1, <1>0, ZenonT(30) DEF InTransit, OthersSame
  <2>3. QED
    BY <2>1, <2>2 DEF OneOwnerPerPort
<1>5. CASE AllocateBegin(t)
  BY <1>0, <1>5, NoTransfer, ZenonT(30) DEF AllocateBegin, InTransit, TypeOK
<1>6. CASE Load(t) \/ WordExhausted(t)
  BY <1>6, <1>0, NoTransfer DEF Load, WordExhausted, NextWord, OneOwnerPerPort, TypeOK, InTransit
<1>7. CASE TryRandomFails(t) \/ TryLowestFails(t)
  BY <1>7, <1>0, NoTransfer DEF TryRandomFails, TryLowestFails, SwapFails, OneOwnerPerPort, TypeOK,
     InTransit
<1>8. CASE ClearFails(t)
  BY <1>8, <1>0, NoTransfer, ZenonT(30) DEF ClearFails, OneOwnerPerPort, InTransit, ClearOrGiveUp, Taken,
     IsAllocated, TypeOK
<1>9. CASE CountDown(t)
  BY <1>9, <1>0, NoTransfer DEF CountDown, TypeOK, InTransit
<1>10. QED
  BY <1>1, <1>2, <1>3, <1>4, <1>5, <1>6, <1>7, <1>8, <1>9 DEF Continue, Swap

\* However allocate and release interleave, no port is handed out twice, no port is lost,
\* and release never clears another port's bit.
THEOREM OnePortOneOwner == Spec => []OneOwnerPerPort
<1>1. Init => OneOwnerPerPort
  <2>1. SUFFICES ASSUME Init PROVE OneOwnerPerPort
    OBVIOUS
  <2>2. Taken = {}
    BY <2>1, PairOfIndex DEF Init, Taken, IsAllocated
  <2>3. InTransit = {}
    BY <2>1 DEF Init, InTransit
  <2>4. QED
    BY <2>1, <2>2, <2>3 DEF Init, OneOwnerPerPort
<1>2. TypeOK /\ LocalsOK /\ OneOwnerPerPort /\ [Next]_vars => OneOwnerPerPort'
  <2>1. SUFFICES ASSUME TypeOK, LocalsOK, OneOwnerPerPort, [Next]_vars PROVE OneOwnerPerPort'
    OBVIOUS
  <2>2. CASE Next
    BY <2>1, <2>2, CallOwners, SMTT(30) DEF Next
  <2>3. CASE UNCHANGED vars
    BY <2>1, <2>3 DEF vars, OneOwnerPerPort, Taken, IsAllocated, InTransit
  <2>4. QED
    BY <2>1, <2>2, <2>3
<1>3. QED
  BY <1>1, <1>2, AllocatorTypes, PTL DEF Spec
-----------------------------------------------------------------------------
(* The counter                                                             *)

Counting == {t \in Callers : pc[t] = "count"}
Uncounting == {t \in Callers : pc[t] = "uncount"}

\* The sets that CountDrift counts are finite.
LEMMA FiniteCounts ==
    /\ IsFiniteSet(Taken) /\ Cardinality(Taken) \in Nat
    /\ IsFiniteSet(Counting) /\ Cardinality(Counting) \in Nat
    /\ IsFiniteSet(Uncounting) /\ Cardinality(Uncounting) \in Nat
<1>1. IsFiniteSet(Indexes)
  BY Sizes, FS_Interval DEF Indexes
<1>2. Taken \in SUBSET Indexes /\ Counting \in SUBSET Callers /\ Uncounting \in SUBSET Callers
  BY DEF Taken, Counting, Uncounting
<1>3. IsFiniteSet(Taken) /\ IsFiniteSet(Counting) /\ IsFiniteSet(Uncounting)
  BY <1>1, <1>2, Sizes, FS_Subset
<1>4. QED
  BY <1>3, FS_CardinalityType

\* Every step of a call keeps the counter's drift equal to the calls between swap and count.
LEMMA CallDrift ==
    ASSUME TypeOK, LocalsOK, CountDrift,
           NEW t \in Callers, AllocateBegin(t) \/ ReleaseBegin(t) \/ Continue(t)
    PROVE  CountDrift'
<1>0. OthersSame(t) /\ count \in Int
  BY CallFrame DEF TypeOK
<1>1. count + Cardinality(Counting) = Cardinality(Taken) + Cardinality(Uncounting)
  BY SMTT(30) DEF CountDrift, Counting, Uncounting
<1>2. SUFFICES count' + Cardinality(Counting') = Cardinality(Taken') + Cardinality(Uncounting')
  BY DEF CountDrift, Counting, Uncounting
<1>3. CASE TryRandom(t) \/ TryLowest(t)
  <2>1. /\ idx'[t] \notin Taken /\ Taken' = Taken \cup {idx'[t]} /\ count' = count
        /\ pc[t] \in Scanning /\ pc'[t] = "count"
    BY <1>3, SetBitTakes, ZenonT(30) DEF TypeOK
  <2>2. Counting' = Counting \cup {t} /\ t \notin Counting /\ Uncounting' = Uncounting
    BY <2>1, <1>0 DEF Counting, Uncounting, OthersSame, Scanning
  <2>3. Cardinality(Taken') = Cardinality(Taken) + 1 /\ Cardinality(Counting') = Cardinality(Counting) + 1
    BY <2>1, <2>2, FiniteCounts, FS_AddElement, ZenonT(30)
  <2>4. QED
    BY <2>1, <2>2, <2>3, <1>0, <1>1, FiniteCounts
<1>4. CASE CountUp(t)
  <2>1. pc[t] = "count" /\ pc'[t] = "idle" /\ count' = count + 1 /\ UNCHANGED allocated
    BY <1>4, SMTT(30) DEF CountUp, TypeOK
  <2>2. Counting' = Counting \ {t} /\ t \in Counting /\ Uncounting' = Uncounting /\ Taken' = Taken
    BY <2>1, <1>0, TakenSame DEF Counting, Uncounting, OthersSame
  <2>3. Cardinality(Counting') = Cardinality(Counting) - 1
    BY <2>2, FiniteCounts, FS_RemoveElement, ZenonT(30)
  <2>4. QED
    BY <2>1, <2>2, <2>3, <1>0, <1>1, FiniteCounts
<1>5. CASE Clear(t)
  <2>1. /\ pc[t] = "clear" /\ pc'[t] = "uncount" /\ count' = count
        /\ idx[t] \in Taken /\ Taken' = Taken \ {idx[t]}
    BY <1>5, ClearFrees, ZenonT(30) DEF Clear, TypeOK
  <2>2. Uncounting' = Uncounting \cup {t} /\ t \notin Uncounting /\ Counting' = Counting
    BY <2>1, <1>0 DEF Counting, Uncounting, OthersSame
  <2>3. /\ Cardinality(Taken') = Cardinality(Taken) - 1
        /\ Cardinality(Uncounting') = Cardinality(Uncounting) + 1
    BY <2>1, <2>2, FiniteCounts, FS_AddElement, FS_RemoveElement, ZenonT(30)
  <2>4. QED
    BY <2>1, <2>2, <2>3, <1>0, <1>1, FiniteCounts
<1>6. CASE CountDown(t)
  <2>1. pc[t] = "uncount" /\ pc'[t] = "idle" /\ count' = count - 1 /\ UNCHANGED allocated
    BY <1>6 DEF CountDown, TypeOK
  <2>2. Uncounting' = Uncounting \ {t} /\ t \in Uncounting /\ Counting' = Counting /\ Taken' = Taken
    BY <2>1, <1>0, TakenSame DEF Counting, Uncounting, OthersSame
  <2>3. Cardinality(Uncounting') = Cardinality(Uncounting) - 1
    BY <2>2, FiniteCounts, FS_RemoveElement, ZenonT(30)
  <2>4. QED
    BY <2>1, <2>2, <2>3, <1>0, <1>1, FiniteCounts
<1>7. CASE \/ AllocateBegin(t) \/ ReleaseBegin(t) \/ Load(t) \/ TryRandomFails(t)
           \/ TryLowestFails(t) \/ WordExhausted(t) \/ ClearFails(t)
  <2>1. UNCHANGED <<allocated, count>>
    BY <1>7, ZenonT(30) DEF AllocateBegin, ReleaseBegin, Load, TryRandomFails, TryLowestFails, SwapFails,
         WordExhausted, ClearFails
  <2>2. pc[t] \notin {"count", "uncount"} /\ pc'[t] \notin {"count", "uncount"}
    BY <1>7, SMTT(30) DEF AllocateBegin, ReleaseBegin, Load, TryRandomFails, TryLowestFails, SwapFails,
         WordExhausted, ClearFails, NextWord, ClearOrGiveUp, TypeOK
  <2>3. Counting' = Counting /\ Uncounting' = Uncounting /\ Taken' = Taken
    BY <2>1, <2>2, <1>0, TakenSame, ZenonT(30) DEF Counting, Uncounting, OthersSame
  <2>4. QED
    BY <2>1, <2>3, <1>1
<1>8. QED
  BY <1>3, <1>4, <1>5, <1>6, <1>7 DEF Continue, Swap

\* allocated_count is the number of set bits, corrected by the calls that have swapped and
\* not yet counted: it is exact whenever no call is in progress.
THEOREM CounterDriftsOnlyInCalls == Spec => []CountDrift
<1>1. Init => CountDrift
  <2>1. SUFFICES ASSUME Init PROVE CountDrift
    OBVIOUS
  <2>2. Taken = {}
    BY <2>1, PairOfIndex DEF Init, Taken, IsAllocated
  <2>3. {t \in Callers : pc[t] = "count"} = {} /\ {t \in Callers : pc[t] = "uncount"} = {}
    BY <2>1 DEF Init
  <2>4. QED
    BY <2>1, <2>2, <2>3, FS_EmptySet DEF Init, CountDrift
<1>2. TypeOK /\ LocalsOK /\ CountDrift /\ [Next]_vars => CountDrift'
  <2>1. SUFFICES ASSUME TypeOK, LocalsOK, CountDrift, [Next]_vars PROVE CountDrift'
    OBVIOUS
  <2>2. CASE Next
    BY <2>1, <2>2, CallDrift DEF Next
  <2>3. CASE UNCHANGED vars
    BY <2>1, <2>3 DEF vars, CountDrift, Taken, IsAllocated
  <2>4. QED
    BY <2>1, <2>2, <2>3
<1>3. QED
  BY <1>1, <1>2, AllocatorTypes, PTL DEF Spec
-----------------------------------------------------------------------------
(* None means exhausted                                                    *)

\* How many words after w, cyclically, x comes.
Distance(w, x) == IF x >= w THEN x - w ELSE x - w + NumWords

\* The remainder wraps the last word round to the first.
LEMMA Wraps ==
    ASSUME NEW w \in Words
    PROVE  (w + 1) % NumWords = IF w + 1 = NumWords THEN 0 ELSE w + 1
  BY Sizes DEF Words

\* A port free during the whole call lies in a word still to be looked at, and its bit was
\* clear in every value of that word that the call has read.
ScanOK ==
    \A t \in Callers :
        /\ pc[t] \in Scanning =>
             \A i \in free[t] : ~IsAllocated(i) /\ Distance(word[t], BitmapIndex(i)) < left[t]
        /\ pc[t] \in {"random", "lowest"} =>
             \A i \in free[t] : BitmapIndex(i) = word[t] => BitIndex(i) \notin cur[t]

\* A scan that leaves a word in which no port is free throughout keeps ScanOK, and returns
\* None only if no port is left at all.
LEMMA NextWordScan ==
    ASSUME TypeOK, LocalsOK, ScanOK, NEW t \in Callers, NextWord(t), pc[t] \in Scanning,
           \A i \in free[t] : BitmapIndex(i) # word[t],
           UNCHANGED <<allocated, free>>
    PROVE  /\ pc'[t] \in {"load", "idle"}
           /\ pc'[t] = "load" => \A i \in free'[t] : Distance(word'[t], BitmapIndex(i)) < left'[t]
           /\ result'[t] = "exhausted" => free'[t] = {} \/ result[t] = "exhausted"
<1>1. word[t] \in Words /\ left[t] \in 1..NumWords /\ free[t] \in SUBSET Indexes
  BY Sizes DEF TypeOK, LocalsOK
<1>2. left[t] > 1 => /\ word'[t] = (IF word[t] + 1 = NumWords THEN 0 ELSE word[t] + 1)
                     /\ left'[t] = left[t] - 1
  BY <1>1, Wraps DEF NextWord, TypeOK
<1>3. ASSUME left[t] > 1, NEW i \in free[t]
      PROVE  Distance(word'[t], BitmapIndex(i)) < left[t] - 1
  BY <1>3, <1>1, PairOfIndex, <1>2, Sizes DEF ScanOK, Distance, Words
<1>4. left[t] = 1 => free[t] = {}
  <2>1. SUFFICES ASSUME left[t] = 1, NEW i \in free[t] PROVE FALSE
    BY <1>1
  <2>2. BitmapIndex(i) \in Words /\ Distance(word[t], BitmapIndex(i)) < 1 /\ BitmapIndex(i) # word[t]
    BY <1>1, <2>1, PairOfIndex DEF ScanOK
  <2>3. QED
    BY <1>1, <2>2, Sizes DEF Distance, Words
<1>5. QED
  BY <1>1, <1>2, <1>3, <1>4 DEF NextWord, TypeOK

\* In a word given up after a failed search, every port was taken in the value last read.
LEMMA UselessWord ==
    ASSUME TypeOK, ScanOK, NEW t \in Callers, pc[t] = "lowest", ~Usable(t), NEW i \in free[t]
    PROVE  BitmapIndex(i) # word[t]
<1>1. SUFFICES ASSUME BitmapIndex(i) = word[t] PROVE FALSE
  OBVIOUS
<1>2. i \in Indexes /\ cur[t] \in SUBSET Bits /\ word[t] \in Words
  BY DEF TypeOK
<1>3. BitIndex(i) \in Bits \ cur[t] /\ PortIndex(word[t], BitIndex(i)) = i
  BY <1>1, <1>2, PairOfIndex DEF ScanOK
<1> DEFINE b == Lowest(Bits \ cur[t])
<1>4. b \in Bits /\ b <= BitIndex(i)
  BY <1>2, <1>3, LowestIsLeast
<1>5. ~(PortIndex(word[t], b) < PortCount)
  BY <1>2, <1>3 DEF Usable
<1> HIDE DEF b
<1>6. word[t] * WordBits \in Int
  BY <1>2, Sizes, SMTT(30) DEF Words
<1>7. QED
  BY <1>2, <1>3, <1>4, <1>5, <1>6, Sizes DEF PortIndex, Indexes, Bits

\* What every step keeps of the other callers' scans.
LEMMA OtherScans ==
    ASSUME TypeOK, LocalsOK, ScanOK, NoneMeansExhausted, NEW t \in Callers,
           AllocateBegin(t) \/ ReleaseBegin(t) \/ Continue(t),
           NEW u \in Callers, u # t
    PROVE  /\ free'[u] \subseteq free[u]
           /\ pc'[u] \in Scanning =>
                \A i \in free'[u] : ~IsAllocated(i)' /\ Distance(word'[u], BitmapIndex(i)) < left'[u]
           /\ pc'[u] \in {"random", "lowest"} =>
                \A i \in free'[u] : BitmapIndex(i) = word'[u] => BitIndex(i) \notin cur'[u]
           /\ result'[u] = "exhausted" => free'[u] = {}
<1>0. OthersSame(t)
  BY CallFrame, ZenonT(30)
<1>1. free'[u] \subseteq free[u] /\ \A i \in free'[u] : IsAllocated(i)' => IsAllocated(i)
  <2>1. CASE TryRandom(t) \/ TryLowest(t)
    BY <2>1, SetBitTakes DEF TypeOK, Taken
  <2>2. CASE Clear(t)
    BY <2>2, ClearFrees, ZenonT(30) DEF Clear, TypeOK, Taken
  <2>3. CASE ~(TryRandom(t) \/ TryLowest(t)) /\ ~Clear(t)
    <3>1. UNCHANGED allocated /\ free'[u] = free[u]
      BY <2>3, SMTT(30) DEF Continue, Swap, AllocateBegin, ReleaseBegin, Load, TryRandomFails, TryLowestFails,
           SwapFails, WordExhausted, CountUp, ClearFails, CountDown, TypeOK
    <3>2. QED
      BY <3>1, SMTT(30) DEF IsAllocated
  <2>4. QED
    BY <2>1, <2>2, <2>3
<1>2. QED
  BY <1>0, <1>1 DEF OthersSame, ScanOK, NoneMeansExhausted

\* Every step of a call keeps the scans complete.
LEMMA CallScan ==
    ASSUME TypeOK, LocalsOK, ScanOK, NoneMeansExhausted, NEW t \in Callers,
           AllocateBegin(t) \/ ReleaseBegin(t) \/ Continue(t)
    PROVE  ScanOK' /\ NoneMeansExhausted'
<1> DEFINE S == /\ pc'[t] \in Scanning =>
                     \A i \in free'[t] : ~IsAllocated(i)' /\ Distance(word'[t], BitmapIndex(i)) < left'[t]
                /\ pc'[t] \in {"random", "lowest"} =>
                     \A i \in free'[t] : BitmapIndex(i) = word'[t] => BitIndex(i) \notin cur'[t]
                /\ result'[t] = "exhausted" => free'[t] = {}
<1>1. SUFFICES S
  BY OtherScans, ZenonT(30) DEF ScanOK, NoneMeansExhausted
<1>2. CASE AllocateBegin(t)
  BY <1>2, PairOfIndex, Sizes DEF AllocateBegin, TypeOK, Distance, Words, Taken, IsAllocated
<1>3. CASE Load(t)
  BY <1>3, PairOfIndex, NextWordScan, ZenonT(30) DEF Load, TypeOK, Scanning, ScanOK, IsAllocated,
     NoneMeansExhausted, scan
<1>4. CASE TryRandom(t) \/ TryLowest(t)
  BY <1>4, SetBitTakes DEF TypeOK, Scanning, NoneMeansExhausted
<1>5. CASE TryRandomFails(t) \/ TryLowestFails(t)
  BY <1>5 DEF TryRandomFails, TryLowestFails, SwapFails, TypeOK, Scanning, scan, ScanOK,
     NoneMeansExhausted, IsAllocated
<1>6. CASE WordExhausted(t)
  BY <1>6, UselessWord, NextWordScan, ZenonT(30) DEF WordExhausted, Scanning, ScanOK, NoneMeansExhausted,
     IsAllocated
<1>7. CASE ReleaseBegin(t) \/ CountUp(t) \/ Clear(t) \/ ClearFails(t) \/ CountDown(t)
  BY <1>7 DEF ReleaseBegin, CountUp, Clear, ClearFails, CountDown, ClearOrGiveUp, TypeOK, Scanning,
     NoneMeansExhausted
<1>8. QED
  BY <1>2, <1>3, <1>4, <1>5, <1>6, <1>7, ZenonT(30) DEF Continue, Swap

\* allocate gives up only when no port was free from the beginning of the call to its end,
\* whatever the other callers take, release and make its swaps fail meanwhile.
THEOREM NoneOnlyIfExhausted == Spec => []NoneMeansExhausted
<1>1. Init => ScanOK /\ NoneMeansExhausted
  BY DEF Init, ScanOK, NoneMeansExhausted, Scanning
<1>2. TypeOK /\ LocalsOK /\ ScanOK /\ NoneMeansExhausted /\ [Next]_vars => (ScanOK /\ NoneMeansExhausted)'
  <2>1. SUFFICES ASSUME TypeOK, LocalsOK, ScanOK, NoneMeansExhausted, [Next]_vars
                 PROVE  (ScanOK /\ NoneMeansExhausted)'
    OBVIOUS
  <2>2. CASE Next
    BY <2>1, <2>2, CallScan, SMTT(30) DEF Next
  <2>3. CASE UNCHANGED vars
    BY <2>1, <2>3 DEF vars, scan, ScanOK, NoneMeansExhausted, IsAllocated
  <2>4. QED
    BY <2>1, <2>2, <2>3
<1>3. QED
  BY <1>1, <1>2, AllocatorTypes, PTL DEF Spec
-----------------------------------------------------------------------------
(* The refinement of PortPool                                              *)

Owned == {i \in Indexes : owners[i] > 0}
Phases == [t \in Callers |-> Phase(pc[t])]

\* What a step leaves alone in the bitmap and the owners it leaves alone in the pool.
LEMMA PoolSame ==
    /\ UNCHANGED allocated => UNCHANGED Taken
    /\ UNCHANGED owners => UNCHANGED Owned
BY TakenSame DEF Owned

\* A step of one thread is a move of one caller of the pool.
LEMMA PhaseMoves ==
    ASSUME NEW t \in Callers, OthersSame(t)
    PROVE  Phases' = [Phases EXCEPT ![t] = Phase(pc'[t])]
BY Zenon DEF OthersSame, Phases

\* Every step of the allocator is a step of the pool, or one the pool does not see.  The
\* swap of allocate is Take, that of release is Give, the last failed look at a word Refuse.
LEMMA CallRefines ==
    ASSUME TypeOK, TypeOK', LocalsOK, OneOwnerPerPort, OneOwnerPerPort', NoneMeansExhausted',
           NEW t \in Callers, AllocateBegin(t) \/ ReleaseBegin(t) \/ Continue(t)
    PROVE  Pool!Step(t) \/ UNCHANGED Pool!vars
<1>0. Phases' = [Phases EXCEPT ![t] = Phase(pc'[t])] /\ Phases[t] = Phase(pc[t])
  BY CallFrame, PhaseMoves DEF Phases
<1>1. CASE AllocateBegin(t)
  <2>1. /\ Phase(pc[t]) = "idle" /\ Phase(pc'[t]) = "allocating" /\ UNCHANGED <<allocated, owners, idx>>
        /\ free' = [free EXCEPT ![t] = Indexes \ Taken]
    BY <1>1 DEF AllocateBegin, Phase, TypeOK
  <2>2. Pool!CallAllocate(t)
    BY <2>1, <1>0, PoolSame DEF Pool!CallAllocate, Pool!Moves, Phases, Owned
  <2>3. QED
    BY <2>2 DEF Pool!Step
<1>2. CASE TryRandom(t) \/ TryLowest(t)
  <2>1. /\ Phase(pc[t]) = "allocating" /\ Phase(pc'[t]) = "allocated" /\ UNCHANGED owners
        /\ idx'[t] \in Indexes \ Taken /\ Taken' = Taken \cup {idx'[t]}
        /\ free' = [u \in Callers |-> free[u] \ {idx'[t]}]
    BY <1>2, SetBitTakes DEF Phase, Scanning, TypeOK
  <2>2. idx' = [idx EXCEPT ![t] = idx'[t]]
    BY <1>2, ZenonT(30) DEF TryRandom, TryLowest, SetBit, TypeOK
  <2>3. Pool!Take(t)
    BY <2>1, <2>2, <1>0, PoolSame DEF Pool!Take, Pool!Moves, Phases, Owned
  <2>4. QED
    BY <2>3 DEF Pool!Step
<1>3. CASE CountUp(t)
  <2>1. /\ Phase(pc[t]) = "allocated" /\ Phase(pc'[t]) = "idle" /\ UNCHANGED <<allocated, idx, free>>
        /\ idx[t] \in Indexes /\ owners' = [owners EXCEPT ![idx[t]] = @ + 1]
    BY <1>3 DEF CountUp, Phase, TypeOK
  <2>2. Owned' = Owned \cup {idx[t]}
    <3>1. owners \in [Indexes -> Nat]
      BY DEF TypeOK
    <3>2. QED
      BY <2>1, <3>1 DEF Owned
  <2>3. Pool!ReturnPort(t)
    BY <2>1, <2>2, <1>0, PoolSame DEF Pool!ReturnPort, Pool!Moves, Phases, Owned
  <2>4. QED
    BY <2>3 DEF Pool!Step
<1>4. CASE ReleaseBegin(t)
  <2>1. PICK i \in Indexes : /\ owners[i] > 0 /\ owners' = [owners EXCEPT ![i] = @ - 1]
                             /\ idx' = [idx EXCEPT ![t] = i]
                             /\ ClearOrGiveUp(t, i, allocated[BitmapIndex(i)])
    BY <1>4, ZenonT(30) DEF ReleaseBegin
  <2>2. Phase(pc[t]) = "idle" /\ UNCHANGED <<allocated, free>>
    BY <1>4 DEF ReleaseBegin, Phase
  <2>3. Phase(pc'[t]) = "releasing"
    BY <2>1 DEF ClearOrGiveUp, OneOwnerPerPort, Phase, TypeOK
  <2>4. owners[i] = 1
    BY <2>1 DEF OneOwnerPerPort, TypeOK
  <2>5. i \in Owned /\ Owned' = Owned \ {i}
    <3>1. owners \in [Indexes -> Nat]
      BY DEF TypeOK
    <3>2. QED
      BY <2>1, <2>4, <3>1 DEF Owned
  <2>6. Pool!CallRelease(t)
    BY <2>1, <2>2, <2>3, <2>5, <1>0, PoolSame, ZenonT(30) DEF Pool!CallRelease, Pool!Moves, Phases, Owned
  <2>7. QED
    BY <2>6 DEF Pool!Step
<1>5. CASE Clear(t)
  <2>1. /\ Phase(pc[t]) = "releasing" /\ Phase(pc'[t]) = "released" /\ UNCHANGED <<owners, idx, free>>
        /\ Taken' = Taken \ {idx[t]}
    BY <1>5, ClearFrees, ZenonT(30) DEF Clear, Phase, TypeOK
  <2>2. Pool!Give(t)
    BY <2>1, <1>0, PoolSame DEF Pool!Give, Pool!Moves, Phases, Owned
  <2>3. QED
    BY <2>2 DEF Pool!Step
<1>6. CASE CountDown(t)
  <2>1. Phase(pc[t]) = "released" /\ Phase(pc'[t]) = "idle" /\ UNCHANGED <<allocated, owners, idx, free>>
    BY <1>6 DEF CountDown, Phase, TypeOK
  <2>2. Pool!ReturnReleased(t)
    BY <2>1, <1>0, PoolSame DEF Pool!ReturnReleased, Pool!Moves, Phases, Owned
  <2>3. QED
    BY <2>2 DEF Pool!Step
<1>7. CASE Load(t) \/ WordExhausted(t) \/ TryRandomFails(t) \/ TryLowestFails(t) \/ ClearFails(t)
  <2>1. UNCHANGED <<allocated, owners, idx, free>>
    BY <1>7, ZenonT(30) DEF Load, WordExhausted, TryRandomFails, TryLowestFails, SwapFails, ClearFails
  <2>2. \/ Phase(pc'[t]) = Phase(pc[t])
        \/ Phase(pc[t]) = "allocating" /\ Phase(pc'[t]) = "idle" /\ result'[t] = "exhausted"
    <3>1. CASE Load(t) \/ WordExhausted(t)
      BY <3>1 DEF Load, WordExhausted, NextWord, Phase, TypeOK
    <3>2. CASE TryRandomFails(t) \/ TryLowestFails(t)
      BY <3>2 DEF TryRandomFails, TryLowestFails, SwapFails, Phase, TypeOK
    <3>3. CASE ClearFails(t)
      BY <3>3, ZenonT(30) DEF ClearFails, ClearOrGiveUp, OneOwnerPerPort, Phase, TypeOK
    <3>4. QED
      BY <1>7, <3>1, <3>2, <3>3
  <2>3. CASE Phase(pc'[t]) = Phase(pc[t])
    <3>1. Phases' = Phases
      BY <2>3, <1>0, ZenonT(30) DEF Phases
    <3>2. QED
      BY <2>1, <3>1, PoolSame DEF Pool!vars, Phases, Owned
  <2>4. CASE Phase(pc[t]) = "allocating" /\ Phase(pc'[t]) = "idle" /\ result'[t] = "exhausted"
    <3>1. free[t] = {}
      BY <2>1, <2>4 DEF NoneMeansExhausted
    <3>2. Pool!Refuse(t)
      BY <2>1, <2>4, <3>1, <1>0, PoolSame DEF Pool!Refuse, Pool!Moves, Phases, Owned
    <3>3. QED
      BY <3>2 DEF Pool!Step
  <2>5. QED
    BY <2>2, <2>3, <2>4
<1>8. QED
  BY <1>1, <1>2, <1>3, <1>4, <1>5, <1>6, <1>7, ZenonT(30) DEF Continue, Swap

\* The lock-free bitmap is linearizable: to its callers, allocate and release are single
\* steps on a set of ports, for any number of threads, ports and bits per word.
THEOREM AllocatorImplementsPool == Spec => ImplementsPortPool
<1>1. Init => Pool!Init
  <2>1. SUFFICES ASSUME Init PROVE Pool!Init
    OBVIOUS
  <2>2. Taken = {}
    BY <2>1, PairOfIndex DEF Init, Taken, IsAllocated
  <2>3. Owned = {} /\ Phases = [u \in Callers |-> "idle"] /\ idx \in [Callers -> Indexes]
    BY <2>1, Sizes DEF Init, Owned, Phases, Phase, Indexes
  <2>4. QED
    BY <2>1, <2>2, <2>3 DEF Init, Pool!Init, Owned, Phases
<1>2. TypeOK /\ LocalsOK /\ OneOwnerPerPort /\ (TypeOK /\ OneOwnerPerPort /\ NoneMeansExhausted)' /\ [Next]_vars
        => [\E t \in Callers : Pool!Step(t)]_Pool!vars
  <2>1. SUFFICES ASSUME TypeOK, LocalsOK, OneOwnerPerPort, TypeOK', OneOwnerPerPort',
                        NoneMeansExhausted', [Next]_vars
                 PROVE  (\E t \in Callers : Pool!Step(t)) \/ UNCHANGED Pool!vars
    OBVIOUS
  <2>2. CASE Next
    BY <2>1, <2>2, CallRefines, ZenonT(30) DEF Next
  <2>3. CASE UNCHANGED vars
    <3>1. UNCHANGED <<allocated, owners, idx, free, pc>>
      BY <2>3 DEF vars
    <3>2. Phases' = Phases
      BY <3>1 DEF Phases, Phase
    <3>3. QED
      BY <3>1, <3>2, PoolSame DEF Pool!vars, Phases, Owned
  <2>4. QED
    BY <2>1, <2>2, <2>3
<1>3. QED
  BY <1>1, <1>2, AllocatorTypes, OnePortOneOwner, NoneOnlyIfExhausted, PTL
     DEF Spec, ImplementsPortPool, Pool!Spec
=============================================================================
